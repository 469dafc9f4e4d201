----------------------- MODULE IODriverPseudoTerminal -----------------------
(***************************************************************************)
(* The pseudo-terminal I/O driver, class IODriverPseudoTerminal of         *)
(* pwndbg/dbg_mod/lldb/repl/io.py.  It has one thread, which lives from    *)
(* start() to stop(), takes the user's terminal out of line buffering and  *)
(* echo meanwhile, and keeps input the process has not taken for later.    *)
(***************************************************************************)
EXTENDS Naturals

CONSTANT MaxData          \* bound: bytes on their way in each direction

ASSUME PseudoTerminalAssumption == MaxData \in Nat \ {0}

Modes == {"cooked", "raw"}

VARIABLES
    main,             \* where the debugger's thread is
    proc,             \* is self.process set?
    stopRequested,    \* threading.Event
    wpc,              \* where io_thread is
    term,             \* line buffering and echo of the user's terminal
    was,              \* self.was_line_buffering, self.was_echoing
    typed,            \* bytes waiting on standard input
    buffer,           \* len(self.input_buffer)
    unread,           \* bytes waiting in the manager end of the terminal
    users             \* history: the mode the user had chosen

vars == <<main, proc, stopRequested, wpc, term, was, typed, buffer, unread, users>>

FlagsOK == proc \in BOOLEAN /\ stopRequested \in BOOLEAN

RangesOK ==
    /\ main \in {"idle", "join", "end"}
    /\ wpc \in {"none", "check", "input", "write", "output", "done"}
    /\ term \in Modes /\ was \in Modes /\ users \in Modes
    /\ typed \in 0..MaxData /\ buffer \in 0..MaxData /\ unread \in 0..MaxData

TypeOK == FlagsOK /\ RangesOK

Init ==
    /\ main = "idle" /\ proc = FALSE /\ stopRequested = FALSE /\ wpc = "none"
    /\ users \in Modes /\ term = users /\ was = "cooked"
    /\ typed = 0 /\ buffer = 0 /\ unread = 0

\* Variant: the mode is saved after it was changed.
StartSavesLate ==
    /\ main = "idle" /\ ~proc
    /\ proc' = TRUE /\ stopRequested' = FALSE
    /\ was' = "raw" /\ term' = "raw"
    /\ wpc' = "check"
    /\ UNCHANGED <<main, typed, buffer, unread, users>>

\* start() is never called while there is a process.
Start ==
    /\ main = "idle" /\ ~proc
    /\ proc' = TRUE /\ stopRequested' = FALSE
    /\ was' = term /\ term' = "raw"
    /\ wpc' = "check"
    /\ UNCHANGED <<main, typed, buffer, unread, users>>

StopCall ==
    /\ main = "idle" /\ proc
    /\ stopRequested' = TRUE
    /\ main' = "join"
    /\ UNCHANGED <<proc, wpc, term, was, typed, buffer, unread, users>>

\* Variant: stop() does not wait for the thread.
StopWithoutJoin ==
    /\ main = "join"
    /\ main' = "idle"
    /\ proc' = FALSE /\ term' = was
    /\ UNCHANGED <<stopRequested, wpc, was, typed, buffer, unread, users>>

StopJoin ==
    /\ main = "join" /\ wpc = "done"
    /\ main' = "idle" /\ wpc' = "none"
    /\ proc' = FALSE /\ term' = was
    /\ UNCHANGED <<stopRequested, was, typed, buffer, unread, users>>

\* close() does nothing; the process driver has stopped I/O before.
Close ==
    /\ main = "idle" /\ ~proc
    /\ main' = "end"
    /\ UNCHANGED <<proc, stopRequested, wpc, term, was, typed, buffer, unread, users>>

(***************************************************************************)
(* _handle_io: the three inner loops of a pass, in order.                  *)
(***************************************************************************)
\* Variant: the thread does not look at the request.
ThreadChecksNothing ==
    /\ wpc = "check"
    /\ wpc' = "input"
    /\ UNCHANGED <<main, proc, stopRequested, term, was, typed, buffer, unread, users>>

ThreadChecks ==
    /\ wpc = "check"
    /\ wpc' = IF stopRequested THEN "done" ELSE "input"
    /\ UNCHANGED <<main, proc, stopRequested, term, was, typed, buffer, unread, users>>

\* All of standard input goes to the buffer.
ReadInput ==
    /\ wpc = "input"
    /\ IF typed > 0 /\ buffer < MaxData
       THEN typed' = typed - 1 /\ buffer' = buffer + 1 /\ UNCHANGED wpc
       ELSE wpc' = "write" /\ UNCHANGED <<typed, buffer>>
    /\ UNCHANGED <<main, proc, stopRequested, term, was, unread, users>>

\* The terminal may take any part of the buffer, or refuse it.
WriteInput ==
    /\ wpc = "write"
    /\ buffer' \in 0..buffer
    /\ wpc' = "output"
    /\ UNCHANGED <<main, proc, stopRequested, term, was, typed, unread, users>>

\* Variant: no output is copied.
CopyNoOutput ==
    /\ wpc = "output"
    /\ wpc' = "check"
    /\ UNCHANGED <<main, proc, stopRequested, term, was, typed, buffer, unread, users>>

CopyOutput ==
    /\ wpc = "output"
    /\ IF unread > 0 THEN unread' = unread - 1 /\ UNCHANGED wpc
                     ELSE wpc' = "check" /\ UNCHANGED unread
    /\ UNCHANGED <<main, proc, stopRequested, term, was, typed, buffer, users>>

Thread == ThreadChecks \/ ReadInput \/ WriteInput \/ CopyOutput

\* The user types, and the process, which runs between start and stop, writes.
UserTypes ==
    /\ main = "idle" /\ typed < MaxData
    /\ typed' = typed + 1
    /\ UNCHANGED <<main, proc, stopRequested, wpc, term, was, buffer, unread, users>>

ProcessWrites ==
    /\ main = "idle" /\ proc /\ unread < MaxData
    /\ unread' = unread + 1
    /\ UNCHANGED <<main, proc, stopRequested, wpc, term, was, typed, buffer, users>>

Next == Start \/ StopCall \/ StopJoin \/ Close \/ Thread \/ UserTypes \/ ProcessWrites

Spec == Init /\ [][Next]_vars

\* The thread is scheduled, and stop() sees it end.
FairSpec == Spec /\ WF_vars(Thread) /\ WF_vars(StopJoin)

(***************************************************************************)
(* Properties                                                              *)
(***************************************************************************)
\* Under the prompt the terminal is in the mode the user had chosen, after any
\* number of sessions: what start() saves is never what another start() set.
TerminalIsRestored == main # "join" /\ ~proc => term = users

phase ==
    CASE main = "end"  -> "closed"
      [] main = "join" -> "stopping"
      [] OTHER         -> IF proc THEN "running" ELSE "stopped"

Abstract == INSTANCE IODriver WITH
    Workers <- {"io"},
    active <- IF wpc \in {"input", "write", "output"} THEN {"io"} ELSE {}

\* The driver does what IODriver promises.
ImplementsIODriver == Abstract!Spec

\* stop() returns.
StopReturns == main = "join" ~> main = "idle"

\* While the process runs, what it writes is shown without anybody's help.
OutputFlows == unread = MaxData ~> (unread < MaxData \/ stopRequested)
=============================================================================
