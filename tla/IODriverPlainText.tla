------------------------- MODULE IODriverPlainText -------------------------
(***************************************************************************)
(* The plain text I/O driver, class IODriverPlainText of                   *)
(* pwndbg/dbg_mod/lldb/repl/io.py: the debugger's thread, which calls      *)
(* start(), stop() and close() in the order the process driver allows, and *)
(* two worker threads that live as long as the driver does.                *)
(***************************************************************************)
EXTENDS Naturals

CONSTANT MaxUnread        \* bound: output the process has ready at once

ASSUME PlainTextAssumption == MaxUnread \in Nat \ {0}

Workers == {"in", "out"}

VARIABLES
    main,             \* where the debugger's thread is
    closing,          \* is it in close()?
    proc,             \* is self.process set?
    running,          \* self._running
    blocking,         \* are the standard streams in blocking mode?
    stopRequested, closed,        \* threading.Event
    start, fulfilled, likely,     \* semaphores' values
    wpc,              \* where each worker is
    unread            \* output of the process nobody has read yet

vars == <<main, closing, proc, running, blocking, stopRequested, closed, start,
          fulfilled, likely, wpc, unread>>
mainVars == <<main, closing, proc, running, blocking, stopRequested, closed>>

FlagsOK ==
    /\ closing \in BOOLEAN /\ proc \in BOOLEAN /\ running \in BOOLEAN
    /\ blocking \in BOOLEAN /\ stopRequested \in BOOLEAN /\ closed \in BOOLEAN

RangesOK ==
    /\ main \in {"idle", "starting", "acquire1", "acquire2", "restore", "join", "end"}
    /\ start \in 0..2 /\ fulfilled \in 0..2 /\ likely \in 0..1
    /\ wpc \in [Workers -> {"idle", "check", "wait", "copy", "fulfil", "done", "dead"}]
    /\ unread \in 0..MaxUnread

TypeOK == FlagsOK /\ RangesOK

\* __init__ takes every permit before it starts the threads; only
\* likely_output keeps its own.
Init ==
    /\ main = "idle" /\ closing = FALSE /\ proc = FALSE /\ running = FALSE
    /\ blocking = TRUE /\ stopRequested = FALSE /\ closed = FALSE
    /\ start = 0 /\ fulfilled = 0 /\ likely = 1
    /\ wpc = [w \in Workers |-> "idle"]
    /\ unread = 0

(***************************************************************************)
(* start, stop, close                                                      *)
(***************************************************************************)
StartCall ==
    /\ main = "idle" /\ ~proc /\ ~closing
    /\ main' = "starting"
    /\ proc' = TRUE /\ stopRequested' = FALSE /\ blocking' = FALSE
    /\ UNCHANGED <<closing, running, closed, start, fulfilled, likely, wpc, unread>>

\* Variant: one permit for two workers.
StartReleaseOnce ==
    /\ main = "starting"
    /\ main' = "idle"
    /\ start' = start + 1 /\ running' = TRUE
    /\ UNCHANGED <<closing, proc, blocking, stopRequested, closed, fulfilled, likely,
                   wpc, unread>>

StartRelease ==
    /\ main = "starting"
    /\ main' = "idle"
    /\ start' = start + 2 /\ running' = TRUE
    /\ UNCHANGED <<closing, proc, blocking, stopRequested, closed, fulfilled, likely,
                   wpc, unread>>

StopCall ==
    /\ main = "idle" /\ running
    /\ main' = "acquire1"
    /\ stopRequested' = TRUE
    /\ UNCHANGED <<closing, proc, running, blocking, closed, start, fulfilled, likely,
                   wpc, unread>>

StopAcquire ==
    /\ main \in {"acquire1", "acquire2"}
    /\ fulfilled > 0
    /\ fulfilled' = fulfilled - 1
    /\ main' = IF main = "acquire1" THEN "acquire2" ELSE "restore"
    /\ UNCHANGED <<closing, proc, running, blocking, stopRequested, closed, start,
                   likely, wpc, unread>>

StopRestore ==
    /\ main = "restore"
    /\ main' = "idle"
    /\ blocking' = TRUE /\ proc' = FALSE /\ running' = FALSE
    /\ UNCHANGED <<closing, stopRequested, closed, start, fulfilled, likely, wpc, unread>>

\* close() first stops, if need be, then lets the threads end and joins them.
CloseCall ==
    /\ main = "idle" /\ ~closing
    /\ closing' = TRUE
    /\ IF running THEN main' = "acquire1" /\ stopRequested' = TRUE
                  ELSE UNCHANGED <<main, stopRequested>>
    /\ UNCHANGED <<proc, running, blocking, closed, start, fulfilled, likely, wpc, unread>>

CloseSet ==
    /\ main = "idle" /\ closing /\ ~running
    /\ closed' = TRUE
    /\ main' = "join"
    /\ UNCHANGED <<closing, proc, running, blocking, stopRequested, start, fulfilled,
                   likely, wpc, unread>>

CloseJoin ==
    /\ main = "join"
    /\ \A w \in Workers : wpc[w] \in {"done", "dead"}
    /\ main' = "end"
    /\ UNCHANGED <<closing, proc, running, blocking, stopRequested, closed, start,
                   fulfilled, likely, wpc, unread>>

\* on_output_event: the event loop saw output; the permit may be there already.
OnOutputEvent ==
    /\ main = "idle" /\ running
    /\ likely = 0 /\ likely' = 1
    /\ UNCHANGED <<mainVars, start, fulfilled, wpc, unread>>

(***************************************************************************)
(* The workers: _handle_input and _handle_output.                          *)
(***************************************************************************)
Move(w, from, to) == wpc[w] = from /\ wpc' = [wpc EXCEPT ![w] = to]

WorkerEnds(w) ==
    /\ closed
    /\ Move(w, "idle", "done")
    /\ UNCHANGED <<mainVars, start, fulfilled, likely, unread>>

\* Variant: the request to stop is looked at after the first pass.
WorkerStartsCopying(w) ==
    /\ start > 0
    /\ Move(w, "idle", "copy")
    /\ start' = start - 1
    /\ UNCHANGED <<mainVars, fulfilled, likely, unread>>

WorkerStarts(w) ==
    /\ start > 0
    /\ Move(w, "idle", "check")
    /\ start' = start - 1
    /\ UNCHANGED <<mainVars, fulfilled, likely, unread>>

\* Variant: the input worker does not look at the request.
WorkerChecksOutput(w) ==
    /\ Move(w, "check", IF stopRequested /\ w = "out" THEN "fulfil"
                        ELSE IF w = "in" THEN "copy" ELSE "wait")
    /\ UNCHANGED <<mainVars, start, fulfilled, likely, unread>>

WorkerChecks(w) ==
    /\ Move(w, "check", IF stopRequested THEN "fulfil"
                        ELSE IF w = "in" THEN "copy" ELSE "wait")
    /\ UNCHANGED <<mainVars, start, fulfilled, likely, unread>>

\* Variant: the output worker waits for the hint.
OutputWaitsForHint ==
    /\ Move("out", "wait", "copy")
    /\ likely = 1 /\ likely' = 0
    /\ UNCHANGED <<mainVars, start, fulfilled, unread>>

\* The output worker waits for the hint, but not for long.
OutputWaits ==
    /\ Move("out", "wait", "copy")
    /\ likely' \in {0, likely}
    /\ UNCHANGED <<mainVars, start, fulfilled, unread>>

\* One pass of the input worker, or of the output worker with nothing left.
PassEnds(w) ==
    /\ w = "out" => unread = 0
    /\ Move(w, "copy", "check")
    /\ UNCHANGED <<mainVars, start, fulfilled, likely, unread>>

OutputCopies ==
    /\ wpc["out"] = "copy" /\ unread > 0
    /\ unread' = unread - 1
    /\ UNCHANGED <<mainVars, start, fulfilled, likely, wpc>>

WorkerFulfils(w) ==
    /\ Move(w, "fulfil", "idle")
    /\ fulfilled' = fulfilled + 1
    /\ UNCHANGED <<mainVars, start, likely, unread>>

\* read() or encode() raises something else than what the loop expects.
WorkerDies(w) ==
    /\ Move(w, "copy", "dead")
    /\ UNCHANGED <<mainVars, start, fulfilled, likely, unread>>

\* The process runs only while its I/O is handled, and writes.
ProcessWrites ==
    /\ main = "idle" /\ running /\ unread < MaxUnread
    /\ unread' = unread + 1
    /\ UNCHANGED <<mainVars, start, fulfilled, likely, wpc>>

Main == StartRelease \/ StopAcquire \/ StopRestore \/ CloseSet \/ CloseJoin

Worker(w) ==
    \/ WorkerEnds(w) \/ WorkerStarts(w) \/ WorkerChecks(w) \/ PassEnds(w)
    \/ WorkerFulfils(w) \/ WorkerDies(w)
    \/ w = "out" /\ (OutputWaits \/ OutputCopies)

Next ==
    \/ Main \/ StartCall \/ StopCall \/ CloseCall \/ OnOutputEvent \/ ProcessWrites
    \/ \E w \in Workers : Worker(w)

Spec == Init /\ [][Next]_vars

\* Every thread goes on when it can; nobody has to start or stop the I/O.
FairSpec == Spec /\ WF_vars(Main) /\ \A w \in Workers : WF_vars(Worker(w))

(***************************************************************************)
(* Properties                                                              *)
(***************************************************************************)
Busy(w) == IF wpc[w] \in {"check", "wait", "copy", "fulfil", "dead"} THEN 1 ELSE 0
Taken == IF main = "acquire2" THEN 1 ELSE IF main = "restore" THEN 2 ELSE 0

\* In each session, from start() to stop(), every permit that start() released
\* is in exactly one place: still to be taken, held by a worker (a dead one keeps
\* it), given back, or collected by stop().  No semaphore is ever released beyond
\* its bound, and nothing is left over for the next session.
Conservation ==
    start + Busy("in") + Busy("out") + fulfilled + Taken = IF running THEN 2 ELSE 0

\* A worker uses self.process and the nonblocking streams only while start()
\* has set them up and stop() has not taken them down.
CopyingIsSetUp ==
    \A w \in Workers : wpc[w] \in {"wait", "copy"} => proc /\ ~blocking

phase ==
    CASE closed -> "closed"
      [] main \in {"acquire1", "acquire2", "restore"} -> "stopping"
      [] OTHER -> IF running THEN "running" ELSE "stopped"

Abstract == INSTANCE IODriver WITH
    active <- {w \in Workers : wpc[w] \in {"wait", "copy"}}

\* The driver does what IODriver promises.
ImplementsIODriver == Abstract!Spec

Died(w) == wpc[w] = "dead"

\* stop() and close() return, unless a worker died in the session.
StopReturns ==
    (main = "acquire1" \/ closing) ~>
        ((main = "idle" /\ ~closing) \/ main = "end" \/ \E w \in Workers : Died(w))

\* While the process runs, what it writes is shown without anybody's help,
\* unless the output worker died.
OutputFlows ==
    unread = MaxUnread ~> (unread < MaxUnread \/ stopRequested \/ Died("out"))
=============================================================================
