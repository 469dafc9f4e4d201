--------------------------- MODULE ProcessDriver ---------------------------
(***************************************************************************)
(* The LLDB process driver, pwndbg/dbg_mod/lldb/repl/proc.py.              *)
(*                                                                         *)
(* One thread runs the driver.  `pc' is where it is, `op' the method the   *)
(* REPL called, `exc' the Python exception in flight.  Between any two     *)
(* steps LLDB may post events (LldbProcess) and the user may press Ctrl-C, *)
(* whose handler runs on the same thread, where it stands (interrupt).     *)
(***************************************************************************)
EXTENDS LldbProcess, SequencesExt

CONSTANTS
    MaxSigInts,           \* bound: how often the user presses Ctrl-C
    HandlersMayRaise      \* whether a pwndbg event handler may raise

ASSUME DriverAssumption == MaxSigInts \in Nat /\ HandlersMayRaise \in BOOLEAN

VARIABLES
    process, listener,    \* are self.process and self.listener set?
    io,                   \* is self.io set?
    isCore,               \* self._is_core_file
    hold, pending,        \* self._hold_cancellation, self._pending_cancellation
    inRun, inCo,          \* self._in_run_until_next_stop, self._in_run_coroutine
    ioState,              \* self._io_driver_state
    pc, op, exc,          \* control
    ret,                  \* what the last method returned
    running, result, last,\* locals of _run_until_next_stop
    excs,                 \* `exceptions' of _run_coroutine
    frozen,               \* threads suspended by an ExecutionController.cont()
    view,                 \* the last event the EventHandler was given
    sigints,              \* history: Ctrl-C presses so far,
    leaks,                \* history: those that left _in_run_coroutine raised,
    heard                 \* history: was one sent to a process that heeds it?

object == <<process, listener, io, isCore>>
scopes == <<hold, pending, inRun, inCo>>
loop   == <<running, result, last>>
corout == <<excs, frozen>>
history == <<sigints, leaks, heard>>
vars   == <<lldbVars, object, scopes, ioState, pc, op, exc, ret, loop, corout,
            view, history>>

Methods == {"cont", "kill", "command", "coroutine", "launch", "attach", "connect",
            "core"}
Ops == Methods \cup {"poll", "step", "resume"}
Labels == {"idle", "call", "cont_go", "kill_send", "kill_loop", "command",
           "run_enter", "run_wait", "run_handler", "run_finally", "run_leave",
           "created", "core_created", "suspend_exit",
           "co_count", "co_resume", "co_yielded", "co_exit"}
Exceptions == {"none", "Cancelled", "Error", "Assertion"}

FlagsOK ==
    /\ process \in BOOLEAN /\ listener \in BOOLEAN /\ io \in BOOLEAN
    /\ isCore \in BOOLEAN /\ pending \in BOOLEAN /\ running \in BOOLEAN
    /\ frozen \in BOOLEAN /\ asyncInt \in BOOLEAN /\ heard \in BOOLEAN

ExceptionsOK == excs \in Seq({"Cancelled", "Error"})

LocalsOK ==
    /\ hold \in Nat /\ inRun \in Nat /\ inCo \in Nat
    /\ ioState \in {"STOPPED", "RUNNING", "PAUSED"}
    /\ pc \in Labels /\ op \in Ops \cup {"none"} /\ exc \in Exceptions
    /\ ret \in {"none", "ok", "error", "success", "early_exit", "connected",
                "true", "false"}
    /\ result \in {"none", "stopped", "exited", "timed_out"}
    /\ last \in EventKinds \cup {"none"}
    /\ view \in {"none", "created", "suspended", "resumed"}
    /\ sigints \in 0..MaxSigInts /\ leaks \in Nat

TypeOK == FlagsOK /\ LldbRangesOK /\ ExceptionsOK /\ LocalsOK

Init ==
    /\ LldbInit
    /\ process = FALSE /\ listener = FALSE /\ io = FALSE /\ isCore = FALSE
    /\ hold = 0 /\ pending = FALSE /\ inRun = 0 /\ inCo = 0
    /\ ioState = "STOPPED"
    /\ pc = "idle" /\ op = "none" /\ exc = "none" /\ ret = "none"
    /\ running = FALSE /\ result = "none" /\ last = "none"
    /\ excs = << >> /\ frozen = FALSE
    /\ view = "none" /\ sigints = 0 /\ leaks = 0 /\ heard = FALSE

HasProcess    == process /\ inferior # "connected"
HasConnection == process

(***************************************************************************)
(* Control.                                                                *)
(***************************************************************************)
Goto(l) == pc' = l /\ UNCHANGED <<op, exc, ret>>

\* An exception leaves for the handler (finally, with, caller) at label l.
Raise(e, l) == exc' = e /\ pc' = l /\ UNCHANGED <<op, ret>>

\* The method returns r to the REPL, or lets the exception through.
Return(r) == pc' = "idle" /\ ret' = r /\ UNCHANGED <<op, exc>>

\* An event handler returned normally to label l, or raised: then
\* _trigger_event raises the exception again, to the handler at label h.
Callback(v, l, h) ==
    /\ view' = v
    /\ \/ Goto(l)
       \/ HandlersMayRaise /\ Raise("Error", h)

(***************************************************************************)
(* The REPL calls a method of the driver.  The main loop survives a        *)
(* cancellation, and any exception that comes out of a coroutine;          *)
(* everything else ends it (repl/__init__.py 440, 774-780).                *)
(***************************************************************************)
ReplLives == exc \in {"none", "Cancelled"} \/ op \in {"coroutine", "step", "resume"}

Call(o) ==
    /\ pc = "idle" /\ ReplLives
    /\ pc' = "call" /\ op' = o /\ exc' = "none" /\ ret' = "none"
    /\ running' = FALSE /\ result' = "none" /\ last' = "none" /\ excs' = << >>
    /\ UNCHANGED <<lldbVars, object, scopes, ioState, frozen, view, history>>

(***************************************************************************)
(* cont                                                                    *)
(***************************************************************************)
ContCall ==
    /\ pc = "call" /\ op = "cont"
    /\ IF isCore \/ ~HasProcess
       THEN Raise("Assertion", "idle") /\ UNCHANGED view
       ELSE Callback("resumed", "cont_go", "idle")
    /\ UNCHANGED <<lldbVars, object, scopes, ioState, loop, corout, history>>

ContGo ==
    /\ pc = "cont_go"
    /\ Resume
    /\ Goto("run_enter")
    /\ UNCHANGED <<object, scopes, ioState, loop, corout, view, history>>

(***************************************************************************)
(* kill                                                                    *)
(***************************************************************************)
KillCall ==
    /\ pc = "call" /\ op = "kill"
    /\ IF HasProcess
       THEN hold' = hold + 1 /\ Goto("kill_send")
       ELSE Raise("Assertion", "idle") /\ UNCHANGED hold
    /\ UNCHANGED <<lldbVars, object, pending, inRun, inCo, ioState, loop, corout,
                   view, history>>

KillFails ==
    /\ pc = "kill_send"
    /\ pc' = "suspend_exit" /\ ret' = "error" /\ UNCHANGED <<op, exc>>
    /\ UNCHANGED <<lldbVars, object, scopes, ioState, loop, corout, view, history>>

KillSucceeds ==
    /\ pc = "kill_send"
    /\ IF isCore
       THEN inferior' = "exited" /\ UNCHANGED <<events, asyncInt>>
       ELSE Terminate
    /\ Goto("kill_loop")
    /\ UNCHANGED <<object, scopes, ioState, loop, corout, view, history>>

KillLoop ==
    /\ pc = "kill_loop"
    /\ IF HasProcess
       THEN Goto("run_enter")
       ELSE pc' = "suspend_exit" /\ ret' = "ok" /\ UNCHANGED <<op, exc>>
    /\ UNCHANGED <<lldbVars, object, scopes, ioState, loop, corout, view, history>>

(***************************************************************************)
(* run_lldb_command.  Once LLDB has run the command, its status says       *)
(* whether it resumed the process; `poll' is the run loop entered with     *)
(* first_timeout=0 and only_if_started=True.                               *)
(***************************************************************************)
CommandCall ==
    /\ pc = "call" /\ op = "command"
    /\ IF HasProcess
       THEN hold' = hold + 1 /\ Goto("command")
       ELSE Raise("Assertion", "idle") /\ UNCHANGED hold
    /\ UNCHANGED <<lldbVars, object, pending, inRun, inCo, ioState, loop, corout,
                   view, history>>

\* A command that does not change the state of the process, or detaches it or
\* kills it: LLDB may have posted events, which are polled.
CommandFinishes ==
    /\ pc = "command" /\ ~isCore
    /\ (UNCHANGED lldbVars \/ Terminate)
    /\ op' = "poll" /\ pc' = "run_enter" /\ UNCHANGED <<exc, ret>>
    /\ UNCHANGED <<object, scopes, ioState, loop, corout, view, history>>

\* Its return object is not valid: nothing is read from it, and nothing polled.
CommandUnanswered ==
    /\ pc = "command"
    /\ Goto("suspend_exit")
    /\ UNCHANGED <<lldbVars, object, scopes, ioState, loop, corout, view, history>>

\* A command that resumes the process.
CommandResumes ==
    /\ pc = "command" /\ ~isCore /\ inferior = "stopped"
    /\ Resume
    /\ Goto("run_enter")
    /\ UNCHANGED <<object, scopes, ioState, loop, corout, view, history>>

\* A core file posts no events: its end is seen in its state.
CommandOnCore ==
    /\ pc = "command" /\ isCore
    /\ \/ /\ UNCHANGED <<lldbVars, object, view>>
          /\ Goto("suspend_exit")
       \/ /\ Discard
          /\ process' = FALSE /\ isCore' = FALSE /\ UNCHANGED <<listener, io>>
          /\ Callback("none", "suspend_exit", "suspend_exit")
    /\ UNCHANGED <<scopes, ioState, loop, corout, history>>

(***************************************************************************)
(* _suspend_interrupts: the end of the with statement.  A cancellation     *)
(* that came while they were suspended is raised, or given to a coroutine. *)
(***************************************************************************)
InCoroutine == op \in {"step", "resume"}      \* interrupt=queue_cancel

SuspendExit ==
    /\ pc = "suspend_exit"
    /\ hold' = hold - 1
    /\ LET fires == hold = 1 /\ pending IN
       /\ pending' = (pending /\ ~fires)
       /\ excs' = IF fires /\ InCoroutine THEN Append(excs, "Cancelled") ELSE excs
       /\ exc' = IF fires /\ ~InCoroutine THEN "Cancelled" ELSE exc
       /\ IF InCoroutine
          THEN /\ pc' = IF exc = "none" THEN "co_resume" ELSE "co_exit"
               /\ UNCHANGED <<op, ret>>
          ELSE /\ pc' = "idle" /\ UNCHANGED op
               /\ ret' = IF ret = "none" THEN "ok" ELSE ret
    /\ UNCHANGED <<lldbVars, object, inRun, inCo, ioState, loop, frozen,
                   view, history>>

(***************************************************************************)
(* launch and attach: _enter, with _launch_local, _launch_remote,          *)
(* _attach_local and _attach_remote.  A driver with a connection takes the *)
(* remote variant, which uses the connection's listener.                   *)
(***************************************************************************)
Drop ==                    \* self.process = None, self.listener = None
    /\ process' = FALSE /\ listener' = FALSE
    /\ Discard

EnterAsserts ==
    /\ pc = "call" /\ op \in {"launch", "attach"}
    /\ HasProcess \/ io
    /\ listener' = (listener \/ ~HasConnection)
    /\ Raise("Assertion", "idle")
    /\ UNCHANGED <<lldbVars, process, io, isCore, scopes, ioState, loop, corout, view,
                   history>>

EnterSucceeds ==
    /\ pc = "call" /\ op \in {"launch", "attach"}
    /\ ~HasProcess /\ ~io
    /\ Start
    /\ process' = TRUE /\ listener' = TRUE /\ io' = TRUE
    /\ Goto("run_enter")
    /\ UNCHANGED <<isCore, scopes, ioState, loop, corout, view, history>>

\* LLDB could not launch or attach.
EnterFails ==
    /\ pc = "call" /\ op \in {"launch", "attach"}
    /\ ~HasProcess /\ ~io
    /\ Drop
    /\ io' = TRUE
    /\ Return("error")
    /\ UNCHANGED <<isCore, scopes, ioState, loop, corout, view, history>>

\* _attach_remote was given no pid, and returns before it looks at self.io.
AttachRemoteNoPid ==
    /\ pc = "call" /\ op = "attach"
    /\ HasConnection /\ ~HasProcess
    /\ Drop
    /\ Return("error")
    /\ UNCHANGED <<io, isCore, scopes, ioState, loop, corout, view, history>>

\* The tail of _enter and of connect, once the process has stopped.
Created ==
    /\ pc = "created"
    /\ view' = "created"
    /\ \/ Return("success")
       \/ HandlersMayRaise /\ Raise("Error", "idle")
    /\ UNCHANGED <<lldbVars, object, scopes, ioState, loop, corout, history>>

(***************************************************************************)
(* connect                                                                 *)
(***************************************************************************)
ConnectFails ==
    /\ pc = "call" /\ op = "connect"
    /\ IF HasConnection
       THEN Raise("Assertion", "idle") /\ UNCHANGED <<lldbVars, process, listener>>
       ELSE Drop /\ Return("error")
    /\ UNCHANGED <<io, isCore, scopes, ioState, loop, corout, view, history>>

ConnectSucceeds ==
    /\ pc = "call" /\ op = "connect"
    /\ ~HasConnection
    /\ Connect
    /\ process' = TRUE /\ listener' = TRUE /\ io' = TRUE
    /\ IF io THEN Raise("Assertion", "idle") ELSE Goto("run_enter")
    /\ UNCHANGED <<isCore, scopes, ioState, loop, corout, view, history>>

(***************************************************************************)
(* launch_core_file                                                        *)
(***************************************************************************)
CoreFails ==
    /\ pc = "call" /\ op = "core"
    /\ process' = FALSE
    /\ Discard
    /\ Return("error")
    /\ UNCHANGED <<listener, io, isCore, scopes, ioState, loop, corout, view, history>>

CoreLoads ==
    /\ pc = "call" /\ op = "core"
    /\ inferior' = "stopped" /\ events' = << >> /\ asyncInt' = FALSE
    /\ process' = TRUE /\ isCore' = TRUE
    /\ Callback("created", "core_created", "idle")
    /\ UNCHANGED <<listener, io, scopes, ioState, loop, corout, history>>

CoreSuspended ==
    /\ pc = "core_created"
    /\ view' = "suspended"
    /\ \/ Return("success")
       \/ HandlersMayRaise /\ Raise("Error", "idle")
    /\ UNCHANGED <<lldbVars, object, scopes, ioState, loop, corout, history>>

(***************************************************************************)
(* _run_until_next_stop                                                    *)
(***************************************************************************)
WithIo        == op # "connect"
OnlyIfStarted == op \in {"poll", "connect"}
FireEventsAlways == TRUE   \* variant: events are fired for launch and attach too
FireEvents    == op \notin {"launch", "attach", "connect"}

RunEnter ==
    /\ pc = "run_enter"
    /\ inRun' = inRun + 1
    /\ running' = ~OnlyIfStarted /\ result' = "none" /\ last' = "none"
    /\ IF isCore
       THEN Raise("Assertion", "run_leave") /\ UNCHANGED ioState
       ELSE /\ ioState' = IF WithIo /\ ~OnlyIfStarted THEN "RUNNING" ELSE ioState
            /\ IF WithIo /\ ~OnlyIfStarted /\ ioState # "STOPPED"
               THEN Raise("Assertion", "run_finally")
               ELSE Goto("run_wait")
    /\ UNCHANGED <<lldbVars, object, hold, pending, inCo, corout, view, history>>

\* WaitForEvent gave e.
Receive(e) ==
    /\ pc = "run_wait"
    /\ events # << >> /\ Head(events) = e
    /\ last' = e

Finish(r) == result' = r /\ pc' = "run_finally" /\ UNCHANGED <<op, exc, ret>>

\* The body of the loop for a stop that did not resume by itself.
Suspended ==
    /\ running' = running
    /\ IF FireEvents
       THEN /\ view' = "suspended"
            /\ \/ Finish("stopped")
               \/ HandlersMayRaise /\ Raise("Error", "run_finally") /\ UNCHANGED result
       ELSE Finish("stopped") /\ UNCHANGED view

\* Variant: a timeout ends the loop though the process runs.
WaitTimesOutRunning ==
    /\ pc = "run_wait"
    /\ events = << >>
    /\ Finish("timed_out")
    /\ UNCHANGED <<lldbVars, object, scopes, ioState, running, last, corout, view, history>>

\* Nothing came in time.
WaitTimesOut ==
    /\ pc = "run_wait"
    /\ events = << >> /\ ~running
    /\ Finish("timed_out")
    /\ UNCHANGED <<lldbVars, object, scopes, ioState, running, last, corout, view, history>>

\* Events that change nothing here: output is handed to the I/O driver, and
\* only a handler of the new modules event may raise.
OtherEvent ==
    /\ \E e \in {"output", "connected", "modules"} :
          /\ Receive(e)
          /\ \/ Goto("run_wait")
             \/ /\ HandlersMayRaise /\ FireEvents /\ e = "modules"
                /\ Raise("Error", "run_finally")
    /\ events' = Tail(events)
    /\ UNCHANGED <<inferior, asyncInt, object, scopes, ioState, running, result,
                   corout, view, history>>

RunningEvent ==
    /\ Receive("running")
    /\ events' = Tail(events)
    /\ running' = TRUE
    /\ IF OnlyIfStarted /\ WithIo
       THEN /\ ioState' = "RUNNING"
            /\ IF ioState = "STOPPED" THEN Goto("run_wait")
                                      ELSE Raise("Assertion", "run_finally")
       ELSE Goto("run_wait") /\ UNCHANGED ioState
    /\ UNCHANGED <<inferior, asyncInt, object, scopes, result, corout, view, history>>

\* Variant: a stop that pwndbg is told of does not end the loop.
StoppedEventGoesOn ==
    /\ Receive("stopped")
    /\ events' = Tail(events)
    /\ IF FireEvents
       THEN view' = "suspended" /\ Goto("run_wait") /\ UNCHANGED <<running, result>>
       ELSE Suspended
    /\ UNCHANGED <<inferior, asyncInt, object, scopes, ioState, corout, history>>

StoppedEvent ==
    /\ Receive("stopped")
    /\ events' = Tail(events)
    /\ Suspended
    /\ UNCHANGED <<inferior, asyncInt, object, scopes, ioState, corout, history>>

\* Variant: the reference to the process outlives the process.
ExitedEventKeepsProcess ==
    /\ Receive("exited")
    /\ events' = Tail(events)
    /\ Finish("exited")
    /\ UNCHANGED <<inferior, asyncInt, object, scopes, ioState, running, corout, view,
                   history>>

ExitedEvent ==
    /\ Receive("exited")
    /\ Drop
    /\ IF FireEvents
       THEN /\ view' = "none"
            /\ \/ Finish("exited")
               \/ HandlersMayRaise /\ Raise("Error", "run_finally") /\ UNCHANGED result
       ELSE Finish("exited") /\ UNCHANGED view
    /\ UNCHANGED <<io, isCore, scopes, ioState, running, corout, history>>

\* LLDB runs a stop handler while the driver waits: the Python state changes,
\* and handle_lldb_python_state_change pauses the I/O driver.
HandlerStarts ==
    /\ Receive("handled")
    /\ ioState' = IF ioState = "RUNNING" THEN "PAUSED" ELSE ioState
    /\ Goto("run_handler")
    /\ UNCHANGED <<lldbVars, object, scopes, running, result, corout, view, history>>

\* The handler is done, the I/O driver resumes; either the process stays
\* stopped and the driver sees a stop, or it goes on and the event says so.
HandlerEnds ==
    /\ pc = "run_handler"
    /\ ioState' = IF ioState = "PAUSED" THEN "RUNNING" ELSE ioState
    /\ \/ events' = <<"stopped">> \o Tail(events) /\ UNCHANGED inferior
       \/ /\ events' = Tail(events)
          /\ inferior' = IF inferior = "stopped" THEN "running" ELSE inferior
    /\ Goto("run_wait")
    /\ UNCHANGED <<asyncInt, object, scopes, loop, corout, view, history>>

\* Variant: I/O is stopped only when no exception is in flight.
RunFinallyUnlessRaised ==
    /\ pc = "run_finally"
    /\ ioState' = IF exc = "none" THEN "STOPPED" ELSE ioState
    /\ io' = (io /\ result # "exited")
    /\ Goto("run_leave")
    /\ UNCHANGED <<lldbVars, process, listener, isCore, scopes, loop, corout, view,
                   history>>

\* The finally clause, and that of _updates_scope_counter.
RunFinally ==
    /\ pc = "run_finally"
    /\ ioState' = "STOPPED"
    /\ io' = (io /\ result # "exited")
    /\ Goto("run_leave")
    /\ UNCHANGED <<lldbVars, process, listener, isCore, scopes, loop, corout, view,
                   history>>

\* Variant: the counter is decremented only on a normal return.
RunLeavesUnlessRaised(h, r) ==
    /\ pc = "run_leave"
    /\ inRun' = IF exc = "none" THEN inRun - 1 ELSE inRun
    /\ heard' = FALSE
    /\ IF exc # "none" THEN Raise(exc, h) ELSE r

\* Back in the caller, which has its exception handler at label h, or goes on
\* with r.
RunLeaves(h, r) ==
    /\ pc = "run_leave"
    /\ inRun' = inRun - 1
    /\ heard' = FALSE
    /\ IF exc # "none" THEN Raise(exc, h) ELSE r

ContLeaves ==
    /\ op = "cont"
    /\ RunLeaves("idle", Return("ok"))
    /\ UNCHANGED <<lldbVars, object, hold, pending, inCo, ioState, loop, corout, view,
                   sigints, leaks>>

KillLeaves ==
    /\ op = "kill"
    /\ RunLeaves("suspend_exit", Goto("kill_loop"))
    /\ UNCHANGED <<lldbVars, object, hold, pending, inCo, ioState, loop, corout, view,
                   sigints, leaks>>

CommandLeaves ==
    /\ op \in {"command", "poll"}
    /\ RunLeaves("suspend_exit", Goto("suspend_exit"))
    /\ UNCHANGED <<lldbVars, object, hold, pending, inCo, ioState, loop, corout, view,
                   sigints, leaks>>

Connected == result = "timed_out" /\ last = "connected"

\* connect runs the loop again until the process stops, exits, or the last
\* event says that the server has no process yet.
EnterLeaves ==
    /\ op \in {"launch", "attach", "connect"}
    /\ RunLeaves("idle",
          \/ result = "exited" /\ Return("early_exit")
          \/ result = "stopped" /\ Goto("created")
          \/ Connected /\ Return("connected")
          \/ result \notin {"exited", "stopped"} /\ ~Connected /\ Goto("run_enter"))
    /\ UNCHANGED <<lldbVars, object, hold, pending, inCo, ioState, loop, corout, view,
                   sigints, leaks>>

(***************************************************************************)
(* run_coroutine and _run_coroutine.  The coroutine itself is a pwndbg     *)
(* command: it may yield a step or a cont, return, raise, and it may catch *)
(* what is thrown into it (aglib/shellcode.py 128-136 does).               *)
(***************************************************************************)
\* _updates_scope_counter raises the counter, and then enters its try statement.
CoroutineCall ==
    /\ pc = "call" /\ op = "coroutine"
    /\ IF isCore
       THEN Raise("Assertion", "idle") /\ UNCHANGED inCo
       ELSE inCo' = inCo + 1 /\ Goto("co_count")
    /\ UNCHANGED <<lldbVars, object, hold, pending, inRun, ioState, loop, corout, view,
                   history>>

CoroutineStarts ==
    /\ pc = "co_count"
    /\ IF HasProcess THEN Goto("co_resume") ELSE Raise("Assertion", "co_exit")
    /\ UNCHANGED <<lldbVars, object, scopes, ioState, loop, corout, view, history>>

\* What is thrown into the coroutine, if anything, and what remains queued
\* when it catches it and yields again.
Throwing == excs # << >>
Caught   == IF Throwing THEN Front(excs) ELSE excs

\* not isinstance(exceptions[-1], CancelledError)
Verdict == IF Throwing /\ Last(excs) = "Cancelled" THEN "false" ELSE "true"

CoroutineYields ==
    /\ pc = "co_resume"
    /\ excs' = Caught
    /\ \E o \in {"step", "resume"} : op' = o
    /\ pc' = "co_yielded" /\ UNCHANGED <<exc, ret>>
    /\ UNCHANGED <<lldbVars, object, scopes, ioState, loop, frozen, view, history>>

\* StopIteration, or a CancelledError the coroutine lets through.
CoroutineEnds ==
    /\ ret' = Verdict
    /\ pc' = "co_exit" /\ UNCHANGED <<op, exc, excs, frozen>>

CoroutineReturns ==
    /\ pc = "co_resume"
    /\ CoroutineEnds
    /\ UNCHANGED <<lldbVars, object, scopes, ioState, loop, view, history>>

CoroutineCancelled ==
    /\ pc = "co_resume"
    /\ Throwing /\ Last(excs) = "Cancelled"
    /\ CoroutineEnds
    /\ UNCHANGED <<lldbVars, object, scopes, ioState, loop, view, history>>

\* An exception of its own, or the failed step it was told of.
CoroutineRaises ==
    /\ pc = "co_resume"
    /\ Raise("Error", "co_exit")
    /\ UNCHANGED <<lldbVars, object, scopes, ioState, loop, corout, view, history>>

\* The process of a coroutine that goes on after it exited is None.
CoroutineOutlivesProcess ==
    /\ pc = "co_yielded" /\ ~process
    /\ hold' = hold + 1
    /\ Raise("Error", "suspend_exit")
    /\ UNCHANGED <<lldbVars, object, pending, inRun, inCo, ioState, loop, corout, view,
                   history>>

StepFails ==
    /\ pc = "co_yielded" /\ op = "step" /\ process
    /\ hold' = hold + 1
    /\ excs' = Append(excs, "Error")
    /\ Goto("suspend_exit")
    /\ UNCHANGED <<lldbVars, object, pending, inRun, inCo, ioState, loop, frozen,
                   view, history>>

\* A cont may be asked to suspend the other threads meanwhile.
CoroutineResumes ==
    /\ pc = "co_yielded" /\ process
    /\ op = "step" => inferior = "stopped"
    /\ hold' = hold + 1
    /\ Resume
    /\ frozen' \in BOOLEAN /\ (frozen' => op = "resume")
    /\ Goto("run_enter")
    /\ UNCHANGED <<object, pending, inRun, inCo, ioState, loop, excs, view, history>>

StepLeaves ==
    /\ op = "step"
    /\ RunLeaves("suspend_exit", Goto("suspend_exit"))
    /\ excs' = IF exc = "none" /\ result = "exited" THEN Append(excs, "Cancelled") ELSE excs
    /\ UNCHANGED <<lldbVars, object, hold, pending, inCo, ioState, loop, frozen,
                   view, sigints, leaks>>

\* Variant: the threads stay suspended when the coroutine is cancelled.
ResumeLeavesFrozen ==
    /\ op = "resume"
    /\ RunLeaves("suspend_exit", Goto("suspend_exit"))
    /\ \/ excs' = Append(excs, "Cancelled") /\ UNCHANGED frozen
       \/ result = "stopped" /\ frozen' = FALSE /\ UNCHANGED excs
    /\ UNCHANGED <<lldbVars, object, hold, pending, inCo, ioState, loop, view,
                   sigints, leaks>>

\* The coroutine is cancelled when the process is gone, and when it stopped
\* for another reason than the stop point the coroutine waits for.
ResumeLeaves ==
    /\ op = "resume"
    /\ RunLeaves("suspend_exit", Goto("suspend_exit"))
    /\ IF exc # "none"
       THEN UNCHANGED <<excs, frozen>>
       ELSE /\ frozen' = FALSE
            /\ \/ excs' = Append(excs, "Cancelled")
               \/ result = "stopped" /\ UNCHANGED excs
    /\ UNCHANGED <<lldbVars, object, hold, pending, inCo, ioState, loop, view,
                   sigints, leaks>>

CoroutineExit ==
    /\ pc = "co_exit"
    /\ inCo' = inCo - 1
    /\ Return(ret)
    /\ UNCHANGED <<lldbVars, object, hold, pending, inRun, ioState, loop, corout, view,
                   history>>

(***************************************************************************)
(* interrupt, the SIGINT handler, at any point of the driver's thread.     *)
(***************************************************************************)
\* Where the UserCancelledError goes: outside of the coroutine it leaves the loop
\* and makes run_coroutine return False,
Cancel(l) == pc' = l /\ ret' = "false" /\ exc' = "none" /\ UNCHANGED <<op, excs, frozen>>

\* or the coroutine catches it, or ends there.  Python runs a signal's handler when
\* a call into C returns, so that the exception may also come between the setattr
\* that raises _in_run_coroutine and the try statement, or in the finally clause
\* before the setattr that lowers it: then it stays raised.
RaiseHere ==
    \/ /\ pc \in {"idle", "co_resume"}       \* in the REPL's code, or caught
       /\ UNCHANGED <<pc, op, exc, ret, corout, leaks>>
    \/ /\ pc = "co_resume"
       /\ CoroutineEnds /\ UNCHANGED leaks
    \/ /\ pc \in {"co_count", "co_resume", "co_yielded", "co_exit"}
       /\ Cancel("co_exit") /\ UNCHANGED leaks
    \/ /\ pc \in {"co_count", "co_exit"}
       /\ Cancel("idle") /\ leaks' = leaks + 1
    \/ /\ pc = "call" /\ op = "coroutine"
       /\ Cancel("idle") /\ UNCHANGED leaks
    \/ /\ pc \notin {"idle", "co_count", "co_resume", "co_yielded", "co_exit"}
       /\ Raise("Cancelled", "idle") /\ UNCHANGED <<corout, leaks>>

\* LLDB ignores SendAsyncInterrupt while the process is stopped, as it is at a
\* breakpoint whose handler has yet to run or runs (proc.py 325).
AtHandler == inferior = "stopped" /\ Contains(events, "handled")

\* handle_sigint passes on in_lldb_command_handler, which nothing ever sets.
InCommandHandler == FALSE

\* Variant: the cancellation is left pending whatever the event loop runs for.
CancelsAnything == TRUE

\* "If we're in a coroutine, we should tell it to stop" (proc.py 322).
CancelsCoroutine == inCo > 0

Interrupt ==
    /\ sigints < MaxSigInts
    /\ HasProcess
    /\ sigints' = sigints + 1
    /\ IF inRun > 0
       THEN /\ pending' = CancelsCoroutine
            /\ asyncInt' = (asyncInt \/ inferior = "running")
            /\ heard' = (heard \/ ~AtHandler)
            /\ UNCHANGED <<pc, op, exc, ret, corout, leaks>>
       ELSE /\ UNCHANGED <<asyncInt, heard>>
            /\ IF hold > 0 /\ ~InCommandHandler
               THEN pending' = TRUE /\ UNCHANGED <<pc, op, exc, ret, corout, leaks>>
               ELSE pending' = FALSE /\ RaiseHere
    /\ UNCHANGED <<inferior, events, object, hold, inRun, inCo, ioState, loop, view>>

Driver ==
    \/ ContCall \/ ContGo
    \/ KillCall \/ KillFails \/ KillSucceeds \/ KillLoop
    \/ CommandCall \/ CommandFinishes \/ CommandUnanswered \/ CommandResumes
    \/ CommandOnCore
    \/ SuspendExit
    \/ EnterAsserts \/ EnterSucceeds \/ EnterFails \/ AttachRemoteNoPid \/ Created
    \/ ConnectFails \/ ConnectSucceeds
    \/ CoreFails \/ CoreLoads \/ CoreSuspended
    \/ RunEnter \/ WaitTimesOut \/ OtherEvent \/ RunningEvent \/ StoppedEvent
    \/ ExitedEvent \/ HandlerStarts \/ HandlerEnds \/ RunFinally
    \/ ContLeaves \/ KillLeaves \/ CommandLeaves \/ EnterLeaves
    \/ CoroutineCall \/ CoroutineStarts
    \/ CoroutineYields \/ CoroutineReturns \/ CoroutineCancelled
    \/ CoroutineRaises \/ CoroutineOutlivesProcess \/ StepFails \/ CoroutineResumes
    \/ StepLeaves \/ ResumeLeaves \/ CoroutineExit

driverVars == <<object, scopes, ioState, pc, op, exc, ret, loop, corout, view, history>>

Lldb == LldbNext /\ UNCHANGED driverVars

\* launch_core_file asserts nothing: its caller sees to it that the driver has
\* no process to forget.
Allowed(o) == o = "core" => ~HasConnection

Next ==
    \/ \E o \in Methods : Allowed(o) /\ Call(o)
    \/ Driver
    \/ Lldb
    \/ Interrupt

Spec == Init /\ [][Next]_vars

\* The driver's thread is never starved, and LLDB answers an interrupt even if
\* breakpoints with handlers stop the inferior again and again before it does.
\* The inferior need not stop by itself, and the REPL need not call.
FairSpec ==
    /\ Spec
    /\ WF_vars(Driver)
    /\ SF_vars(AnswerInterrupt /\ UNCHANGED driverVars)

(***************************************************************************)
(* Safety                                                                  *)
(***************************************************************************)
\* Whatever was raised, cancelled or interrupted on the way, the REPL gets the
\* driver back with its scope counters at zero and no cancellation pending: a
\* counter left high would turn every later Ctrl-C into one that never fires.  The
\* one counter that a Ctrl-C can leave high is _in_run_coroutine, by one each time
\* that it falls between the counter's assignment and the try statement that it
\* belongs to (proc.py 161-166), and only after that may a cancellation be pending.
ScopesBalanced ==
    pc = "idle" => hold = 0 /\ inRun = 0 /\ inCo = leaks /\ (pending => leaks > 0)

\* A cancellation is only postponed inside a _suspend_interrupts() that will
\* deliver it, also when it came from inside the event loop, as long as no Ctrl-C
\* has left _in_run_coroutine high.
PendingIsScoped == pending /\ leaks = 0 => hold > 0

\* The I/O driver handles I/O, or is paused, only inside the event loop, and is
\* never left running under the prompt (pause_io_if_running and
\* resume_io_if_running included).
IoOnlyInRunLoop == ioState # "STOPPED" => inRun = 1 /\ io

\* The event loop never waits without an I/O driver, on a core file, or for a
\* process whose listener it has dropped.
RunLoopListens ==
    pc \in {"run_wait", "run_handler"} => io /\ ~isCore /\ listener /\ process

\* The user has not pressed Ctrl-C.  The properties below that rest on this are
\* lost with an interrupt between Continue() and the event loop: the exception
\* leaves cont(), and the process runs on under the prompt.
Undisturbed == sigints = 0

\* What cont() promises, and every method that lets the process run: when it has
\* returned, the process is stopped, and no event that describes the process is
\* left in the listener for a later method to mistake for the outcome of what it
\* has done (until the first Ctrl-C).
PromptIsClean ==
    pc = "idle" /\ Undisturbed /\ exc # "Assertion" =>
        /\ process => inferior \in {"stopped", "connected"}
        /\ \A e \in {"stopped", "running", "exited", "handled"} : ~Contains(events, e)

\* Threads suspended for the sake of a coroutine are resumed, interrupts
\* included: the event loop always gives the coroutine its process back.
ThreadsThawed == pc = "idle" => ~frozen

\* Until the first Ctrl-C, pwndbg hears of a process first that it was created,
\* once, and of nothing else before.
EventOrder ==
    [][Undisturbed =>
        (view' = "created" => view = "none") /\ (view = "none" => view' = "created")]_view

(***************************************************************************)
(* What comments and docstrings of the code say and the code does not do.  *)
(***************************************************************************)
\* After a failed launch or attach the initialization is undone, so the next
\* one does not fail the assertion that there is no I/O driver.
FailureIsUndone ==
    ~(pc = "idle" /\ op \in {"launch", "attach"} /\ exc = "Assertion" /\ ~process)

(***************************************************************************)
(* Liveness                                                                *)
(***************************************************************************)
\* kill() drives the process to its end, whatever events come before it, and
\* connect() finds out whether there is a process.
CallsReturn ==
    (pc = "kill_loop" \/ (op = "connect" /\ pc = "run_enter")) ~> pc = "idle"

\* Ctrl-C in the event loop ends the event loop, unless it comes while the process
\* stands at a breakpoint that has a Python stop handler: LLDB ignores that one, and
\* if the handler lets the process go on nothing remains of it.
InterruptWorks == heard ~> inRun = 0
=============================================================================
