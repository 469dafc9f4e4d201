----------------------------- MODULE LldbProofs -----------------------------
(***************************************************************************)
(* Proofs about the process driver, for any number of interrupts and of    *)
(* events, with event handlers that raise or not; and about the REPL: it   *)
(* is a client that the driver's specification allows, whatever the bounds *)
(* are, so every invariant proved of the driver holds of the driver inside *)
(* the REPL; it calls the driver only where the driver's assertions allow  *)
(* it; and until the first Ctrl-C pwndbg knows of the process, and         *)
(* controllers run at once.                                                *)
(***************************************************************************)
EXTENDS LldbRepl, TLAPS

(***************************************************************************)
(* The inductive invariant.  Each scope counter is a function of where the *)
(* driver is, and the object's references are those the place relies on.   *)
(***************************************************************************)
InLoop    == {"run_wait", "run_handler", "run_finally", "run_leave"}
Running   == InLoop \cup {"run_enter"}
Coroutine == {"co_count", "co_resume", "co_yielded", "co_exit"}
CoOps     == {"coroutine", "step", "resume"}

\* Inside a with _suspend_interrupts() statement.
Suspending ==
    \/ pc \in {"kill_send", "kill_loop", "command", "suspend_exit"}
    \/ pc \in Running /\ op \in {"kill", "command", "poll", "step", "resume"}

ScopesOK ==
    /\ inRun = (IF pc \in InLoop THEN 1 ELSE 0)
    /\ hold = (IF Suspending THEN 1 ELSE 0)
    /\ inCo = leaks + (IF op \in CoOps /\ pc \notin {"idle", "call"} THEN 1 ELSE 0)
    /\ pending /\ leaks = 0 => hold = 1

\* Which method may be where.
ControlOK ==
    /\ pc = "call" => op \notin {"poll", "step", "resume", "none"}
    /\ pc \in {"kill_send", "kill_loop"} => op = "kill"
    /\ pc = "command" => op = "command"
    /\ pc = "cont_go" => op = "cont"
    /\ pc = "created" => op \in {"launch", "attach", "connect"}
    /\ pc = "core_created" => op = "core"
    /\ pc \in Coroutine => op \in CoOps
    /\ pc = "co_yielded" => op \in {"step", "resume"}
    /\ pc \in Running => op \notin {"core", "coroutine", "none"}
    /\ pc = "suspend_exit" => op \in {"kill", "command", "poll", "step", "resume"}
    /\ exc # "none" =>
           pc \in {"idle", "run_finally", "run_leave", "suspend_exit", "co_exit"}

\* The references the driver holds, at rest and where it is about to use them.
ObjectOK ==
    /\ isCore => process /\ inferior # "connected"
    /\ process /\ ~isCore => io /\ listener
    /\ pc \in {"kill_send", "command", "cont_go", "run_enter", "run_wait",
               "run_handler"} => process
    /\ pc = "call" /\ op = "core" => ~process
    /\ pc \in {"run_wait", "run_handler"} => result = "none"
    /\ pc \in {"run_finally", "run_leave"} /\ exc = "none" =>
           (process <=> result # "exited")
    /\ pc = "run_finally" /\ result = "exited" => ~process
    /\ pc \in {"cont_go", "run_wait", "run_handler", "run_finally"} \cup Coroutine => ~isCore
    /\ pc \in {"run_wait", "run_handler", "run_finally"} => io
    /\ pc \in Running \cup {"suspend_exit"} /\ op \notin {"kill", "command"} => ~isCore
    /\ pc \in Running /\ op # "kill" => ~isCore
    /\ ioState # "STOPPED" => pc \in {"run_wait", "run_handler", "run_finally"}

\* While a stop handler runs its event is not taken from the queue.
EventsOK == LldbRangesOK /\ (pc = "run_handler" => events # << >>)

IInv == LocalsOK /\ ScopesOK /\ ControlOK /\ ObjectOK

\* Every flag stays a Boolean.
LEMMA FlagsStep == FlagsOK /\ [Next]_vars => FlagsOK'
<1> SUFFICES ASSUME FlagsOK, [Next]_vars PROVE FlagsOK'
  OBVIOUS
<1> USE DriverAssumption DEF Goto, Raise, Return, Callback, Drop, Discard, Finish,
        RunLeaves, Receive, Suspended, Resume, Terminate, Start, Connect, InCoroutine,
        WithIo, OnlyIfStarted, FireEvents, object, scopes, loop, corout, history, lldbVars,
        CoroutineEnds, Connected, FlagsOK
<1>1. CASE \E o \in Methods : Allowed(o) /\ Call(o)
  BY <1>1, ZenonT(60) DEF Call, Allowed, Methods
<1>2. CASE ContCall \/ ContGo \/ ContLeaves
  BY <1>2, ZenonT(60) DEF ContCall, ContGo, ContLeaves
<1>3. CASE KillCall \/ KillFails \/ KillSucceeds \/ KillLoop \/ KillLeaves
  BY <1>3, ZenonT(60) DEF KillCall, KillFails, KillSucceeds, KillLoop, KillLeaves
<1>4. CASE CommandCall \/ CommandFinishes \/ CommandUnanswered \/ CommandResumes \/ CommandOnCore \/
             CommandLeaves
  BY <1>4, ZenonT(60) DEF CommandCall, CommandFinishes, CommandUnanswered, CommandResumes,
         CommandOnCore, CommandLeaves
<1>5. CASE SuspendExit
  BY <1>5, ZenonT(60) DEF SuspendExit
<1>6. CASE EnterAsserts \/ EnterSucceeds \/ EnterFails \/ AttachRemoteNoPid \/ Created
             \/ EnterLeaves
  BY <1>6, ZenonT(60) DEF EnterAsserts, EnterSucceeds, EnterFails, AttachRemoteNoPid,
         Created, EnterLeaves
<1>7. CASE ConnectFails \/ ConnectSucceeds
  BY <1>7, ZenonT(60) DEF ConnectFails, ConnectSucceeds
<1>8. CASE CoreFails \/ CoreLoads \/ CoreSuspended
  BY <1>8, ZenonT(60) DEF CoreFails, CoreLoads, CoreSuspended
<1>9. CASE RunEnter \/ WaitTimesOut \/ RunFinally
  BY <1>9, ZenonT(60) DEF RunEnter, WaitTimesOut, RunFinally
<1>10. CASE OtherEvent \/ RunningEvent \/ StoppedEvent \/ ExitedEvent \/ HandlerStarts
             \/ HandlerEnds
  BY <1>10, ZenonT(60) DEF OtherEvent, RunningEvent, StoppedEvent, ExitedEvent,
         HandlerStarts, HandlerEnds
<1>11. CASE CoroutineCall \/ CoroutineStarts \/ CoroutineYields \/ CoroutineReturns
             \/ CoroutineCancelled \/ CoroutineRaises \/ CoroutineExit
  BY <1>11, ZenonT(60) DEF CoroutineCall, CoroutineStarts, CoroutineYields, CoroutineReturns,
         CoroutineCancelled, CoroutineRaises, CoroutineExit
<1>12. CASE CoroutineOutlivesProcess \/ StepFails \/ CoroutineResumes \/ StepLeaves \/
             ResumeLeaves
  BY <1>12, ZenonT(60) DEF CoroutineOutlivesProcess, StepFails, CoroutineResumes, StepLeaves,
         ResumeLeaves
<1>13. CASE Lldb
  BY <1>13, ZenonT(60) DEF Lldb, LldbNext, InferiorStops, InferiorExits, InferiorActs,
         AnswerInterrupt, Room, driverVars
<1>14. CASE Interrupt
  <2>1. CASE inRun > 0
    <3>1. /\ pending' = (inCo > 0) /\ asyncInt' = (asyncInt \/ inferior = "running")
          /\ heard' = (heard \/ ~AtHandler)
      BY <1>14, <2>1, Zenon DEF Interrupt, CancelsCoroutine
    <3>2. UNCHANGED <<object, running, frozen>>
      BY <1>14, <2>1, Zenon DEF Interrupt
    <3>3. pending' \in BOOLEAN
      BY <3>1
    <3>4. asyncInt' \in BOOLEAN /\ heard' \in BOOLEAN
      BY <3>1, Zenon
    <3> QED BY <3>2, <3>3, <3>4, Zenon
  <2>2. CASE ~(inRun > 0)
    BY <1>14, <2>2, Zenon DEF Interrupt, RaiseHere, Cancel
  <2> QED BY <2>1, <2>2
<1>15. CASE UNCHANGED vars
  BY <1>15, Zenon DEF vars
<1> QED BY <1>1, <1>2, <1>3, <1>4, <1>5, <1>6, <1>7, <1>8, <1>9, <1>10, <1>11, <1>12,
        <1>13, <1>14, <1>15 DEF Next, Driver

\* The rest of a queue is a queue.
LEMMA TailType == ASSUME NEW S, NEW s \in Seq(S), s # << >> PROVE Tail(s) \in Seq(S)
  OBVIOUS

\* The listener's queue stays a sequence of events.
LEMMA EventsStep == EventsOK /\ [Next]_vars => EventsOK'
<1> SUFFICES ASSUME EventsOK, [Next]_vars PROVE EventsOK'
  OBVIOUS
<1> USE DriverAssumption DEF Goto, Raise, Return, Callback, Drop, Discard, Finish,
        RunLeaves, Receive, Suspended, Resume, Terminate, Start, Connect, InCoroutine,
        WithIo, OnlyIfStarted, FireEvents, object, scopes, loop, corout, history, lldbVars,
        CoroutineEnds, Connected, EventsOK, LldbRangesOK, InferiorStates, EventKinds
<1>1. CASE \E o \in Methods : Allowed(o) /\ Call(o)
  BY <1>1 DEF Call, Allowed, HasConnection, Methods
<1>2. CASE ContCall \/ ContGo \/ ContLeaves
  BY <1>2 DEF ContCall, ContGo, ContLeaves
<1>3. CASE KillCall \/ KillFails \/ KillSucceeds \/ KillLoop \/ KillLeaves
  BY <1>3 DEF KillCall, KillFails, KillSucceeds, KillLoop, KillLeaves
<1>4. CASE CommandCall \/ CommandFinishes \/ CommandUnanswered \/ CommandResumes \/ CommandOnCore \/
             CommandLeaves
  <2>1. CASE CommandOnCore
    <3>1. pc' = "suspend_exit" /\ (UNCHANGED lldbVars \/ Discard)
      BY <2>1, Zenon DEF CommandOnCore
    <3>2. CASE UNCHANGED lldbVars
      BY <3>1, <3>2
    <3>3. CASE Discard
      BY <3>1, <3>3
    <3> QED BY <3>1, <3>2, <3>3, Zenon
  <2>2. CASE CommandCall \/ CommandFinishes \/ CommandUnanswered \/ CommandResumes \/ CommandLeaves
    BY <2>2 DEF CommandCall, CommandFinishes, CommandUnanswered, CommandResumes, CommandLeaves
  <2> QED BY <1>4, <2>1, <2>2
<1>5. CASE SuspendExit
  BY <1>5 DEF SuspendExit
<1>6. CASE EnterAsserts \/ EnterSucceeds \/ EnterFails \/ AttachRemoteNoPid \/ Created
             \/ EnterLeaves
  <2>1. CASE EnterSucceeds
    BY <2>1 DEF EnterSucceeds
  <2>2. CASE EnterFails
    BY <2>2 DEF EnterFails
  <2>3. CASE AttachRemoteNoPid
    BY <2>3 DEF AttachRemoteNoPid
  <2>4. CASE EnterAsserts \/ Created \/ EnterLeaves
    BY <2>4 DEF EnterAsserts, Created, EnterLeaves
  <2> QED BY <1>6, <2>1, <2>2, <2>3, <2>4
<1>7. CASE ConnectFails \/ ConnectSucceeds
  <2>1. CASE ConnectFails
    <3>1. pc' = "idle" /\ (UNCHANGED lldbVars \/ Discard)
      BY <2>1, Zenon DEF ConnectFails
    <3>2. CASE UNCHANGED lldbVars
      BY <3>1, <3>2
    <3>3. CASE Discard
      BY <3>1, <3>3
    <3> QED BY <3>1, <3>2, <3>3, Zenon
  <2>2. CASE ConnectSucceeds
    BY <2>2 DEF ConnectSucceeds
  <2> QED BY <1>7, <2>1, <2>2
<1>8. CASE CoreFails \/ CoreLoads \/ CoreSuspended
  <2>1. CASE CoreFails
    BY <2>1 DEF CoreFails
  <2>2. CASE CoreLoads
    BY <2>2 DEF CoreLoads
  <2>3. CASE CoreSuspended
    BY <2>3 DEF CoreSuspended
  <2> QED BY <1>8, <2>1, <2>2, <2>3
<1>9. CASE RunEnter \/ WaitTimesOut \/ RunFinally
  BY <1>9 DEF RunEnter, WaitTimesOut, RunFinally
<1>10. CASE OtherEvent \/ RunningEvent \/ StoppedEvent \/ ExitedEvent \/ HandlerStarts
             \/ HandlerEnds
  <2>1. CASE OtherEvent \/ RunningEvent
    BY <2>1 DEF OtherEvent, RunningEvent
  <2>2. CASE StoppedEvent
    BY <2>2 DEF StoppedEvent
  <2>3. CASE ExitedEvent
    BY <2>3 DEF ExitedEvent
  <2>5. CASE HandlerStarts
    BY <2>5 DEF HandlerStarts
  <2>4. CASE HandlerEnds
    <3>1. /\ events' = <<"stopped">> \o Tail(events) \/ events' = Tail(events)
          /\ inferior' = inferior \/ inferior' = "running"
      BY <2>4, Zenon DEF HandlerEnds
    <3>2. events # << >> /\ pc' # "run_handler"
      BY <2>4 DEF HandlerEnds
    <3>3. events \in Seq(EventKinds)
      OBVIOUS
    <3>4. Tail(events) \in Seq(EventKinds)
      BY <3>2, <3>3, TailType, Zenon
    <3>5. <<"stopped">> \o Tail(events) \in Seq(EventKinds)
      BY <3>4
    <3> QED BY <3>1, <3>2, <3>4, <3>5
  <2> QED BY <1>10, <2>1, <2>2, <2>3, <2>4, <2>5
<1>11. CASE CoroutineCall \/ CoroutineStarts \/ CoroutineYields \/ CoroutineReturns
             \/ CoroutineCancelled \/ CoroutineRaises \/ CoroutineExit
  BY <1>11 DEF CoroutineCall, CoroutineStarts, CoroutineYields, CoroutineReturns,
         CoroutineCancelled, CoroutineRaises, CoroutineExit
<1>12. CASE CoroutineOutlivesProcess \/ StepFails \/ CoroutineResumes \/ StepLeaves \/
             ResumeLeaves
  BY <1>12 DEF CoroutineOutlivesProcess, StepFails, CoroutineResumes, StepLeaves,
         ResumeLeaves
<1>13. CASE Lldb
  BY <1>13 DEF Lldb, LldbNext, InferiorStops, InferiorExits, InferiorActs,
         AnswerInterrupt, Room, driverVars
<1>14. CASE Interrupt
  BY <1>14 DEF Interrupt, InCommandHandler, RaiseHere, Cancel
<1>15. CASE UNCHANGED vars
  BY <1>15 DEF vars
<1> QED BY <1>1, <1>2, <1>3, <1>4, <1>5, <1>6, <1>7, <1>8, <1>9, <1>10, <1>11, <1>12,
        <1>13, <1>14, <1>15 DEF Next, Driver

\* The exceptions queued for a coroutine stay those the driver throws.
LEMMA ExceptionsStep == ExceptionsOK /\ [Next]_vars => ExceptionsOK'
<1> SUFFICES ASSUME ExceptionsOK, [Next]_vars PROVE ExceptionsOK'
  OBVIOUS
<1> USE DriverAssumption DEF Goto, Raise, Return, Callback, Drop, Discard, Finish,
        RunLeaves, Receive, Suspended, Resume, Terminate, Start, Connect, InCoroutine,
        WithIo, OnlyIfStarted, FireEvents, object, scopes, loop, corout, history, lldbVars,
        CoroutineEnds, Connected, ExceptionsOK, Front, Verdict, Caught, Throwing
<1>1. CASE \E o \in Methods : Allowed(o) /\ Call(o)
  BY <1>1 DEF Call, Allowed, HasConnection, Methods
<1>2. CASE ContCall \/ ContGo \/ ContLeaves
  BY <1>2 DEF ContCall, ContGo, ContLeaves
<1>3. CASE KillCall \/ KillFails \/ KillSucceeds \/ KillLoop \/ KillLeaves
  BY <1>3 DEF KillCall, KillFails, KillSucceeds, KillLoop, KillLeaves
<1>4. CASE CommandCall \/ CommandFinishes \/ CommandUnanswered \/ CommandResumes \/ CommandOnCore \/
             CommandLeaves
  BY <1>4 DEF CommandCall, CommandFinishes, CommandUnanswered, CommandResumes, CommandOnCore,
              CommandLeaves
<1>5. CASE SuspendExit
  BY <1>5 DEF SuspendExit
<1>6. CASE EnterAsserts \/ EnterSucceeds \/ EnterFails \/ AttachRemoteNoPid \/ Created
             \/ EnterLeaves
  BY <1>6 DEF EnterAsserts, EnterSucceeds, EnterFails, AttachRemoteNoPid, Created,
         EnterLeaves
<1>7. CASE ConnectFails \/ ConnectSucceeds
  BY <1>7 DEF ConnectFails, ConnectSucceeds
<1>8. CASE CoreFails \/ CoreLoads \/ CoreSuspended
  BY <1>8 DEF CoreFails, CoreLoads, CoreSuspended
<1>9. CASE RunEnter \/ WaitTimesOut \/ RunFinally
  BY <1>9 DEF RunEnter, WaitTimesOut, RunFinally
<1>10. CASE OtherEvent \/ RunningEvent \/ StoppedEvent \/ ExitedEvent \/ HandlerStarts
             \/ HandlerEnds
  BY <1>10 DEF OtherEvent, RunningEvent, StoppedEvent, ExitedEvent, HandlerStarts,
         HandlerEnds
<1>11. CASE CoroutineCall \/ CoroutineStarts \/ CoroutineYields \/ CoroutineReturns
             \/ CoroutineCancelled \/ CoroutineRaises \/ CoroutineExit
  BY <1>11 DEF CoroutineCall, CoroutineStarts, CoroutineYields, CoroutineReturns,
         CoroutineCancelled, CoroutineRaises, CoroutineExit
<1>12. CASE CoroutineOutlivesProcess \/ StepFails \/ CoroutineResumes \/ StepLeaves \/
             ResumeLeaves
  BY <1>12 DEF CoroutineOutlivesProcess, StepFails, CoroutineResumes, StepLeaves,
         ResumeLeaves
<1>13. CASE Lldb
  BY <1>13 DEF Lldb, LldbNext, InferiorStops, InferiorExits, InferiorActs,
         AnswerInterrupt, Room, driverVars
<1>14. CASE Interrupt
  BY <1>14 DEF Interrupt, InCommandHandler, RaiseHere, Cancel
<1>15. CASE UNCHANGED vars
  BY <1>15 DEF vars
<1> QED BY <1>1, <1>2, <1>3, <1>4, <1>5, <1>6, <1>7, <1>8, <1>9, <1>10, <1>11, <1>12,
        <1>13, <1>14, <1>15 DEF Next, Driver

\* So do the counters and enumerations; a scope counter is positive where it
\* is decremented.
LEMMA LocalsStep == LocalsOK /\ ScopesOK /\ ControlOK /\ [Next]_vars => LocalsOK'
<1> SUFFICES ASSUME LocalsOK /\ ScopesOK /\ ControlOK, [Next]_vars PROVE LocalsOK'
  OBVIOUS
<1> USE DriverAssumption DEF Goto, Raise, Return, Callback, Drop, Discard, Finish,
        RunLeaves, Receive, Suspended, Resume, Terminate, Start, Connect, InCoroutine,
        WithIo, OnlyIfStarted, FireEvents, object, scopes, loop, corout, history, lldbVars,
        CoroutineEnds, Connected, LocalsOK, EventKinds, Labels, Ops, Methods,
        Exceptions, ScopesOK, ControlOK, Verdict, InLoop, Running, Coroutine, CoOps,
        Suspending
<1>1. CASE \E o \in Methods : Allowed(o) /\ Call(o)
  BY <1>1 DEF Call, Allowed, HasConnection, Methods
<1>2. CASE ContCall \/ ContGo \/ ContLeaves
  BY <1>2 DEF ContCall, ContGo, ContLeaves
<1>3. CASE KillCall \/ KillFails \/ KillSucceeds \/ KillLoop \/ KillLeaves
  BY <1>3 DEF KillCall, KillFails, KillSucceeds, KillLoop, KillLeaves
<1>4. CASE CommandCall \/ CommandFinishes \/ CommandUnanswered \/ CommandResumes \/ CommandOnCore \/
             CommandLeaves
  BY <1>4 DEF CommandCall, CommandFinishes, CommandUnanswered, CommandResumes, CommandOnCore,
              CommandLeaves
<1>5. CASE SuspendExit
  BY <1>5 DEF SuspendExit
<1>6. CASE EnterAsserts \/ EnterSucceeds \/ EnterFails \/ AttachRemoteNoPid \/ Created
             \/ EnterLeaves
  BY <1>6 DEF EnterAsserts, EnterSucceeds, EnterFails, AttachRemoteNoPid, Created,
         EnterLeaves
<1>7. CASE ConnectFails \/ ConnectSucceeds
  BY <1>7 DEF ConnectFails, ConnectSucceeds
<1>8. CASE CoreFails \/ CoreLoads \/ CoreSuspended
  BY <1>8 DEF CoreFails, CoreLoads, CoreSuspended
<1>9. CASE RunEnter \/ WaitTimesOut \/ RunFinally
  BY <1>9 DEF RunEnter, WaitTimesOut, RunFinally
<1>10. CASE OtherEvent \/ RunningEvent \/ StoppedEvent \/ ExitedEvent \/ HandlerStarts
             \/ HandlerEnds
  BY <1>10 DEF OtherEvent, RunningEvent, StoppedEvent, ExitedEvent, HandlerStarts,
         HandlerEnds
<1>11. CASE CoroutineCall \/ CoroutineStarts \/ CoroutineYields \/ CoroutineReturns
             \/ CoroutineCancelled \/ CoroutineRaises \/ CoroutineExit
  BY <1>11 DEF CoroutineCall, CoroutineStarts, CoroutineYields, CoroutineReturns,
         CoroutineCancelled, CoroutineRaises, CoroutineExit
<1>12. CASE CoroutineOutlivesProcess \/ StepFails \/ CoroutineResumes \/ StepLeaves \/
             ResumeLeaves
  BY <1>12 DEF CoroutineOutlivesProcess, StepFails, CoroutineResumes, StepLeaves,
         ResumeLeaves
<1>13. CASE Lldb
  BY <1>13 DEF Lldb, LldbNext, InferiorStops, InferiorExits, InferiorActs,
         AnswerInterrupt, Room, driverVars
<1>14. CASE Interrupt
  BY <1>14 DEF Interrupt, InCommandHandler, RaiseHere, Cancel
<1>15. CASE UNCHANGED vars
  BY <1>15 DEF vars
<1> QED BY <1>1, <1>2, <1>3, <1>4, <1>5, <1>6, <1>7, <1>8, <1>9, <1>10, <1>11, <1>12,
        <1>13, <1>14, <1>15 DEF Next, Driver

\* The scope counters.
LEMMA ScopesStep == LocalsOK /\ ScopesOK /\ ControlOK /\ [Next]_vars => ScopesOK'
<1> SUFFICES ASSUME LocalsOK /\ ScopesOK /\ ControlOK, [Next]_vars PROVE ScopesOK'
  OBVIOUS
<1> USE DriverAssumption DEF Goto, Raise, Return, Callback, Drop, Discard, Finish,
        RunLeaves, Receive, Suspended, Resume, Terminate, Start, Connect, InCoroutine,
        WithIo, OnlyIfStarted, FireEvents, object, scopes, loop, corout, history, lldbVars,
        CoroutineEnds, Connected, LocalsOK, ScopesOK, ControlOK, Labels, Ops, Methods,
        InLoop, Running, Coroutine, CoOps, Suspending
<1>1. CASE \E o \in Methods : Allowed(o) /\ Call(o)
  BY <1>1 DEF Call, Allowed, HasConnection, Methods
<1>2. CASE ContCall \/ ContGo \/ ContLeaves
  BY <1>2 DEF ContCall, ContGo, ContLeaves
<1>3. CASE KillCall \/ KillFails \/ KillSucceeds \/ KillLoop \/ KillLeaves
  BY <1>3 DEF KillCall, KillFails, KillSucceeds, KillLoop, KillLeaves
<1>4. CASE CommandCall \/ CommandFinishes \/ CommandUnanswered \/ CommandResumes \/ CommandOnCore \/
             CommandLeaves
  BY <1>4 DEF CommandCall, CommandFinishes, CommandUnanswered, CommandResumes, CommandOnCore,
              CommandLeaves
<1>5. CASE SuspendExit
  <2>1. hold = 1 /\ hold' = 0
    BY <1>5 DEF SuspendExit
  <2>2. ~pending'
    BY <1>5, <2>1, Zenon DEF SuspendExit
  <2> QED BY <1>5, <2>1, <2>2 DEF SuspendExit
<1>6. CASE EnterAsserts \/ EnterSucceeds \/ EnterFails \/ AttachRemoteNoPid \/ Created
             \/ EnterLeaves
  BY <1>6 DEF EnterAsserts, EnterSucceeds, EnterFails, AttachRemoteNoPid, Created,
         EnterLeaves
<1>7. CASE ConnectFails \/ ConnectSucceeds
  BY <1>7 DEF ConnectFails, ConnectSucceeds
<1>8. CASE CoreFails \/ CoreLoads \/ CoreSuspended
  BY <1>8 DEF CoreFails, CoreLoads, CoreSuspended
<1>9. CASE RunEnter \/ WaitTimesOut \/ RunFinally
  BY <1>9 DEF RunEnter, WaitTimesOut, RunFinally
<1>10. CASE OtherEvent \/ RunningEvent \/ StoppedEvent \/ ExitedEvent \/ HandlerStarts
             \/ HandlerEnds
  BY <1>10 DEF OtherEvent, RunningEvent, StoppedEvent, ExitedEvent, HandlerStarts,
         HandlerEnds
<1>11. CASE CoroutineCall \/ CoroutineStarts \/ CoroutineYields \/ CoroutineReturns
             \/ CoroutineCancelled \/ CoroutineRaises \/ CoroutineExit
  BY <1>11 DEF CoroutineCall, CoroutineStarts, CoroutineYields, CoroutineReturns,
         CoroutineCancelled, CoroutineRaises, CoroutineExit
<1>12. CASE CoroutineOutlivesProcess \/ StepFails \/ CoroutineResumes \/ StepLeaves \/
             ResumeLeaves
  BY <1>12 DEF CoroutineOutlivesProcess, StepFails, CoroutineResumes, StepLeaves,
         ResumeLeaves
<1>13. CASE Lldb
  BY <1>13 DEF Lldb, LldbNext, InferiorStops, InferiorExits, InferiorActs,
         AnswerInterrupt, Room, driverVars
<1>14. CASE Interrupt
  <2>1. CASE inRun > 0 /\ CancelsCoroutine
    BY <1>14, <2>1 DEF Interrupt, CancelsCoroutine
  <2>2. CASE inRun > 0 /\ ~CancelsCoroutine
    <3>1. ~pending'
      BY <1>14, <2>2, Zenon DEF Interrupt
    <3> QED BY <1>14, <2>2, <3>1 DEF Interrupt
  <2>3. CASE ~(inRun > 0)
    BY <1>14, <2>3 DEF Interrupt, InCommandHandler, RaiseHere, Cancel
  <2> QED BY <2>1, <2>2, <2>3
<1>15. CASE UNCHANGED vars
  BY <1>15 DEF vars
<1> QED BY <1>1, <1>2, <1>3, <1>4, <1>5, <1>6, <1>7, <1>8, <1>9, <1>10, <1>11, <1>12,
        <1>13, <1>14, <1>15 DEF Next, Driver

\* Which method may be where.
LEMMA ControlStep == LocalsOK /\ ScopesOK /\ ControlOK /\ [Next]_vars => ControlOK'
<1> SUFFICES ASSUME LocalsOK /\ ScopesOK /\ ControlOK, [Next]_vars PROVE ControlOK'
  OBVIOUS
<1> USE DriverAssumption DEF Goto, Raise, Return, Callback, Drop, Discard, Finish,
        RunLeaves, Receive, Suspended, Resume, Terminate, Start, Connect, InCoroutine,
        WithIo, OnlyIfStarted, FireEvents, object, scopes, loop, corout, history, lldbVars,
        CoroutineEnds, Connected, Methods, ScopesOK, ControlOK, InLoop, Running,
        Coroutine, CoOps, Suspending
<1>1. CASE \E o \in Methods : Allowed(o) /\ Call(o)
  BY <1>1 DEF Call, Allowed, HasConnection, Methods
<1>2. CASE ContCall \/ ContGo \/ ContLeaves
  BY <1>2 DEF ContCall, ContGo, ContLeaves
<1>3. CASE KillCall \/ KillFails \/ KillSucceeds \/ KillLoop \/ KillLeaves
  BY <1>3 DEF KillCall, KillFails, KillSucceeds, KillLoop, KillLeaves
<1>4. CASE CommandCall \/ CommandFinishes \/ CommandUnanswered \/ CommandResumes \/ CommandOnCore \/
             CommandLeaves
  BY <1>4 DEF CommandCall, CommandFinishes, CommandUnanswered, CommandResumes, CommandOnCore,
              CommandLeaves
<1>5. CASE SuspendExit
  BY <1>5 DEF SuspendExit
<1>6. CASE EnterAsserts \/ EnterSucceeds \/ EnterFails \/ AttachRemoteNoPid \/ Created
             \/ EnterLeaves
  BY <1>6 DEF EnterAsserts, EnterSucceeds, EnterFails, AttachRemoteNoPid, Created,
         EnterLeaves
<1>7. CASE ConnectFails \/ ConnectSucceeds
  BY <1>7 DEF ConnectFails, ConnectSucceeds
<1>8. CASE CoreFails \/ CoreLoads \/ CoreSuspended
  BY <1>8 DEF CoreFails, CoreLoads, CoreSuspended
<1>9. CASE RunEnter \/ WaitTimesOut \/ RunFinally
  BY <1>9 DEF RunEnter, WaitTimesOut, RunFinally
<1>10. CASE OtherEvent \/ RunningEvent \/ StoppedEvent \/ ExitedEvent \/ HandlerStarts
             \/ HandlerEnds
  BY <1>10 DEF OtherEvent, RunningEvent, StoppedEvent, ExitedEvent, HandlerStarts,
         HandlerEnds
<1>11. CASE CoroutineCall \/ CoroutineStarts \/ CoroutineYields \/ CoroutineReturns
             \/ CoroutineCancelled \/ CoroutineRaises \/ CoroutineExit
  BY <1>11 DEF CoroutineCall, CoroutineStarts, CoroutineYields, CoroutineReturns,
         CoroutineCancelled, CoroutineRaises, CoroutineExit
<1>12. CASE CoroutineOutlivesProcess \/ StepFails \/ CoroutineResumes \/ StepLeaves \/
             ResumeLeaves
  BY <1>12 DEF CoroutineOutlivesProcess, StepFails, CoroutineResumes, StepLeaves,
         ResumeLeaves
<1>13. CASE Lldb
  BY <1>13 DEF Lldb, LldbNext, InferiorStops, InferiorExits, InferiorActs,
         AnswerInterrupt, Room, driverVars
<1>14. CASE Interrupt
  BY <1>14 DEF Interrupt, InCommandHandler, RaiseHere, Cancel
<1>15. CASE UNCHANGED vars
  BY <1>15 DEF vars
<1> QED BY <1>1, <1>2, <1>3, <1>4, <1>5, <1>6, <1>7, <1>8, <1>9, <1>10, <1>11, <1>12,
        <1>13, <1>14, <1>15 DEF Next, Driver

\* The references the driver holds.
LEMMA ObjectStep == IInv /\ [Next]_vars => ObjectOK'
<1> SUFFICES ASSUME IInv, [Next]_vars PROVE ObjectOK'
  OBVIOUS
<1> USE DriverAssumption DEF Goto, Raise, Return, Callback, Drop, Discard, Finish,
        RunLeaves, Receive, Suspended, Resume, Terminate, Start, Connect, InCoroutine,
        WithIo, OnlyIfStarted, FireEvents, object, scopes, loop, corout, history, lldbVars,
        CoroutineEnds, Connected, IInv, Methods, HasProcess, HasConnection, ScopesOK,
        ControlOK, ObjectOK, InLoop, Running, Coroutine, CoOps, Suspending
<1>1. CASE \E o \in Methods : Allowed(o) /\ Call(o)
  BY <1>1 DEF Call, Allowed, HasConnection, Methods
<1>2. CASE ContCall \/ ContGo \/ ContLeaves
  BY <1>2 DEF ContCall, ContGo, ContLeaves
<1>3. CASE KillCall \/ KillFails \/ KillSucceeds \/ KillLoop \/ KillLeaves
  BY <1>3 DEF KillCall, KillFails, KillSucceeds, KillLoop, KillLeaves
<1>4. CASE CommandCall \/ CommandFinishes \/ CommandUnanswered \/ CommandResumes \/ CommandOnCore \/
             CommandLeaves
  BY <1>4 DEF CommandCall, CommandFinishes, CommandUnanswered, CommandResumes, CommandOnCore,
              CommandLeaves
<1>5. CASE SuspendExit
  <2>1. UNCHANGED <<lldbVars, object, ioState, result, op>>
    BY <1>5 DEF SuspendExit
  <2>2. pc' = "idle" \/ (pc' \in {"co_resume", "co_exit"} /\ inCo > 0)
    <3>1. CASE InCoroutine
      <4>1. pc' \in {"co_resume", "co_exit"}
        BY <1>5, <3>1, Zenon DEF SuspendExit
      <4>2. inCo > 0
        BY <1>5, <3>1 DEF SuspendExit, LocalsOK
      <4> QED BY <4>1, <4>2
    <3>2. CASE ~InCoroutine
      BY <1>5, <3>2, Zenon DEF SuspendExit
    <3> QED BY <3>1, <3>2
  <2> QED BY <1>5, <2>1, <2>2 DEF SuspendExit
<1>6. CASE EnterAsserts \/ EnterSucceeds \/ EnterFails \/ AttachRemoteNoPid \/ Created
             \/ EnterLeaves
  <2>1. CASE EnterAsserts
    BY <2>1 DEF EnterAsserts
  <2>2. CASE EnterSucceeds \/ EnterFails \/ AttachRemoteNoPid
    BY <2>2 DEF EnterSucceeds, EnterFails, AttachRemoteNoPid
  <2>3. CASE Created \/ EnterLeaves
    BY <2>3 DEF Created, EnterLeaves
  <2> QED BY <1>6, <2>1, <2>2, <2>3
<1>7. CASE ConnectFails \/ ConnectSucceeds
  BY <1>7 DEF ConnectFails, ConnectSucceeds
<1>8. CASE CoreFails \/ CoreLoads \/ CoreSuspended
  BY <1>8 DEF CoreFails, CoreLoads, CoreSuspended
<1>9. CASE RunEnter \/ WaitTimesOut \/ RunFinally
  <2>1. CASE RunEnter \/ WaitTimesOut
    BY <2>1 DEF RunEnter, WaitTimesOut
  <2>2. CASE RunFinally /\ result = "exited"
    BY <2>2 DEF RunFinally
  <2>3. CASE RunFinally /\ result # "exited"
    <3>1. io
      BY <2>3 DEF RunFinally
    <3>2. io'
      BY <2>3, <3>1, Zenon DEF RunFinally
    <3> QED BY <2>3, <3>2 DEF RunFinally
  <2> QED BY <1>9, <2>1, <2>2, <2>3
<1>10. CASE OtherEvent \/ RunningEvent \/ StoppedEvent \/ ExitedEvent \/ HandlerStarts
             \/ HandlerEnds
  BY <1>10 DEF OtherEvent, RunningEvent, StoppedEvent, ExitedEvent, HandlerStarts,
         HandlerEnds
<1>11. CASE CoroutineCall \/ CoroutineStarts \/ CoroutineYields \/ CoroutineReturns
             \/ CoroutineCancelled \/ CoroutineRaises \/ CoroutineExit
  BY <1>11 DEF CoroutineCall, CoroutineStarts, CoroutineYields, CoroutineReturns,
         CoroutineCancelled, CoroutineRaises, CoroutineExit
<1>12. CASE CoroutineOutlivesProcess \/ StepFails \/ CoroutineResumes \/ StepLeaves \/
             ResumeLeaves
  BY <1>12 DEF CoroutineOutlivesProcess, StepFails, CoroutineResumes, StepLeaves,
         ResumeLeaves
<1>13. CASE Lldb
  BY <1>13 DEF Lldb, LldbNext, InferiorStops, InferiorExits, InferiorActs,
         AnswerInterrupt, Room, driverVars
<1>14. CASE Interrupt
  BY <1>14 DEF Interrupt, InCommandHandler, RaiseHere, Cancel
<1>15. CASE UNCHANGED vars
  BY <1>15 DEF vars
<1> QED BY <1>1, <1>2, <1>3, <1>4, <1>5, <1>6, <1>7, <1>8, <1>9, <1>10, <1>11, <1>12,
        <1>13, <1>14, <1>15 DEF Next, Driver

\* What is left of a queue when its first event is taken.
LEMMA TailElements ==
    ASSUME NEW S, NEW q \in Seq(S), q # << >>
    PROVE  /\ Len(Tail(q)) = Len(q) - 1
           /\ \A i \in 1..Len(Tail(q)) : i + 1 \in 1..Len(q) /\ Tail(q)[i] = q[i + 1]
  OBVIOUS

\* What is left when it is replaced.
LEMMA HeadReplaced ==
    ASSUME NEW S, NEW q \in Seq(S), q # << >>, NEW e \in S
    PROVE  /\ Len(<<e>> \o Tail(q)) = Len(q)
           /\ (<<e>> \o Tail(q))[1] = e
           /\ \A i \in 2..Len(q) : (<<e>> \o Tail(q))[i] = q[i]
  OBVIOUS

(***************************************************************************)
(* What pwndbg has been told of the process, before the first Ctrl-C.      *)
(***************************************************************************)
Opening == op \in {"launch", "attach", "connect"}

ViewOK ==
    Undisturbed =>
        /\ exc # "Cancelled" /\ ~pending
        /\ (pc \in {"idle", "call"} /\ ReplLives) \/ pc \in {"co_count", "co_exit"} =>
              (HasProcess <=> view # "none")
        /\ pc \in Running \cup {"created"} /\ Opening => view = "none"
        /\ pc = "created" => HasProcess
        /\ pc = "core_created" => process
        /\ pc \notin {"idle", "call", "co_count", "co_exit"} /\ ~Opening =>
              (process <=> view # "none") /\ (process => inferior # "connected")

\* A connection without a process says so, and no other method sees one.
ConnectedOK ==
    Undisturbed /\ pc \in Running /\ Opening =>
        /\ pc = "run_handler" => inferior # "connected"
        /\ inferior = "connected" =>
              /\ \A i \in 1..Len(events) : events[i] = "connected"
              /\ pc # "run_enter" => result \notin {"stopped", "exited"}
        /\ last = "connected" /\ pc # "run_enter" => inferior = "connected"
        /\ (\E i \in 1..Len(events) : events[i] = "connected") => inferior = "connected"

(***************************************************************************)
(* Threads suspended by a coroutine.                                       *)
(***************************************************************************)
FrozenOK == frozen => op = "resume" /\ pc \in Running /\ exc = "none"

(***************************************************************************)
(* The listener's queue and the process, before the first Ctrl-C and with  *)
(* event handlers that do not raise.                                       *)
(***************************************************************************)
\* Events after which the process does not run.
Ends == {"stopped", "handled", "exited"}
NoneOf(q, E) == \A i \in 1..Len(q) : q[i] \notin E
EndsWith(q, e) == q # << >> /\ q[Len(q)] = e

\* Only the last event of a queue can be one of them.
EndsLast(q) == \A i \in 1..Len(q) - 1 : q[i] \notin Ends

Halted == process => inferior \in {"stopped", "connected"}
Clean == Halted /\ NoneOf(events, Ends \cup {"running"})

\* The queue tells the driver of what became of the process.
Followed ==
    /\ EndsLast(events)
    /\ inferior = "running" => NoneOf(events, Ends)
    /\ inferior = "exited" => EndsWith(events, "exited")
    /\ ~NoneOf(events, {"stopped", "handled"}) => inferior = "stopped"

\* Nothing makes the process run.
Still == inferior # "running" /\ NoneOf(events, {"running", "handled"})

QuietLabels == Labels \ (Running \cup {"kill_loop"})

ProcessOK ==
    /\ process <=> inferior # "none"
    /\ ~process => events = << >>
    /\ pc = "run_handler" => events # << >> /\ Head(events) = "handled"

ErrorsOK == exc = "Error" => op \in CoOps

FlowOK ==
    Undisturbed =>
        /\ ~asyncInt /\ ~pending
        /\ ReplLives =>
              /\ pc \in QuietLabels => Clean
              /\ pc \in {"run_finally", "run_leave"} => Halted /\ events = << >>
              /\ pc \in {"kill_loop", "run_enter", "run_wait", "run_handler"} /\ ~isCore =>
                    Followed
              /\ pc = "run_enter" /\ OnlyIfStarted => Still
              /\ pc \in {"run_wait", "run_handler"} /\ ~running => Still

\* pwndbg is told that a process was created first, and of no other event then.
LEMMA NotifiedStep == IInv /\ ViewOK /\ ConnectedOK /\ [Next]_vars => ViewOK'
<1> SUFFICES ASSUME IInv, ViewOK, ConnectedOK, [Next]_vars PROVE ViewOK'
  OBVIOUS
<1> USE DriverAssumption DEF Goto, Raise, Return, Callback, Drop, Discard, Finish,
        RunLeaves, Receive, Suspended, Resume, Terminate, Start, Connect, InCoroutine,
        WithIo, OnlyIfStarted, FireEvents, object, scopes, loop, corout, history, lldbVars,
        CoroutineEnds, Connected, HasProcess, HasConnection, IInv, ScopesOK, ControlOK,
        ObjectOK, InLoop, Running, Coroutine, CoOps, Suspending, ReplLives, Methods,
        ViewOK, ConnectedOK, Opening, Undisturbed, LocalsOK
<1>1. CASE \E o \in Methods : Allowed(o) /\ Call(o)
  BY <1>1 DEF Call, Allowed, HasConnection
<1>2. CASE ContCall \/ ContGo \/ ContLeaves
  BY <1>2 DEF ContCall, ContGo, ContLeaves
<1>3. CASE KillCall \/ KillFails \/ KillSucceeds \/ KillLoop \/ KillLeaves
  BY <1>3 DEF KillCall, KillFails, KillSucceeds, KillLoop, KillLeaves
<1>4. CASE CommandCall \/ CommandFinishes \/ CommandUnanswered \/ CommandResumes \/ CommandLeaves
  BY <1>4 DEF CommandCall, CommandFinishes, CommandUnanswered, CommandResumes, CommandLeaves
<1>5. CASE CommandOnCore
  <2>1. /\ pc' = "suspend_exit" /\ op' = op /\ op = "command" /\ UNCHANGED <<pending, sigints>>
        /\ exc' \in {exc, "Error"}
    BY <1>5 DEF CommandOnCore
  <2>2. UNCHANGED <<lldbVars, process, view>> \/ (process' = FALSE /\ view' = "none")
    BY <1>5, Zenon DEF CommandOnCore
  <2>3. UNCHANGED <<inferior, process, view>> \/ (~process' /\ view' = "none")
    BY <2>2
  <2>4. pc = "command"
    BY <1>5 DEF CommandOnCore
  <2> QED BY <2>1, <2>3, <2>4
<1>6. CASE SuspendExit
  BY <1>6 DEF SuspendExit
<1>7. CASE EnterAsserts \/ EnterSucceeds
  BY <1>7 DEF EnterAsserts, EnterSucceeds
<1>8. CASE EnterFails \/ AttachRemoteNoPid \/ Created
  BY <1>8 DEF EnterFails, AttachRemoteNoPid, Created
<1>9. CASE EnterLeaves
  BY <1>9 DEF EnterLeaves
<1>10. CASE ConnectFails \/ ConnectSucceeds
  BY <1>10 DEF ConnectFails, ConnectSucceeds
<1>11. CASE CoreFails \/ CoreLoads \/ CoreSuspended
  <2>1. CASE CoreFails
    BY <2>1 DEF CoreFails
  <2>2. CASE CoreLoads
    <3>1. /\ pc' \in {"idle", "core_created"} /\ exc' \in {exc, "Error"} /\ op' = op /\ op = "core"
          /\ UNCHANGED <<pending, sigints>> /\ inferior' = "stopped"
          /\ pc' = "idle" => exc' = "Error"
      BY <2>2 DEF CoreLoads
    <3>2. process' = TRUE /\ view' = "created"
      BY <2>2, Zenon DEF CoreLoads
    <3> QED BY <2>2, <3>1, <3>2
  <2>3. CASE CoreSuspended
    BY <2>3 DEF CoreSuspended
  <2> QED BY <1>11, <2>1, <2>2, <2>3
<1>12. CASE RunEnter \/ WaitTimesOut
  BY <1>12 DEF RunEnter, WaitTimesOut
<1>13. CASE RunFinally
  BY <1>13 DEF RunFinally
<1>14. CASE OtherEvent \/ RunningEvent
  BY <1>14 DEF OtherEvent, RunningEvent
<1>15. CASE StoppedEvent
  BY <1>15 DEF StoppedEvent
<1>16. CASE ExitedEvent
  BY <1>16 DEF ExitedEvent
<1>17. CASE HandlerStarts \/ HandlerEnds
  BY <1>17 DEF HandlerStarts, HandlerEnds
<1>18. CASE CoroutineCall \/ CoroutineStarts \/ CoroutineYields \/ CoroutineReturns
             \/ CoroutineCancelled \/ CoroutineRaises \/ CoroutineExit
  BY <1>18 DEF CoroutineCall, CoroutineStarts, CoroutineYields, CoroutineReturns,
         CoroutineCancelled, CoroutineRaises, CoroutineExit
<1>19. CASE CoroutineOutlivesProcess \/ StepFails \/ CoroutineResumes
  BY <1>19 DEF CoroutineOutlivesProcess, StepFails, CoroutineResumes
<1>20. CASE StepLeaves \/ ResumeLeaves
  BY <1>20 DEF StepLeaves, ResumeLeaves
<1>21. CASE Lldb
  BY <1>21 DEF Lldb, LldbNext, InferiorStops, InferiorExits, InferiorActs,
        
         AnswerInterrupt, Room, driverVars
<1>22. CASE Interrupt
  BY <1>22 DEF Interrupt, InCommandHandler, RaiseHere, Cancel
<1>23. CASE UNCHANGED vars
  BY <1>23 DEF vars
<1> QED BY <1>1, <1>2, <1>3, <1>4, <1>5, <1>6, <1>7, <1>8, <1>9, <1>10, <1>11, <1>12, <1>13,
        <1>14, <1>15, <1>16, <1>17, <1>18, <1>19, <1>20, <1>21, <1>22, <1>23 DEF Next,
        Driver

\* A connection without a process posts nothing but that it is one.
LEMMA ConnectedStep == IInv /\ EventsOK /\ ConnectedOK /\ [Next]_vars => ConnectedOK'
<1> SUFFICES ASSUME IInv, EventsOK, ConnectedOK, [Next]_vars PROVE ConnectedOK'
  OBVIOUS
<1> USE DriverAssumption DEF Goto, Raise, Return, Callback, Drop, Discard, Finish,
        RunLeaves, Receive, Suspended, Resume, Terminate, Start, Connect, InCoroutine,
        WithIo, OnlyIfStarted, FireEvents, object, scopes, loop, corout, history, lldbVars,
        CoroutineEnds, Connected, HasProcess, HasConnection, IInv, ScopesOK, ControlOK,
        ObjectOK, InLoop, Running, Coroutine, CoOps, Suspending, ReplLives, Methods,
        EventsOK, LldbRangesOK, ConnectedOK, Opening, Undisturbed, LocalsOK
<1>1. CASE \E o \in Methods : Allowed(o) /\ Call(o)
  BY <1>1 DEF Call, Allowed, HasConnection
<1>2. CASE ContCall \/ ContGo \/ ContLeaves
  BY <1>2 DEF ContCall, ContGo, ContLeaves
<1>3. CASE KillCall \/ KillFails \/ KillSucceeds \/ KillLoop \/ KillLeaves
  BY <1>3 DEF KillCall, KillFails, KillSucceeds, KillLoop, KillLeaves
<1>4. CASE CommandCall \/ CommandFinishes \/ CommandUnanswered \/ CommandResumes \/ CommandLeaves
  BY <1>4 DEF CommandCall, CommandFinishes, CommandUnanswered, CommandResumes, CommandLeaves
<1>5. CASE CommandOnCore
  BY <1>5 DEF CommandOnCore
<1>6. CASE SuspendExit
  BY <1>6 DEF SuspendExit
<1>7. CASE EnterAsserts \/ EnterSucceeds
  BY <1>7 DEF EnterAsserts, EnterSucceeds
<1>8. CASE EnterFails \/ AttachRemoteNoPid \/ Created
  BY <1>8 DEF EnterFails, AttachRemoteNoPid, Created
<1>9. CASE EnterLeaves
  BY <1>9 DEF EnterLeaves
<1>10. CASE ConnectFails \/ ConnectSucceeds
  BY <1>10 DEF ConnectFails, ConnectSucceeds
<1>11. CASE CoreFails \/ CoreLoads \/ CoreSuspended
  BY <1>11 DEF CoreFails, CoreLoads, CoreSuspended
<1>12. CASE RunEnter \/ WaitTimesOut
  BY <1>12 DEF RunEnter, WaitTimesOut
<1>13. CASE RunFinally
  BY <1>13 DEF RunFinally
<1>14. CASE OtherEvent \/ RunningEvent
  <2>1. CASE OtherEvent
    BY <2>1 DEF OtherEvent
  <2>2. CASE RunningEvent
    BY <2>2 DEF RunningEvent
  <2> QED BY <1>14, <2>1, <2>2
<1>15. CASE StoppedEvent
  BY <1>15 DEF StoppedEvent
<1>16. CASE ExitedEvent
  BY <1>16 DEF ExitedEvent
<1>17. CASE HandlerStarts \/ HandlerEnds
  <2>1. CASE HandlerStarts
    BY <2>1 DEF HandlerStarts
  <2>2. CASE HandlerEnds
    <3>1. CASE Undisturbed /\ Opening
      <4>1. inferior # "connected" /\ events # << >> /\ events \in Seq(EventKinds)
        BY <2>2, <3>1 DEF HandlerEnds
      <4>2. \/ inferior' = inferior /\ events' = <<"stopped">> \o Tail(events)
            \/ inferior' # "connected" /\ events' = Tail(events)
        BY <2>2, <4>1 DEF HandlerEnds
      <4>3. \A i \in 1..Len(events') :
               events'[i] = "connected" => \E j \in 1..Len(events) : events[j] = "connected"
        <5>1. CASE events' = <<"stopped">> \o Tail(events)
          BY <4>1, <5>1, HeadReplaced
        <5>2. CASE events' = Tail(events)
          BY <4>1, <5>2, TailElements
        <5> QED BY <4>2, <5>1, <5>2
      <4>4. inferior' # "connected" /\ UNCHANGED <<last, op, sigints>> /\ pc' = "run_wait"
        BY <2>2, <4>1, <4>2 DEF HandlerEnds
      <4> QED BY <2>2, <3>1, <4>3, <4>4 DEF HandlerEnds
    <3>2. CASE ~(Undisturbed /\ Opening)
      BY <2>2, <3>2 DEF HandlerEnds
    <3> QED BY <3>1, <3>2
  <2> QED BY <1>17, <2>1, <2>2
<1>18. CASE CoroutineCall \/ CoroutineStarts \/ CoroutineYields \/ CoroutineReturns
             \/ CoroutineCancelled \/ CoroutineRaises \/ CoroutineExit
  BY <1>18 DEF CoroutineCall, CoroutineStarts, CoroutineYields, CoroutineReturns,
         CoroutineCancelled, CoroutineRaises, CoroutineExit
<1>19. CASE CoroutineOutlivesProcess \/ StepFails \/ CoroutineResumes
  BY <1>19 DEF CoroutineOutlivesProcess, StepFails, CoroutineResumes
<1>20. CASE StepLeaves \/ ResumeLeaves
  BY <1>20 DEF StepLeaves, ResumeLeaves
<1>21. CASE Lldb
  BY <1>21 DEF Lldb, LldbNext, InferiorStops, InferiorExits, InferiorActs,
        
         AnswerInterrupt, Room, driverVars
<1>22. CASE Interrupt
  BY <1>22 DEF Interrupt, InCommandHandler, RaiseHere, Cancel
<1>23. CASE UNCHANGED vars
  BY <1>23 DEF vars
<1> QED BY <1>1, <1>2, <1>3, <1>4, <1>5, <1>6, <1>7, <1>8, <1>9, <1>10, <1>11, <1>12, <1>13,
        <1>14, <1>15, <1>16, <1>17, <1>18, <1>19, <1>20, <1>21, <1>22, <1>23 DEF Next,
        Driver

\* Suspended threads wait inside the event loop only, if no handler raises.
LEMMA FrozenStep ==
    ASSUME HandlersMayRaise = FALSE, IInv, FrozenOK, [Next]_vars
    PROVE  FrozenOK'
<1> USE DriverAssumption DEF Goto, Raise, Return, Callback, Drop, Discard, Finish,
        RunLeaves, Receive, Suspended, Resume, Terminate, Start, Connect, InCoroutine,
        WithIo, OnlyIfStarted, FireEvents, object, scopes, loop, corout, history, lldbVars,
        CoroutineEnds, Connected, HasProcess, HasConnection, IInv, ScopesOK, ControlOK,
        ObjectOK, InLoop, Running, Coroutine, CoOps, Suspending, ReplLives, Methods,
        FrozenOK
<1>1. CASE \E o \in Methods : Allowed(o) /\ Call(o)
  BY <1>1 DEF Call, Allowed, HasConnection
<1>2. CASE ContCall \/ ContGo \/ ContLeaves
  BY <1>2 DEF ContCall, ContGo, ContLeaves
<1>3. CASE KillCall \/ KillFails \/ KillSucceeds \/ KillLoop \/ KillLeaves
  BY <1>3 DEF KillCall, KillFails, KillSucceeds, KillLoop, KillLeaves
<1>4. CASE CommandCall \/ CommandFinishes \/ CommandUnanswered \/ CommandResumes \/ CommandLeaves
  BY <1>4 DEF CommandCall, CommandFinishes, CommandUnanswered, CommandResumes, CommandLeaves
<1>5. CASE CommandOnCore
  BY <1>5 DEF CommandOnCore
<1>6. CASE SuspendExit
  BY <1>6 DEF SuspendExit
<1>7. CASE EnterAsserts \/ EnterSucceeds
  BY <1>7 DEF EnterAsserts, EnterSucceeds
<1>8. CASE EnterFails \/ AttachRemoteNoPid \/ Created
  BY <1>8 DEF EnterFails, AttachRemoteNoPid, Created
<1>9. CASE EnterLeaves
  BY <1>9 DEF EnterLeaves
<1>10. CASE ConnectFails \/ ConnectSucceeds
  BY <1>10 DEF ConnectFails, ConnectSucceeds
<1>11. CASE CoreFails \/ CoreLoads \/ CoreSuspended
  BY <1>11 DEF CoreFails, CoreLoads, CoreSuspended
<1>12. CASE RunEnter \/ WaitTimesOut
  BY <1>12 DEF RunEnter, WaitTimesOut
<1>13. CASE RunFinally
  BY <1>13 DEF RunFinally
<1>14. CASE OtherEvent \/ RunningEvent
  BY <1>14 DEF OtherEvent, RunningEvent
<1>15. CASE StoppedEvent
  BY <1>15 DEF StoppedEvent
<1>16. CASE ExitedEvent
  BY <1>16 DEF ExitedEvent
<1>17. CASE HandlerStarts \/ HandlerEnds
  BY <1>17 DEF HandlerStarts, HandlerEnds
<1>18. CASE CoroutineCall \/ CoroutineStarts \/ CoroutineYields \/ CoroutineReturns
             \/ CoroutineCancelled \/ CoroutineRaises \/ CoroutineExit
  BY <1>18 DEF CoroutineCall, CoroutineStarts, CoroutineYields, CoroutineReturns,
         CoroutineCancelled, CoroutineRaises, CoroutineExit
<1>19. CASE CoroutineOutlivesProcess \/ StepFails \/ CoroutineResumes
  BY <1>19 DEF CoroutineOutlivesProcess, StepFails, CoroutineResumes
<1>20. CASE StepLeaves \/ ResumeLeaves
  BY <1>20 DEF StepLeaves, ResumeLeaves
<1>21. CASE Lldb
  BY <1>21 DEF Lldb, LldbNext, InferiorStops, InferiorExits, InferiorActs,
        
         AnswerInterrupt, Room, driverVars
<1>22. CASE Interrupt
  <2>1. CASE ~frozen
    BY <1>22, <2>1 DEF Interrupt, RaiseHere, Cancel
  <2>2. CASE frozen
    <3>1. inRun > 0 \/ hold > 0
      BY <2>2 DEF LocalsOK
    <3>2. UNCHANGED <<pc, op, exc, corout>>
      BY <1>22, <3>1 DEF Interrupt, InCommandHandler
    <3> QED BY <3>2
  <2> QED BY <2>1, <2>2
<1>23. CASE UNCHANGED vars
  BY <1>23 DEF vars
<1> QED BY <1>1, <1>2, <1>3, <1>4, <1>5, <1>6, <1>7, <1>8, <1>9, <1>10, <1>11, <1>12, <1>13,
        <1>14, <1>15, <1>16, <1>17, <1>18, <1>19, <1>20, <1>21, <1>22, <1>23 DEF Next,
        Driver

\* A step tells of a process in the order pwndbg relies on.
LEMMA OrderStep ==
    IInv /\ ViewOK /\ [Next]_vars =>
        [Undisturbed =>
           (view' = "created" => view = "none") /\ (view = "none" => view' = "created")]_view
<1> SUFFICES ASSUME IInv, ViewOK, [Next]_vars, Undisturbed, view' # view
             PROVE (view' = "created" => view = "none") /\ (view = "none" => view' = "created")
  OBVIOUS
<1>a. Driver => ContCall \/ Created \/ CoreLoads \/ CoreSuspended \/ CommandOnCore
                  \/ StoppedEvent \/ ExitedEvent
  <2>1. ~(ContGo \/ ContLeaves \/ KillCall \/ KillFails \/ KillSucceeds \/ KillLoop \/ KillLeaves
          \/ CommandCall \/ CommandFinishes \/ CommandUnanswered \/ CommandResumes
          \/ CommandLeaves \/ SuspendExit)
    BY DEF ContGo, ContLeaves, KillCall, KillFails, KillSucceeds, KillLoop, KillLeaves,
           CommandCall, CommandFinishes, CommandUnanswered, CommandResumes, CommandLeaves,
           SuspendExit
  <2>2. ~(EnterAsserts \/ EnterSucceeds \/ EnterFails \/ AttachRemoteNoPid \/ EnterLeaves
          \/ ConnectFails \/ ConnectSucceeds \/ CoreFails \/ RunEnter \/ WaitTimesOut
          \/ RunFinally)
    BY DEF EnterAsserts, EnterSucceeds, EnterFails, AttachRemoteNoPid, EnterLeaves, ConnectFails,
           ConnectSucceeds, CoreFails, RunEnter, WaitTimesOut, RunFinally
  <2>3. ~(OtherEvent \/ RunningEvent \/ HandlerStarts \/ HandlerEnds \/ CoroutineCall
          \/ CoroutineStarts \/ CoroutineYields \/ CoroutineReturns \/ CoroutineCancelled
          \/ CoroutineRaises \/ CoroutineExit)
    BY DEF OtherEvent, RunningEvent, HandlerStarts, HandlerEnds, CoroutineCall, CoroutineStarts,
           CoroutineYields, CoroutineReturns, CoroutineCancelled, CoroutineRaises, CoroutineExit
  <2>4. ~(CoroutineOutlivesProcess \/ StepFails \/ CoroutineResumes \/ StepLeaves \/ ResumeLeaves)
    BY DEF CoroutineOutlivesProcess, StepFails, CoroutineResumes, StepLeaves, ResumeLeaves
  <2> QED BY <2>1, <2>2, <2>3, <2>4, Zenon DEF Driver
<1> USE DriverAssumption DEF Goto, Raise, Return, Callback, Drop, Discard, Finish,
        RunLeaves, Receive, Suspended, Resume, Terminate, Start, Connect, InCoroutine,
        WithIo, OnlyIfStarted, FireEvents, object, scopes, loop, corout, history, lldbVars,
        CoroutineEnds, Connected, HasProcess, HasConnection, IInv, ScopesOK, ControlOK,
        ObjectOK, InLoop, Running, Coroutine, CoOps, Suspending, ReplLives, Methods,
        ViewOK, Opening, Undisturbed
<1>1. CASE ContCall \/ Created \/ CoreLoads \/ CoreSuspended \/ CommandOnCore
  <2>1. CASE ContCall
    BY <2>1 DEF ContCall
  <2>2. CASE Created
    BY <2>2 DEF Created
  <2>3. CASE CoreLoads
    BY <2>3 DEF CoreLoads
  <2>4. CASE CoreSuspended
    BY <2>4 DEF CoreSuspended
  <2>5. CASE CommandOnCore
    BY <2>5 DEF CommandOnCore
  <2> QED BY <1>1, <2>1, <2>2, <2>3, <2>4, <2>5
<1>2. CASE StoppedEvent \/ ExitedEvent
  BY <1>2 DEF StoppedEvent, ExitedEvent
<1>3. ContCall \/ Created \/ CoreLoads \/ CoreSuspended \/ CommandOnCore \/ StoppedEvent
        \/ ExitedEvent
  <2>1. CASE Driver
    BY <1>a, <2>1
  <2>2. CASE \E o \in Methods : Allowed(o) /\ Call(o)
    BY <2>2 DEF Call
  <2>3. CASE Lldb \/ Interrupt \/ UNCHANGED vars
    BY <2>3 DEF Lldb, driverVars, Interrupt, vars
  <2> QED BY <2>1, <2>2, <2>3 DEF Next
<1> QED BY <1>1, <1>2, <1>3

\* What a queue holds after an event is posted, or taken.
LEMMA QueuePosts ==
    ASSUME NEW q \in Seq(EventKinds), NEW e \in EventKinds
    PROVE  /\ \A E : NoneOf(q, E) /\ e \notin E => NoneOf(Append(q, e), E)
           /\ NoneOf(q, Ends) => EndsLast(Append(q, e))
           /\ EndsWith(Append(q, e), e)
<1>1. \A E : NoneOf(q, E) /\ e \notin E => NoneOf(Append(q, e), E)
  BY DEF NoneOf
<1>2. NoneOf(q, Ends) => EndsLast(Append(q, e))
  BY DEF NoneOf, EndsLast
<1>3. EndsWith(Append(q, e), e)
  BY DEF EndsWith
<1> QED BY <1>1, <1>2, <1>3

\* Taken: an event that ends a queue leaves it empty.
LEMMA QueueTakes ==
    ASSUME NEW q \in Seq(EventKinds), q # << >>
    PROVE  /\ \A E : NoneOf(q, E) => NoneOf(Tail(q), E) /\ Head(q) \notin E
           /\ EndsLast(q) => EndsLast(Tail(q))
           /\ EndsLast(q) /\ Head(q) \in Ends => Tail(q) = << >>
           /\ \A e : EndsWith(q, e) /\ Head(q) # e => EndsWith(Tail(q), e)
<1> DEFINE t == Tail(q)
<1>1. /\ t \in Seq(EventKinds) /\ Len(t) = Len(q) - 1 /\ Len(q) \in Nat \ {0}
      /\ Head(q) = q[1]
      /\ \A i \in 1..Len(t) : i + 1 \in 1..Len(q) /\ t[i] = q[i + 1]
  BY TailElements
<1> HIDE DEF t
<1>2. \A E : NoneOf(q, E) => NoneOf(t, E) /\ Head(q) \notin E
  BY <1>1 DEF NoneOf
<1>3. EndsLast(q) => EndsLast(t)
  BY <1>1 DEF EndsLast
<1>4. EndsLast(q) /\ Head(q) \in Ends => Len(t) = 0
  BY <1>1 DEF EndsLast
<1>5. Len(t) = 0 => t = << >>
  BY <1>1
<1>6. \A e : EndsWith(q, e) /\ Head(q) # e => EndsWith(t, e)
  BY <1>1 DEF EndsWith
<1> QED BY <1>2, <1>3, <1>4, <1>5, <1>6 DEF t

\* Queues of no event and of one.
LEMMA ShortQueues ==
    /\ \A E : NoneOf(<< >>, E)
    /\ EndsLast(<< >>)
    /\ \A e : EndsLast(<<e>>) /\ EndsWith(<<e>>, e)
    /\ \A E : \A e : e \notin E => NoneOf(<<e>>, E)
  BY DEF NoneOf, EndsLast, EndsWith

\* None of some events is none of fewer.
LEMMA FewerEvents ==
    ASSUME NEW q, NEW E, NEW D, D \subseteq E, NoneOf(q, E)
    PROVE  NoneOf(q, D)
  BY DEF NoneOf

\* Once the user has pressed Ctrl-C, he has.
LEMMA UndisturbedStep ==
    LocalsOK /\ [Next]_vars /\ Undisturbed' => Undisturbed /\ ~Interrupt
<1> SUFFICES ASSUME LocalsOK, [Next]_vars, Undisturbed' PROVE Undisturbed /\ ~Interrupt
  OBVIOUS
<1>1. ~Interrupt
  BY DEF Interrupt, LocalsOK, Undisturbed
<1>2. CASE Driver
  BY <1>1, <1>2 DEF Undisturbed, history, Driver, ContCall, Created, CoreLoads, CoreSuspended,
           CommandOnCore, StoppedEvent, ExitedEvent,
           ContGo, ContLeaves, KillCall, KillFails, KillSucceeds, KillLoop, KillLeaves, CommandCall,
           CommandFinishes, CommandUnanswered, CommandResumes, CommandLeaves, SuspendExit,
           EnterAsserts, EnterSucceeds, EnterFails, AttachRemoteNoPid, EnterLeaves, ConnectFails,
           ConnectSucceeds, CoreFails, RunEnter, WaitTimesOut, RunFinally, OtherEvent,
           RunningEvent, HandlerStarts, HandlerEnds, CoroutineCall, CoroutineStarts,
           CoroutineYields, CoroutineReturns, CoroutineCancelled, CoroutineRaises, CoroutineExit,
           CoroutineOutlivesProcess, StepFails, CoroutineResumes, StepLeaves, ResumeLeaves
<1>3. CASE (\E o \in Methods : Allowed(o) /\ Call(o)) \/ Lldb \/ UNCHANGED vars
  BY <1>1, <1>3 DEF Undisturbed, history, Call, Lldb, driverVars, vars
<1> QED BY <1>1, <1>2, <1>3 DEF Next

\* The driver drops the process object with its queue.
LEMMA ProcessStep == IInv /\ EventsOK /\ ProcessOK /\ [Next]_vars => ProcessOK'
<1> SUFFICES ASSUME IInv, EventsOK, ProcessOK, [Next]_vars PROVE ProcessOK'
  OBVIOUS
<1> USE DriverAssumption DEF Goto, Raise, Return, Callback, Drop, Discard, Finish,
        RunLeaves, Receive, Suspended, Resume, Terminate, Start, Connect, InCoroutine,
        WithIo, OnlyIfStarted, FireEvents, object, scopes, loop, corout, history, lldbVars,
        CoroutineEnds, Connected, HasProcess, HasConnection, IInv, ScopesOK, ControlOK,
        ObjectOK, InLoop, Running, Coroutine, CoOps, Suspending, ReplLives, Methods,
        ProcessOK, EventsOK, LldbRangesOK
<1>1. CASE \E o \in Methods : Allowed(o) /\ Call(o)
  BY <1>1 DEF Call, Allowed, HasConnection
<1>2. CASE ContCall \/ ContGo \/ ContLeaves
  BY <1>2 DEF ContCall, ContGo, ContLeaves
<1>3. CASE KillCall \/ KillFails \/ KillSucceeds \/ KillLoop \/ KillLeaves
  BY <1>3 DEF KillCall, KillFails, KillSucceeds, KillLoop, KillLeaves
<1>4. CASE CommandCall \/ CommandFinishes \/ CommandUnanswered \/ CommandResumes \/ CommandLeaves
  BY <1>4 DEF CommandCall, CommandFinishes, CommandUnanswered, CommandResumes, CommandLeaves
<1>5. CASE CommandOnCore
  <2>1. pc' = "suspend_exit" /\ (UNCHANGED lldbVars \/ Discard)
    BY <1>5, Zenon DEF CommandOnCore
  <2>2. (UNCHANGED lldbVars /\ process' = process) \/ (Discard /\ process' = FALSE)
    BY <1>5, Zenon DEF CommandOnCore
  <2>3. (UNCHANGED <<inferior, events, process>>)
          \/ (inferior' = "none" /\ events' = << >> /\ ~process')
    BY <2>2
  <2> QED BY <2>1, <2>3
<1>6. CASE SuspendExit
  BY <1>6 DEF SuspendExit
<1>7. CASE EnterAsserts \/ EnterSucceeds
  BY <1>7 DEF EnterAsserts, EnterSucceeds
<1>8. CASE EnterFails \/ AttachRemoteNoPid \/ Created
  BY <1>8 DEF EnterFails, AttachRemoteNoPid, Created
<1>9. CASE EnterLeaves
  BY <1>9 DEF EnterLeaves
<1>10. CASE ConnectFails \/ ConnectSucceeds
  BY <1>10 DEF ConnectFails, ConnectSucceeds
<1>11. CASE CoreFails \/ CoreLoads \/ CoreSuspended
  BY <1>11 DEF CoreFails, CoreLoads, CoreSuspended
<1>12. CASE RunEnter \/ WaitTimesOut
  BY <1>12 DEF RunEnter, WaitTimesOut
<1>13. CASE RunFinally
  BY <1>13 DEF RunFinally
<1>14. CASE OtherEvent \/ RunningEvent
  BY <1>14 DEF OtherEvent, RunningEvent
<1>15. CASE StoppedEvent
  BY <1>15 DEF StoppedEvent
<1>16. CASE ExitedEvent
  BY <1>16 DEF ExitedEvent
<1>17. CASE HandlerStarts \/ HandlerEnds
  BY <1>17 DEF HandlerStarts, HandlerEnds
<1>18. CASE CoroutineCall \/ CoroutineStarts \/ CoroutineYields \/ CoroutineReturns
             \/ CoroutineCancelled \/ CoroutineRaises \/ CoroutineExit
  BY <1>18 DEF CoroutineCall, CoroutineStarts, CoroutineYields, CoroutineReturns,
         CoroutineCancelled, CoroutineRaises, CoroutineExit
<1>19. CASE CoroutineOutlivesProcess \/ StepFails \/ CoroutineResumes
  BY <1>19 DEF CoroutineOutlivesProcess, StepFails, CoroutineResumes
<1>20. CASE StepLeaves \/ ResumeLeaves
  BY <1>20 DEF StepLeaves, ResumeLeaves
<1>21. CASE Lldb
  BY <1>21 DEF Lldb, LldbNext, InferiorStops, InferiorExits, InferiorActs,
        
         AnswerInterrupt, Room, driverVars
<1>22. CASE Interrupt
  BY <1>22 DEF Interrupt, InCommandHandler, RaiseHere, Cancel
<1>23. CASE UNCHANGED vars
  BY <1>23 DEF vars
<1> QED BY <1>1, <1>2, <1>3, <1>4, <1>5, <1>6, <1>7, <1>8, <1>9, <1>10, <1>11, <1>12, <1>13,
        <1>14, <1>15, <1>16, <1>17, <1>18, <1>19, <1>20, <1>21, <1>22, <1>23 DEF Next,
        Driver

\* Only a coroutine raises an error, if no handler does.
LEMMA ErrorsStep ==
    ASSUME HandlersMayRaise = FALSE, IInv, ErrorsOK, [Next]_vars
    PROVE  ErrorsOK'
<1> USE DriverAssumption DEF Goto, Raise, Return, Callback, Drop, Discard, Finish,
        RunLeaves, Receive, Suspended, Resume, Terminate, Start, Connect, InCoroutine,
        WithIo, OnlyIfStarted, FireEvents, object, scopes, loop, corout, history, lldbVars,
        CoroutineEnds, Connected, HasProcess, HasConnection, IInv, ScopesOK, ControlOK,
        ObjectOK, InLoop, Running, Coroutine, CoOps, Suspending, ReplLives, Methods,
        ErrorsOK
<1>1. CASE \E o \in Methods : Allowed(o) /\ Call(o)
  BY <1>1 DEF Call, Allowed, HasConnection
<1>2. CASE ContCall \/ ContGo \/ ContLeaves
  BY <1>2 DEF ContCall, ContGo, ContLeaves
<1>3. CASE KillCall \/ KillFails \/ KillSucceeds \/ KillLoop \/ KillLeaves
  BY <1>3 DEF KillCall, KillFails, KillSucceeds, KillLoop, KillLeaves
<1>4. CASE CommandCall \/ CommandFinishes \/ CommandUnanswered \/ CommandResumes \/ CommandLeaves
  BY <1>4 DEF CommandCall, CommandFinishes, CommandUnanswered, CommandResumes, CommandLeaves
<1>5. CASE CommandOnCore
  BY <1>5 DEF CommandOnCore
<1>6. CASE SuspendExit
  BY <1>6 DEF SuspendExit
<1>7. CASE EnterAsserts \/ EnterSucceeds
  BY <1>7 DEF EnterAsserts, EnterSucceeds
<1>8. CASE EnterFails \/ AttachRemoteNoPid \/ Created
  BY <1>8 DEF EnterFails, AttachRemoteNoPid, Created
<1>9. CASE EnterLeaves
  BY <1>9 DEF EnterLeaves
<1>10. CASE ConnectFails \/ ConnectSucceeds
  BY <1>10 DEF ConnectFails, ConnectSucceeds
<1>11. CASE CoreFails \/ CoreLoads \/ CoreSuspended
  BY <1>11 DEF CoreFails, CoreLoads, CoreSuspended
<1>12. CASE RunEnter \/ WaitTimesOut
  BY <1>12 DEF RunEnter, WaitTimesOut
<1>13. CASE RunFinally
  BY <1>13 DEF RunFinally
<1>14. CASE OtherEvent \/ RunningEvent
  BY <1>14 DEF OtherEvent, RunningEvent
<1>15. CASE StoppedEvent
  BY <1>15 DEF StoppedEvent
<1>16. CASE ExitedEvent
  BY <1>16 DEF ExitedEvent
<1>17. CASE HandlerStarts \/ HandlerEnds
  BY <1>17 DEF HandlerStarts, HandlerEnds
<1>18. CASE CoroutineCall \/ CoroutineStarts \/ CoroutineYields \/ CoroutineReturns
             \/ CoroutineCancelled \/ CoroutineRaises \/ CoroutineExit
  BY <1>18 DEF CoroutineCall, CoroutineStarts, CoroutineYields, CoroutineReturns,
         CoroutineCancelled, CoroutineRaises, CoroutineExit
<1>19. CASE CoroutineOutlivesProcess \/ StepFails \/ CoroutineResumes
  BY <1>19 DEF CoroutineOutlivesProcess, StepFails, CoroutineResumes
<1>20. CASE StepLeaves \/ ResumeLeaves
  BY <1>20 DEF StepLeaves, ResumeLeaves
<1>21. CASE Lldb
  BY <1>21 DEF Lldb, LldbNext, InferiorStops, InferiorExits, InferiorActs,
        
         AnswerInterrupt, Room, driverVars
<1>22. CASE Interrupt
  BY <1>22 DEF Interrupt, InCommandHandler, RaiseHere, Cancel
<1>23. CASE UNCHANGED vars
  BY <1>23 DEF vars
<1> QED BY <1>1, <1>2, <1>3, <1>4, <1>5, <1>6, <1>7, <1>8, <1>9, <1>10, <1>11, <1>12, <1>13,
        <1>14, <1>15, <1>16, <1>17, <1>18, <1>19, <1>20, <1>21, <1>22, <1>23 DEF Next,
        Driver

\* A quiet queue of a process that is there is one the event loop may begin with.
LEMMA CleanFollowed ==
    ASSUME EventsOK, process, Clean
    PROVE  Followed /\ Still
<1>1. NoneOf(events, Ends) /\ NoneOf(events, {"stopped", "handled"})
        /\ NoneOf(events, {"running", "handled"})
  BY FewerEvents DEF Clean, Ends
<1>2. EndsLast(events)
  BY <1>1 DEF EventsOK, LldbRangesOK, NoneOf, EndsLast
<1> QED BY <1>1, <1>2 DEF Followed, Still, Clean, Halted

\* So is the one after the process is resumed,
LEMMA ResumeFollowed ==
    ASSUME EventsOK, process, Clean, Resume
    PROVE  Followed'
<1>1. events \in Seq(EventKinds) /\ "running" \in EventKinds
  BY DEF EventsOK, LldbRangesOK, EventKinds
<1>2. CASE inferior = "stopped"
  <2>1. inferior' = "running" /\ events' = Append(events, "running")
    BY <1>2 DEF Resume
  <2>2. NoneOf(events, Ends) /\ NoneOf(events, {"stopped", "handled"})
    BY FewerEvents DEF Clean, Ends
  <2>3. EndsLast(events') /\ NoneOf(events', Ends) /\ NoneOf(events', {"stopped", "handled"})
    BY <1>1, <2>1, <2>2, QueuePosts DEF Ends
  <2> QED BY <2>1, <2>3 DEF Followed
<1>3. CASE inferior # "stopped"
  <2>1. UNCHANGED <<inferior, events>>
    BY <1>3 DEF Resume
  <2> QED BY <2>1, CleanFollowed DEF Followed, EndsLast, EndsWith, NoneOf, Ends
<1> QED BY <1>2, <1>3

\* and after it is killed.
LEMMA TerminateFollowed ==
    ASSUME EventsOK, process, Clean, Terminate
    PROVE  Followed' /\ Still'
<1>1. events \in Seq(EventKinds) /\ "exited" \in EventKinds
  BY DEF EventsOK, LldbRangesOK, EventKinds
<1>2. inferior' = "exited" /\ events' = Append(events, "exited")
  BY DEF Terminate, Clean, Halted
<1>3. NoneOf(events, Ends) /\ NoneOf(events, {"stopped", "handled"})
        /\ NoneOf(events, {"running", "handled"})
  BY FewerEvents DEF Clean, Ends
<1>4. EndsLast(events') /\ EndsWith(events', "exited") /\ NoneOf(events', {"stopped", "handled"})
        /\ NoneOf(events', {"running", "handled"})
  BY <1>1, <1>2, <1>3, QueuePosts
<1> QED BY <1>2, <1>4 DEF Followed, Still

\* What LLDB posts on its own keeps the queue so, and it posts only if the process runs.
LEMMA LldbFollowed ==
    ASSUME EventsOK, Followed, ~asyncInt, LldbNext
    PROVE  Followed' /\ inferior = "running" /\ ~asyncInt'
<1>1. events \in Seq(EventKinds)
  BY DEF EventsOK, LldbRangesOK
<1>2. inferior = "running" /\ NoneOf(events, Ends)
  BY DEF LldbNext, InferiorStops, InferiorExits, InferiorActs, AnswerInterrupt, Followed
<1>3. NoneOf(events, {"stopped", "handled"})
  BY <1>2, FewerEvents DEF Ends
<1>4. CASE InferiorStops
  <2>1. PICK e \in {"stopped", "handled"} : events' = Append(events, e)
    BY <1>4 DEF InferiorStops
  <2>2. e \in EventKinds
    BY DEF EventKinds
  <2>3. EndsLast(events')
    BY <1>1, <1>2, <2>1, <2>2, QueuePosts
  <2> QED BY <1>2, <1>4, <2>3 DEF InferiorStops, Followed
<1>5. CASE InferiorExits
  <2>1. "exited" \in EventKinds /\ events' = Append(events, "exited") /\ inferior' = "exited"
    BY <1>5 DEF InferiorExits, EventKinds
  <2>2. EndsLast(events') /\ EndsWith(events', "exited")
          /\ NoneOf(events', {"stopped", "handled"})
    BY <1>1, <1>2, <1>3, <2>1, QueuePosts
  <2> QED BY <1>2, <1>5, <2>1, <2>2 DEF InferiorExits, Followed
<1>6. CASE InferiorActs
  <2>1. PICK e \in {"output", "modules"} : events' = Append(events, e)
    BY <1>6 DEF InferiorActs
  <2>2. e \in EventKinds /\ e \notin Ends
    BY DEF EventKinds, Ends
  <2>3. EndsLast(events') /\ NoneOf(events', Ends) /\ NoneOf(events', {"stopped", "handled"})
    BY <1>1, <1>2, <1>3, <2>1, <2>2, QueuePosts DEF Ends
  <2> QED BY <1>2, <1>6, <2>3 DEF InferiorActs, Followed
<1> QED BY <1>4, <1>5, <1>6 DEF LldbNext, AnswerInterrupt

\* All this depends on the process and its queue only.
LEMMA SameQueue ==
    ASSUME UNCHANGED <<inferior, events, process>>
    PROVE  /\ Clean' <=> Clean
           /\ Halted' <=> Halted
           /\ Followed' <=> Followed
           /\ Still' <=> Still
  BY DEF Clean, Halted, Followed, Still, NoneOf, EndsLast, EndsWith, Ends

\* The event loop leaves when the queue has told it that the process does not run.
LEMMA FlowStep ==
    ASSUME HandlersMayRaise = FALSE, IInv, EventsOK, ViewOK, ProcessOK, ErrorsOK, FlowOK,
           [Next]_vars
    PROVE  FlowOK'
<1> SUFFICES ASSUME Undisturbed, Undisturbed', ~Interrupt PROVE FlowOK'
  BY UndisturbedStep DEF FlowOK, IInv
<1> USE DriverAssumption DEF Goto, Raise, Return, Callback, Drop, Discard, Finish,
        RunLeaves, Receive, Suspended, InCoroutine, WithIo, OnlyIfStarted,
        FireEvents, object, scopes, loop, corout, history, lldbVars, CoroutineEnds, Connected,
        HasProcess, HasConnection, IInv, ScopesOK, ControlOK, ObjectOK, InLoop, Running,
        Coroutine, CoOps, Suspending, ReplLives, Methods, FlowOK, Undisturbed, ProcessOK,
        ErrorsOK, QuietLabels, Labels
<1>a. Clean /\ process => Followed /\ Still
  BY CleanFollowed
<1>b. events = << >> /\ Halted => Clean
  BY ShortQueues DEF Clean
<1>c. events = << >> /\ Halted => Followed
  BY ShortQueues DEF Halted, Followed
<1>d. process' = FALSE /\ events' = << >> => Clean'
  BY ShortQueues DEF Clean, Halted
<1>e. events \in Seq(EventKinds)
  BY DEF EventsOK, LldbRangesOK
<1>1. CASE \E o \in Methods : Allowed(o) /\ Call(o)
  BY <1>1, <1>a, <1>b, SameQueue DEF Call
<1>2. CASE ContCall \/ ContLeaves
  BY <1>2, <1>a, <1>b, SameQueue DEF ContCall, ContLeaves
<1>3. CASE KillCall \/ KillFails \/ KillLoop \/ KillLeaves
  <2>1. CASE KillCall \/ KillFails \/ KillLeaves
    BY <2>1, <1>a, <1>b, <1>c, SameQueue DEF KillCall, KillFails, KillLeaves
  <2>2. CASE KillLoop
    <3>1. /\ pc = "kill_loop" /\ op = "kill" /\ exc = "none" /\ exc' = exc /\ op' = op
          /\ UNCHANGED <<inferior, events, asyncInt, process, isCore, pending, running>>
      BY <2>2 DEF KillLoop
    <3>2. pc' = "run_enter" \/ (pc' = "suspend_exit" /\ ~HasProcess)
      BY <2>2 DEF KillLoop
    <3>3. ~HasProcess => Clean
      BY <1>b, <3>1 DEF ViewOK, Opening, Halted
    <3> QED BY <3>1, <3>2, <3>3, SameQueue
  <2> QED BY <1>3, <2>1, <2>2
<1>4. CASE CommandCall \/ CommandUnanswered \/ CommandLeaves
  BY <1>4, <1>a, <1>b, SameQueue DEF CommandCall, CommandUnanswered, CommandLeaves
<1>5. CASE SuspendExit
  BY <1>5, <1>a, <1>b, SameQueue DEF SuspendExit
<1>6. CASE EnterAsserts \/ Created
  BY <1>6, <1>a, <1>b, SameQueue DEF EnterAsserts, Created
<1>7. CASE EnterLeaves
  BY <1>7, <1>a, <1>b, SameQueue DEF EnterLeaves
<1>8. CASE CoreSuspended
  BY <1>8, <1>a, <1>b, SameQueue DEF CoreSuspended
<1>9. CASE RunEnter
  BY <1>9, <1>a, <1>b, SameQueue DEF RunEnter
<1>10. CASE WaitTimesOut \/ RunFinally
  <2>1. CASE RunFinally
    BY <2>1, SameQueue DEF RunFinally
  <2>2. CASE WaitTimesOut
    <3>1. /\ pc = "run_wait" /\ pc' = "run_finally" /\ events = << >> /\ ~running
          /\ UNCHANGED <<inferior, events, asyncInt, process, isCore, pending, running>>
          /\ exc = "none" /\ exc' = exc /\ op' = op
      BY <2>2 DEF WaitTimesOut
    <3>2. Still /\ Followed
      BY <3>1
    <3>3. inferior \notin {"running", "exited", "none"}
      BY <3>1, <3>2 DEF Still, Followed, EndsWith
    <3>4. Halted
      BY <3>3 DEF Halted, EventsOK, LldbRangesOK, InferiorStates
    <3> QED BY <3>1, <3>4, SameQueue
  <2> QED BY <1>10, <2>1, <2>2
<1>11. CASE HandlerStarts
  BY <1>11, <1>a, <1>b, SameQueue DEF HandlerStarts
<1>12. CASE CoroutineCall \/ CoroutineStarts \/ CoroutineYields \/ CoroutineReturns
             \/ CoroutineCancelled \/ CoroutineRaises \/ CoroutineExit
  BY <1>12, <1>a, <1>b, SameQueue DEF CoroutineCall, CoroutineStarts, CoroutineYields,
         CoroutineReturns, CoroutineCancelled, CoroutineRaises, CoroutineExit
<1>13. CASE CoroutineOutlivesProcess \/ StepFails
  BY <1>13, <1>a, <1>b, SameQueue DEF CoroutineOutlivesProcess, StepFails
<1>14. CASE StepLeaves \/ ResumeLeaves
  BY <1>14, <1>a, <1>b, SameQueue DEF StepLeaves, ResumeLeaves
<1>15. CASE UNCHANGED vars
  BY <1>15, <1>a, <1>b, SameQueue DEF vars
<1>30. CASE ContGo
  BY <1>30, ResumeFollowed DEF ContGo, Resume
<1>31. CASE KillSucceeds
  <2>1. Clean /\ process /\ pc' = "kill_loop"
    BY <1>31 DEF KillSucceeds
  <2>2. CASE isCore
    BY <1>31, <2>1, <2>2 DEF KillSucceeds
  <2>3. CASE ~isCore
    BY <1>31, <2>1, <2>3, TerminateFollowed DEF KillSucceeds, Terminate
  <2> QED BY <2>2, <2>3
<1>32. CASE CommandFinishes
  <2>1. Clean /\ process /\ ~isCore /\ pc' = "run_enter" /\ op' = "poll"
    BY <1>32 DEF CommandFinishes
  <2>2. CASE UNCHANGED lldbVars
    BY <1>32, <1>a, <2>1, <2>2, SameQueue DEF CommandFinishes
  <2>3. CASE Terminate
    BY <1>32, <2>1, <2>3, TerminateFollowed DEF CommandFinishes, CommandUnanswered, Terminate
  <2> QED BY <1>32, <2>2, <2>3 DEF CommandFinishes
<1>33. CASE CommandResumes
  BY <1>33, ResumeFollowed DEF CommandResumes, Resume
<1>34. CASE CommandOnCore
  <2>1. Clean /\ pc' = "suspend_exit" /\ UNCHANGED <<op, exc, pending, sigints>>
    BY <1>34 DEF CommandOnCore
  <2>2. Clean' /\ ~asyncInt'
    <3>1. CASE UNCHANGED <<lldbVars, object, view>>
      BY <2>1, <3>1, SameQueue
    <3>2. CASE Discard /\ process' = FALSE
      BY <1>d, <3>2
    <3> QED BY <1>34, <3>1, <3>2, Zenon DEF CommandOnCore
  <2> QED BY <2>1, <2>2
<1>35. CASE EnterSucceeds
  <2>1. PICK e \in {"stopped", "exited"} : inferior' = e /\ events' = <<e>>
    BY <1>35 DEF EnterSucceeds, Start
  <2>2. Followed'
    BY <2>1, ShortQueues DEF Followed
  <2> QED BY <1>35, <2>2 DEF EnterSucceeds, Start
<1>36. CASE EnterFails \/ AttachRemoteNoPid
  BY <1>36, <1>d DEF EnterFails, AttachRemoteNoPid
<1>37. CASE ConnectFails
  <2>1. CASE HasConnection
    BY <1>37, <2>1, SameQueue DEF ConnectFails
  <2>2. CASE ~HasConnection
    BY <1>37, <1>d, <2>2 DEF ConnectFails
  <2> QED BY <2>1, <2>2
<1>38. CASE ConnectSucceeds
  <2>1. PICK e \in {"connected", "stopped", "exited"} : inferior' = e /\ events' = <<e>>
    BY <1>38 DEF ConnectSucceeds, Connect
  <2>2. Followed' /\ Still'
    BY <2>1, ShortQueues DEF Followed, Still
  <2> QED BY <1>38, <2>2 DEF ConnectSucceeds, Connect
<1>39. CASE CoreFails
  BY <1>39, <1>d DEF CoreFails
<1>40. CASE CoreLoads
  <2>1. Clean'
    BY <1>40, ShortQueues DEF CoreLoads, Clean, Halted
  <2> QED BY <1>40, <2>1 DEF CoreLoads
<1>41. CASE OtherEvent
  <2>1. PICK e \in {"output", "connected", "modules"} : Receive(e) /\ pc' = "run_wait"
    BY <1>41 DEF OtherEvent
  <2>2. /\ events # << >> /\ Head(events) = e /\ events' = Tail(events)
        /\ UNCHANGED <<inferior, asyncInt, object, scopes, op, exc, running, sigints>>
    BY <1>41, <2>1 DEF OtherEvent
  <2>3. Followed => Followed'
    BY <1>e, <2>1, <2>2, QueueTakes DEF Followed
  <2>4. Still => Still'
    BY <1>e, <2>1, <2>2, QueueTakes DEF Still
  <2> QED BY <2>1, <2>2, <2>3, <2>4
<1>42. CASE RunningEvent
  <2>1. /\ events # << >> /\ Head(events) = "running" /\ events' = Tail(events)
        /\ pc = "run_wait" /\ running' = TRUE
        /\ UNCHANGED <<inferior, asyncInt, object, scopes, op, sigints>>
    BY <1>42 DEF RunningEvent
  <2>2. Followed => Followed'
    BY <1>e, <2>1, QueueTakes DEF Followed
  <2>3. (pc' = "run_wait" /\ exc' = exc)
          \/ (pc' = "run_finally" /\ exc' = "Assertion" /\ op = "poll")
    <3>1. CASE OnlyIfStarted /\ WithIo
      BY <1>42, <3>1, Zenon DEF RunningEvent
    <3>2. CASE ~(OnlyIfStarted /\ WithIo)
      BY <1>42, <3>2, Zenon DEF RunningEvent
    <3> QED BY <3>1, <3>2
  <2> QED BY <2>1, <2>2, <2>3
<1>43. CASE StoppedEvent
  <2>1. /\ events # << >> /\ Head(events) = "stopped" /\ events' = Tail(events)
        /\ pc = "run_wait" /\ pc' = "run_finally" /\ exc = "none" /\ exc' = "none"
        /\ UNCHANGED <<inferior, asyncInt, object, scopes, op, sigints>>
    BY <1>43 DEF StoppedEvent
  <2>2. Followed
    BY <2>1
  <2>3. events' = << >> /\ inferior = "stopped"
    BY <1>e, <2>1, <2>2, QueueTakes DEF Followed, Ends
  <2> QED BY <2>1, <2>3 DEF Halted
<1>44. CASE ExitedEvent
  BY <1>44 DEF ExitedEvent, Halted
<1>45. CASE HandlerEnds
  <2>1. Followed /\ events # << >> /\ Head(events) = "handled"
    BY <1>45 DEF HandlerEnds
  <2>2. Tail(events) = << >> /\ inferior = "stopped"
    BY <1>e, <2>1, QueueTakes DEF Followed, Ends
  <2>5. ~Still
    BY <1>e, <2>1, QueueTakes DEF Still
  <2>3. \/ events' = <<"stopped">> /\ inferior' = "stopped"
        \/ events' = << >> /\ inferior' = "running"
    BY <1>45, <2>2 DEF HandlerEnds
  <2>4. Followed'
    BY <2>3, ShortQueues DEF Followed
  <2> QED BY <1>45, <2>2, <2>4, <2>5 DEF HandlerEnds
<1>46. CASE CoroutineResumes
  BY <1>46, ResumeFollowed DEF CoroutineResumes, Resume
<1>47. CASE Lldb
  <2>1. UNCHANGED <<process, isCore, pending, pc, op, exc, running, sigints>> /\ LldbNext
    BY <1>47 DEF Lldb, driverVars
  <2>2. ~asyncInt /\ inferior = "running"
    BY <2>1 DEF LldbNext, InferiorStops, InferiorExits, InferiorActs, AnswerInterrupt
  <2>3. ~asyncInt'
    BY <2>1, <2>2 DEF LldbNext, InferiorStops, InferiorExits, InferiorActs, AnswerInterrupt
  <2>4. ~Clean /\ ~Halted /\ ~Still
    BY <2>2 DEF Clean, Halted, Still
  <2>5. Followed => Followed'
    BY <2>1, <2>2, LldbFollowed
  <2> QED BY <2>1, <2>2, <2>3, <2>4, <2>5
<1> QED BY <1>1, <1>2, <1>3, <1>4, <1>5, <1>6, <1>7, <1>8, <1>9, <1>10, <1>11, <1>12, <1>13, <1>14,
        <1>15, <1>30, <1>31, <1>32, <1>33, <1>34, <1>35, <1>36, <1>37, <1>38, <1>39, <1>40,
        <1>41, <1>42, <1>43, <1>44, <1>45, <1>46, <1>47 DEF Next, Driver

LEMMA InitInv == Init => FlagsOK /\ EventsOK /\ ExceptionsOK /\ IInv
<1> SUFFICES ASSUME Init PROVE FlagsOK /\ EventsOK /\ ExceptionsOK /\ IInv
  OBVIOUS
<1> USE DriverAssumption DEF Init, LldbInit
<1>1. FlagsOK
  BY Zenon DEF FlagsOK
<1>2. EventsOK /\ ExceptionsOK
  BY DEF EventsOK, LldbRangesOK, InferiorStates, ExceptionsOK
<1>3. LocalsOK
  BY DEF LocalsOK, Labels, Exceptions
<1>4. ScopesOK /\ ControlOK /\ ObjectOK
  BY DEF ScopesOK, ControlOK, ObjectOK, InLoop, Running, Coroutine, CoOps, Suspending
<1> QED BY <1>1, <1>2, <1>3, <1>4 DEF IInv

LEMMA StepInv == IInv /\ [Next]_vars => IInv'
  BY LocalsStep, ScopesStep, ControlStep, ObjectStep DEF IInv

LEMMA Invariant == Spec => []IInv
  BY InitInv, StepInv, PTL DEF Spec

(***************************************************************************)
(* The theorems.                                                           *)
(***************************************************************************)
\* Every variable has a value of its kind.
THEOREM TypeCorrect == Spec => []TypeOK
<1>1. EventsOK => LldbRangesOK
  BY DEF EventsOK
<1>2. Spec => [](FlagsOK /\ EventsOK /\ ExceptionsOK)
  BY InitInv, FlagsStep, EventsStep, ExceptionsStep, PTL DEF Spec
<1> QED BY <1>1, <1>2, Invariant, PTL DEF TypeOK, IInv

\* However a method ends, no scope counter is left high and no cancellation pending,
\* but for _in_run_coroutine, high by one for every Ctrl-C between the counter's
\* assignment and its try statement, and for what it makes pending.
THEOREM ScopesAreBalanced == Spec => []ScopesBalanced
<1>1. IInv => ScopesBalanced
  BY DEF IInv, LocalsOK, ScopesOK, ControlOK, ScopesBalanced, Suspending, InLoop, Running,
         CoOps
<1> QED BY <1>1, Invariant, PTL

\* A cancellation is pending only inside the with statement that delivers it, as
\* long as no Ctrl-C has left that counter high.
THEOREM PendingCancellationIsScoped == Spec => []PendingIsScoped
<1>1. IInv => PendingIsScoped
  BY DEF IInv, LocalsOK, ScopesOK, PendingIsScoped
<1> QED BY <1>1, Invariant, PTL

\* The I/O driver runs only inside the event loop, and only if there is one.
THEOREM IoIsInsideTheLoop == Spec => []IoOnlyInRunLoop
<1>1. IInv => IoOnlyInRunLoop
  BY DEF IInv, ScopesOK, ObjectOK, InLoop, IoOnlyInRunLoop
<1> QED BY <1>1, Invariant, PTL

\* The event loop waits for a live process, with its listener and I/O driver.
THEOREM TheLoopListens == Spec => []RunLoopListens
<1>1. IInv => RunLoopListens
  BY DEF IInv, ObjectOK, Coroutine, RunLoopListens
<1> QED BY <1>1, Invariant, PTL

\* Before the first Ctrl-C, what pwndbg knows of the process is what there is.
LEMMA Notified == Spec => [](ViewOK /\ ConnectedOK)
<1>1. Init => ViewOK /\ ConnectedOK
  BY DEF Init, LldbInit, ViewOK, ConnectedOK, Running, InLoop, HasProcess, Undisturbed
<1>2. IInv /\ EventsOK /\ (ViewOK /\ ConnectedOK) /\ [Next]_vars => (ViewOK /\ ConnectedOK)'
  BY NotifiedStep, ConnectedStep
<1>3. Spec => []EventsOK
  BY InitInv, EventsStep, PTL DEF Spec
<1> QED BY <1>1, <1>2, <1>3, Invariant, PTL DEF Spec

\* Until the first Ctrl-C pwndbg hears first that a process was created, once, for
\* any commands, coroutines and event handlers, those that raise included.
THEOREM EventsInOrder == Spec => EventOrder
<1>1. IInv /\ ViewOK /\ [Next]_vars =>
        [Undisturbed =>
           (view' = "created" => view = "none") /\ (view = "none" => view' = "created")]_view
  BY OrderStep
<1> QED BY <1>1, Invariant, Notified, PTL DEF Spec, EventOrder

\* The threads suspended for a coroutine run again when the prompt comes back,
\* whatever interrupts it, unless a handler of pwndbg raises in the event loop.
THEOREM ThreadsAreThawed ==
    ASSUME HandlersMayRaise = FALSE
    PROVE  Spec => []ThreadsThawed
<1>1. Init => FrozenOK
  BY DEF Init, FrozenOK
<1>2. IInv /\ FrozenOK /\ [Next]_vars => FrozenOK'
  BY FrozenStep
<1>3. FrozenOK => ThreadsThawed
  BY DEF FrozenOK, Running, InLoop, ThreadsThawed
<1> QED BY <1>1, <1>2, <1>3, Invariant, PTL DEF Spec

\* Until the first Ctrl-C every method leaves the process stopped, or none, and no
\* event of it in the queue, unless a handler of pwndbg raises in the event loop.
THEOREM PromptStaysClean ==
    ASSUME HandlersMayRaise = FALSE
    PROVE  Spec => []PromptIsClean
<1> DEFINE J == ProcessOK /\ ErrorsOK /\ FlowOK
<1>1. Init => J
  BY ShortQueues
     DEF Init, LldbInit, ProcessOK, ErrorsOK, FlowOK, Clean, Halted, Running, InLoop
<1>2. IInv /\ EventsOK /\ ViewOK /\ J /\ [Next]_vars => J'
  BY ProcessStep, ErrorsStep, FlowStep
<1>3. IInv /\ J => PromptIsClean
  <2> SUFFICES ASSUME IInv, J, pc = "idle", Undisturbed, exc # "Assertion"
               PROVE  /\ process => inferior \in {"stopped", "connected"}
                      /\ \A e \in {"stopped", "running", "exited", "handled"} :
                            ~Contains(events, e)
    BY DEF PromptIsClean
  <2>1. ReplLives
    BY DEF IInv, LocalsOK, Exceptions, ErrorsOK, CoOps, ReplLives
  <2>2. Clean
    BY <2>1 DEF FlowOK, QuietLabels, Labels, Running, InLoop
  <2> QED BY <2>2 DEF Clean, Halted, NoneOf, Ends, Contains
<1>4. Spec => []EventsOK
  BY InitInv, EventsStep, PTL DEF Spec
<1> HIDE DEF J
<1> QED BY <1>1, <1>2, <1>3, <1>4, Invariant, Notified, PTL DEF Spec

-----------------------------------------------------------------------------
(***************************************************************************)
(* The REPL.                                                               *)
(***************************************************************************)

\* The driver has a process, and a method of it runs, only while LLDB has a target;
\* so it has no process to forget when a core file is loaded.
Targeted ==
    process \/ pc # "idle" \/ rpc \in {"launch", "killed", "resuming"} => target

\* Every step is a call the driver accepts where it is, a step of the driver, of
\* LLDB or of the user, or none of the driver's business.
LEMMA StepImplements == Targeted /\ [ReplNext]_allVars => [Next]_vars
<1> SUFFICES ASSUME Targeted, [ReplNext]_allVars PROVE [Next]_vars
  OBVIOUS
<1>1. CASE User
  <2>1. CASE UserCreatesTarget
    BY <2>1 DEF UserCreatesTarget, Targeted, HasConnection, Allowed, Next, Methods
  <2>2. CASE UserLaunches \/ UserAttaches \/ UserConnects \/ UserContinues
               \/ UserCommands \/ UserDeletesTarget
    BY <2>2 DEF UserLaunches, UserAttaches, UserConnects, UserContinues, UserCommands,
                UserDeletesTarget, Allowed, Next, Methods
  <2> QED BY <1>1, <2>1, <2>2 DEF User
<1>2. CASE Repl
  BY <1>2 DEF Repl, CommandRaised, KillDone, Launch, LaunchFailed, LaunchStays, LaunchGoes,
              LaunchResumes, SimplyDone, Command, CommandDone, ControllerStarts,
              ControllerDone, ControllersCleared, Allowed, Next, Methods
<1>3. CASE DriverRuns \/ LldbRuns \/ UserInterrupts
  BY <1>3 DEF DriverRuns, LldbRuns, UserInterrupts, Next
<1>4. CASE UNCHANGED allVars
  BY <1>4 DEF allVars
<1> QED BY <1>1, <1>2, <1>3, <1>4 DEF ReplNext

-----------------------------------------------------------------------------
(* Type correctness.                                                        *)

\* Only a resumed event that cont() fires on its own shows as `resumed'.
LEMMA ViewStep ==
    ASSUME ControlOK, Driver
    PROVE  \/ pc = "call" /\ op = "cont" /\ exc' # "Assertion"
           \/ view' = view
           \/ view' \in {"created", "suspended", "none"} /\ (view' = "none" => view # "none")
<1> USE DEF Goto, Raise, Return, Callback, Drop, Discard, Finish,
        RunLeaves, Receive, Suspended, object, scopes, loop, corout, history, lldbVars,
        CoroutineEnds, WithIo, OnlyIfStarted, FireEvents
<1>1. CASE ContCall \/ ContGo \/ ContLeaves
  BY <1>1 DEF ContCall, ContGo, ContLeaves, ControlOK
<1>2. CASE KillCall \/ KillFails \/ KillSucceeds \/ KillLoop \/ KillLeaves
  BY <1>2 DEF KillCall, KillFails, KillSucceeds, KillLoop, KillLeaves
<1>3. CASE CommandCall \/ CommandFinishes \/ CommandUnanswered \/ CommandResumes \/ CommandOnCore
             \/ CommandLeaves \/ SuspendExit
  BY <1>3 DEF CommandCall, CommandFinishes, CommandUnanswered, CommandResumes, CommandOnCore,
              CommandLeaves, SuspendExit
<1>4. CASE EnterAsserts \/ EnterSucceeds \/ EnterFails \/ AttachRemoteNoPid
             \/ Created \/ EnterLeaves
  BY <1>4 DEF EnterAsserts, EnterSucceeds, EnterFails, AttachRemoteNoPid, Created, EnterLeaves
<1>5. CASE ConnectFails \/ ConnectSucceeds \/ CoreFails \/ CoreLoads \/ CoreSuspended
  BY <1>5 DEF ConnectFails, ConnectSucceeds, CoreFails, CoreLoads, CoreSuspended
<1>6. CASE RunEnter \/ WaitTimesOut \/ RunFinally \/ OtherEvent \/ RunningEvent
             \/ StoppedEvent \/ ExitedEvent \/ HandlerStarts \/ HandlerEnds
  BY <1>6 DEF RunEnter, WaitTimesOut, RunFinally, OtherEvent, RunningEvent, StoppedEvent,
              ExitedEvent, HandlerStarts, HandlerEnds
<1>7. CASE CoroutineCall \/ CoroutineStarts \/ CoroutineYields \/ CoroutineReturns
             \/ CoroutineCancelled \/ CoroutineRaises \/ CoroutineExit
             \/ CoroutineOutlivesProcess \/ StepFails
             \/ CoroutineResumes \/ StepLeaves \/ ResumeLeaves
  BY <1>7 DEF CoroutineCall, CoroutineStarts, CoroutineYields, CoroutineReturns, CoroutineCancelled,
              CoroutineRaises, CoroutineExit, CoroutineOutlivesProcess, StepFails,
              CoroutineResumes, StepLeaves, ResumeLeaves
<1> QED BY <1>1, <1>2, <1>3, <1>4, <1>5, <1>6, <1>7 DEF Driver

ReplFlagsOK == stay \in BOOLEAN /\ target \in BOOLEAN /\ autoTarget \in BOOLEAN

\* The REPL's variables keep their types: the flags.
LEMMA ReplFlagsStep == ReplFlagsOK /\ [ReplNext]_allVars => ReplFlagsOK'
<1> SUFFICES ASSUME ReplFlagsOK, [ReplNext]_allVars PROVE ReplFlagsOK'
  OBVIOUS
<1> USE DEF ReplFlagsOK
<1>1. CASE UserLaunches
  BY <1>1, Zenon DEF UserLaunches
<1>2. CASE UserAttaches
  BY <1>2, Zenon DEF UserAttaches
<1>3. CASE UserConnects
  BY <1>3, Zenon DEF UserConnects
<1>4. CASE UserCreatesTarget
  BY <1>4, Zenon DEF UserCreatesTarget
<1>5. CASE UserContinues
  BY <1>5, Zenon DEF UserContinues
<1>6. CASE UserCommands
  BY <1>6, Zenon DEF UserCommands
<1>7. CASE UserDeletesTarget
  BY <1>7, Zenon DEF UserDeletesTarget
<1>8. CASE Launch
  BY <1>8, Zenon DEF Launch
<1>9. CASE LaunchFailed
  BY <1>9, Zenon DEF LaunchFailed
<1>10. CASE CommandRaised \/ KillDone \/ LaunchStays \/ LaunchGoes \/ LaunchResumes
             \/ SimplyDone \/ Command \/ CommandDone \/ ControllerStarts \/ ControllerDone
             \/ ControllersCleared
  <2>1. UNCHANGED <<stay, target, autoTarget>>
    BY <1>10 DEF CommandRaised, KillDone, LaunchStays, LaunchGoes, LaunchResumes, SimplyDone,
                 Command, CommandDone, ControllerStarts, ControllerDone, ControllersCleared
  <2> QED BY <2>1, Zenon
<1>11. CASE DriverRuns \/ LldbRuns \/ UserInterrupts
  BY <1>11, Zenon DEF DriverRuns, LldbRuns, UserInterrupts, replVars
<1>12. CASE UNCHANGED allVars
  BY <1>12, Zenon DEF allVars, replVars
<1> QED BY <1>1, <1>2, <1>3, <1>4, <1>5, <1>6, <1>7, <1>8, <1>9, <1>10, <1>11, <1>12
        DEF ReplNext, User, Repl

ReplRangesOK ==
    /\ rpc \in ReplLabels
    /\ controllers \in Seq(BOOLEAN) /\ next \in 0..Len(controllers)
    /\ ignoreResumed \in Nat
    /\ told \in {"none", "START", "STOP", "CONTINUE"}

\* The list of controllers starts, and is cleared, as a list.
LEMMA NoControllers == << >> \in Seq(BOOLEAN) /\ Len(<< >>) = 0
<1>1. ASSUME NEW S PROVE << >> \in Seq(S) /\ Len(<< >>) = 0
  OBVIOUS
<1> QED BY <1>1, Zenon

\* The REPL's variables keep their types: the ranges.
LEMMA ReplRangesStep == ControlOK /\ ReplRangesOK /\ [ReplNext]_allVars => ReplRangesOK'
<1> SUFFICES ASSUME ControlOK, ReplRangesOK, [ReplNext]_allVars PROVE ReplRangesOK'
  OBVIOUS
<1>1. CASE User
  BY <1>1 DEF User, UserLaunches, UserAttaches, UserConnects, UserCreatesTarget,
              UserContinues, UserCommands, UserDeletesTarget, ReplGoto, ReplRangesOK, ReplLabels
<1>2. CASE CommandRaised \/ KillDone \/ Launch \/ LaunchFailed \/ LaunchStays \/ LaunchGoes
             \/ LaunchResumes
  BY <1>2 DEF CommandRaised, KillDone, Launch, LaunchFailed, LaunchStays, LaunchGoes,
              LaunchResumes, Done, At, ReplGoto, ReplRangesOK, ReplLabels
<1>3. CASE SimplyDone \/ CommandDone \/ ControllerDone
  BY <1>3 DEF SimplyDone, CommandDone, ControllerDone, ReplGoto, ReplRangesOK, ReplLabels
<1>4. CASE Command
  BY <1>4 DEF Command, ReplGoto, ReplRangesOK, ReplLabels
<1>5. CASE ControllerStarts
  <2>1. next' = next + 1 /\ next < Len(controllers)
    BY <1>5 DEF ControllerStarts
  <2>2. rpc' \in {rpc, "controller", "dead"}
    BY <1>5 DEF ControllerStarts, ReplGoto
  <2>3. UNCHANGED <<controllers, ignoreResumed, told>>
    BY <1>5 DEF ControllerStarts
  <2> QED BY <2>1, <2>2, <2>3 DEF ReplRangesOK, ReplLabels
<1>6. CASE ControllersCleared
  <2>1. controllers' = << >> /\ next' = 0 /\ rpc' = "prompt" /\ UNCHANGED <<ignoreResumed, told>>
    BY <1>6 DEF ControllersCleared, ReplGoto
  <2>2. controllers' \in Seq(BOOLEAN) /\ Len(controllers') = 0
    BY <2>1, NoControllers, Zenon
  <2> QED BY <2>1, <2>2 DEF ReplRangesOK, ReplLabels
<1>7. CASE DriverRuns
  <2>1. Driver /\ UNCHANGED <<rpc, stay, target, autoTarget, next>>
    BY <1>7 DEF DriverRuns
  <2>2. controllers' \in Seq(BOOLEAN) /\ Len(controllers') >= Len(controllers)
    <3>1. PICK n \in Nat :
            LET queued == controllers \o [i \in 1..n |-> TRUE]
            IN controllers' = IF process' THEN queued ELSE [i \in DOMAIN queued |-> FALSE]
      <4>1. PICK m \in 0..(IF Queues THEN MaxControllers - Len(controllers) ELSE 0) :
              LET queued == controllers \o [i \in 1..m |-> TRUE]
              IN controllers' = IF process' THEN queued
                                            ELSE [i \in DOMAIN queued |-> FALSE]
        BY <1>7 DEF DriverRuns
      <4>2. m \in Nat
        BY ReplAssumption DEF ReplRangesOK
      <4> QED BY <4>1, <4>2
    <3> DEFINE queued == controllers \o [i \in 1..n |-> TRUE]
    <3>2. [i \in 1..n |-> TRUE] \in Seq(BOOLEAN) /\ Len([i \in 1..n |-> TRUE]) = n
      BY <3>1
    <3>3. queued \in Seq(BOOLEAN) /\ Len(queued) >= Len(controllers)
      BY <3>1, <3>2 DEF ReplRangesOK
    <3>4. controllers' = IF process' THEN queued ELSE [i \in DOMAIN queued |-> FALSE]
      BY <3>1
    <3> HIDE DEF queued
    <3>5. /\ [i \in 1..Len(queued) |-> FALSE] \in Seq(BOOLEAN)
          /\ Len([i \in 1..Len(queued) |-> FALSE]) = Len(queued)
      BY <3>3
    <3>6. DOMAIN queued = 1..Len(queued)
      BY <3>3
    <3> QED BY <3>3, <3>4, <3>5, <3>6
  <2>3. ignoreResumed' \in Nat
    BY <1>7 DEF DriverRuns, ReplRangesOK
  <2>4. told' \in {"none", "START", "STOP", "CONTINUE"}
    <3> DEFINE resumed == pc = "call" /\ op = "cont" /\ exc' # "Assertion"
    <3>1. told' = IF resumed THEN IF ignoreResumed > 0 THEN told ELSE "CONTINUE"
                  ELSE IF view' = view THEN told
                  ELSE CASE view' = "created" -> "START"
                         [] view' = "suspended" -> "STOP"
                         [] view' = "none" -> "none"
      BY <1>7 DEF DriverRuns
    <3>2. \/ resumed
          \/ view' = view
          \/ view' \in {"created", "suspended", "none"} /\ (view' = "none" => view # "none")
      BY <2>1, ViewStep
    <3>3. told \in {"none", "START", "STOP", "CONTINUE"}
      BY DEF ReplRangesOK
    <3> HIDE DEF resumed
    <3> QED BY <3>1, <3>2, <3>3
  <2> QED BY <2>1, <2>2, <2>3, <2>4 DEF ReplRangesOK
<1>8. CASE LldbRuns \/ UserInterrupts
  BY <1>8 DEF LldbRuns, UserInterrupts, replVars, ReplRangesOK, ReplLabels
<1>9. CASE UNCHANGED allVars
  BY <1>9 DEF allVars, replVars, ReplRangesOK
<1> QED BY <1>1, <1>2, <1>3, <1>4, <1>5, <1>6, <1>7, <1>8, <1>9 DEF ReplNext, Repl

-----------------------------------------------------------------------------
(* What the driver's methods return, as far as the REPL relies on it.       *)

Entering == op \in {"launch", "attach"}

\* kill() returns normally only without a process, a launch or attach that
\* succeeds only with one that is there to be resumed, one that fails or ends at
\* once without any.
ReturnsOK ==
    /\ op = "kill" /\ exc = "none" /\ pc = "suspend_exit" => ret \in {"ok", "error"}
    /\ op = "kill" /\ exc = "none" /\ ret = "ok" /\ pc \in {"idle", "suspend_exit"} =>
           ~HasProcess
    /\ Entering /\ pc \in Running \cup {"created"} => inferior # "connected"
    /\ Entering /\ pc = "created" => process /\ ~isCore
    /\ Entering /\ pc = "idle" /\ exc = "none" /\ ret = "success" => HasProcess /\ ~isCore
    /\ Entering /\ pc \in Running => ret = "none"
    /\ Entering /\ pc = "call" => ret = "none"
    /\ Opening /\ pc = "idle" /\ exc = "none" /\ ret \in {"error", "early_exit"} => ~process

\* Each step of the driver keeps what its methods return true to the process.
LEMMA ReturnsStep == IInv /\ ReturnsOK /\ [Next]_vars => ReturnsOK'
<1> SUFFICES ASSUME IInv, ReturnsOK, [Next]_vars PROVE ReturnsOK'
  OBVIOUS
<1> USE DEF Goto, Raise, Return, Callback, Drop, Discard, Finish,
        RunLeaves, Receive, Suspended, Resume, Terminate, Start, Connect,
        WithIo, OnlyIfStarted, FireEvents, object, scopes, loop, corout, history, lldbVars,
        CoroutineEnds, Connected, ReturnsOK, Entering, Opening, HasProcess, HasConnection,
        IInv, ControlOK, ObjectOK, Running, InLoop, Coroutine, CoOps
<1>1. CASE \E o \in Methods : Allowed(o) /\ Call(o)
  BY <1>1 DEF Call, Allowed, HasConnection, Methods
<1>2. CASE ContCall \/ ContGo \/ ContLeaves
  BY <1>2 DEF ContCall, ContGo, ContLeaves
<1>3. CASE KillCall \/ KillFails \/ KillLoop \/ KillLeaves
  BY <1>3 DEF KillCall, KillFails, KillLoop, KillLeaves
<1>4. CASE KillSucceeds
  BY <1>4 DEF KillSucceeds
<1>5. CASE CommandCall \/ CommandFinishes \/ CommandUnanswered \/ CommandResumes
           \/ CommandOnCore \/ CommandLeaves
  BY <1>5 DEF CommandCall, CommandFinishes, CommandUnanswered, CommandResumes, CommandOnCore,
              CommandLeaves
<1>6. CASE SuspendExit
  BY <1>6 DEF SuspendExit, InCoroutine, ScopesOK
<1>7. CASE EnterSucceeds
  BY <1>7 DEF EnterSucceeds
<1>8. CASE EnterAsserts \/ EnterFails \/ AttachRemoteNoPid \/ Created
  BY <1>8 DEF EnterAsserts, EnterFails, AttachRemoteNoPid, Created
<1>9. CASE EnterLeaves
  BY <1>9 DEF EnterLeaves
<1>10. CASE ConnectFails \/ ConnectSucceeds
  BY <1>10 DEF ConnectFails, ConnectSucceeds
<1>11. CASE CoreFails \/ CoreLoads \/ CoreSuspended
  BY <1>11 DEF CoreFails, CoreLoads, CoreSuspended
<1>12. CASE RunEnter \/ WaitTimesOut \/ RunFinally
  BY <1>12 DEF RunEnter, WaitTimesOut, RunFinally
<1>13. CASE OtherEvent \/ RunningEvent \/ StoppedEvent \/ ExitedEvent
  BY <1>13 DEF OtherEvent, RunningEvent, StoppedEvent, ExitedEvent
<1>14. CASE HandlerStarts \/ HandlerEnds
  BY <1>14 DEF HandlerStarts, HandlerEnds
<1>15. CASE CoroutineCall \/ CoroutineStarts \/ CoroutineYields \/ CoroutineReturns
             \/ CoroutineCancelled \/ CoroutineRaises \/ CoroutineExit
  BY <1>15 DEF CoroutineCall, CoroutineStarts, CoroutineYields, CoroutineReturns,
               CoroutineCancelled, CoroutineRaises, CoroutineExit
<1>16. CASE CoroutineOutlivesProcess \/ StepFails \/ CoroutineResumes \/ StepLeaves \/ ResumeLeaves
  BY <1>16 DEF CoroutineOutlivesProcess, StepFails, CoroutineResumes, StepLeaves, ResumeLeaves
<1>17. CASE Lldb
  BY <1>17 DEF Lldb, LldbNext, InferiorStops, InferiorExits, InferiorActs, AnswerInterrupt,
               driverVars
<1>18. CASE Interrupt
  BY <1>18 DEF Interrupt, RaiseHere, Cancel, InCommandHandler
<1>19. CASE UNCHANGED vars
  BY <1>19 DEF vars
<1> QED BY <1>1, <1>2, <1>3, <1>4, <1>5, <1>6, <1>7, <1>8, <1>9, <1>10, <1>11, <1>12,
        <1>13, <1>14, <1>15, <1>16, <1>17, <1>18, <1>19 DEF Next, Driver

-----------------------------------------------------------------------------
(* The REPL's commands.                                                     *)

\* Where the REPL is about to call the driver, or waits for a call of it, the
\* driver is at rest or in the method that was called.
CommandsOK ==
    /\ rpc \in {"launch", "resuming"} => pc = "idle"
    /\ rpc = "launch" => ~HasProcess
    /\ rpc = "resuming" => HasProcess /\ ~isCore
    /\ rpc = "killed" => op = "kill"
    /\ rpc = "launched" => Entering
    /\ rpc = "connected" => op = "connect"

\* A step of the driver, or of LLDB, that is not a call leaves the method the
\* REPL called, and the prompt to the REPL; what it does to the process is
\* seen by the REPL when the method returns.
LEMMA DriverKeeps ==
    ASSUME IInv, Driver \/ Lldb
    PROVE  /\ pc = "idle" => UNCHANGED <<pc, op, process, isCore>> /\ (HasProcess' <=> HasProcess)
           /\ op \in {"kill", "launch", "attach", "connect"} => op' = op
           /\ pc' = "call" => UNCHANGED <<pc, op, process, isCore>> /\ (HasProcess' <=> HasProcess)
           /\ pc' = "co_count" =>
                 /\ pc = "co_count" \/ (pc = "call" /\ op = "coroutine")
                 /\ HasProcess' <=> HasProcess
<1> USE DEF Goto, Raise, Return, Callback, Drop, Discard, Finish,
        RunLeaves, Receive, Suspended, object, scopes, loop, corout, history, lldbVars,
        CoroutineEnds, HasProcess, HasConnection,
        IInv, ControlOK, Running, InLoop, Coroutine, CoOps
<1>1. CASE Lldb
  BY <1>1 DEF Lldb, LldbNext, InferiorStops, InferiorExits, InferiorActs, AnswerInterrupt,
              driverVars
<1>2. CASE Driver
  <2>1. pc # "idle" /\ pc' # "call"
    BY <1>2 DEF Driver, ContCall, ContGo, KillCall, KillFails, KillSucceeds, KillLoop,
          CommandCall, CommandFinishes, CommandUnanswered, CommandResumes, CommandOnCore,
          SuspendExit, EnterAsserts, EnterSucceeds, EnterFails, AttachRemoteNoPid, Created,
          ConnectFails, ConnectSucceeds, CoreFails, CoreLoads, CoreSuspended, RunEnter,
          WaitTimesOut, OtherEvent, RunningEvent, StoppedEvent, ExitedEvent, HandlerStarts,
          HandlerEnds, RunFinally, ContLeaves, KillLeaves, CommandLeaves, EnterLeaves,
          CoroutineCall, CoroutineStarts, CoroutineYields, CoroutineReturns, CoroutineCancelled,
          CoroutineRaises, CoroutineOutlivesProcess, StepFails, CoroutineResumes, StepLeaves,
          ResumeLeaves, CoroutineExit
  <2>3. pc' = "co_count" => CoroutineCall
    BY <1>2 DEF Driver, ContCall, ContGo, KillCall, KillFails, KillSucceeds, KillLoop,
          CommandCall, CommandFinishes, CommandUnanswered, CommandResumes, CommandOnCore,
          SuspendExit, EnterAsserts, EnterSucceeds, EnterFails, AttachRemoteNoPid, Created,
          ConnectFails, ConnectSucceeds, CoreFails, CoreLoads, CoreSuspended, RunEnter,
          WaitTimesOut, OtherEvent, RunningEvent, StoppedEvent, ExitedEvent, HandlerStarts,
          HandlerEnds, RunFinally, ContLeaves, KillLeaves, CommandLeaves, EnterLeaves,
          CoroutineStarts, CoroutineYields, CoroutineReturns, CoroutineCancelled,
          CoroutineRaises, CoroutineOutlivesProcess, StepFails, CoroutineResumes,
          StepLeaves, ResumeLeaves, CoroutineExit
  <2>4. CoroutineCall => pc = "call" /\ op = "coroutine" /\ (HasProcess' <=> HasProcess)
    BY DEF CoroutineCall
  <2>2. op \in {"kill", "launch", "attach", "connect"} => op' = op
    BY <1>2 DEF Driver, ContCall, ContGo, KillCall, KillFails, KillSucceeds, KillLoop,
          CommandCall, CommandFinishes, CommandUnanswered, CommandResumes, CommandOnCore,
          SuspendExit, EnterAsserts, EnterSucceeds, EnterFails, AttachRemoteNoPid, Created,
          ConnectFails, ConnectSucceeds, CoreFails, CoreLoads, CoreSuspended, RunEnter,
          WaitTimesOut, OtherEvent, RunningEvent, StoppedEvent, ExitedEvent, HandlerStarts,
          HandlerEnds, RunFinally, ContLeaves, KillLeaves, CommandLeaves, EnterLeaves,
          CoroutineCall, CoroutineStarts, CoroutineYields, CoroutineReturns, CoroutineCancelled,
          CoroutineRaises, CoroutineOutlivesProcess, StepFails, CoroutineResumes, StepLeaves,
          ResumeLeaves, CoroutineExit
  <2> QED BY <2>1, <2>2, <2>3, <2>4
<1> QED BY <1>1, <1>2

\* So is a Ctrl-C.
LEMMA InterruptKeeps ==
    ASSUME Interrupt
    PROVE  /\ UNCHANGED <<op, process, isCore, inferior>>
           /\ pc = "idle" => pc' = "idle"
           /\ pc' \in {"call", "co_count"} => pc' = pc
           /\ pc' # "idle" => pc # "idle"
  BY DEF Interrupt, RaiseHere, Cancel, object, InCommandHandler, CoroutineEnds, Raise

\* Which of the driver's assertions fail.
AssertionsOK ==
    exc = "Assertion" =>
        /\ \/ op \in {"launch", "attach", "connect"} /\ io
           \/ op = "kill" /\ isCore
           \/ op = "poll"
        /\ pc = "run_finally" => op = "poll"

\* What the assertions at the entry of a method demand.
CallsOK ==
    /\ pc = "call" =>
           /\ op \in {"cont", "kill", "command", "coroutine"} => HasProcess
           /\ op \in {"cont", "coroutine"} => ~isCore
           /\ op \in {"launch", "attach"} => ~HasProcess
           /\ op \in {"connect", "core"} => ~HasConnection
    /\ pc = "co_count" => HasProcess

ReplInv == IInv /\ ReturnsOK /\ CommandsOK /\ CallsOK /\ AssertionsOK /\ Targeted

\* No assertion but those fails, if the methods are called where they may be.
LEMMA AssertionsStep == IInv /\ CallsOK /\ AssertionsOK /\ [Next]_vars => AssertionsOK'
<1> SUFFICES ASSUME IInv, CallsOK, AssertionsOK, [Next]_vars PROVE AssertionsOK'
  OBVIOUS
<1>a. RunEnter /\ ~isCore /\ ioState = "STOPPED" => exc' = exc
  BY Zenon DEF RunEnter, Goto
<1> USE DEF Goto, Raise, Return, Callback, Drop, Discard, Finish,
        RunLeaves, Receive, Suspended, Resume, Terminate, Start, Connect,
        WithIo, OnlyIfStarted, FireEvents, object, scopes, loop, corout, history, lldbVars,
        CoroutineEnds, Connected, AssertionsOK, CallsOK, Opening, HasConnection,
        IInv, ControlOK, ObjectOK, Running, InLoop, Coroutine, CoOps
<1>1. CASE \E o \in Methods : Allowed(o) /\ Call(o)
  BY <1>1 DEF Call, Methods
<1>2. CASE ContCall \/ ContGo \/ ContLeaves
  BY <1>2 DEF ContCall, ContGo, ContLeaves
<1>3. CASE KillCall \/ KillFails \/ KillSucceeds \/ KillLoop \/ KillLeaves
  BY <1>3 DEF KillCall, KillFails, KillSucceeds, KillLoop, KillLeaves
<1>4. CASE CommandCall \/ CommandFinishes \/ CommandUnanswered \/ CommandResumes
             \/ CommandOnCore \/ CommandLeaves
  BY <1>4 DEF CommandCall, CommandFinishes, CommandUnanswered, CommandResumes,
              CommandOnCore, CommandLeaves
<1>5. CASE SuspendExit
  BY <1>5 DEF SuspendExit, InCoroutine, ScopesOK
<1>6. CASE EnterAsserts
  BY <1>6 DEF EnterAsserts
<1>7. CASE EnterSucceeds \/ EnterFails \/ AttachRemoteNoPid \/ Created \/ EnterLeaves
  BY <1>7 DEF EnterSucceeds, EnterFails, AttachRemoteNoPid, Created, EnterLeaves
<1>8. CASE ConnectFails \/ ConnectSucceeds
  BY <1>8 DEF ConnectFails, ConnectSucceeds
<1>9. CASE CoreFails \/ CoreLoads \/ CoreSuspended
  BY <1>9 DEF CoreFails, CoreLoads, CoreSuspended
<1>10. CASE RunEnter \/ WaitTimesOut \/ RunFinally
  <2>1. CASE RunEnter
    <3>1. /\ op' = op /\ isCore' = isCore /\ exc = "none"
          /\ isCore => op = "kill" /\ pc' = "run_leave"
      BY <2>1 DEF RunEnter
    <3>2. ioState = "STOPPED"
      BY <2>1 DEF RunEnter
    <3>3. ~isCore => exc' = "none"
      BY <1>a, <2>1, <3>1, <3>2
    <3> QED BY <3>1, <3>3
  <2>2. CASE WaitTimesOut
    BY <2>2 DEF WaitTimesOut
  <2>3. CASE RunFinally
    <3>1. UNCHANGED <<op, exc, isCore>> /\ ~isCore
      BY <2>3 DEF RunFinally
    <3>2. exc = "Assertion" => op = "poll"
      BY <2>3 DEF RunFinally
    <3>3. pc' = "run_leave"
      BY <2>3 DEF RunFinally
    <3> QED BY <3>1, <3>2, <3>3
  <2> QED BY <1>10, <2>1, <2>2, <2>3
<1>11. CASE OtherEvent \/ RunningEvent \/ StoppedEvent \/ ExitedEvent
  BY <1>11 DEF OtherEvent, RunningEvent, StoppedEvent, ExitedEvent
<1>12. CASE HandlerStarts \/ HandlerEnds
  BY <1>12 DEF HandlerStarts, HandlerEnds
<1>13. CASE CoroutineCall \/ CoroutineStarts \/ CoroutineYields \/ CoroutineReturns
             \/ CoroutineCancelled \/ CoroutineRaises \/ CoroutineExit
  BY <1>13 DEF CoroutineCall, CoroutineStarts, CoroutineYields, CoroutineReturns,
               CoroutineCancelled, CoroutineRaises, CoroutineExit
<1>14. CASE CoroutineOutlivesProcess \/ StepFails \/ CoroutineResumes \/ StepLeaves
             \/ ResumeLeaves
  BY <1>14 DEF CoroutineOutlivesProcess, StepFails, CoroutineResumes, StepLeaves,
               ResumeLeaves
<1>15. CASE Lldb
  BY <1>15 DEF Lldb, LldbNext, InferiorStops, InferiorExits, InferiorActs, AnswerInterrupt,
               driverVars
<1>16. CASE Interrupt
  BY <1>16 DEF Interrupt, RaiseHere, Cancel, InCommandHandler
<1>17. CASE UNCHANGED vars
  BY <1>17 DEF vars
<1> QED BY <1>1, <1>2, <1>3, <1>4, <1>5, <1>6, <1>7, <1>8, <1>9, <1>10, <1>11, <1>12,
        <1>13, <1>14, <1>15, <1>16, <1>17 DEF Next, Driver

\* Every command goes on as the method it called allows.
LEMMA CommandsStep == ReplInv /\ [ReplNext]_allVars => (CommandsOK /\ CallsOK /\ Targeted)'
<1> SUFFICES ASSUME ReplInv, [ReplNext]_allVars PROVE (CommandsOK /\ CallsOK /\ Targeted)'
  OBVIOUS
<1> USE DEF CommandsOK, CallsOK, Targeted, ReplInv
<1>1. CASE User
  BY <1>1 DEF User, UserLaunches, UserAttaches, UserConnects, UserCreatesTarget,
              UserContinues, UserCommands, UserDeletesTarget, Call, At, AtRest, ReplGoto, vars,
              HasProcess, HasConnection, Entering, lldbVars, object
<1>2. CASE LaunchFailed
  <2>1. Opening /\ pc = "idle" /\ exc = "none" /\ ret \in {"error", "early_exit"}
    BY <1>2 DEF LaunchFailed, Done, At, AtRest, Entering, Opening
  <2>2. ~process
    BY <2>1 DEF ReturnsOK
  <2> QED BY <1>2, <2>1, <2>2
          DEF LaunchFailed, ReplGoto, vars, HasProcess, HasConnection, Entering, lldbVars,
              object
<1>3. CASE Launch \/ LaunchStays \/ LaunchGoes \/ LaunchResumes \/ KillDone
  BY <1>3 DEF Launch, LaunchStays, LaunchGoes, LaunchResumes, KillDone,
              Call, At, AtRest, Done, ReplGoto, vars, HasProcess, HasConnection, Entering,
              ReturnsOK, lldbVars, object
<1>4. CASE CommandRaised \/ SimplyDone \/ Command \/ CommandDone \/ ControllerStarts
             \/ ControllerDone \/ ControllersCleared
  BY <1>4 DEF CommandRaised, SimplyDone, Command, CommandDone, ControllerStarts,
              ControllerDone, ControllersCleared, Call, At, AtRest, Done, ReplGoto, vars,
              HasProcess, HasConnection, Entering, lldbVars, object
<1>5. CASE DriverRuns \/ LldbRuns
  <2>1. (Driver \/ Lldb) /\ rpc' = rpc /\ target' = target
    BY <1>5, Zenon DEF DriverRuns, LldbRuns, replVars
  <2>2. IInv
    BY Zenon
  <2>3. /\ pc = "idle" => UNCHANGED <<pc, op, process, isCore>> /\ (HasProcess' <=> HasProcess)
        /\ op \in {"kill", "launch", "attach", "connect"} => op' = op
        /\ pc' = "call" => UNCHANGED <<pc, op, process, isCore>> /\ (HasProcess' <=> HasProcess)
        /\ pc' = "co_count" =>
              /\ pc = "co_count" \/ (pc = "call" /\ op = "coroutine")
              /\ HasProcess' <=> HasProcess
    BY <2>1, <2>2, DriverKeeps, Zenon
  <2>4. (rpc = "killed" => op = "kill") /\ (rpc = "launched" => op \in {"launch", "attach"})
          /\ (rpc = "connected" => op = "connect")
    BY Zenon DEF Entering
  <2>5. CommandsOK'
    BY <2>1, <2>3, <2>4, SMT DEF Entering
  <2>6. CallsOK'
    BY <2>3, SMT DEF HasConnection
  <2>7. Targeted'
    BY <2>1, <2>3, SMT
  <2> QED BY <2>5, <2>6, <2>7, Zenon
<1>6. CASE UserInterrupts
  BY <1>6, InterruptKeeps DEF UserInterrupts, AtRest, HasProcess, HasConnection, Entering
<1>7. CASE UNCHANGED allVars
  BY <1>7 DEF allVars, vars, replVars, HasProcess, HasConnection, Entering, lldbVars, object
<1> QED BY <1>1, <1>2, <1>3, <1>4, <1>5, <1>6, <1>7 DEF ReplNext, Repl

\* The REPL's invariant.
LEMMA ReplStep == ReplInv /\ [ReplNext]_allVars => ReplInv' /\ [Next]_vars
<1> SUFFICES ASSUME ReplInv, [ReplNext]_allVars PROVE ReplInv' /\ [Next]_vars
  OBVIOUS
<1>1. [Next]_vars
  BY StepImplements DEF ReplInv
<1>2. IInv' /\ ReturnsOK' /\ AssertionsOK'
  BY <1>1, StepInv, ReturnsStep, AssertionsStep DEF ReplInv
<1>3. CommandsOK' /\ CallsOK' /\ Targeted'
  BY CommandsStep
<1> QED BY <1>1, <1>2, <1>3 DEF ReplInv

LEMMA ReplInitInv == ReplInit => Init /\ ReplInv
<1>1. ReplInit => Init /\ IInv
  BY InitInv DEF ReplInit
<1>2. ReplInit => ReturnsOK /\ CommandsOK /\ CallsOK /\ AssertionsOK /\ Targeted
  BY DEF ReplInit, Init, LldbInit, ReturnsOK, CommandsOK, CallsOK, AssertionsOK, Targeted,
         Entering, HasProcess
<1> QED BY <1>1, <1>2 DEF ReplInv

\* The REPL is a client the driver's specification allows, so what is proved of the
\* driver holds of the driver inside the REPL.
LEMMA Implements == ReplSpec => Spec /\ []ReplInv
  BY ReplInitInv, ReplStep, PTL DEF ReplSpec, Spec

\* No command calls a method of the driver where its assertions exclude it, and
\* none of the driver's assertions fails but the three that are named.
THEOREM ContractIsKept == ReplSpec => []DriverContract
<1>1. ReplInv => DriverContract
  BY DEF ReplInv, CallsOK, AssertionsOK, DriverContract
<1> QED BY <1>1, Implements, PTL

\* No command of the REPL leaves a scope counter high, but for a Ctrl-C beside the
\* counter's try statement.
THEOREM ReplScopesBalanced == ReplSpec => []ScopesBalanced
  BY Implements, ScopesAreBalanced, PTL

\* Nor is the I/O driver ever left running under the REPL's prompt.
THEOREM ReplIoIsInsideTheLoop == ReplSpec => []IoOnlyInRunLoop
  BY Implements, IoIsInsideTheLoop, PTL

\* The REPL's variables have their types, the list of controllers and the place
\* in it included.
THEOREM ReplTypeCorrect == ReplSpec => []ReplTypeOK
<1>1. ReplInit => ReplFlagsOK /\ ReplRangesOK
  <2>1. ReplInit => ReplFlagsOK
    BY Zenon DEF ReplInit, ReplFlagsOK
  <2>2. ReplInit => ReplRangesOK
    BY NoControllers DEF ReplInit, ReplRangesOK, ReplLabels
  <2> QED BY <2>1, <2>2
<1>2. IInv => ControlOK
  BY DEF IInv
<1>3. ReplSpec => []IInv
  BY Implements, Invariant, PTL
<1>4. ReplFlagsOK /\ ReplRangesOK => ReplTypeOK
  BY Zenon DEF ReplFlagsOK, ReplRangesOK, ReplTypeOK
<1> QED BY <1>1, <1>2, <1>3, <1>4, ReplFlagsStep, ReplRangesStep, PTL DEF ReplSpec

-----------------------------------------------------------------------------
(* What pwndbg is told, and when the controllers run.                       *)

\* What a method of the driver has told pwndbg when it returns.
ReturnedViewOK ==
    Undisturbed =>
        /\ Opening /\ pc = "idle" /\ exc = "none" =>
               view = (IF ret = "success" THEN "created" ELSE "none")
        /\ op = "core" /\ pc = "idle" /\ exc = "none" => view \in {"suspended", "none"}
        /\ op = "cont" /\ pc \in {"cont_go", "run_enter", "run_wait", "run_handler"} =>
               view = "resumed"
        /\ op = "cont" /\ pc \in {"run_wait", "run_handler"} => running
        /\ op = "cont" /\ pc \in {"run_finally", "run_leave", "idle"} /\ exc = "none" =>
               view \in {"suspended", "none"}

\* The method each command of the REPL waits for; between commands the driver is
\* at rest, and the main loop has survived.
Waiting == {"killed", "launched", "connected", "loaded", "continued", "ran", "controller"}

MethodOK ==
    /\ rpc = "launched" => op \in {"launch", "attach"}
    /\ rpc = "connected" => op = "connect"
    /\ rpc = "loaded" => op = "core"
    /\ rpc = "continued" => op = "cont"
    /\ rpc = "killed" => op = "kill"
    /\ rpc = "ran" => op \in {"command", "poll"}
    /\ rpc = "controller" => op \in CoOps
    /\ rpc \notin Waiting => pc = "idle" /\ (Undisturbed /\ rpc # "dead" => ReplLives)

\* What pwndbg was told last, by what the driver has told and where the REPL is.
ToldOK ==
    Undisturbed /\ rpc # "dead" =>
        /\ view = "none" => told = "none"
        /\ view = "suspended" => told = "STOP"
        /\ view = "resumed" => rpc = "continued" /\ told \in {"START", "CONTINUE"}
        /\ view = "created" =>
               told = IF rpc \in {"launched", "connected", "loaded"} \/ ignoreResumed > 0
                      THEN "START" ELSE "STOP"
        /\ rpc = "resuming" => ignoreResumed > 0
        /\ ignoreResumed \in {0, 1}
        /\ ignoreResumed > 0 =>
               /\ view = "created"
               /\ rpc = "resuming" \/ (rpc = "continued" /\ pc = "call")

\* Controllers are queued by a command, which runs them before it is over.
ControllersOK ==
    Undisturbed /\ rpc \notin {"ran", "controllers", "controller", "dead"} =>
        controllers = << >>

\* Each step of the driver keeps what its methods say they have told.
LEMMA ReturnedViewStep == IInv /\ ViewOK /\ ReturnedViewOK /\ [Next]_vars => ReturnedViewOK'
<1> SUFFICES ASSUME IInv, ViewOK, ReturnedViewOK, [Next]_vars PROVE ReturnedViewOK'
  OBVIOUS
<1> USE DriverAssumption DEF Goto, Raise, Return, Callback, Drop, Discard, Finish,
        RunLeaves, Receive, Suspended, Resume, Terminate, Start, Connect, InCoroutine,
        WithIo, OnlyIfStarted, FireEvents, object, scopes, loop, corout, history, lldbVars,
        CoroutineEnds, Connected, HasProcess, HasConnection, IInv, ScopesOK, ControlOK,
        ObjectOK, InLoop, Running, Coroutine, CoOps, Suspending, ReplLives, Methods,
        ViewOK, Opening, Undisturbed, LocalsOK, ReturnedViewOK
<1>1. CASE \E o \in Methods : Allowed(o) /\ Call(o)
  BY <1>1 DEF Call, Allowed, HasConnection
<1>2. CASE ContCall \/ ContGo \/ ContLeaves
  BY <1>2 DEF ContCall, ContGo, ContLeaves
<1>3. CASE KillCall \/ KillFails \/ KillSucceeds \/ KillLoop \/ KillLeaves
  BY <1>3 DEF KillCall, KillFails, KillSucceeds, KillLoop, KillLeaves
<1>4. CASE CommandCall \/ CommandFinishes \/ CommandUnanswered \/ CommandResumes \/ CommandLeaves
  BY <1>4 DEF CommandCall, CommandFinishes, CommandUnanswered, CommandResumes, CommandLeaves
<1>5. CASE CommandOnCore
  BY <1>5 DEF CommandOnCore
<1>6. CASE SuspendExit
  BY <1>6 DEF SuspendExit
<1>7. CASE EnterAsserts \/ EnterSucceeds
  BY <1>7 DEF EnterAsserts, EnterSucceeds
<1>8. CASE EnterFails \/ AttachRemoteNoPid \/ Created
  BY <1>8 DEF EnterFails, AttachRemoteNoPid, Created
<1>9. CASE EnterLeaves
  BY <1>9 DEF EnterLeaves
<1>10. CASE ConnectFails \/ ConnectSucceeds
  BY <1>10 DEF ConnectFails, ConnectSucceeds
<1>11. CASE CoreFails \/ CoreLoads \/ CoreSuspended
  BY <1>11 DEF CoreFails, CoreLoads, CoreSuspended
<1>12. CASE RunEnter \/ WaitTimesOut
  BY <1>12 DEF RunEnter, WaitTimesOut
<1>13. CASE RunFinally
  BY <1>13 DEF RunFinally
<1>14. CASE OtherEvent \/ RunningEvent
  BY <1>14 DEF OtherEvent, RunningEvent
<1>15. CASE StoppedEvent
  BY <1>15 DEF StoppedEvent
<1>16. CASE ExitedEvent
  BY <1>16 DEF ExitedEvent
<1>17. CASE HandlerStarts \/ HandlerEnds
  BY <1>17 DEF HandlerStarts, HandlerEnds
<1>18. CASE CoroutineCall \/ CoroutineStarts \/ CoroutineYields \/ CoroutineReturns
             \/ CoroutineCancelled \/ CoroutineRaises \/ CoroutineExit
  BY <1>18 DEF CoroutineCall, CoroutineStarts, CoroutineYields, CoroutineReturns,
         CoroutineCancelled, CoroutineRaises, CoroutineExit
<1>19. CASE CoroutineOutlivesProcess \/ StepFails \/ CoroutineResumes
  BY <1>19 DEF CoroutineOutlivesProcess, StepFails, CoroutineResumes
<1>20. CASE StepLeaves \/ ResumeLeaves
  BY <1>20 DEF StepLeaves, ResumeLeaves
<1>21. CASE Lldb
  BY <1>21 DEF Lldb, LldbNext, InferiorStops, InferiorExits, InferiorActs,
        
         AnswerInterrupt, Room, driverVars
<1>22. CASE Interrupt
  BY <1>22 DEF Interrupt, InCommandHandler, RaiseHere, Cancel
<1>23. CASE UNCHANGED vars
  BY <1>23 DEF vars
<1> QED BY <1>1, <1>2, <1>3, <1>4, <1>5, <1>6, <1>7, <1>8, <1>9, <1>10, <1>11, <1>12, <1>13,
        <1>14, <1>15, <1>16, <1>17, <1>18, <1>19, <1>20, <1>21, <1>22, <1>23 DEF Next,
        Driver

\* The driver stays in the method the REPL called, apart from the operations that a
\* command or a coroutine goes through, and does nothing on its own at rest.
LEMMA OpsKept ==
    ASSUME IInv, Driver \/ Lldb
    PROVE  /\ op \in {"kill", "launch", "attach", "connect", "core", "cont"} => op' = op
           /\ op \in {"command", "poll"} => op' \in {"command", "poll"}
           /\ op \in CoOps => op' \in CoOps
           /\ pc = "idle" => UNCHANGED <<pc, op, exc, ret>>
<1> USE DEF Goto, Raise, Return, Callback, Drop, Discard, Finish,
        RunLeaves, Receive, Suspended, CoroutineEnds, IInv, ControlOK, Running, InLoop,
        Coroutine, CoOps
<1>1. CASE Lldb
  BY <1>1 DEF Lldb, driverVars
<1>2. CASE ContCall \/ ContGo \/ ContLeaves \/ KillCall \/ KillFails \/ KillSucceeds
             \/ KillLoop \/ KillLeaves
  BY <1>2 DEF ContCall, ContGo, ContLeaves, KillCall, KillFails, KillSucceeds, KillLoop,
          KillLeaves
<1>3. CASE CommandCall \/ CommandFinishes \/ CommandUnanswered \/ CommandResumes \/ CommandOnCore
             \/ CommandLeaves \/ SuspendExit
  BY <1>3 DEF CommandCall, CommandFinishes, CommandUnanswered, CommandResumes, CommandOnCore,
          CommandLeaves, SuspendExit
<1>4. CASE EnterAsserts \/ EnterSucceeds \/ EnterFails \/ AttachRemoteNoPid \/ Created
             \/ EnterLeaves \/ ConnectFails \/ ConnectSucceeds
  BY <1>4 DEF EnterAsserts, EnterSucceeds, EnterFails, AttachRemoteNoPid, Created,
          EnterLeaves, ConnectFails, ConnectSucceeds
<1>5. CASE CoreFails \/ CoreLoads \/ CoreSuspended \/ RunEnter \/ WaitTimesOut \/ RunFinally
  BY <1>5 DEF CoreFails, CoreLoads, CoreSuspended, RunEnter, WaitTimesOut, RunFinally
<1>6. CASE OtherEvent \/ RunningEvent \/ StoppedEvent \/ ExitedEvent \/ HandlerStarts
             \/ HandlerEnds
  BY <1>6 DEF OtherEvent, RunningEvent, StoppedEvent, ExitedEvent, HandlerStarts,
          HandlerEnds
<1>7. CASE CoroutineCall \/ CoroutineStarts \/ CoroutineYields \/ CoroutineReturns
             \/ CoroutineCancelled \/ CoroutineRaises \/ CoroutineExit
  BY <1>7 DEF CoroutineCall, CoroutineStarts, CoroutineYields, CoroutineReturns, CoroutineCancelled,
          CoroutineRaises, CoroutineExit
<1>8. CASE CoroutineOutlivesProcess \/ StepFails \/ CoroutineResumes \/ StepLeaves
             \/ ResumeLeaves
  BY <1>8 DEF CoroutineOutlivesProcess, StepFails, CoroutineResumes, StepLeaves,
          ResumeLeaves
<1> QED BY <1>1, <1>2, <1>3, <1>4, <1>5, <1>6, <1>7, <1>8 DEF Driver

\* The events that a step of the driver may hand over.
LEMMA ViewChanges ==
    ASSUME IInv, Driver
    PROVE  \/ /\ pc = "call" /\ op = "cont" /\ op' = "cont"
              /\ view' = (IF exc' = "Assertion" THEN view ELSE "resumed")
           \/ ~(pc = "call" /\ op = "cont") /\ view' = view
           \/ /\ ~(pc = "call" /\ op = "cont") /\ pc # "idle"
              /\ \/ view' = "created" /\ op \in {"launch", "attach", "connect", "core"}
                 \/ view' = "suspended"
                 \/ view' = "none" /\ view # "none"
<1> USE DEF Goto, Raise, Return, Callback, Drop, Discard, Finish,
        RunLeaves, Receive, Suspended, object, scopes, loop, corout, history, lldbVars,
        CoroutineEnds, WithIo, OnlyIfStarted, FireEvents, IInv, ControlOK, ObjectOK, Running,
        InLoop, Coroutine, CoOps
<1>1. CASE ContCall \/ ContGo \/ ContLeaves
  BY <1>1 DEF ContCall, ContGo, ContLeaves
<1>2. CASE KillCall \/ KillFails \/ KillSucceeds \/ KillLoop \/ KillLeaves
  BY <1>2 DEF KillCall, KillFails, KillSucceeds, KillLoop, KillLeaves
<1>3. CASE CommandCall \/ CommandFinishes \/ CommandUnanswered \/ CommandResumes \/ CommandOnCore
             \/ CommandLeaves \/ SuspendExit
  BY <1>3 DEF CommandCall, CommandFinishes, CommandUnanswered, CommandResumes, CommandOnCore,
              CommandLeaves, SuspendExit
<1>4. CASE EnterAsserts \/ EnterSucceeds \/ EnterFails \/ AttachRemoteNoPid
             \/ Created \/ EnterLeaves
  <2>1. pc \in {"call", "created", "run_leave"} /\ (pc = "call" => op # "cont")
    BY <1>4 DEF EnterAsserts, EnterSucceeds, EnterFails, AttachRemoteNoPid, Created, EnterLeaves
  <2>2. view' = view \/ (view' = "created" /\ pc = "created")
    BY <1>4 DEF EnterAsserts, EnterSucceeds, EnterFails, AttachRemoteNoPid, Created, EnterLeaves
  <2> QED BY <2>1, <2>2
<1>5. CASE ConnectFails \/ ConnectSucceeds \/ CoreFails \/ CoreLoads \/ CoreSuspended
  BY <1>5 DEF ConnectFails, ConnectSucceeds, CoreFails, CoreLoads, CoreSuspended
<1>6. CASE RunEnter \/ WaitTimesOut \/ RunFinally \/ OtherEvent \/ RunningEvent
             \/ StoppedEvent \/ ExitedEvent \/ HandlerStarts \/ HandlerEnds
  BY <1>6 DEF RunEnter, WaitTimesOut, RunFinally, OtherEvent, RunningEvent, StoppedEvent,
              ExitedEvent, HandlerStarts, HandlerEnds
<1>7. CASE CoroutineCall \/ CoroutineStarts \/ CoroutineYields \/ CoroutineReturns
             \/ CoroutineCancelled \/ CoroutineRaises \/ CoroutineExit
             \/ CoroutineOutlivesProcess \/ StepFails
             \/ CoroutineResumes \/ StepLeaves \/ ResumeLeaves
  BY <1>7 DEF CoroutineCall, CoroutineStarts, CoroutineYields, CoroutineReturns, CoroutineCancelled,
              CoroutineRaises, CoroutineExit, CoroutineOutlivesProcess, StepFails,
              CoroutineResumes, StepLeaves, ResumeLeaves
<1> QED BY <1>1, <1>2, <1>3, <1>4, <1>5, <1>6, <1>7 DEF Driver

\* cont() passes its assertions when there is a process and no core file.
LEMMA ContCalled ==
    ASSUME IInv, Driver, pc = "call", op = "cont", HasProcess, ~isCore
    PROVE  exc' # "Assertion"
<1>1. ContCall
  BY DEF Driver, ContGo, KillCall, KillFails, KillSucceeds, KillLoop,
          CommandCall, CommandFinishes, CommandUnanswered, CommandResumes, CommandOnCore,
          SuspendExit, EnterAsserts, EnterSucceeds, EnterFails, AttachRemoteNoPid, Created,
          ConnectFails, ConnectSucceeds, CoreFails, CoreLoads, CoreSuspended, RunEnter,
          WaitTimesOut, OtherEvent, RunningEvent, StoppedEvent, ExitedEvent, HandlerStarts,
          HandlerEnds, RunFinally, ContLeaves, KillLeaves, CommandLeaves, EnterLeaves,
          CoroutineCall, CoroutineStarts, CoroutineYields, CoroutineReturns, CoroutineCancelled,
          CoroutineRaises, CoroutineOutlivesProcess, StepFails, CoroutineResumes, StepLeaves,
          ResumeLeaves, CoroutineExit, Receive, RunLeaves
<1>2. exc = "none"
  BY DEF IInv, ControlOK
<1> QED BY <1>1, <1>2 DEF ContCall, Callback, Goto, Raise

\* At rest, and in the method it has called, is where the REPL may be.
LEMMA MethodStep == ReplInv /\ ViewOK /\ MethodOK /\ [ReplNext]_allVars => MethodOK'
<1> SUFFICES ASSUME ReplInv, ViewOK, MethodOK, [ReplNext]_allVars PROVE MethodOK'
  OBVIOUS
<1> USE DEF MethodOK, Waiting, history
<1>1. CASE User
  BY <1>1 DEF User, UserLaunches, UserAttaches, UserConnects, UserCreatesTarget,
              UserContinues, UserCommands, UserDeletesTarget, Call, At, AtRest, ReplGoto, vars,
              ReplLives, Undisturbed
<1>2. CASE Launch \/ LaunchFailed \/ LaunchStays \/ LaunchGoes \/ LaunchResumes \/ KillDone
  BY <1>2 DEF Launch, LaunchFailed, LaunchStays, LaunchGoes, LaunchResumes, KillDone,
              Call, At, AtRest, Done, ReplGoto, vars, ReplLives, Undisturbed
<1>3. CASE CommandRaised \/ SimplyDone \/ Command \/ CommandDone \/ ControllersCleared
  BY <1>3 DEF CommandRaised, SimplyDone, Command, CommandDone, ControllersCleared,
              Call, At, AtRest, Done, ReplGoto, vars, ReplLives, Undisturbed
<1>4. CASE ControllerStarts \/ ControllerDone
  BY <1>4 DEF ControllerStarts, ControllerDone, Call, At, AtRest, ReplGoto, vars, CoOps,
              ReplLives, Undisturbed
<1>5. CASE DriverRuns \/ LldbRuns
  <2>1. (Driver \/ Lldb) /\ rpc' = rpc
    BY <1>5, Zenon DEF DriverRuns, LldbRuns, replVars
  <2>2. IInv
    BY DEF ReplInv
  <2>3. /\ op \in {"kill", "launch", "attach", "connect", "core", "cont"} => op' = op
        /\ op \in {"command", "poll"} => op' \in {"command", "poll"}
        /\ op \in CoOps => op' \in CoOps
        /\ pc = "idle" => UNCHANGED <<pc, op, exc, ret>>
    BY <2>1, <2>2, OpsKept, Zenon
  <2>4. Undisturbed' => Undisturbed
    BY <2>2, ReplStep, UndisturbedStep DEF IInv
  <2> QED BY <2>1, <2>3, <2>4 DEF ReplLives
<1>6. CASE UserInterrupts
  <2>1. ~Undisturbed'
    BY <1>6 DEF UserInterrupts, Interrupt, Undisturbed, ReplInv, IInv, LocalsOK
  <2>2. op' = op /\ (pc = "idle" => pc' = "idle")
    BY <1>6, InterruptKeeps DEF UserInterrupts
  <2> QED BY <1>6, <2>1, <2>2 DEF UserInterrupts, AtRest
<1>7. CASE UNCHANGED allVars
  BY <1>7 DEF allVars, vars, replVars, ReplLives, Undisturbed
<1> QED BY <1>1, <1>2, <1>3, <1>4, <1>5, <1>6, <1>7 DEF ReplNext, Repl

\* What pwndbg was told follows what the driver has told.
LEMMA ToldStep ==
    /\ ReplInv /\ ViewOK /\ ReturnedViewOK /\ MethodOK /\ ToldOK
    /\ [ReplNext]_allVars
    => ToldOK'
<1> SUFFICES ASSUME ReplInv, ViewOK, ReturnedViewOK, MethodOK, ToldOK, [ReplNext]_allVars,
                    Undisturbed', rpc' # "dead"
             PROVE  ToldOK'
  BY DEF ToldOK
<1>a. Undisturbed
  BY ReplStep, UndisturbedStep DEF ReplInv, IInv
<1>b. /\ pc = "idle" /\ ReplLives => (HasProcess <=> view # "none")
      /\ exc # "Cancelled"
  BY <1>a DEF ViewOK
<1>c. rpc \notin Waiting => pc = "idle" /\ (rpc # "dead" => ReplLives)
  BY <1>a DEF MethodOK
<1> USE <1>a, <1>b, <1>c DEF ToldOK, Waiting, history
<1>1. CASE User
  <2>1. /\ rpc = "prompt" /\ pc = "idle"
        /\ UNCHANGED <<view, told, ignoreResumed>>
        /\ rpc' = "continued" => pc' = "call"
        /\ rpc' \in {"launched", "connected", "loaded"} => ~HasProcess
        /\ rpc' # "resuming"
    <3>1. CASE UserLaunches
      BY <3>1 DEF UserLaunches, Call, At, AtRest, ReplGoto, vars
    <3>2. CASE UserAttaches \/ UserConnects
      BY <3>2 DEF UserAttaches, UserConnects, Call, At, AtRest, ReplGoto, vars,
                  HasProcess, HasConnection
    <3>3. CASE UserCreatesTarget
      BY <3>3 DEF UserCreatesTarget, Call, At, AtRest, ReplGoto, vars, ReplInv, Targeted,
                  HasProcess
    <3>4. CASE UserContinues \/ UserCommands \/ UserDeletesTarget
      BY <3>4 DEF UserContinues, UserCommands, UserDeletesTarget, Call, At, AtRest,
                  ReplGoto, vars
    <3> QED BY <1>1, <3>1, <3>2, <3>3, <3>4 DEF User
  <2> QED BY <2>1
<1>2. CASE LaunchFailed \/ LaunchStays \/ LaunchGoes
  <2>1. /\ rpc \in {"launched", "connected"} /\ UNCHANGED vars
        /\ view = (IF ret = "success" THEN "created" ELSE "none")
    BY <1>2 DEF LaunchFailed, LaunchStays, LaunchGoes, At, AtRest, Done,
                ReturnedViewOK, MethodOK, Opening
  <2>2. rpc # "resuming" /\ ignoreResumed = 0
    BY <2>1, <1>2 DEF LaunchFailed, LaunchStays, LaunchGoes, At, AtRest, Done
  <2>3. CASE LaunchFailed
    BY <2>1, <2>3 DEF LaunchFailed, Done, At, ReplGoto, vars
  <2>4. CASE LaunchStays
    BY <2>1, <2>4 DEF LaunchStays, Done, At, ReplGoto, vars
  <2>5. CASE LaunchGoes
    BY <2>1, <2>2, <2>5 DEF LaunchGoes, Done, At, ReplGoto, vars
  <2> QED BY <1>2, <2>3, <2>4, <2>5
<1>3. CASE Launch \/ LaunchResumes \/ KillDone
  BY <1>3 DEF Launch, LaunchResumes, KillDone, Call, At, AtRest, Done, ReplGoto, vars,
              ReplInv, CommandsOK
<1>4. CASE CommandRaised \/ SimplyDone
  BY <1>4 DEF CommandRaised, SimplyDone, At, AtRest, Done, ReplGoto, vars,
              ReturnedViewOK, MethodOK
<1>5. CASE Command \/ CommandDone \/ ControllerStarts \/ ControllerDone \/ ControllersCleared
  BY <1>5 DEF Command, CommandDone, ControllerStarts, ControllerDone, ControllersCleared,
              Call, At, AtRest, Done, ReplGoto, vars
<1>6. CASE DriverRuns
  <2> DEFINE resumed == pc = "call" /\ op = "cont" /\ exc' # "Assertion"
  <2>1. /\ Driver /\ rpc' = rpc
        /\ ignoreResumed' = IF resumed /\ ignoreResumed > 0 THEN ignoreResumed - 1
                                                            ELSE ignoreResumed
        /\ told' = IF resumed THEN IF ignoreResumed > 0 THEN told ELSE "CONTINUE"
                   ELSE IF view' = view THEN told
                   ELSE CASE view' = "created" -> "START"
                          [] view' = "suspended" -> "STOP"
                          [] view' = "none" -> "none"
    BY <1>6 DEF DriverRuns
  <2>2. pc # "idle"
    BY <2>1 DEF Driver, ContCall, ContGo, KillCall, KillFails, KillSucceeds, KillLoop,
          CommandCall, CommandFinishes, CommandUnanswered, CommandResumes, CommandOnCore,
          SuspendExit, EnterAsserts, EnterSucceeds, EnterFails, AttachRemoteNoPid, Created,
          ConnectFails, ConnectSucceeds, CoreFails, CoreLoads, CoreSuspended, RunEnter,
          WaitTimesOut, OtherEvent, RunningEvent, StoppedEvent, ExitedEvent, HandlerStarts,
          HandlerEnds, RunFinally, ContLeaves, KillLeaves, CommandLeaves, EnterLeaves,
          CoroutineCall, CoroutineStarts, CoroutineYields, CoroutineReturns, CoroutineCancelled,
          CoroutineRaises, CoroutineOutlivesProcess, StepFails, CoroutineResumes, StepLeaves,
          ResumeLeaves, CoroutineExit, Receive, RunLeaves
  <2>3. /\ op \in {"launch", "attach", "connect", "core"} =>
               rpc \in {"launched", "connected", "loaded"}
        /\ op = "cont" => rpc = "continued"
    BY <2>2 DEF MethodOK, CoOps
  <2>4. \/ /\ pc = "call" /\ op = "cont"
           /\ view' = (IF exc' = "Assertion" THEN view ELSE "resumed")
        \/ ~(pc = "call" /\ op = "cont") /\ view' = view
        \/ /\ ~(pc = "call" /\ op = "cont")
           /\ \/ view' = "created" /\ op \in {"launch", "attach", "connect", "core"}
              \/ view' = "suspended"
              \/ view' = "none" /\ view # "none"
    BY <2>1, ViewChanges, Zenon DEF ReplInv
  <2>5. pc = "call" /\ op = "cont" => exc' # "Assertion"
    <3>1. pc = "call" /\ op = "cont" => HasProcess /\ ~isCore
      BY DEF ReplInv, CallsOK
    <3>2. pc = "call" /\ op = "cont" => exc' # "Assertion"
      BY <2>1, <3>1, ContCalled DEF ReplInv
    <3> QED BY <3>2
  <2>6. pc = "call" => rpc # "resuming"
    BY DEF MethodOK
  <2>7. ignoreResumed > 0 => rpc = "continued" /\ pc = "call" /\ op = "cont"
    BY <2>1, <2>2 DEF MethodOK
  <2>8. CASE resumed
    BY <2>1, <2>3, <2>4, <2>6, <2>8
  <2>9. CASE ~resumed
    <3>1. ignoreResumed' = ignoreResumed /\ ~(ignoreResumed > 0)
      BY <2>1, <2>5, <2>7, <2>9
    <3>2. ~(pc = "call" /\ op = "cont")
      BY <2>5, <2>9
    <3> HIDE DEF resumed
    <3>3. CASE view' = view
      BY <2>1, <2>9, <3>1, <3>3
    <3>4. CASE view' # view
      BY <2>1, <2>3, <2>4, <2>9, <3>1, <3>2, <3>4
    <3> QED BY <3>3, <3>4
  <2> QED BY <2>8, <2>9
<1>7. CASE LldbRuns
  BY <1>7 DEF LldbRuns, Lldb, driverVars, replVars
<1>8. CASE UserInterrupts
  BY <1>8, ReplStep, UndisturbedStep DEF ReplInv, IInv, UserInterrupts
<1>9. CASE UNCHANGED allVars
  BY <1>9 DEF allVars, vars, replVars
<1> QED BY <1>1, <1>2, <1>3, <1>4, <1>5, <1>6, <1>7, <1>8, <1>9 DEF ReplNext, Repl

\* A step of the driver that is not the end of a command queues no controllers.
LEMMA NothingQueued ==
    ASSUME DriverRuns, ~Queues, controllers = << >> PROVE controllers' = << >>
<1>1. PICK n \in 0..0 :
        LET queued == controllers \o [i \in 1..n |-> TRUE]
        IN controllers' = IF process' THEN queued ELSE [i \in DOMAIN queued |-> FALSE]
  BY DEF DriverRuns
<1> DEFINE queued == controllers \o [i \in 1..n |-> TRUE]
<1>2. << >> \in Seq(BOOLEAN) /\ Len(<< >>) = 0
  BY NoControllers
<1>3. [i \in 1..n |-> TRUE] = << >>
  BY <1>1
<1>4. queued = << >>
  BY <1>2, <1>3
<1>5. controllers' = IF process' THEN queued ELSE [i \in DOMAIN queued |-> FALSE]
  BY <1>1
<1> HIDE DEF queued
<1>6. [i \in DOMAIN << >> |-> FALSE] = << >>
  OBVIOUS
<1> QED BY <1>4, <1>5, <1>6

\* Each step leaves no controller behind outside the end of a command.
LEMMA ControllersStep ==
    ReplInv /\ ViewOK /\ MethodOK /\ ControllersOK /\ [ReplNext]_allVars => ControllersOK'
<1> SUFFICES ASSUME ReplInv, ViewOK, MethodOK, ControllersOK, [ReplNext]_allVars,
                    Undisturbed',
                    rpc' \notin {"ran", "controllers", "controller", "dead"}
             PROVE  controllers' = << >>
  BY DEF ControllersOK
<1>a. Undisturbed
  BY ReplStep, UndisturbedStep DEF ReplInv, IInv
<1>b. exc # "Cancelled"
  BY <1>a DEF ViewOK
<1> USE <1>a, <1>b DEF ControllersOK
<1>1. CASE User
  BY <1>1 DEF User, UserLaunches, UserAttaches, UserConnects, UserCreatesTarget,
              UserContinues, UserCommands, UserDeletesTarget, At, ReplGoto
<1>2. CASE CommandRaised
  BY <1>2 DEF CommandRaised
<1>3. CASE KillDone \/ Launch \/ LaunchFailed \/ LaunchStays \/ LaunchGoes \/ LaunchResumes
  BY <1>3 DEF KillDone, Launch, LaunchFailed, LaunchStays, LaunchGoes, LaunchResumes,
              At, Done, ReplGoto
<1>4. CASE SimplyDone \/ Command \/ CommandDone \/ ControllerStarts \/ ControllerDone
             \/ ControllersCleared
  BY <1>4 DEF SimplyDone, Command, CommandDone, ControllerStarts, ControllerDone,
              ControllersCleared, At, Done, ReplGoto
<1>5. CASE DriverRuns
  <2>1. rpc' = rpc
    BY <1>5 DEF DriverRuns
  <2>2. pc # "command"
    BY <2>1 DEF MethodOK, Waiting, ReplInv, IInv, ControlOK
  <2> QED BY <1>5, <2>1, <2>2, NothingQueued DEF Queues
<1>6. CASE LldbRuns
  BY <1>6 DEF LldbRuns, replVars
<1>7. CASE UserInterrupts
  BY <1>7, ReplStep, UndisturbedStep DEF ReplInv, IInv, UserInterrupts
<1>8. CASE UNCHANGED allVars
  BY <1>8 DEF allVars, vars, replVars
<1> QED BY <1>1, <1>2, <1>3, <1>4, <1>5, <1>6, <1>7, <1>8 DEF ReplNext, Repl

\* The invariant of the REPL with its driver, until the first Ctrl-C included.
LEMMA ReplInvariant == ReplSpec => [](ReplInv /\ ViewOK /\ ReturnedViewOK /\ MethodOK)
<1>1. ReplInit => ReturnedViewOK /\ MethodOK
  BY DEF ReplInit, Init, LldbInit, ReturnedViewOK, MethodOK, Opening, Waiting, ReplLives
<1>2. /\ ReplInv /\ ViewOK /\ (ReturnedViewOK /\ MethodOK) /\ [ReplNext]_allVars
      => (ReturnedViewOK /\ MethodOK)'
  BY ReplStep, ReturnedViewStep, MethodStep DEF ReplInv
<1>3. ReplSpec => []ViewOK
  BY Implements, Notified, PTL
<1> QED BY <1>1, <1>2, <1>3, Implements, PTL DEF ReplSpec

\* When the prompt shows up pwndbg was told last that the process stopped, exactly
\* if there is one, and every resumption is told; for any number of events, with
\* handlers that raise or not.
THEOREM PwndbgKnows == ReplSpec => []PwndbgIsTold
<1>1. ReplInit => ToldOK
  BY DEF ReplInit, Init, LldbInit, ToldOK
<1>2. ReplInv /\ ViewOK /\ ReturnedViewOK /\ MethodOK /\ ToldOK => PwndbgIsTold
  <2> SUFFICES ASSUME ReplInv, ViewOK, ReturnedViewOK, MethodOK, ToldOK, Undisturbed
               PROVE  /\ rpc = "prompt" => (HasProcess <=> told = "STOP")
                      /\ pc = "cont_go" => told \in {"START", "CONTINUE"}
    BY DEF PwndbgIsTold
  <2>1. ASSUME rpc = "prompt" PROVE HasProcess <=> told = "STOP"
    <3>1. pc = "idle" /\ ReplLives
      BY <2>1 DEF MethodOK, Waiting
    <3>2. (HasProcess <=> view # "none") /\ view \in {"none", "created", "suspended", "resumed"}
      BY <3>1 DEF ViewOK, ReplInv, IInv, LocalsOK
    <3> QED BY <2>1, <3>2 DEF ToldOK
  <2>2. ASSUME pc = "cont_go" PROVE told \in {"START", "CONTINUE"}
    <3>1. op = "cont" /\ rpc # "dead"
      BY <2>2 DEF ReplInv, IInv, ControlOK, MethodOK, Waiting
    <3>2. view = "resumed"
      BY <2>2, <3>1 DEF ReturnedViewOK
    <3> QED BY <3>1, <3>2 DEF ToldOK
  <2> QED BY <2>1, <2>2
<1> QED BY <1>1, <1>2, ReplInvariant, ToldStep, PTL DEF ReplSpec

\* A controller runs at the end of the command that queued it, or never.
THEOREM ControllersRunThen == ReplSpec => []ControllersRunAtOnce
<1>1. ReplInit => ControllersOK
  BY DEF ReplInit, ControllersOK
<1>2. ControllersOK => ControllersRunAtOnce
  BY DEF ControllersOK, ControllersRunAtOnce
<1> QED BY <1>1, <1>2, ReplInvariant, ControllersStep, PTL DEF ReplSpec
=============================================================================
