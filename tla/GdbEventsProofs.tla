-------------------------- MODULE GdbEventsProofs --------------------------
(***************************************************************************)
(* Proofs about GdbEvents: the types, that the start event fires once,     *)
(* that the deadlock detection is right unless a command failed, that what *)
(* is queued is run, and what the handlers are told: START before STOP,    *)
(* no STOP without a process, nothing that was suspended; and that the     *)
(* context displayed at the prompt is that of the process where it stands. *)
(***************************************************************************)
EXTENDS GdbEvents, TLAPS

USE EventsAssumption

(***************************************************************************)
(* The call stack                                                          *)
(***************************************************************************)
\* A call is put on the stack.
LEMMA CallType ==
    ASSUME frames \in Seq(Frames), NEW at \in {"yield", "drain"}
    PROVE  Call(at) \in Seq(Frames)
BY DEF Call, Frames

\* The innermost is taken from it.
LEMMA FrontType ==
    ASSUME NEW S, NEW s \in Seq(S), s # << >>
    PROVE  /\ Front(s) \in Seq(S)
           /\ Len(Front(s)) = Len(s) - 1
           /\ \A i \in 1..(Len(s) - 1) : Front(s)[i] = s[i]
<1>1. Len(s) \in Nat /\ Len(s) > 0
  OBVIOUS
<1>2. Front(s) = [i \in 1..(Len(s) - 1) |-> s[i]]
  BY <1>1 DEF Front
<1>3. Len(s) - 1 \in Nat /\ \A i \in 1..(Len(s) - 1) : s[i] \in S
  BY <1>1
<1> QED  BY <1>2, <1>3

\* Calls are appended to the queue.
LEMMA EnqueueType ==
    ASSUME queue \in Seq(Queued), suspended \in BOOLEAN,
           NEW cs \in Seq(Events \cup {"check"}), Enqueue(cs)
    PROVE  queue' \in Seq(Queued)
<1>1. \A i \in DOMAIN cs : Entry(cs[i]) \in Queued
  BY DEF Entry, Queued
<1>2. [i \in DOMAIN cs |-> Entry(cs[i])] \in Seq(Queued)
  BY <1>1
<1> QED  BY <1>2 DEF Enqueue

(***************************************************************************)
(* Types                                                                   *)
(***************************************************************************)
\* Flags are TRUE or FALSE.
LEMMA FlagsStep == FlagsOK /\ [Next]_vars => FlagsOK'
<1> SUFFICES ASSUME FlagsOK, [Next]_vars PROVE FlagsOK'
  OBVIOUS
<1> USE DEF FlagsOK, calls, prompt, history
<1>1. CASE YieldEnds
  BY <1>1 DEF YieldEnds
<1>2. CASE YieldRaises
  BY <1>2 DEF YieldRaises
<1>3. CASE StartHandlers
  BY <1>3 DEF StartHandlers, InvokeEvent
<1>4. CASE CheckPasses
  BY <1>4 DEF CheckPasses
<1>5. CASE EventHandlers
  BY <1>5 DEF EventHandlers, InvokeEvent
<1>6. CASE CallReturns
  BY <1>6 DEF CallReturns
<1>7. CASE ReloadHandlers
  BY <1>7 DEF ReloadHandlers, InvokeEvent
<1>8. CASE PromptAppears
  BY <1>8 DEF PromptAppears
<1>9. CASE RunPosted
  BY <1>9 DEF RunPosted
<1>10. CASE ProcessAppears
  BY <1>10 DEF ProcessAppears
<1>11. CASE ThreadStops
  BY <1>11 DEF ThreadStops, StopEvent, SysExit, Post, Deadlocked
<1>12. CASE ThreadResumes
  BY <1>12 DEF ThreadResumes, PlainEvent, SwitchRaises, SysExit, Drain
<1>13. CASE ProcessExits
  BY <1>13 DEF ProcessExits, ExitedEvent, SysExit, Drain
<1>14. CASE ObjfileLoads
  BY <1>14 DEF ObjfileLoads, ObjfileEvent, SysExit, Post, Drain
<1>15. CASE OtherHappens
  BY <1>15 DEF OtherHappens, PlainEvent, SysExit, Drain
<1>16. CASE Suspend
  BY <1>16 DEF Suspend
<1>17. CASE ResumeEvents
  BY <1>17 DEF ResumeEvents
<1>18. CASE PromptHook
  BY <1>18 DEF PromptHook
<1>19. CASE UNCHANGED vars
  BY <1>19 DEF vars
<1> QED
  BY <1>1, <1>2, <1>3, <1>4, <1>5, <1>6, <1>7, <1>8, <1>9, <1>10, <1>11,
     <1>12, <1>13, <1>14, <1>15, <1>16, <1>17, <1>18, <1>19 DEF Next, Pwndbg

\* A process is started when it has not been, and armed when it appears.
LEMMA RangesStep ==
    FlagsOK /\ RangesOK /\ StartOnce /\ [Next]_vars => (RangesOK /\ StartOnce)'
<1> SUFFICES ASSUME FlagsOK, RangesOK /\ StartOnce, [Next]_vars PROVE (RangesOK /\ StartOnce)'
  OBVIOUS
<1> USE DEF RangesOK, StartOnce, FlagsOK, calls, prompt, history, Threads, MoreThan
<1>1. CASE YieldEnds
  BY <1>1 DEF YieldEnds
<1>2. CASE YieldRaises
  BY <1>2 DEF YieldRaises
<1>3. CASE StartHandlers
  BY <1>3 DEF StartHandlers, InvokeEvent, Starting
<1>4. CASE CheckPasses
  BY <1>4 DEF CheckPasses
<1>5. CASE EventHandlers
  BY <1>5 DEF EventHandlers, InvokeEvent
<1>6. CASE CallReturns
  BY <1>6 DEF CallReturns
<1>7. CASE ReloadHandlers
  BY <1>7 DEF ReloadHandlers, InvokeEvent
<1>8. CASE PromptAppears
  BY <1>8 DEF PromptAppears
<1>9. CASE RunPosted
  BY <1>9 DEF RunPosted
<1>10. CASE ProcessAppears
  BY <1>10 DEF ProcessAppears, Reselect
<1>11. CASE ThreadStops
  BY <1>11 DEF ThreadStops, StopEvent, SysExit, Post, Deadlocked
<1>12. CASE ThreadResumes
  BY <1>12 DEF ThreadResumes, PlainEvent, SwitchRaises, SysExit, Drain
<1>13. CASE ProcessExits
  BY <1>13 DEF ProcessExits, ExitedEvent, SysExit, Drain, Reselect
<1>14. CASE ObjfileLoads
  BY <1>14 DEF ObjfileLoads, ObjfileEvent, SysExit, Post, Drain
<1>15. CASE OtherHappens
  BY <1>15 DEF OtherHappens, PlainEvent, SysExit, Drain
<1>16. CASE Suspend
  BY <1>16 DEF Suspend
<1>17. CASE ResumeEvents
  BY <1>17 DEF ResumeEvents
<1>18. CASE PromptHook
  BY <1>18 DEF PromptHook
<1>19. CASE UNCHANGED vars
  BY <1>19 DEF vars
<1> QED
  BY <1>1, <1>2, <1>3, <1>4, <1>5, <1>6, <1>7, <1>8, <1>9, <1>10, <1>11,
     <1>12, <1>13, <1>14, <1>15, <1>16, <1>17, <1>18, <1>19 DEF Next, Pwndbg

\* What the history says of an invocation.
LEMMA InvokeRan ==
    ASSUME RanOK, thread \in Threads,
           NEW e \in Events \cup {"start"}, NEW i \in BOOLEAN, NEW next,
           InvokeEvent(e, i, next)
    PROVE  RanOK'
<1>1. CASE suspended
  BY <1>1 DEF InvokeEvent, RanOK
<1>2. CASE ~suspended
  <2> DEFINE b == starts' = 0
  <2>1. b \in BOOLEAN
    BY Zenon
  <2>2. ran' = [event |-> e, thread |-> thread, first |-> b, ignored |-> i]
    BY <1>2 DEF InvokeEvent
  <2> HIDE DEF b
  <2>3. e \in Events \cup {"start", "none"}
    OBVIOUS
  <2>4. [event |-> e, thread |-> thread, first |-> b, ignored |-> i]
          \in [event : Events \cup {"start", "none"}, thread : Threads, first : BOOLEAN,
              ignored : BOOLEAN]
    BY <2>1, <2>3, Zenon
  <2>5. ran' \in [event : Events \cup {"start", "none"}, thread : Threads, first : BOOLEAN,
                 ignored : BOOLEAN]
    BY <2>2, <2>4, Zenon
  <2> QED  BY <2>5, Zenon DEF RanOK
<1> QED  BY <1>1, <1>2

\* The history records events, threads and flags.
LEMMA RanStep == CallsOK /\ RangesOK /\ RanOK /\ [Next]_vars => RanOK'
<1> SUFFICES ASSUME CallsOK /\ RangesOK /\ RanOK, [Next]_vars PROVE RanOK'
  OBVIOUS
<1> USE DEF calls, prompt, history
<1>1. CASE YieldEnds
  BY <1>1 DEF YieldEnds, RanOK
<1>2. CASE YieldRaises
  BY <1>2 DEF YieldRaises, RanOK
<1>3. CASE StartHandlers
  <2>1. Head(queue) \in Queued
    BY <1>3 DEF CallsOK, StartHandlers
  <2>2. Head(queue).ignored \in BOOLEAN
    BY <2>1 DEF Queued
  <2>3. InvokeEvent("start", Head(queue).ignored, frames)
    BY <1>3 DEF StartHandlers
  <2> QED  BY <2>2, <2>3, InvokeRan DEF RangesOK
<1>4. CASE CheckPasses
  BY <1>4 DEF CheckPasses, RanOK
<1>5. CASE EventHandlers
  <2>1. Head(queue) \in Queued
    BY <1>5 DEF CallsOK, EventHandlers
  <2>2. Head(queue).ignored \in BOOLEAN /\ Head(queue).call \in Events
    BY <1>5, <2>1 DEF Queued, EventHandlers
  <2>3. InvokeEvent(Head(queue).call, Head(queue).ignored, frames)
    BY <1>5 DEF EventHandlers
  <2> QED  BY <2>2, <2>3, InvokeRan DEF RangesOK
<1>6. CASE CallReturns
  BY <1>6 DEF CallReturns, RanOK
<1>7. CASE ReloadHandlers
  <2> DEFINE todo == Last(frames).todo
  <2>1. Last(frames) \in Frames /\ Last(frames).at = "reload" /\ todo # << >>
    BY <1>7 DEF ReloadHandlers, At, CallsOK, Last
  <2>2. todo \in Seq(Events \cup {"start"})
    BY <2>1 DEF Frames
  <2>3. Head(todo) \in Events \cup {"start"}
    BY <2>1, <2>2
  <2>4. InvokeEvent(Head(todo), FALSE, <<[at |-> "reload", todo |-> Tail(todo)]>>)
    BY <1>7 DEF ReloadHandlers
  <2> HIDE DEF todo
  <2> QED  BY <2>3, <2>4, InvokeRan DEF RangesOK
<1>8. CASE PromptAppears
  BY <1>8 DEF PromptAppears, RanOK
<1>9. CASE RunPosted
  BY <1>9 DEF RunPosted, RanOK
<1>10. CASE ProcessAppears
  BY <1>10 DEF ProcessAppears, RanOK
<1>11. CASE ThreadStops
  BY <1>11 DEF ThreadStops, StopEvent, SysExit, Post, Deadlocked, RanOK
<1>12. CASE ThreadResumes
  BY <1>12 DEF ThreadResumes, PlainEvent, SwitchRaises, SysExit, Drain, RanOK
<1>13. CASE ProcessExits
  BY <1>13 DEF ProcessExits, ExitedEvent, SysExit, Drain, RanOK
<1>14. CASE ObjfileLoads
  BY <1>14 DEF ObjfileLoads, ObjfileEvent, SysExit, Post, Drain, RanOK
<1>15. CASE OtherHappens
  BY <1>15 DEF OtherHappens, PlainEvent, SysExit, Drain, RanOK
<1>16. CASE Suspend
  BY <1>16 DEF Suspend, RanOK
<1>17. CASE ResumeEvents
  BY <1>17 DEF ResumeEvents, RanOK
<1>18. CASE PromptHook
  BY <1>18 DEF PromptHook, RanOK
<1>19. CASE UNCHANGED vars
  BY <1>19 DEF vars, RanOK
<1> QED
  BY <1>1, <1>2, <1>3, <1>4, <1>5, <1>6, <1>7, <1>8, <1>9, <1>10, <1>11,
     <1>12, <1>13, <1>14, <1>15, <1>16, <1>17, <1>18, <1>19 DEF Next, Pwndbg

\* The innermost call is replaced.
LEMMA ReplaceType ==
    ASSUME frames \in Seq(Frames), frames # << >>
    PROVE  Front(frames) \o <<[at |-> "drain", todo |-> << >>]>> \in Seq(Frames)
<1>1. Front(frames) \in Seq(Frames)
  BY FrontType
<1>2. [at |-> "drain", todo |-> << >>] \in Frames
  BY DEF Frames
<1> QED  BY <1>1, <1>2

\* The queue holds calls, the stack frames.
LEMMA CallsStep == FlagsOK /\ CallsOK /\ [Next]_vars => CallsOK'
<1> SUFFICES ASSUME FlagsOK /\ CallsOK, [Next]_vars PROVE CallsOK'
  OBVIOUS
<1> USE DEF CallsOK, calls, prompt, history
<1>1. CASE YieldEnds
  BY <1>1, ReplaceType DEF YieldEnds, At
<1>2. CASE YieldRaises
  BY <1>2, FrontType DEF YieldRaises, At
<1>3. CASE StartHandlers
  BY <1>3, FrontType DEF StartHandlers, InvokeEvent, At
<1>4. CASE CheckPasses
  BY <1>4 DEF CheckPasses
<1>5. CASE EventHandlers
  BY <1>5, FrontType DEF EventHandlers, InvokeEvent, At
<1>6. CASE CallReturns
  BY <1>6, FrontType DEF CallReturns, At
<1>7. CASE ReloadHandlers
  <2> DEFINE todo == Last(frames).todo
             next == <<[at |-> "reload", todo |-> Tail(todo)]>>
  <2>1. Last(frames) \in Frames /\ Last(frames).at = "reload" /\ todo # << >>
    BY <1>7 DEF ReloadHandlers, At, Last
  <2>2. todo \in Seq(Events \cup {"start"})
    BY <2>1 DEF Frames
  <2>3. Tail(todo) \in Seq(Events \cup {"start"})
    BY <2>1, <2>2
  <2>4. next \in Seq(Frames)
    BY <2>3 DEF Frames
  <2>5. frames' \in {next, Front(frames)} /\ UNCHANGED queue
    BY <1>7 DEF ReloadHandlers, InvokeEvent
  <2>6. Front(frames) \in Seq(Frames)
    BY <1>7, FrontType DEF ReloadHandlers, At
  <2> HIDE DEF next
  <2> QED  BY <2>4, <2>5, <2>6
<1>8. CASE PromptAppears
  BY <1>8 DEF PromptAppears
<1>9. CASE RunPosted
  BY <1>9, CallType DEF RunPosted
<1>10. CASE ProcessAppears
  BY <1>10 DEF ProcessAppears
<1>11. CASE ThreadStops
  <2>1. CASE StopEvent
    <3>1. Enqueue(<<"check", "stop">>)
          /\ <<"check", "stop">> \in Seq(Events \cup {"check"})
      BY <2>1 DEF StopEvent, Events
    <3>2. queue' \in Seq(Queued)
      BY <3>1, EnqueueType DEF FlagsOK
    <3>3. frames' \in Seq(Frames)
      BY <2>1, CallType DEF StopEvent, Post, Drain
    <3> QED  BY <3>2, <3>3
  <2>2. CASE SysExit
    BY <2>2 DEF SysExit
  <2> QED  BY <1>11, <2>1, <2>2 DEF ThreadStops
<1>12. CASE ThreadResumes
  <2>1. CASE PlainEvent("cont")
    <3>1. Enqueue(<<"cont">>)
          /\ <<"cont">> \in Seq(Events \cup {"check"})
      BY <2>1 DEF PlainEvent, Events
    <3>2. queue' \in Seq(Queued)
      BY <3>1, EnqueueType DEF FlagsOK
    <3>3. frames' \in Seq(Frames)
      BY <2>1, CallType DEF PlainEvent, Post, Drain
    <3> QED  BY <3>2, <3>3
  <2>2. CASE SwitchRaises
    <3>1. Enqueue(<<"cont">>)
          /\ <<"cont">> \in Seq(Events \cup {"check"})
      BY <2>2 DEF SwitchRaises, Events
    <3>2. queue' \in Seq(Queued)
      BY <3>1, EnqueueType DEF FlagsOK
    <3>3. frames' \in Seq(Frames)
      BY <2>2, CallType DEF SwitchRaises, Post, Drain
    <3> QED  BY <3>2, <3>3
  <2>3. CASE SysExit
    BY <2>3 DEF SysExit
  <2> QED  BY <1>12, <2>1, <2>2, <2>3 DEF ThreadResumes
<1>13. CASE ProcessExits
  <2>1. CASE ExitedEvent
    <3>1. Enqueue(<<"exited">>)
          /\ <<"exited">> \in Seq(Events \cup {"check"})
      BY <2>1 DEF ExitedEvent, Events
    <3>2. queue' \in Seq(Queued)
      BY <3>1, EnqueueType DEF FlagsOK
    <3>3. frames' \in Seq(Frames)
      BY <2>1, CallType DEF ExitedEvent, Post, Drain
    <3> QED  BY <3>2, <3>3
  <2>2. CASE SysExit
    BY <2>2 DEF SysExit
  <2> QED  BY <1>13, <2>1, <2>2 DEF ProcessExits
<1>14. CASE ObjfileLoads
  <2>1. CASE \E safe \in BOOLEAN : ObjfileEvent(safe)
    <3>1. Enqueue(<<"check", "new_objfile">>)
          /\ <<"check", "new_objfile">> \in Seq(Events \cup {"check"})
      BY <2>1 DEF ObjfileEvent, Events
    <3>2. queue' \in Seq(Queued)
      BY <3>1, EnqueueType DEF FlagsOK
    <3>3. frames' \in Seq(Frames)
      BY <2>1, CallType DEF ObjfileEvent, Post, Drain
    <3> QED  BY <3>2, <3>3
  <2>2. CASE SysExit
    BY <2>2 DEF SysExit
  <2> QED  BY <1>14, <2>1, <2>2 DEF ObjfileLoads
<1>15. CASE OtherHappens
  <2>1. CASE PlainEvent("other")
    <3>1. Enqueue(<<"other">>)
          /\ <<"other">> \in Seq(Events \cup {"check"})
      BY <2>1 DEF PlainEvent, Events
    <3>2. queue' \in Seq(Queued)
      BY <3>1, EnqueueType DEF FlagsOK
    <3>3. frames' \in Seq(Frames)
      BY <2>1, CallType DEF PlainEvent, Post, Drain
    <3> QED  BY <3>2, <3>3
  <2>2. CASE SysExit
    BY <2>2 DEF SysExit
  <2> QED  BY <1>15, <2>1, <2>2 DEF OtherHappens
<1>16. CASE Suspend
  BY <1>16 DEF Suspend
<1>17. CASE ResumeEvents
  BY <1>17 DEF ResumeEvents
<1>18. CASE PromptHook
  <2> DEFINE first == IF cur = "none" THEN <<"start">> ELSE << >>
             reload == IF cur = "selected" \/ thread = "none" THEN << >>
                       ELSE <<"stop">> \o first \o <<"new_objfile", "other">>
  <2>1. first \in Seq(Events \cup {"start"})
    <3>1. CASE cur = "none"
      BY <3>1
    <3>2. CASE cur # "none"
      BY <3>2
    <3> QED  BY <3>1, <3>2
  <2>2. <<"stop">> \in Seq(Events \cup {"start"})
        /\ <<"new_objfile", "other">> \in Seq(Events \cup {"start"})
    BY DEF Events
  <2> HIDE DEF first
  <2>3. <<"stop">> \o first \o <<"new_objfile", "other">> \in Seq(Events \cup {"start"})
    BY <2>1, <2>2
  <2>6. reload \in Seq(Events \cup {"start"})
    <3>1. CASE cur = "selected" \/ thread = "none"
      BY <3>1
    <3>2. CASE ~(cur = "selected" \/ thread = "none")
      BY <2>3, <3>2
    <3> QED  BY <3>1, <3>2
  <2>4. frames' = <<[at |-> "reload", todo |-> reload]>> /\ UNCHANGED queue
    BY <1>18 DEF PromptHook, first
  <2> HIDE DEF reload
  <2>5. [at |-> "reload", todo |-> reload] \in Frames
    BY <2>6 DEF Frames
  <2> QED  BY <2>4, <2>5
<1>19. CASE UNCHANGED vars
  BY <1>19 DEF vars
<1> QED
  BY <1>1, <1>2, <1>3, <1>4, <1>5, <1>6, <1>7, <1>8, <1>9, <1>10, <1>11,
     <1>12, <1>13, <1>14, <1>15, <1>16, <1>17, <1>18, <1>19 DEF Next, Pwndbg

\* Every variable keeps its type; and START is invoked once for a process, and armed
\* only before that (StartEvent of events.py), unless after_reload has invoked it too.
THEOREM TypeCorrect == Spec => []TypeOK /\ []StartOnce
<1> DEFINE IInv == TypeOK /\ StartOnce
<1>1. Init => IInv
  <2> SUFFICES ASSUME Init PROVE IInv
    OBVIOUS
  <2>1. FlagsOK
    BY DEF Init, FlagsOK
  <2>2. CallsOK /\ RangesOK /\ StartOnce
    BY DEF Init, CallsOK, RangesOK, StartOnce, Threads
  <2>3. RanOK
    BY DEF Init, RanOK, Threads
  <2> QED  BY <2>1, <2>2, <2>3 DEF TypeOK
<1>2. IInv /\ [Next]_vars => IInv'
  BY FlagsStep, RangesStep, RanStep, CallsStep DEF TypeOK
<1> QED  BY <1>1, <1>2, PTL DEF Spec

(***************************************************************************)
(* The deadlock detection                                                  *)
(***************************************************************************)
\* after_reload is called by GDB itself, never within another call.
Outermost(s) == \A i \in DOMAIN s : s[i].at = "reload" => i = 1
\* A call executes the commands of a breakpoint.
Yields(s)    == \E i \in DOMAIN s : s[i].at = "yield"
\* A call will empty the queue, or is one that executes these commands first.
Works(s)     == \E i \in DOMAIN s : s[i].at # "reload"

\* What the flag executing_event stands for.
ExecutingInv ==
    /\ Outermost(frames)
    /\ executing /\ ~raised => Yields(frames)
    /\ DeadlockIsRealUnlessRaised

\* Who is to run what is queued.
QueueInv == queue # << >> /\ ~raised => posted \/ Works(frames)

\* A call is put on the stack.
LEMMA PushStack ==
    ASSUME frames \in Seq(Frames), Outermost(frames), NEW at \in {"yield", "drain"}
    PROVE  /\ Outermost(Call(at))
           /\ Yields(frames) => Yields(Call(at))
           /\ at = "yield" => Yields(Call(at))
           /\ Works(Call(at))
<1> DEFINE n == Len(frames)
<1>1. n \in Nat /\ DOMAIN frames = 1..n
  OBVIOUS
<1>2. /\ Len(Call(at)) = n + 1 /\ DOMAIN Call(at) = 1..(n + 1)
      /\ \A i \in 1..n : Call(at)[i] = frames[i]
      /\ Call(at)[n + 1].at = at
  BY DEF Call
<1>3. \A i \in 1..n : frames[i].at = "reload" => i = 1
  BY <1>1 DEF Outermost
<1> HIDE DEF n
<1>4. \A i \in 1..(n + 1) : i \in 1..n \/ i = n + 1
  BY <1>1
<1>5. Outermost(Call(at))
  BY <1>2, <1>3, <1>4 DEF Outermost
<1>6. Yields(frames) => Yields(Call(at))
  BY <1>1, <1>2 DEF Yields
<1>7. at = "yield" => Yields(Call(at))
  BY <1>1, <1>2 DEF Yields
<1>8. Works(Call(at))
  BY <1>1, <1>2 DEF Works
<1> QED  BY <1>5, <1>6, <1>7, <1>8

\* A call that returns takes no breakpoint's command with it, unless it is the
\* one that executes it.
LEMMA PopStack ==
    ASSUME frames \in Seq(Frames), frames # << >>, Outermost(frames)
    PROVE  /\ Outermost(Front(frames))
           /\ Last(frames).at # "yield" /\ Yields(frames) => Yields(Front(frames))
           /\ Outermost(Front(frames) \o <<[at |-> "drain", todo |-> << >>]>>)
           /\ Works(Front(frames) \o <<[at |-> "drain", todo |-> << >>]>>)
           /\ Last(frames).at = "reload" => Len(frames) = 1 /\ ~Yields(frames) /\ ~Works(frames)
           /\ Last(frames).at # "reload" => Works(frames)
<1> DEFINE n == Len(frames) - 1
<1>1. n \in Nat /\ DOMAIN frames = 1..(n + 1) /\ Len(frames) = n + 1
  OBVIOUS
<1>2. /\ Len(Front(frames)) = n /\ DOMAIN Front(frames) = 1..n
      /\ \A i \in 1..n : Front(frames)[i] = frames[i]
  BY FrontType
<1>3. Last(frames) = frames[n + 1]
  BY DEF Last
<1>4. \A i \in 1..n : frames[i].at = "reload" => i = 1
  BY <1>1 DEF Outermost
<1>5. Front(frames) \in Seq(Frames)
  BY FrontType
<1> HIDE DEF n
<1>6. Outermost(Front(frames))
  BY <1>2, <1>4 DEF Outermost
<1>7. Last(frames).at # "yield" /\ Yields(frames) => Yields(Front(frames))
  BY <1>1, <1>2, <1>3 DEF Yields
<1>8. /\ Outermost(Front(frames) \o <<[at |-> "drain", todo |-> << >>]>>)
      /\ Works(Front(frames) \o <<[at |-> "drain", todo |-> << >>]>>)
  <2> DEFINE s == Front(frames) \o <<[at |-> "drain", todo |-> << >>]>>
  <2>1. /\ DOMAIN s = 1..(n + 1)
        /\ \A i \in 1..n : s[i] = Front(frames)[i]
        /\ s[n + 1] = [at |-> "drain", todo |-> << >>]
    BY <1>1, <1>2, <1>5
  <2>2. \A i \in 1..(n + 1) : i \in 1..n \/ i = n + 1
    BY <1>1
  <2> HIDE DEF s
  <2>3. \A i \in DOMAIN s : s[i].at = "reload" => i = 1
    BY <1>2, <1>4, <2>1, <2>2
  <2>4. s[n + 1].at = "drain" /\ n + 1 \in DOMAIN s
    BY <1>1, <2>1
  <2>5. Outermost(s)
    BY <2>3 DEF Outermost
  <2>6. Works(s)
    BY <2>4 DEF Works
  <2> QED  BY <2>5, <2>6 DEF s
<1>9. Last(frames).at = "reload" => Len(frames) = 1 /\ ~Yields(frames) /\ ~Works(frames)
  BY <1>1, <1>3 DEF Outermost, Yields, Works
<1>10. Last(frames).at # "reload" => Works(frames)
  BY <1>1, <1>3 DEF Works
<1> QED  BY <1>6, <1>7, <1>8, <1>9, <1>10

\* The empty stack, and after_reload's.
LEMMA SmallStacks ==
    ASSUME NEW todo
    PROVE  /\ Outermost(<< >>) /\ ~Yields(<< >>) /\ ~Works(<< >>)
           /\ Outermost(<<[at |-> "reload", todo |-> todo]>>)
BY DEF Outermost, Yields, Works

\* The flag is kept as it should be, unless something raised.
LEMMA ExecutingStep == FlagsOK /\ CallsOK /\ ExecutingInv /\ [Next]_vars => ExecutingInv'
<1> SUFFICES ASSUME FlagsOK /\ CallsOK /\ ExecutingInv, [Next]_vars PROVE ExecutingInv'
  OBVIOUS
<1> USE DEF FlagsOK, CallsOK, ExecutingInv, calls, prompt, history,
           DeadlockIsRealUnlessRaised, DeadlockIsReal, Yields
<1>1. CASE YieldEnds
  BY <1>1, PopStack DEF YieldEnds, At
<1>2. CASE YieldRaises
  BY <1>2, PopStack DEF YieldRaises, At
<1>3. CASE StartHandlers
  BY <1>3, PopStack DEF StartHandlers, At, InvokeEvent
<1>4. CASE CheckPasses
  BY <1>4 DEF CheckPasses
<1>5. CASE EventHandlers
  BY <1>5, PopStack DEF EventHandlers, At, InvokeEvent
<1>6. CASE CallReturns
  BY <1>6, PopStack DEF CallReturns, At
<1>7. CASE ReloadHandlers
  <2>1. ~Yields(frames)
    BY <1>7, PopStack DEF ReloadHandlers, At
  <2> QED  BY <1>7, <2>1, PopStack, SmallStacks DEF ReloadHandlers, At, InvokeEvent
<1>8. CASE PromptAppears
  <2>1. ~Yields(frames)
    BY <1>8, PopStack DEF PromptAppears, At
  <2> QED  BY <1>8, <2>1, SmallStacks DEF PromptAppears, At
<1>9. CASE RunPosted
  BY <1>9, PushStack DEF RunPosted, MayCall, Idle
<1>10. CASE ProcessAppears
  BY <1>10 DEF ProcessAppears
<1>11. CASE ThreadStops
  <2>1. ~quit
    BY <1>11 DEF ThreadStops, MayDeliver, MayCall
  <2>2. CASE StopEvent
    BY <1>11, <2>1, <2>2, PushStack DEF ThreadStops, StopEvent, Post, Drain
  <2>3. CASE SysExit
    BY <1>11, <2>1, <2>3, SmallStacks DEF ThreadStops, SysExit, Deadlocked
  <2> QED  BY <1>11, <2>2, <2>3 DEF ThreadStops
<1>12. CASE ThreadResumes
  <2>1. ~quit
    BY <1>12 DEF ThreadResumes, MayDeliver, MayCall
  <2>2. CASE PlainEvent("cont")
    BY <1>12, <2>1, <2>2, PushStack DEF ThreadResumes, PlainEvent, Post, Drain
  <2>3. CASE SwitchRaises
    BY <1>12, <2>1, <2>3, PushStack DEF ThreadResumes, SwitchRaises, Post, Drain
  <2>4. CASE SysExit /\ UNCHANGED raised
    BY <2>1, <2>4, SmallStacks DEF SysExit, Deadlocked
  <2> QED  BY <1>12, <2>2, <2>3, <2>4 DEF ThreadResumes
<1>13. CASE ProcessExits
  <2>1. ~quit
    BY <1>13 DEF ProcessExits, MayDeliver, MayCall
  <2>2. CASE ExitedEvent
    BY <1>13, <2>1, <2>2, PushStack DEF ProcessExits, ExitedEvent, Post, Drain
  <2>3. CASE SysExit
    BY <1>13, <2>1, <2>3, SmallStacks DEF ProcessExits, SysExit, Deadlocked
  <2> QED  BY <1>13, <2>2, <2>3 DEF ProcessExits
<1>14. CASE ObjfileLoads
  <2>1. ~quit
    BY <1>14 DEF ObjfileLoads, MayDeliver, MayCall
  <2>2. CASE \E safe \in BOOLEAN : ObjfileEvent(safe)
    BY <1>14, <2>1, <2>2, PushStack DEF ObjfileLoads, ObjfileEvent, Post, Drain
  <2>3. CASE SysExit
    BY <1>14, <2>1, <2>3, SmallStacks DEF ObjfileLoads, SysExit, Deadlocked
  <2> QED  BY <1>14, <2>2, <2>3 DEF ObjfileLoads
<1>15. CASE OtherHappens
  <2>1. ~quit
    BY <1>15 DEF OtherHappens, MayDeliver, MayCall, HandlerDelivers
  <2>2. CASE PlainEvent("other")
    BY <1>15, <2>1, <2>2, PushStack DEF OtherHappens, PlainEvent, Post, Drain
  <2>3. CASE SysExit
    BY <1>15, <2>1, <2>3, SmallStacks DEF OtherHappens, SysExit, Deadlocked
  <2> QED  BY <1>15, <2>2, <2>3 DEF OtherHappens
<1>16. CASE Suspend
  BY <1>16 DEF Suspend
<1>17. CASE ResumeEvents
  BY <1>17 DEF ResumeEvents
<1>18. CASE PromptHook
  BY <1>18, SmallStacks DEF PromptHook, Idle
<1>19. CASE UNCHANGED vars
  BY <1>19 DEF vars
<1> QED
  BY <1>1, <1>2, <1>3, <1>4, <1>5, <1>6, <1>7, <1>8, <1>9, <1>10, <1>11,
     <1>12, <1>13, <1>14, <1>15, <1>16, <1>17, <1>18, <1>19 DEF Next, Pwndbg

\* Who queues posts or drains, and who stops draining leaves nothing.
LEMMA QueueStep == FlagsOK /\ CallsOK /\ ExecutingInv /\ QueueInv /\ [Next]_vars => QueueInv'
<1> SUFFICES ASSUME FlagsOK /\ CallsOK /\ ExecutingInv /\ QueueInv, [Next]_vars PROVE QueueInv'
  OBVIOUS
<1> USE DEF FlagsOK, CallsOK, ExecutingInv, QueueInv, calls, prompt, history
<1>1. CASE YieldEnds
  BY <1>1, PopStack DEF YieldEnds, At
<1>2. CASE YieldRaises
  BY <1>2, PopStack DEF YieldRaises, At
<1>3. CASE StartHandlers
  <2>1. Works(frames)
    BY <1>3, PopStack DEF StartHandlers, At
  <2> QED  BY <1>3, <2>1 DEF StartHandlers, InvokeEvent
<1>4. CASE CheckPasses
  BY <1>4 DEF CheckPasses
<1>5. CASE EventHandlers
  <2>1. Works(frames)
    BY <1>5, PopStack DEF EventHandlers, At
  <2> QED  BY <1>5, <2>1 DEF EventHandlers, InvokeEvent
<1>6. CASE CallReturns
  BY <1>6, PopStack DEF CallReturns, At
<1>7. CASE ReloadHandlers
  <2>1. ~Works(frames)
    BY <1>7, PopStack DEF ReloadHandlers, At
  <2> QED  BY <1>7, <2>1 DEF ReloadHandlers, InvokeEvent
<1>8. CASE PromptAppears
  <2>1. ~Works(frames)
    BY <1>8, PopStack DEF PromptAppears, At
  <2> QED  BY <1>8, <2>1 DEF PromptAppears
<1>9. CASE RunPosted
  BY <1>9, PushStack DEF RunPosted, MayCall, Idle, Yielding
<1>10. CASE ProcessAppears
  BY <1>10 DEF ProcessAppears
<1>11. CASE ThreadStops
  <2>2. CASE StopEvent
    BY <2>2, PushStack DEF StopEvent, Post, Drain
  <2>3. CASE SysExit
    BY <1>11, <2>3 DEF ThreadStops, SysExit
  <2> QED  BY <1>11, <2>2, <2>3 DEF ThreadStops
<1>12. CASE ThreadResumes
  <2>2. CASE PlainEvent("cont")
    BY <2>2, PushStack DEF PlainEvent, Post, Drain
  <2>3. CASE SwitchRaises /\ raised' = TRUE
    BY <2>3
  <2>4. CASE SysExit /\ UNCHANGED raised
    BY <2>4 DEF SysExit
  <2> QED  BY <1>12, <2>2, <2>3, <2>4 DEF ThreadResumes
<1>13. CASE ProcessExits
  <2>2. CASE ExitedEvent
    BY <2>2, PushStack DEF ExitedEvent, Post, Drain
  <2>3. CASE SysExit
    BY <1>13, <2>3 DEF ProcessExits, SysExit
  <2> QED  BY <1>13, <2>2, <2>3 DEF ProcessExits
<1>14. CASE ObjfileLoads
  <2>2. CASE \E safe \in BOOLEAN : ObjfileEvent(safe)
    BY <2>2, PushStack DEF ObjfileEvent, Post, Drain
  <2>3. CASE SysExit
    BY <1>14, <2>3 DEF ObjfileLoads, SysExit
  <2> QED  BY <1>14, <2>2, <2>3 DEF ObjfileLoads
<1>15. CASE OtherHappens
  <2>2. CASE PlainEvent("other")
    BY <2>2, PushStack DEF PlainEvent, Post, Drain
  <2>3. CASE SysExit
    BY <1>15, <2>3 DEF OtherHappens, SysExit
  <2> QED  BY <1>15, <2>2, <2>3 DEF OtherHappens
<1>16. CASE Suspend
  BY <1>16 DEF Suspend
<1>17. CASE ResumeEvents
  BY <1>17 DEF ResumeEvents
<1>18. CASE PromptHook
  BY <1>18, SmallStacks DEF PromptHook, Idle
<1>19. CASE UNCHANGED vars
  BY <1>19 DEF vars
<1> QED
  BY <1>1, <1>2, <1>3, <1>4, <1>5, <1>6, <1>7, <1>8, <1>9, <1>10, <1>11,
     <1>12, <1>13, <1>14, <1>15, <1>16, <1>17, <1>18, <1>19 DEF Next, Pwndbg

\* Unless a command or a handler raised, _detect_deadlock (events.py) ends GDB
\* only for an event that came while another one executed a command.
THEOREM DeadlockDetection == Spec => []DeadlockIsRealUnlessRaised
<1>1. Init => ExecutingInv
  BY SmallStacks DEF Init, ExecutingInv, DeadlockIsRealUnlessRaised, DeadlockIsReal
<1>2. TypeOK /\ ExecutingInv /\ [Next]_vars => ExecutingInv'
  BY ExecutingStep DEF TypeOK
<1>3. ExecutingInv => DeadlockIsRealUnlessRaised
  BY DEF ExecutingInv
<1> QED  BY <1>1, <1>2, <1>3, TypeCorrect, PTL DEF Spec

\* Unless a handler raised, whatever is queued (queued_events, events.py) has a
\* call to run it, under way or posted: no path returns to GDB without one.
THEOREM QueueHasRunner == Spec => []NothingForgotten
<1>1. Init => ExecutingInv /\ QueueInv
  BY SmallStacks DEF Init, ExecutingInv, DeadlockIsRealUnlessRaised, DeadlockIsReal, QueueInv
<1>2. TypeOK /\ ExecutingInv /\ QueueInv /\ [Next]_vars => (ExecutingInv /\ QueueInv)'
  BY ExecutingStep, QueueStep DEF TypeOK
<1>3. QueueInv => NothingForgotten
  BY SmallStacks DEF QueueInv, NothingForgotten, Idle
<1> QED  BY <1>1, <1>2, <1>3, TypeCorrect, PTL DEF Spec

(***************************************************************************)
(* What the handlers are told                                              *)
(***************************************************************************)
\* Some call in the queue q is one of cs.
Holds(q, cs) == \E i \in DOMAIN q : q[i].call \in cs

\* The calls that are queued by one who drains the queue, unlike the others which
\* a posted call may drain.
Urgent == {"cont", "exited", "other"} \cup (IF mode = "enabled" THEN {} ELSE {"stop"})

BusyInv == ~raised /\ Holds(queue, Urgent) => Works(frames)

\* after_reload runs.
Reloading(s) == s # << >> /\ s[1].at = "reload"

\* Only the outermost call executes the commands of a breakpoint.
YieldFirst(s) == \A i \in DOMAIN s : s[i].at = "yield" => i = 1

\* Who executes the commands of a breakpoint: never a call inside after_reload,
\* and by default one call, which the flag knows of.
StackInv ==
    /\ Outermost(frames)
    /\ Reloading(frames) => ~Yields(frames)
    /\ mode = "disabled" =>
           /\ YieldFirst(frames)
           /\ Yields(frames) => executing

\* The start event has been run for the process it is armed for.
ArmedInv ==
    /\ startRunning => starts # 0
    /\ ~quit /\ thread = "none" => ~startRunning

\* A check of the start event comes right before the handlers of STOP.
StopsChecked(q) == \A i \in DOMAIN q : q[i].call = "stop" /\ i # 1 => q[i - 1].call = "check"
StopsNext(q)    == q # << >> /\ q[1].call = "stop"

\* Nothing is left to do for START when the handlers of STOP run.
StartInv ==
    /\ StopsChecked(queue)
    /\ ~quit /\ ~raised /\ mode # "enabled" =>
        /\ StopsNext(queue) => startRunning \/ thread = "none"
        /\ thread = "stopped" /\ ~startRunning => Works(frames) /\ Holds(queue, {"check"})
        /\ Reloading(frames) /\ frames[1].todo # << >> => startRunning

\* By default a process does not exit behind an event that is being handled.
PresentInv ==
    ~quit /\ ~raised =>
        /\ mode = "disabled" /\ Holds(queue, {"stop"}) => thread # "none"
        /\ Reloading(frames) /\ frames[1].todo # << >> => thread # "none"

\* What was queued during a suspension and has outlived it.
Unignored(q) == \A i \in DOMAIN q : q[i].ignored => q[i].call \in {"check", "new_objfile"}

SuspensionInv == ~raised /\ mode # "enabled" /\ ~suspended => Unignored(queue)

\* The context display of a process that was resumed is out of date, and pwndbg
\* knows, or is about to.  That of one which has been replaced is out of date, and
\* pwndbg does not know.
FreshInv ==
    ~quit /\ ~raised /\ moved /\ ~replaced /\ shown => Holds(queue, {"cont"}) /\ ~suspended

\* What no handler may be told, and no prompt may show.
ToldOK == StartBeforeStop /\ NoStopWithoutProcess /\ SuspensionHolds /\ ContextIsFresh

\* What a delivered event adds to the queue, of which the rest is as it was.
LEMMA EnqueueOne ==
    ASSUME queue \in Seq(Queued), NEW e \in Events, Enqueue(<<e>>)
    PROVE  /\ Len(queue') = Len(queue) + 1
           /\ \A i \in 1..Len(queue) : queue'[i] = queue[i]
           /\ DOMAIN queue' = 1..Len(queue')
           /\ queue'[Len(queue) + 1].call = e
           /\ queue'[Len(queue) + 1].ignored = suspended
           /\ \A E : Holds(queue', E) <=> Holds(queue, E) \/ e \in E
<1>1. queue' = queue \o <<Entry(e)>>
  <2>1. [i \in DOMAIN <<e>> |-> Entry(<<e>>[i])] = <<Entry(e)>>
    OBVIOUS
  <2> QED BY <2>1 DEF Enqueue
<1>2. Len(queue) \in Nat /\ DOMAIN queue = 1..Len(queue)
  OBVIOUS
<1>3. /\ Len(queue') = Len(queue) + 1 /\ DOMAIN queue' = 1..(Len(queue) + 1)
      /\ \A i \in 1..Len(queue) : queue'[i] = queue[i]
      /\ queue'[Len(queue) + 1] = Entry(e)
  BY <1>1
<1>4. ASSUME NEW E PROVE Holds(queue', E) <=> Holds(queue, E) \/ e \in E
  <2>1. Holds(queue', E) => Holds(queue, E) \/ e \in E
    BY <1>2, <1>3 DEF Holds, Entry
  <2>2. Holds(queue, E) \/ e \in E => Holds(queue', E)
    BY <1>2, <1>3 DEF Holds, Entry
  <2> QED BY <2>1, <2>2
<1> QED BY <1>3, <1>4 DEF Entry

\* An event that comes with a check of the start event.
LEMMA EnqueueTwo ==
    ASSUME queue \in Seq(Queued), NEW e \in Events, Enqueue(<<"check", e>>)
    PROVE  /\ Len(queue') = Len(queue) + 2
           /\ \A i \in 1..Len(queue) : queue'[i] = queue[i]
           /\ DOMAIN queue' = 1..Len(queue')
           /\ queue'[Len(queue) + 1].call = "check" /\ queue'[Len(queue) + 2].call = e
           /\ queue'[Len(queue) + 1].ignored = suspended
           /\ queue'[Len(queue) + 2].ignored = suspended
           /\ \A E : Holds(queue', E) <=> Holds(queue, E) \/ "check" \in E \/ e \in E
<1>1. queue' = queue \o <<Entry("check"), Entry(e)>>
  <2>1. [i \in DOMAIN <<"check", e>> |-> Entry(<<"check", e>>[i])] = <<Entry("check"), Entry(e)>>
    OBVIOUS
  <2> QED BY <2>1 DEF Enqueue
<1>2. Len(queue) \in Nat /\ DOMAIN queue = 1..Len(queue)
  OBVIOUS
<1>3. /\ Len(queue') = Len(queue) + 2 /\ DOMAIN queue' = 1..(Len(queue) + 2)
      /\ \A i \in 1..Len(queue) : queue'[i] = queue[i]
      /\ queue'[Len(queue) + 1] = Entry("check") /\ queue'[Len(queue) + 2] = Entry(e)
  BY <1>1
<1>4. ASSUME NEW E PROVE Holds(queue', E) <=> Holds(queue, E) \/ "check" \in E \/ e \in E
  <2>1. Holds(queue', E) => Holds(queue, E) \/ "check" \in E \/ e \in E
    BY <1>2, <1>3 DEF Holds, Entry
  <2>2. Holds(queue, E) => Holds(queue', E)
    BY <1>2, <1>3 DEF Holds
  <2>3. "check" \in E \/ e \in E => Holds(queue', E)
    BY <1>2, <1>3 DEF Holds, Entry
  <2> QED BY <2>1, <2>2, <2>3
<1> QED BY <1>3, <1>4 DEF Entry

\* What is left when the first call is taken from the queue.
LEMMA TakeHead ==
    ASSUME queue \in Seq(Queued), queue # << >>, queue' = Tail(queue)
    PROVE  /\ Head(queue) = queue[1] /\ Head(queue) \in Queued
           /\ Len(queue') = Len(queue) - 1
           /\ \A i \in 1..Len(queue') : queue'[i] = queue[i + 1]
           /\ \A E : Holds(queue', E) => Holds(queue, E)
           /\ \A E : Holds(queue, E) /\ queue[1].call \notin E => Holds(queue', E)
           /\ \A E : queue[1].call \in E => Holds(queue, E)
<1>1. Len(queue) \in Nat /\ Len(queue) > 0 /\ DOMAIN queue = 1..Len(queue)
  OBVIOUS
<1>2. /\ Head(queue) = queue[1] /\ Head(queue) \in Queued
      /\ Len(queue') = Len(queue) - 1 /\ DOMAIN queue' = 1..(Len(queue) - 1)
      /\ \A i \in 1..Len(queue') : queue'[i] = queue[i + 1]
  OBVIOUS
<1>3. ASSUME NEW E, Holds(queue', E) PROVE Holds(queue, E)
  BY <1>1, <1>2, <1>3 DEF Holds
<1>4. ASSUME NEW E, Holds(queue, E), queue[1].call \notin E PROVE Holds(queue', E)
  <2>1. PICK i \in 1..Len(queue) : queue[i].call \in E
    BY <1>1, <1>4 DEF Holds
  <2>2. i - 1 \in 1..(Len(queue) - 1) /\ (i - 1) + 1 = i
    BY <1>1, <1>4, <2>1
  <2>3. queue'[i - 1].call \in E
    BY <1>2, <2>1, <2>2
  <2> QED BY <1>2, <2>2, <2>3 DEF Holds
<1>5. ASSUME NEW E, queue[1].call \in E PROVE Holds(queue, E)
  BY <1>1, <1>5 DEF Holds
<1> QED BY <1>2, <1>3, <1>4, <1>5

\* A call is put on the stack: who is outermost.
LEMMA PushFirst ==
    ASSUME frames \in Seq(Frames), NEW at \in {"yield", "drain"}
    PROVE  /\ Reloading(Call(at)) => Reloading(frames) /\ Call(at)[1] = frames[1]
           /\ at = "drain" /\ Yields(Call(at)) => Yields(frames)
           /\ at = "drain" /\ YieldFirst(frames) => YieldFirst(Call(at))
           /\ frames = << >> => YieldFirst(Call(at))
<1> DEFINE n == Len(frames)
<1>1. n \in Nat /\ DOMAIN frames = 1..n /\ (frames = << >> <=> n = 0)
  OBVIOUS
<1>2. /\ Len(Call(at)) = n + 1 /\ DOMAIN Call(at) = 1..(n + 1)
      /\ \A i \in 1..n : Call(at)[i] = frames[i]
      /\ Call(at)[n + 1].at = at
  BY DEF Call
<1> HIDE DEF n
<1>3. \A i \in 1..(n + 1) : i \in 1..n \/ i = n + 1
  BY <1>1
<1>4. Reloading(Call(at)) => Reloading(frames) /\ Call(at)[1] = frames[1]
  BY <1>1, <1>2 DEF Reloading
<1>5. at = "drain" /\ Yields(Call(at)) => Yields(frames)
  BY <1>1, <1>2, <1>3 DEF Yields
<1>6. at = "drain" /\ YieldFirst(frames) => YieldFirst(Call(at))
  BY <1>1, <1>2, <1>3 DEF YieldFirst
<1>7. frames = << >> => YieldFirst(Call(at))
  BY <1>1, <1>2 DEF YieldFirst
<1> QED BY <1>4, <1>5, <1>6, <1>7

\* A stack that agrees with the present one below the innermost call, and there
\* has none or one that drains the queue.
LEMMA Shortened ==
    ASSUME frames \in Seq(Frames), NEW n \in Nat, Len(frames) = n + 1,
           NEW s \in Seq(Frames), \A i \in 1..n : s[i] = frames[i],
           Len(s) = n \/ (Len(s) = n + 1 /\ s[n + 1].at = "drain")
    PROVE  /\ Reloading(s) => Reloading(frames) /\ s[1] = frames[1]
           /\ Yields(s) => Yields(frames)
           /\ YieldFirst(frames) => YieldFirst(s)
           /\ YieldFirst(frames) /\ frames[n + 1].at = "yield" => ~Yields(s)
<1>1. DOMAIN s = 1..Len(s) /\ (Len(s) = 0 <=> s = << >>)
  OBVIOUS
<1>2. DOMAIN frames = 1..(n + 1) /\ frames # << >>
  OBVIOUS
<1>a. Len(s) \in Nat
  OBVIOUS
<1>3. \A i \in DOMAIN s : (i \in 1..n /\ s[i] = frames[i]) \/ (i = n + 1 /\ s[i].at = "drain")
  <2> SUFFICES ASSUME NEW i \in 1..Len(s)
               PROVE  (i \in 1..n /\ s[i] = frames[i]) \/ (i = n + 1 /\ s[i].at = "drain")
    BY <1>1
  <2>1. CASE i \in 1..n
    BY <2>1
  <2>2. CASE i \notin 1..n
    <3>1. i \in Nat /\ i >= 1 /\ i <= Len(s) /\ i > n
      BY <1>a, <2>2
    <3>2. i = n + 1 /\ Len(s) = n + 1
      BY <1>a, <3>1
    <3> QED BY <3>2
  <2> QED BY <2>1, <2>2
<1>4. Reloading(s) => Reloading(frames) /\ s[1] = frames[1]
  <2> SUFFICES ASSUME Reloading(s) PROVE Reloading(frames) /\ s[1] = frames[1]
    OBVIOUS
  <2>0. Len(s) # 0
    BY <1>1 DEF Reloading
  <2>1. 1 \in 1..Len(s)
    BY ONLY <1>a, <2>0
  <2>2. 1 \in DOMAIN s
    BY ONLY <1>1, <2>1, Zenon
  <2>3. s[1] = frames[1]
    BY <1>3, <2>2 DEF Reloading
  <2> QED BY <1>2, <2>3 DEF Reloading
<1>5. Yields(s) => Yields(frames)
  <2> SUFFICES ASSUME NEW i \in DOMAIN s, s[i].at = "yield" PROVE Yields(frames)
    BY DEF Yields
  <2> QED BY <1>2, <1>3 DEF Yields
<1>6. YieldFirst(frames) => YieldFirst(s)
  <2> SUFFICES ASSUME YieldFirst(frames), NEW i \in DOMAIN s, s[i].at = "yield" PROVE i = 1
    BY DEF YieldFirst
  <2> QED BY <1>2, <1>3 DEF YieldFirst
<1>7. YieldFirst(frames) /\ frames[n + 1].at = "yield" => ~Yields(s)
  <2> SUFFICES ASSUME YieldFirst(frames), frames[n + 1].at = "yield",
                      NEW i \in DOMAIN s, s[i].at = "yield"
               PROVE  FALSE
    BY DEF Yields
  <2>1. n + 1 = 1
    BY <1>2 DEF YieldFirst
  <2> QED BY <1>3, <2>1
<1> QED BY <1>4, <1>5, <1>6, <1>7

\* A call leaves the stack, or drains the queue from now on.
LEMMA PopFirst ==
    ASSUME frames \in Seq(Frames), frames # << >>,
           NEW s \in {Front(frames), Front(frames) \o <<[at |-> "drain", todo |-> << >>]>>}
    PROVE  /\ Reloading(s) => Reloading(frames) /\ s[1] = frames[1]
           /\ Yields(s) => Yields(frames)
           /\ YieldFirst(frames) => YieldFirst(s)
           /\ YieldFirst(frames) /\ Last(frames).at = "yield" => ~Yields(s)
           /\ Last(frames).at = "yield" => Yields(frames)
           /\ Last(frames).at = "reload" /\ Outermost(frames) =>
                  Reloading(frames) /\ ~Yields(frames)
           /\ Last(frames).at = "reload" /\ Outermost(frames) =>
                  Front(frames) = << >> /\ Last(frames) = frames[1] /\ ~Works(frames)
           /\ Last(frames).at # "reload" => Works(frames)
<1> DEFINE n == Len(frames) - 1
<1>1. n \in Nat /\ DOMAIN frames = 1..(n + 1) /\ Len(frames) = n + 1
  OBVIOUS
<1>2. /\ Len(Front(frames)) = n /\ DOMAIN Front(frames) = 1..n
      /\ \A i \in 1..n : Front(frames)[i] = frames[i]
      /\ Front(frames) \in Seq(Frames)
  BY FrontType
<1>3. Last(frames) = frames[n + 1]
  BY DEF Last
<1>4. /\ s \in Seq(Frames)
      /\ Len(s) = n \/ (Len(s) = n + 1 /\ s[n + 1].at = "drain")
      /\ \A i \in 1..n : s[i] = frames[i]
  <2> DEFINE d == [at |-> "drain", todo |-> << >>]
  <2>1. d \in Frames /\ d.at = "drain"
    BY DEF Frames
  <2>2. CASE s = Front(frames)
    BY <1>2, <2>2
  <2>3. CASE s = Front(frames) \o <<d>>
    <3> HIDE DEF n, d
    <3>1. s \in Seq(Frames) /\ Len(s) = n + 1 /\ s[n + 1] = d
      BY <1>1, <1>2, <2>1, <2>3
    <3>2. \A i \in 1..n : s[i] = Front(frames)[i]
      BY <1>1, <1>2, <2>1, <2>3
    <3> QED BY <1>2, <2>1, <3>1, <3>2
  <2> QED BY <2>2, <2>3
<1>6. n = 0 => Front(frames) = << >>
  BY <1>2
<1> HIDE DEF n
<1>8. /\ Reloading(s) => Reloading(frames) /\ s[1] = frames[1]
      /\ Yields(s) => Yields(frames)
      /\ YieldFirst(frames) => YieldFirst(s)
      /\ YieldFirst(frames) /\ Last(frames).at = "yield" => ~Yields(s)
  BY <1>1, <1>3, <1>4, Shortened
<1>12. Last(frames).at = "yield" => Yields(frames)
  BY <1>1, <1>3 DEF Yields
<1>13. Last(frames).at = "reload" /\ Outermost(frames) => n = 0
  BY <1>1, <1>3 DEF Outermost
<1>14. Last(frames).at = "reload" /\ Outermost(frames) => Reloading(frames) /\ ~Yields(frames)
                                                        /\ ~Works(frames)
  BY <1>1, <1>3, <1>13 DEF Reloading, Yields, Works
<1>15. Last(frames).at # "reload" => Works(frames)
  BY <1>1, <1>3 DEF Works
<1> QED BY <1>1, <1>3, <1>6, <1>8, <1>12, <1>13, <1>14, <1>15

\* after_reload's stack, and the empty one.
LEMMA ReloadStack ==
    ASSUME NEW todo
    PROVE  LET s == <<[at |-> "reload", todo |-> todo]>>
           IN /\ ~Yields(s) /\ ~Works(s) /\ YieldFirst(s) /\ Outermost(s)
              /\ s[1].todo = todo
              /\ ~Reloading(<< >>) /\ ~Yields(<< >>) /\ ~Works(<< >>) /\ YieldFirst(<< >>)
              /\ Outermost(<< >>)
BY DEF Yields, Works, YieldFirst, Outermost, Reloading

\* The empty stack.
LEMMA EmptyStack ==
    ~Reloading(<< >>) /\ ~Yields(<< >>) /\ ~Works(<< >>) /\ YieldFirst(<< >>) /\ Outermost(<< >>)
BY DEF Yields, Works, YieldFirst, Outermost, Reloading

\* The order of the queue when an event comes.
LEMMA OrderOne ==
    ASSUME queue \in Seq(Queued), NEW e \in Events \ {"stop"}, Enqueue(<<e>>),
           StopsChecked(queue)
    PROVE  StopsChecked(queue') /\ (StopsNext(queue') => StopsNext(queue))
<1>1. Len(queue) \in Nat /\ DOMAIN queue = 1..Len(queue) /\ (queue = << >> <=> Len(queue) = 0)
  OBVIOUS
<1>4. DOMAIN queue' = 1..Len(queue')
  BY EnqueueOne
<1>2. /\ Len(queue') = Len(queue) + 1
      /\ \A i \in 1..Len(queue) : queue'[i] = queue[i]
      /\ queue'[Len(queue) + 1].call = e
  BY EnqueueOne
<1>5. ASSUME NEW i \in DOMAIN queue', queue'[i].call = "stop", i # 1
      PROVE  queue'[i - 1].call = "check"
  <2>1. i \in 1..Len(queue)
    BY <1>1, <1>2, <1>4, <1>5
  <2>2. i - 1 \in 1..Len(queue)
    BY <1>1, <1>5, <2>1
  <2> QED BY <1>1, <1>2, <1>5, <2>1, <2>2 DEF StopsChecked
<1>6. StopsNext(queue') => StopsNext(queue)
  BY <1>1, <1>2 DEF StopsNext
<1> QED BY <1>5, <1>6 DEF StopsChecked

\* The same when it comes with a check of the start event.
LEMMA OrderTwo ==
    ASSUME queue \in Seq(Queued), NEW e \in Events, Enqueue(<<"check", e>>),
           StopsChecked(queue)
    PROVE  StopsChecked(queue') /\ (StopsNext(queue') => StopsNext(queue))
<1>1. Len(queue) \in Nat /\ DOMAIN queue = 1..Len(queue) /\ (queue = << >> <=> Len(queue) = 0)
  OBVIOUS
<1>4. DOMAIN queue' = 1..Len(queue')
  BY EnqueueTwo
<1>2. /\ Len(queue') = Len(queue) + 2
      /\ \A i \in 1..Len(queue) : queue'[i] = queue[i]
      /\ queue'[Len(queue) + 1].call = "check"
      /\ queue'[Len(queue) + 2].call = e
  BY EnqueueTwo
<1>5. ASSUME NEW i \in DOMAIN queue', queue'[i].call = "stop", i # 1
      PROVE  queue'[i - 1].call = "check"
  <2>1. CASE i = Len(queue) + 2
    BY <1>1, <1>2, <2>1
  <2>2. CASE i # Len(queue) + 2
    <3>1. i \in 1..Len(queue)
      BY <1>1, <1>2, <1>4, <1>5, <2>2
    <3>2. i - 1 \in 1..Len(queue)
      BY <1>1, <1>5, <3>1
    <3> QED BY <1>1, <1>2, <1>5, <3>1, <3>2 DEF StopsChecked
  <2> QED BY <2>1, <2>2
<1>6. StopsNext(queue') => StopsNext(queue)
  BY <1>1, <1>2 DEF StopsNext
<1> QED BY <1>5, <1>6 DEF StopsChecked

\* The order of the queue when its first call is taken.
LEMMA OrderTaken ==
    ASSUME queue \in Seq(Queued), queue # << >>, queue' = Tail(queue)
    PROVE  /\ StopsChecked(queue) =>
                  /\ StopsChecked(queue')
                  /\ StopsNext(queue') => Head(queue).call = "check"
           /\ Unignored(queue) => Unignored(queue')
<1>1. Len(queue) \in Nat /\ Len(queue) > 0 /\ DOMAIN queue = 1..Len(queue)
  OBVIOUS
<1>2. /\ Head(queue) = queue[1]
      /\ Len(queue') = Len(queue) - 1
      /\ \A i \in 1..Len(queue') : queue'[i] = queue[i + 1]
  BY TakeHead
<1>3. queue' \in Seq(Queued)
  OBVIOUS
<1>4. DOMAIN queue' = 1..Len(queue') /\ (queue' # << >> => Len(queue') # 0)
  BY <1>3
<1>5. ASSUME StopsChecked(queue), NEW i \in DOMAIN queue', queue'[i].call = "stop", i # 1
      PROVE  queue'[i - 1].call = "check"
  <2>1. /\ i + 1 \in 1..Len(queue) /\ i + 1 # 1
        /\ i - 1 \in 1..Len(queue') /\ (i - 1) + 1 = i /\ (i + 1) - 1 = i
    BY <1>1, <1>2, <1>4, <1>5
  <2>2. queue'[i] = queue[i + 1] /\ queue'[i - 1] = queue[i]
    BY <1>2, <1>4, <2>1
  <2> QED BY <1>1, <1>5, <2>1, <2>2 DEF StopsChecked
<1>6. ASSUME StopsChecked(queue), StopsNext(queue') PROVE Head(queue).call = "check"
  <2>1. Len(queue') # 0 /\ queue'[1].call = "stop"
    BY <1>4, <1>6 DEF StopsNext
  <2>2. 1 \in 1..Len(queue') /\ 2 \in 1..Len(queue) /\ 2 - 1 = 1
    BY <1>1, <1>2, <2>1
  <2>3. queue[2].call = "stop"
    BY <1>2, <2>1, <2>2
  <2>4. 2 \in DOMAIN queue /\ 2 # 1
    BY <1>1, <2>2
  <2>5. queue[2 - 1].call = "check"
    BY ONLY StopsChecked(queue), <2>3, <2>4 DEF StopsChecked
  <2> QED BY <1>2, <2>2, <2>5
<1>7. ASSUME Unignored(queue), NEW i \in DOMAIN queue', queue'[i].ignored
      PROVE  queue'[i].call \in {"check", "new_objfile"}
  <2>1. i + 1 \in 1..Len(queue)
    BY <1>1, <1>2, <1>4
  <2> QED BY <1>1, <1>2, <1>4, <1>7, <2>1 DEF Unignored
<1> QED BY <1>5, <1>6, <1>7 DEF StopsChecked, Unignored

\* What is queued outside a suspension.
LEMMA Attended ==
    ASSUME queue \in Seq(Queued), suspended = FALSE, Unignored(queue),
           NEW e \in Events, Enqueue(<<e>>) \/ Enqueue(<<"check", e>>)
    PROVE  Unignored(queue')
<1>1. Len(queue) \in Nat /\ DOMAIN queue = 1..Len(queue)
  OBVIOUS
<1>2. CASE Enqueue(<<e>>)
  <2>1. /\ DOMAIN queue' = 1..(Len(queue) + 1)
        /\ \A i \in 1..Len(queue) : queue'[i] = queue[i]
        /\ queue'[Len(queue) + 1].ignored = FALSE
    BY <1>2, EnqueueOne
  <2>2. ASSUME NEW i \in DOMAIN queue', queue'[i].ignored
        PROVE  queue'[i].call \in {"check", "new_objfile"}
    <3>1. i \in 1..Len(queue)
      BY <1>1, <2>1, <2>2
    <3> QED BY <1>1, <2>1, <2>2, <3>1 DEF Unignored
  <2> QED BY <2>2 DEF Unignored
<1>3. CASE Enqueue(<<"check", e>>)
  <2>1. /\ DOMAIN queue' = 1..(Len(queue) + 2)
        /\ \A i \in 1..Len(queue) : queue'[i] = queue[i]
        /\ queue'[Len(queue) + 1].ignored = FALSE
        /\ queue'[Len(queue) + 2].ignored = FALSE
    BY <1>3, EnqueueTwo
  <2>2. ASSUME NEW i \in DOMAIN queue', queue'[i].ignored
        PROVE  queue'[i].call \in {"check", "new_objfile"}
    <3>1. i \in 1..Len(queue)
      BY <1>1, <2>1, <2>2
    <3> QED BY <1>1, <2>1, <2>2, <3>1 DEF Unignored
  <2> QED BY <2>2 DEF Unignored
<1> QED BY <1>2, <1>3

\* The handlers of STOP are queued if they are next.
LEMMA StopsHeld ==
    ASSUME queue \in Seq(Queued)
    PROVE  \A E : "stop" \in E /\ StopsNext(queue) => Holds(queue, E)
<1>1. queue # << >> => 1 \in DOMAIN queue
  OBVIOUS
<1> QED BY <1>1 DEF StopsNext, Holds

\* A call returns, or raises.
LEMMA PopCall ==
    ASSUME frames \in Seq(Frames), frames # << >>
    PROVE  /\ Reloading(Front(frames)) => Reloading(frames) /\ Front(frames)[1] = frames[1]
           /\ Yields(Front(frames)) => Yields(frames)
           /\ YieldFirst(frames) => YieldFirst(Front(frames))
           /\ YieldFirst(frames) /\ Last(frames).at = "yield" => ~Yields(Front(frames))
           /\ Last(frames).at = "reload" /\ Outermost(frames) =>
                  /\ Front(frames) = << >> /\ Last(frames) = frames[1]
                  /\ Reloading(frames) /\ ~Yields(frames) /\ ~Works(frames)
           /\ Last(frames).at # "reload" => Works(frames)
           /\ Last(frames).at = "yield" => Yields(frames)
           /\ Outermost(frames) => Outermost(Front(frames))
<1> DEFINE s == Front(frames)
<1>1. s \in {Front(frames), Front(frames) \o <<[at |-> "drain", todo |-> << >>]>>}
  OBVIOUS
<1>2. Outermost(frames) => Outermost(Front(frames))
  BY PopStack
<1> QED BY <1>1, <1>2, PopFirst

\* The commands of a breakpoint are done.
LEMMA YieldToDrain ==
    ASSUME frames \in Seq(Frames), frames # << >>, Last(frames).at = "yield"
    PROVE  LET s == Front(frames) \o <<[at |-> "drain", todo |-> << >>]>>
           IN /\ Reloading(s) => Reloading(frames) /\ s[1] = frames[1]
              /\ Yields(s) => Yields(frames)
              /\ YieldFirst(frames) => YieldFirst(s) /\ ~Yields(s)
              /\ Outermost(frames) => Outermost(s) /\ Works(s)
<1> DEFINE s == Front(frames) \o <<[at |-> "drain", todo |-> << >>]>>
<1>1. s \in {Front(frames), Front(frames) \o <<[at |-> "drain", todo |-> << >>]>>}
  OBVIOUS
<1>2. Outermost(frames) => Outermost(s) /\ Works(s)
  BY PopStack
<1> QED BY <1>1, <1>2, PopFirst

\* Which calls are urgent depends on the mode, which never changes.
LEMMA UrgentCalls ==
    /\ [Next]_vars => UNCHANGED <<mode, Urgent>>
    /\ "cont" \in Urgent /\ "exited" \in Urgent /\ "other" \in Urgent
    /\ "check" \notin Urgent /\ "new_objfile" \notin Urgent
    /\ "stop" \in Urgent <=> mode # "enabled"
<1>1. [Next]_vars => mode' = mode
  BY DEF Next, Pwndbg, vars, YieldEnds, YieldRaises, StartHandlers, CheckPasses,
         EventHandlers, CallReturns, ReloadHandlers, PromptAppears, RunPosted, ProcessAppears,
         ThreadStops, ThreadResumes, ProcessExits, ObjfileLoads, OtherHappens, Suspend,
         ResumeEvents, PromptHook
<1> QED BY <1>1 DEF Urgent

\* An empty queue holds no call.
LEMMA EmptyQueue == \A E : ~Holds(<< >>, E)
BY DEF Holds

\* When nothing urgent is queued, what was queued during a suspension may run.
LEMMA Unurgent ==
    ASSUME queue \in Seq(Queued), mode # "enabled", ~Holds(queue, Urgent)
    PROVE  Unignored(queue)
<1> SUFFICES ASSUME NEW i \in DOMAIN queue PROVE queue[i].call \in {"check", "new_objfile"}
  BY DEF Unignored
<1>1. queue[i].call \notin Urgent
  BY DEF Holds
<1>2. queue[i] \in Queued
  OBVIOUS
<1>3. queue[i].call \in Events \cup {"check"}
  BY <1>2 DEF Queued
<1> QED BY <1>1, <1>3 DEF Urgent, Events

\* What GDB delivers comes when nothing runs, or from the commands of a breakpoint.
LEMMA Outside ==
    ASSUME frames \in Seq(Frames), MayDeliver
    PROVE  frames = << >> \/ Yields(frames)
BY PopCall DEF MayDeliver, MayCall, Idle, Yielding

\* The stack keeps its shape.
LEMMA StackStep ==
    FlagsOK /\ CallsOK /\ StackInv /\ [Next]_vars => StackInv'
<1> SUFFICES ASSUME FlagsOK, CallsOK, StackInv, [Next]_vars PROVE StackInv'
  OBVIOUS
<1> USE DEF FlagsOK, CallsOK, calls, prompt, history, StackInv
<1>1. CASE YieldEnds
  BY <1>1, YieldToDrain DEF YieldEnds, At
<1>2. CASE YieldRaises
  BY <1>2, PopCall DEF YieldRaises, At
<1>3. CASE StartHandlers
  BY <1>3, TakeHead, PopCall DEF StartHandlers, At, InvokeEvent, Starting
<1>4. CASE CheckPasses
  BY <1>4, TakeHead DEF CheckPasses, At, Starting
<1>5. CASE EventHandlers
  BY <1>5, TakeHead, PopCall DEF EventHandlers, At, InvokeEvent
<1>6. CASE CallReturns
  BY <1>6, PopCall DEF CallReturns, At
<1>7. CASE ReloadHandlers
  <2>1. Reloading(frames) /\ Last(frames) = frames[1] /\ Front(frames) = << >> /\ ~Works(frames)
    BY <1>7, PopCall DEF ReloadHandlers, At
  <2>2. PICK todo : frames' \in {frames, << >>, <<[at |-> "reload", todo |-> todo]>>}
    BY <1>7, <2>1 DEF ReloadHandlers, At, InvokeEvent
  <2>3. UNCHANGED <<mode, executing>> /\ ~Yields(frames)
    BY <1>7, PopCall DEF ReloadHandlers, At
  <2> QED BY <2>2, <2>3, ReloadStack, EmptyStack
<1>8. CASE PromptAppears
  BY <1>8, PopCall, ReloadStack DEF PromptAppears, At
<1>9. CASE RunPosted
  BY <1>9, PushFirst, PushStack DEF RunPosted, MayCall, Idle, Yielding
<1>10. CASE ProcessAppears
  BY <1>10 DEF ProcessAppears, Idle, Reselect
<1>11. CASE ThreadStops
  <2>1. CASE StopEvent
    <3>1. frames = << >> \/ (frames # << >> /\ Last(frames).at = "yield")
      BY <1>11 DEF ThreadStops, MayDeliver, MayCall, Idle, Yielding
    <3>2. frames # << >> => Yields(frames)
      BY <3>1, PopCall
    <3>3. mode = "disabled" => frames = << >>
      BY <2>1, <3>2 DEF StopEvent, Deadlocked
    <3>4. ~Reloading(frames)
      BY <3>2 DEF Reloading
    <3> QED BY <1>11, <2>1, <3>3, <3>4, PushFirst, PushStack DEF ThreadStops, StopEvent, Post
  <2>2. CASE SysExit
    BY <1>11, <2>2 DEF ThreadStops, SysExit, Deadlocked, MayDeliver, MayCall, Idle, Yielding
  <2> QED BY <1>11, <2>1, <2>2 DEF ThreadStops
<1>12. CASE ThreadResumes
  <2>1. CASE PlainEvent("cont") /\ UNCHANGED raised
    BY <1>12, <2>1, PushFirst, PushStack DEF ThreadResumes, PlainEvent, Drain, MayDeliver,
       MayCall, Idle, Yielding
  <2>2. CASE SwitchRaises /\ raised' = TRUE
    BY <1>12, <2>2, PushFirst, PushStack DEF ThreadResumes, SwitchRaises, MayDeliver, MayCall,
       Idle, Yielding
  <2>3. CASE SysExit /\ UNCHANGED raised
    BY <1>12, <2>3 DEF ThreadResumes, SysExit, Deadlocked, MayDeliver, MayCall, Idle, Yielding
  <2> QED BY <1>12, <2>1, <2>2, <2>3 DEF ThreadResumes
<1>13. CASE ProcessExits
  <2>1. CASE ExitedEvent
    BY <1>13, <2>1, PushFirst, PushStack DEF ProcessExits, ExitedEvent, Drain, Reselect,
       MayDeliver, MayCall, Idle, Yielding
  <2>2. CASE SysExit
    BY <1>13, <2>2 DEF ProcessExits, SysExit, Deadlocked, Reselect, MayDeliver, MayCall, Idle,
       Yielding
  <2> QED BY <1>13, <2>1, <2>2 DEF ProcessExits
<1>14. CASE ObjfileLoads
  <2>1. CASE \E safe \in BOOLEAN : ObjfileEvent(safe)
    BY <1>14, <2>1, PushFirst, PushStack DEF ObjfileLoads, ObjfileEvent, Post, Drain,
       MayDeliver, MayCall, Idle, Yielding
  <2>2. CASE SysExit
    BY <1>14, <2>2 DEF ObjfileLoads, SysExit, Deadlocked, MayDeliver, MayCall, Idle, Yielding
  <2> QED BY <1>14, <2>1, <2>2 DEF ObjfileLoads
<1>15. CASE OtherHappens
  <2>1. CASE PlainEvent("other")
    BY <1>15, <2>1, PushFirst, PushStack DEF OtherHappens, PlainEvent, Drain, HandlerDelivers,
       MayDeliver, MayCall, Idle, Yielding
  <2>2. CASE SysExit
    BY <1>15, <2>2 DEF OtherHappens, SysExit, Deadlocked, HandlerDelivers, MayDeliver, MayCall,
       Idle, Yielding
  <2> QED BY <1>15, <2>1, <2>2 DEF OtherHappens
<1>16. CASE Suspend
  BY <1>16 DEF Suspend, Idle
<1>17. CASE ResumeEvents
  BY <1>17 DEF ResumeEvents, Idle
<1>18. CASE PromptHook
  BY <1>18, ReloadStack DEF PromptHook, Idle
<1>19. CASE UNCHANGED vars
  BY <1>19 DEF vars
<1> QED BY <1>1, <1>2, <1>3, <1>4, <1>5, <1>6, <1>7, <1>8, <1>9, <1>10, <1>11, <1>12, <1>13,
        <1>14, <1>15, <1>16, <1>17, <1>18, <1>19 DEF Next, Pwndbg

\* What is drained by those who queue it is drained.
LEMMA BusyStep ==
    FlagsOK /\ CallsOK /\ StackInv /\ BusyInv /\ [Next]_vars => BusyInv'
<1> SUFFICES ASSUME FlagsOK, CallsOK, StackInv, BusyInv, [Next]_vars PROVE BusyInv'
  OBVIOUS
<1>a. UNCHANGED <<mode, Urgent>>
  BY UrgentCalls
<1> USE <1>a, UrgentCalls DEF FlagsOK, CallsOK, calls, prompt, history, StackInv, BusyInv
<1>1. CASE YieldEnds
  BY <1>1, YieldToDrain DEF YieldEnds, At
<1>2. CASE YieldRaises
  BY <1>2, PopCall DEF YieldRaises, At
<1>3. CASE StartHandlers
  BY <1>3, TakeHead, PopCall DEF StartHandlers, At, InvokeEvent, Starting
<1>4. CASE CheckPasses
  BY <1>4, TakeHead DEF CheckPasses, At, Starting
<1>5. CASE EventHandlers
  BY <1>5, TakeHead, PopCall DEF EventHandlers, At, InvokeEvent
<1>6. CASE CallReturns
  BY <1>6, <1>a, PopCall, EmptyQueue DEF CallReturns, At
<1>7. CASE ReloadHandlers
  <2>1. Reloading(frames) /\ Last(frames) = frames[1] /\ Front(frames) = << >> /\ ~Works(frames)
    BY <1>7, PopCall DEF ReloadHandlers, At
  <2> QED BY <1>7, <2>1, ReloadStack DEF ReloadHandlers, At, InvokeEvent
<1>8. CASE PromptAppears
  BY <1>8, PopCall, ReloadStack DEF PromptAppears, At
<1>9. CASE RunPosted
  BY <1>9, PushFirst, PushStack DEF RunPosted, MayCall, Idle, Yielding
<1>10. CASE ProcessAppears
  BY <1>10 DEF ProcessAppears, Idle, Reselect
<1>11. CASE ThreadStops
  <2>1. CASE StopEvent
    <3>1. Enqueue(<<"check", "stop">>) /\ "stop" \in Events
      BY <2>1 DEF StopEvent, Events
    <3> QED BY <1>11, <2>1, <3>1, EnqueueTwo, PushFirst, PushStack DEF ThreadStops, StopEvent,
           Post, MayDeliver, MayCall, Idle, Yielding
  <2>2. CASE SysExit
    BY <1>11, <2>2 DEF ThreadStops, SysExit, Deadlocked, MayDeliver, MayCall, Idle, Yielding
  <2> QED BY <1>11, <2>1, <2>2 DEF ThreadStops
<1>12. CASE ThreadResumes
  <2>1. CASE PlainEvent("cont") /\ UNCHANGED raised
    <3>1. Enqueue(<<"cont">>) /\ "cont" \in Events
      BY <2>1 DEF PlainEvent, Events
    <3> QED BY <1>12, <2>1, <3>1, EnqueueOne, PushFirst, PushStack DEF ThreadResumes,
           PlainEvent, Drain, MayDeliver, MayCall, Idle, Yielding
  <2>2. CASE SwitchRaises /\ raised' = TRUE
    <3>1. Enqueue(<<"cont">>) /\ "cont" \in Events
      BY <2>2 DEF SwitchRaises, Events
    <3> QED BY <1>12, <2>2, <3>1, EnqueueOne, PushFirst, PushStack DEF ThreadResumes,
           SwitchRaises, MayDeliver, MayCall, Idle, Yielding
  <2>3. CASE SysExit /\ UNCHANGED raised
    BY <1>12, <2>3 DEF ThreadResumes, SysExit, Deadlocked, MayDeliver, MayCall, Idle, Yielding
  <2> QED BY <1>12, <2>1, <2>2, <2>3 DEF ThreadResumes
<1>13. CASE ProcessExits
  <2>1. CASE ExitedEvent
    <3>1. Enqueue(<<"exited">>) /\ "exited" \in Events
      BY <2>1 DEF ExitedEvent, Events
    <3> QED BY <1>13, <2>1, <3>1, EnqueueOne, PushFirst, PushStack DEF ProcessExits,
           ExitedEvent, Drain, Reselect, MayDeliver, MayCall, Idle, Yielding
  <2>2. CASE SysExit
    BY <1>13, <2>2 DEF ProcessExits, SysExit, Deadlocked, Reselect, MayDeliver, MayCall, Idle,
       Yielding
  <2> QED BY <1>13, <2>1, <2>2 DEF ProcessExits
<1>14. CASE ObjfileLoads
  <2>1. CASE \E safe \in BOOLEAN : ObjfileEvent(safe)
    <3>1. Enqueue(<<"check", "new_objfile">>) /\ "new_objfile" \in Events
      BY <2>1 DEF ObjfileEvent, Events
    <3> QED BY <1>14, <2>1, <3>1, EnqueueTwo, PushFirst, PushStack DEF ObjfileLoads,
           ObjfileEvent, Post, Drain, MayDeliver, MayCall, Idle, Yielding
  <2>2. CASE SysExit
    BY <1>14, <2>2 DEF ObjfileLoads, SysExit, Deadlocked, MayDeliver, MayCall, Idle, Yielding
  <2> QED BY <1>14, <2>1, <2>2 DEF ObjfileLoads
<1>15. CASE OtherHappens
  <2>1. CASE PlainEvent("other")
    <3>1. Enqueue(<<"other">>) /\ "other" \in Events
      BY <2>1 DEF PlainEvent, Events
    <3> QED BY <1>15, <2>1, <3>1, EnqueueOne, PushFirst, PushStack DEF OtherHappens, PlainEvent,
           Drain, HandlerDelivers, MayDeliver, MayCall, Idle, Yielding
  <2>2. CASE SysExit
    BY <1>15, <2>2 DEF OtherHappens, SysExit, Deadlocked, HandlerDelivers, MayDeliver, MayCall,
       Idle, Yielding
  <2> QED BY <1>15, <2>1, <2>2 DEF OtherHappens
<1>16. CASE Suspend
  BY <1>16 DEF Suspend, Idle
<1>17. CASE ResumeEvents
  BY <1>17 DEF ResumeEvents, Idle
<1>18. CASE PromptHook
  BY <1>18, ReloadStack DEF PromptHook, Idle
<1>19. CASE UNCHANGED vars
  BY <1>19 DEF vars
<1> QED BY <1>1, <1>2, <1>3, <1>4, <1>5, <1>6, <1>7, <1>8, <1>9, <1>10, <1>11, <1>12, <1>13,
        <1>14, <1>15, <1>16, <1>17, <1>18, <1>19 DEF Next, Pwndbg

\* The start event is armed for a process that has not been started.
LEMMA ArmedStep ==
    FlagsOK /\ RangesOK /\ StartOnce /\ ArmedInv /\ [Next]_vars => ArmedInv'
<1> SUFFICES ASSUME FlagsOK, RangesOK, StartOnce, ArmedInv, [Next]_vars PROVE ArmedInv'
  OBVIOUS
<1> USE DEF FlagsOK, CallsOK, calls, prompt, history, RangesOK, StartOnce, ArmedInv, Threads,
        MoreThan
<1>1. CASE YieldEnds
  BY <1>1, YieldToDrain DEF YieldEnds, At
<1>2. CASE YieldRaises
  BY <1>2, PopCall DEF YieldRaises, At
<1>3. CASE StartHandlers
  BY <1>3, TakeHead, PopCall DEF StartHandlers, At, InvokeEvent, Starting
<1>4. CASE CheckPasses
  BY <1>4, TakeHead DEF CheckPasses, At, Starting
<1>5. CASE EventHandlers
  BY <1>5, TakeHead, PopCall DEF EventHandlers, At, InvokeEvent
<1>6. CASE CallReturns
  BY <1>6, PopCall DEF CallReturns, At
<1>7. CASE ReloadHandlers
  BY <1>7 DEF ReloadHandlers, InvokeEvent
<1>8. CASE PromptAppears
  BY <1>8, PopCall, ReloadStack DEF PromptAppears, At
<1>9. CASE RunPosted
  BY <1>9, PushFirst, PushStack DEF RunPosted, MayCall, Idle, Yielding
<1>10. CASE ProcessAppears
  BY <1>10 DEF ProcessAppears, Idle, Reselect
<1>11. CASE ThreadStops
  <2>1. CASE StopEvent
    BY <1>11, <2>1, PushFirst, PushStack DEF ThreadStops, StopEvent, Post, MayDeliver, MayCall,
       Idle, Yielding
  <2>2. CASE SysExit
    BY <1>11, <2>2 DEF ThreadStops, SysExit, Deadlocked, MayDeliver, MayCall, Idle, Yielding
  <2> QED BY <1>11, <2>1, <2>2 DEF ThreadStops
<1>12. CASE ThreadResumes
  <2>1. CASE PlainEvent("cont") /\ UNCHANGED raised
    BY <1>12, <2>1, PushFirst, PushStack DEF ThreadResumes, PlainEvent, Drain, MayDeliver,
       MayCall, Idle, Yielding
  <2>2. CASE SwitchRaises /\ raised' = TRUE
    BY <1>12, <2>2, PushFirst, PushStack DEF ThreadResumes, SwitchRaises, MayDeliver, MayCall,
       Idle, Yielding
  <2>3. CASE SysExit /\ UNCHANGED raised
    BY <1>12, <2>3 DEF ThreadResumes, SysExit, Deadlocked, MayDeliver, MayCall, Idle, Yielding
  <2> QED BY <1>12, <2>1, <2>2, <2>3 DEF ThreadResumes
<1>13. CASE ProcessExits
  <2>1. CASE ExitedEvent
    BY <1>13, <2>1, PushFirst, PushStack DEF ProcessExits, ExitedEvent, Drain, Reselect,
       MayDeliver, MayCall, Idle, Yielding
  <2>2. CASE SysExit
    BY <1>13, <2>2 DEF ProcessExits, SysExit, Deadlocked, Reselect, MayDeliver, MayCall, Idle,
       Yielding
  <2> QED BY <1>13, <2>1, <2>2 DEF ProcessExits
<1>14. CASE ObjfileLoads
  <2>1. CASE \E safe \in BOOLEAN : ObjfileEvent(safe)
    BY <1>14, <2>1, PushFirst, PushStack DEF ObjfileLoads, ObjfileEvent, Post, Drain,
       MayDeliver, MayCall, Idle, Yielding
  <2>2. CASE SysExit
    BY <1>14, <2>2 DEF ObjfileLoads, SysExit, Deadlocked, MayDeliver, MayCall, Idle, Yielding
  <2> QED BY <1>14, <2>1, <2>2 DEF ObjfileLoads
<1>15. CASE OtherHappens
  <2>1. CASE PlainEvent("other")
    BY <1>15, <2>1, PushFirst, PushStack DEF OtherHappens, PlainEvent, Drain, HandlerDelivers,
       MayDeliver, MayCall, Idle, Yielding
  <2>2. CASE SysExit
    BY <1>15, <2>2 DEF OtherHappens, SysExit, Deadlocked, HandlerDelivers, MayDeliver, MayCall,
       Idle, Yielding
  <2> QED BY <1>15, <2>1, <2>2 DEF OtherHappens
<1>16. CASE Suspend
  BY <1>16 DEF Suspend, Idle
<1>17. CASE ResumeEvents
  BY <1>17 DEF ResumeEvents, Idle
<1>18. CASE PromptHook
  BY <1>18, ReloadStack DEF PromptHook, Idle
<1>19. CASE UNCHANGED vars
  BY <1>19 DEF vars
<1> QED BY <1>1, <1>2, <1>3, <1>4, <1>5, <1>6, <1>7, <1>8, <1>9, <1>10, <1>11, <1>12, <1>13,
        <1>14, <1>15, <1>16, <1>17, <1>18, <1>19 DEF Next, Pwndbg

\* START is done when the handlers of STOP run.
LEMMA StartStep ==
    /\ FlagsOK /\ CallsOK /\ StackInv /\ RangesOK /\ BusyInv /\ ArmedInv /\ StartInv
    /\ [Next]_vars
    => StartInv'
<1> SUFFICES ASSUME FlagsOK, CallsOK, StackInv, RangesOK, BusyInv, ArmedInv, StartInv,
                    [Next]_vars
             PROVE  StartInv'
  OBVIOUS
<1>a. UNCHANGED <<mode, Urgent>>
  BY UrgentCalls
<1> USE <1>a, UrgentCalls DEF FlagsOK, CallsOK, calls, prompt, history, StackInv, RangesOK,
        BusyInv, ArmedInv, StartInv
<1>1. CASE YieldEnds
  BY <1>1, YieldToDrain DEF YieldEnds, At
<1>2. CASE YieldRaises
  BY <1>2, PopCall DEF YieldRaises, At
<1>3. CASE StartHandlers
  BY <1>3, TakeHead, PopCall, OrderTaken DEF StartHandlers, At, InvokeEvent, Starting
<1>4. CASE CheckPasses
  BY <1>4, TakeHead, OrderTaken DEF CheckPasses, At, Starting
<1>5. CASE EventHandlers
  BY <1>5, TakeHead, PopCall, OrderTaken DEF EventHandlers, At, InvokeEvent
<1>6. CASE CallReturns
  BY <1>6, <1>a, PopCall, EmptyQueue DEF CallReturns, At
<1>7. CASE ReloadHandlers
  <2>1. Reloading(frames) /\ Last(frames) = frames[1] /\ Front(frames) = << >> /\ ~Works(frames)
    BY <1>7, PopCall DEF ReloadHandlers, At
  <2> QED BY <1>7, <2>1, ReloadStack DEF ReloadHandlers, At, InvokeEvent
<1>8. CASE PromptAppears
  BY <1>8, PopCall, ReloadStack DEF PromptAppears, At
<1>9. CASE RunPosted
  BY <1>9, PushFirst, PushStack, EmptyStack, StopsHeld DEF RunPosted, MayCall, Idle, Yielding
<1>10. CASE ProcessAppears
  BY <1>10, EmptyStack, StopsHeld DEF ProcessAppears, Idle, Reselect
<1>11. CASE ThreadStops
  <2>1. CASE StopEvent
    <3>1. Enqueue(<<"check", "stop">>) /\ "stop" \in Events
      BY <2>1 DEF StopEvent, Events
    <3> QED BY <1>11, <2>1, <3>1, EnqueueTwo, OrderTwo, EmptyStack, StopsHeld, PushFirst,
           PushStack DEF ThreadStops, StopEvent, Post, MayDeliver, MayCall, Idle, Yielding
  <2>2. CASE SysExit
    BY <1>11, <2>2 DEF ThreadStops, SysExit, Deadlocked, MayDeliver, MayCall, Idle, Yielding
  <2> QED BY <1>11, <2>1, <2>2 DEF ThreadStops
<1>12. CASE ThreadResumes
  <2>1. CASE PlainEvent("cont") /\ UNCHANGED raised
    <3>1. Enqueue(<<"cont">>) /\ "cont" \in Events
      BY <2>1 DEF PlainEvent, Events
    <3> QED BY <1>12, <2>1, <3>1, EnqueueOne, OrderOne, EmptyStack, StopsHeld, PushFirst,
           PushStack DEF ThreadResumes, PlainEvent, Drain, MayDeliver, MayCall, Idle,
           Yielding
  <2>2. CASE SwitchRaises /\ raised' = TRUE
    <3>1. Enqueue(<<"cont">>) /\ "cont" \in Events
      BY <2>2 DEF SwitchRaises, Events
    <3> QED BY <1>12, <2>2, <3>1, EnqueueOne, OrderOne, EmptyStack, StopsHeld, PushFirst,
           PushStack DEF ThreadResumes, SwitchRaises, MayDeliver, MayCall, Idle, Yielding
  <2>3. CASE SysExit /\ UNCHANGED raised
    BY <1>12, <2>3 DEF ThreadResumes, SysExit, Deadlocked, MayDeliver, MayCall, Idle, Yielding
  <2> QED BY <1>12, <2>1, <2>2, <2>3 DEF ThreadResumes
<1>13. CASE ProcessExits
  <2>1. frames = << >> \/ Yields(frames)
    BY <1>13, Outside DEF ProcessExits
  <2>2. ~Reloading(frames)
    BY <2>1, EmptyStack
  <2>3. CASE ExitedEvent
    <3>1. Enqueue(<<"exited">>) /\ "exited" \in Events
      BY <2>3 DEF ExitedEvent, Events
    <3> QED BY <1>13, <2>2, <2>3, <3>1, EnqueueOne, OrderOne, PushFirst
            DEF ProcessExits, ExitedEvent, Drain
  <2>4. CASE SysExit
    BY <1>13, <2>4 DEF ProcessExits, SysExit
  <2> QED BY <1>13, <2>3, <2>4 DEF ProcessExits
<1>14. CASE ObjfileLoads
  <2>1. CASE \E safe \in BOOLEAN : ObjfileEvent(safe)
    <3>1. Enqueue(<<"check", "new_objfile">>) /\ "new_objfile" \in Events
      BY <2>1 DEF ObjfileEvent, Events
    <3> QED BY <1>14, <2>1, <3>1, EnqueueTwo, OrderTwo, EmptyStack, StopsHeld, PushFirst,
           PushStack DEF ObjfileLoads, ObjfileEvent, Post, Drain, MayDeliver, MayCall, Idle,
           Yielding
  <2>2. CASE SysExit
    BY <1>14, <2>2 DEF ObjfileLoads, SysExit, Deadlocked, MayDeliver, MayCall, Idle, Yielding
  <2> QED BY <1>14, <2>1, <2>2 DEF ObjfileLoads
<1>15. CASE OtherHappens
  <2>1. CASE PlainEvent("other")
    <3>1. Enqueue(<<"other">>) /\ "other" \in Events
      BY <2>1 DEF PlainEvent, Events
    <3> QED BY <1>15, <2>1, <3>1, EnqueueOne, OrderOne, EmptyStack, StopsHeld, PushFirst,
           PushStack DEF OtherHappens, PlainEvent, Drain, HandlerDelivers, MayDeliver,
           MayCall, Idle, Yielding
  <2>2. CASE SysExit
    BY <1>15, <2>2 DEF OtherHappens, SysExit, Deadlocked, HandlerDelivers, MayDeliver, MayCall,
       Idle, Yielding
  <2> QED BY <1>15, <2>1, <2>2 DEF OtherHappens
<1>16. CASE Suspend
  BY <1>16, EmptyStack, StopsHeld DEF Suspend, Idle
<1>17. CASE ResumeEvents
  BY <1>17, EmptyStack, StopsHeld DEF ResumeEvents, Idle
<1>18. CASE PromptHook
  <2>1. frames = << >> /\ ~quit /\ thread # "running" /\ (thread = "fresh" => startRunning)
    BY <1>18 DEF PromptHook, Idle
  <2>2. ~raised /\ mode # "enabled" /\ thread = "stopped" => startRunning
    BY <2>1, EmptyStack
  <2>3. PICK todo : /\ frames' = <<[at |-> "reload", todo |-> todo]>>
                    /\ thread = "none" => todo = << >>
    BY <1>18 DEF PromptHook
  <2>4. frames'[1].todo = todo
    BY <2>3
  <2>5. ~Works(frames)
    BY <2>1, EmptyStack
  <2>6. UNCHANGED <<queue, thread, quit, startRunning, raised>>
    BY <1>18 DEF PromptHook
  <2> QED BY <2>1, <2>2, <2>3, <2>4, <2>5, <2>6 DEF Threads
<1>19. CASE UNCHANGED vars
  BY <1>19 DEF vars
<1> QED BY <1>1, <1>2, <1>3, <1>4, <1>5, <1>6, <1>7, <1>8, <1>9, <1>10, <1>11, <1>12, <1>13,
        <1>14, <1>15, <1>16, <1>17, <1>18, <1>19 DEF Next, Pwndbg

\* A process does not exit behind an event that is handled.
LEMMA PresentStep ==
    FlagsOK /\ CallsOK /\ StackInv /\ BusyInv /\ PresentInv /\ [Next]_vars => PresentInv'
<1> SUFFICES ASSUME FlagsOK, CallsOK, StackInv, BusyInv, PresentInv, [Next]_vars PROVE PresentInv'
  OBVIOUS
<1>a. UNCHANGED <<mode, Urgent>>
  BY UrgentCalls
<1> USE <1>a, UrgentCalls DEF FlagsOK, CallsOK, calls, prompt, history, StackInv, BusyInv,
        PresentInv
<1>1. CASE YieldEnds
  BY <1>1, YieldToDrain DEF YieldEnds, At
<1>2. CASE YieldRaises
  BY <1>2, PopCall DEF YieldRaises, At
<1>3. CASE StartHandlers
  BY <1>3, TakeHead, PopCall DEF StartHandlers, At, InvokeEvent, Starting
<1>4. CASE CheckPasses
  BY <1>4, TakeHead DEF CheckPasses, At, Starting
<1>5. CASE EventHandlers
  BY <1>5, TakeHead, PopCall DEF EventHandlers, At, InvokeEvent
<1>6. CASE CallReturns
  BY <1>6, <1>a, PopCall, EmptyQueue DEF CallReturns, At
<1>7. CASE ReloadHandlers
  <2>1. Reloading(frames) /\ Last(frames) = frames[1] /\ Front(frames) = << >> /\ ~Works(frames)
    BY <1>7, PopCall DEF ReloadHandlers, At
  <2> QED BY <1>7, <2>1, ReloadStack DEF ReloadHandlers, At, InvokeEvent
<1>8. CASE PromptAppears
  BY <1>8, PopCall, ReloadStack DEF PromptAppears, At
<1>9. CASE RunPosted
  BY <1>9, PushFirst, PushStack, EmptyStack DEF RunPosted, MayCall, Idle, Yielding
<1>10. CASE ProcessAppears
  BY <1>10, EmptyStack DEF ProcessAppears, Idle, Reselect
<1>11. CASE ThreadStops
  <2>1. CASE StopEvent
    <3>1. Enqueue(<<"check", "stop">>) /\ "stop" \in Events
      BY <2>1 DEF StopEvent, Events
    <3> QED BY <1>11, <2>1, <3>1, EnqueueTwo, EmptyStack, PushFirst, PushStack DEF ThreadStops,
           StopEvent, Post, MayDeliver, MayCall, Idle, Yielding
  <2>2. CASE SysExit
    BY <1>11, <2>2 DEF ThreadStops, SysExit, Deadlocked, MayDeliver, MayCall, Idle, Yielding
  <2> QED BY <1>11, <2>1, <2>2 DEF ThreadStops
<1>12. CASE ThreadResumes
  <2>1. CASE PlainEvent("cont") /\ UNCHANGED raised
    <3>1. Enqueue(<<"cont">>) /\ "cont" \in Events
      BY <2>1 DEF PlainEvent, Events
    <3> QED BY <1>12, <2>1, <3>1, EnqueueOne, EmptyStack, PushFirst, PushStack DEF
           ThreadResumes, PlainEvent, Drain, MayDeliver, MayCall, Idle, Yielding
  <2>2. CASE SwitchRaises /\ raised' = TRUE
    <3>1. Enqueue(<<"cont">>) /\ "cont" \in Events
      BY <2>2 DEF SwitchRaises, Events
    <3> QED BY <1>12, <2>2, <3>1, EnqueueOne, EmptyStack, PushFirst, PushStack DEF
           ThreadResumes, SwitchRaises, MayDeliver, MayCall, Idle, Yielding
  <2>3. CASE SysExit /\ UNCHANGED raised
    BY <1>12, <2>3 DEF ThreadResumes, SysExit, Deadlocked, MayDeliver, MayCall, Idle, Yielding
  <2> QED BY <1>12, <2>1, <2>2, <2>3 DEF ThreadResumes
<1>13. CASE ProcessExits
  <2>1. frames = << >> \/ Yields(frames)
    BY <1>13, Outside DEF ProcessExits
  <2>2. ~Reloading(frames)
    BY <2>1, EmptyStack
  <2>3. CASE ExitedEvent
    <3>1. Enqueue(<<"exited">>) /\ "exited" \in Events
      BY <2>3 DEF ExitedEvent, Events
    <3>2. mode = "disabled" => frames = << >>
      BY <2>1, <2>3 DEF ExitedEvent, Deadlocked
    <3>3. Holds(queue, {"stop"}) => Holds(queue, Urgent) \/ mode = "enabled"
      BY DEF Holds
    <3>4. mode = "disabled" /\ ~raised => ~Holds(queue, {"stop"})
      BY <3>2, <3>3, EmptyStack
    <3> QED BY <1>13, <2>2, <2>3, <3>1, <3>4, EnqueueOne, PushFirst
            DEF ProcessExits, ExitedEvent, Drain
  <2>4. CASE SysExit
    BY <1>13, <2>4 DEF ProcessExits, SysExit
  <2> QED BY <1>13, <2>3, <2>4 DEF ProcessExits
<1>14. CASE ObjfileLoads
  <2>1. CASE \E safe \in BOOLEAN : ObjfileEvent(safe)
    <3>1. Enqueue(<<"check", "new_objfile">>) /\ "new_objfile" \in Events
      BY <2>1 DEF ObjfileEvent, Events
    <3> QED BY <1>14, <2>1, <3>1, EnqueueTwo, EmptyStack, PushFirst, PushStack DEF ObjfileLoads,
           ObjfileEvent, Post, Drain, MayDeliver, MayCall, Idle, Yielding
  <2>2. CASE SysExit
    BY <1>14, <2>2 DEF ObjfileLoads, SysExit, Deadlocked, MayDeliver, MayCall, Idle, Yielding
  <2> QED BY <1>14, <2>1, <2>2 DEF ObjfileLoads
<1>15. CASE OtherHappens
  <2>1. CASE PlainEvent("other")
    <3>1. Enqueue(<<"other">>) /\ "other" \in Events
      BY <2>1 DEF PlainEvent, Events
    <3> QED BY <1>15, <2>1, <3>1, EnqueueOne, EmptyStack, PushFirst, PushStack DEF OtherHappens,
           PlainEvent, Drain, HandlerDelivers, MayDeliver, MayCall, Idle, Yielding
  <2>2. CASE SysExit
    BY <1>15, <2>2 DEF OtherHappens, SysExit, Deadlocked, HandlerDelivers, MayDeliver, MayCall,
       Idle, Yielding
  <2> QED BY <1>15, <2>1, <2>2 DEF OtherHappens
<1>16. CASE Suspend
  BY <1>16, EmptyStack DEF Suspend, Idle
<1>17. CASE ResumeEvents
  BY <1>17, EmptyStack DEF ResumeEvents, Idle
<1>18. CASE PromptHook
  BY <1>18, ReloadStack, EmptyStack DEF PromptHook, Idle
<1>19. CASE UNCHANGED vars
  BY <1>19 DEF vars
<1> QED BY <1>1, <1>2, <1>3, <1>4, <1>5, <1>6, <1>7, <1>8, <1>9, <1>10, <1>11, <1>12, <1>13,
        <1>14, <1>15, <1>16, <1>17, <1>18, <1>19 DEF Next, Pwndbg

\* What was queued during a suspension.
LEMMA SuspensionStep ==
    FlagsOK /\ CallsOK /\ StackInv /\ BusyInv /\ SuspensionInv /\ [Next]_vars => SuspensionInv'
<1> SUFFICES ASSUME FlagsOK, CallsOK, StackInv, BusyInv, SuspensionInv, [Next]_vars
             PROVE  SuspensionInv'
  OBVIOUS
<1>a. UNCHANGED <<mode, Urgent>>
  BY UrgentCalls
<1> USE <1>a, UrgentCalls DEF FlagsOK, CallsOK, calls, prompt, history, StackInv, BusyInv,
        SuspensionInv
<1>1. CASE YieldEnds
  BY <1>1, YieldToDrain DEF YieldEnds, At
<1>2. CASE YieldRaises
  BY <1>2, PopCall DEF YieldRaises, At
<1>3. CASE StartHandlers
  BY <1>3, TakeHead, PopCall, OrderTaken DEF StartHandlers, At, InvokeEvent, Starting
<1>4. CASE CheckPasses
  BY <1>4, TakeHead, OrderTaken DEF CheckPasses, At, Starting
<1>5. CASE EventHandlers
  BY <1>5, TakeHead, PopCall, OrderTaken DEF EventHandlers, At, InvokeEvent
<1>6. CASE CallReturns
  BY <1>6, PopCall DEF CallReturns, At
<1>7. CASE ReloadHandlers
  <2>1. Reloading(frames) /\ Last(frames) = frames[1] /\ Front(frames) = << >> /\ ~Works(frames)
    BY <1>7, PopCall DEF ReloadHandlers, At
  <2> QED BY <1>7, <2>1, ReloadStack DEF ReloadHandlers, At, InvokeEvent
<1>8. CASE PromptAppears
  BY <1>8, PopCall, ReloadStack DEF PromptAppears, At
<1>9. CASE RunPosted
  BY <1>9, PushFirst, PushStack, EmptyStack DEF RunPosted, MayCall, Idle, Yielding
<1>10. CASE ProcessAppears
  BY <1>10, EmptyStack DEF ProcessAppears, Idle, Reselect
<1>11. CASE ThreadStops
  <2>1. CASE StopEvent
    <3>1. Enqueue(<<"check", "stop">>) /\ "stop" \in Events
      BY <2>1 DEF StopEvent, Events
    <3> QED BY <1>11, <2>1, <3>1, EnqueueTwo, Attended, EmptyStack, PushFirst, PushStack DEF
           ThreadStops, StopEvent, Post, MayDeliver, MayCall, Idle, Yielding
  <2>2. CASE SysExit
    BY <1>11, <2>2 DEF ThreadStops, SysExit, Deadlocked, MayDeliver, MayCall, Idle, Yielding
  <2> QED BY <1>11, <2>1, <2>2 DEF ThreadStops
<1>12. CASE ThreadResumes
  <2>1. CASE PlainEvent("cont") /\ UNCHANGED raised
    <3>1. Enqueue(<<"cont">>) /\ "cont" \in Events
      BY <2>1 DEF PlainEvent, Events
    <3> QED BY <1>12, <2>1, <3>1, EnqueueOne, Attended, EmptyStack, PushFirst, PushStack DEF
           ThreadResumes, PlainEvent, Drain, MayDeliver, MayCall, Idle, Yielding
  <2>2. CASE SwitchRaises /\ raised' = TRUE
    <3>1. Enqueue(<<"cont">>) /\ "cont" \in Events
      BY <2>2 DEF SwitchRaises, Events
    <3> QED BY <1>12, <2>2, <3>1, EnqueueOne, Attended, EmptyStack, PushFirst, PushStack DEF
           ThreadResumes, SwitchRaises, MayDeliver, MayCall, Idle, Yielding
  <2>3. CASE SysExit /\ UNCHANGED raised
    BY <1>12, <2>3 DEF ThreadResumes, SysExit, Deadlocked, MayDeliver, MayCall, Idle, Yielding
  <2> QED BY <1>12, <2>1, <2>2, <2>3 DEF ThreadResumes
<1>13. CASE ProcessExits
  <2>1. CASE ExitedEvent
    <3>1. Enqueue(<<"exited">>) /\ "exited" \in Events
      BY <2>1 DEF ExitedEvent, Events
    <3> QED BY <1>13, <2>1, <3>1, EnqueueOne, Attended, EmptyStack, PushFirst, PushStack DEF
           ProcessExits, ExitedEvent, Drain, Reselect, MayDeliver, MayCall, Idle, Yielding
  <2>2. CASE SysExit
    BY <1>13, <2>2 DEF ProcessExits, SysExit, Deadlocked, Reselect, MayDeliver, MayCall, Idle,
       Yielding
  <2> QED BY <1>13, <2>1, <2>2 DEF ProcessExits
<1>14. CASE ObjfileLoads
  <2>1. CASE \E safe \in BOOLEAN : ObjfileEvent(safe)
    <3>1. Enqueue(<<"check", "new_objfile">>) /\ "new_objfile" \in Events
      BY <2>1 DEF ObjfileEvent, Events
    <3> QED BY <1>14, <2>1, <3>1, EnqueueTwo, Attended, EmptyStack, PushFirst, PushStack DEF
           ObjfileLoads, ObjfileEvent, Post, Drain, MayDeliver, MayCall, Idle, Yielding
  <2>2. CASE SysExit
    BY <1>14, <2>2 DEF ObjfileLoads, SysExit, Deadlocked, MayDeliver, MayCall, Idle, Yielding
  <2> QED BY <1>14, <2>1, <2>2 DEF ObjfileLoads
<1>15. CASE OtherHappens
  <2>1. CASE PlainEvent("other")
    <3>1. Enqueue(<<"other">>) /\ "other" \in Events
      BY <2>1 DEF PlainEvent, Events
    <3> QED BY <1>15, <2>1, <3>1, EnqueueOne, Attended, EmptyStack, PushFirst, PushStack DEF
           OtherHappens, PlainEvent, Drain, HandlerDelivers, MayDeliver, MayCall, Idle,
           Yielding
  <2>2. CASE SysExit
    BY <1>15, <2>2 DEF OtherHappens, SysExit, Deadlocked, HandlerDelivers, MayDeliver, MayCall,
       Idle, Yielding
  <2> QED BY <1>15, <2>1, <2>2 DEF OtherHappens
<1>16. CASE Suspend
  BY <1>16, EmptyStack DEF Suspend, Idle
<1>17. CASE ResumeEvents
  BY <1>17, EmptyStack, Unurgent DEF ResumeEvents, Idle
<1>18. CASE PromptHook
  BY <1>18, ReloadStack, EmptyStack DEF PromptHook, Idle
<1>19. CASE UNCHANGED vars
  BY <1>19 DEF vars
<1> QED BY <1>1, <1>2, <1>3, <1>4, <1>5, <1>6, <1>7, <1>8, <1>9, <1>10, <1>11, <1>12, <1>13,
        <1>14, <1>15, <1>16, <1>17, <1>18, <1>19 DEF Next, Pwndbg

\* Who resumes the process makes the context display out of date.
LEMMA FreshStep ==
    FlagsOK /\ CallsOK /\ StackInv /\ BusyInv /\ FreshInv /\ [Next]_vars => FreshInv'
<1> SUFFICES ASSUME FlagsOK, CallsOK, StackInv, BusyInv, FreshInv, [Next]_vars PROVE FreshInv'
  OBVIOUS
<1>a. UNCHANGED <<mode, Urgent>>
  BY UrgentCalls
<1> USE <1>a, UrgentCalls DEF FlagsOK, CallsOK, calls, prompt, history, StackInv, BusyInv,
        FreshInv
<1>1. CASE YieldEnds
  BY <1>1, YieldToDrain DEF YieldEnds, At
<1>2. CASE YieldRaises
  BY <1>2, PopCall DEF YieldRaises, At
<1>3. CASE StartHandlers
  BY <1>3, TakeHead, PopCall DEF StartHandlers, At, InvokeEvent, Starting
<1>4. CASE CheckPasses
  BY <1>4, TakeHead DEF CheckPasses, At, Starting
<1>5. CASE EventHandlers
  BY <1>5, TakeHead, PopCall DEF EventHandlers, At, InvokeEvent
<1>6. CASE CallReturns
  BY <1>6, <1>a, PopCall, EmptyQueue DEF CallReturns, At
<1>7. CASE ReloadHandlers
  <2>1. Reloading(frames) /\ Last(frames) = frames[1] /\ Front(frames) = << >> /\ ~Works(frames)
    BY <1>7, PopCall DEF ReloadHandlers, At
  <2> QED BY <1>7, <2>1, ReloadStack DEF ReloadHandlers, At, InvokeEvent
<1>8. CASE PromptAppears
  BY <1>8, PopCall, ReloadStack DEF PromptAppears, At
<1>9. CASE RunPosted
  BY <1>9, PushFirst, PushStack, EmptyStack DEF RunPosted, MayCall, Idle, Yielding
<1>10. CASE ProcessAppears
  BY <1>10, EmptyStack DEF ProcessAppears, Idle, Reselect
<1>11. CASE ThreadStops
  <2>1. CASE StopEvent
    <3>1. Enqueue(<<"check", "stop">>) /\ "stop" \in Events
      BY <2>1 DEF StopEvent, Events
    <3> QED BY <1>11, <2>1, <3>1, EnqueueTwo, EmptyStack, PushFirst, PushStack DEF ThreadStops,
           StopEvent, Post, MayDeliver, MayCall, Idle, Yielding
  <2>2. CASE SysExit
    BY <1>11, <2>2 DEF ThreadStops, SysExit, Deadlocked, MayDeliver, MayCall, Idle, Yielding
  <2> QED BY <1>11, <2>1, <2>2 DEF ThreadStops
<1>12. CASE ThreadResumes
  <2>1. CASE PlainEvent("cont") /\ UNCHANGED raised
    <3>1. Enqueue(<<"cont">>) /\ "cont" \in Events
      BY <2>1 DEF PlainEvent, Events
    <3> QED BY <1>12, <2>1, <3>1, EnqueueOne, EmptyStack, PushFirst, PushStack DEF
           ThreadResumes, PlainEvent, Drain, MayDeliver, MayCall, Idle, Yielding
  <2>2. CASE SwitchRaises /\ raised' = TRUE
    <3>1. Enqueue(<<"cont">>) /\ "cont" \in Events
      BY <2>2 DEF SwitchRaises, Events
    <3> QED BY <1>12, <2>2, <3>1, EnqueueOne, EmptyStack, PushFirst, PushStack DEF
           ThreadResumes, SwitchRaises, MayDeliver, MayCall, Idle, Yielding
  <2>3. CASE SysExit /\ UNCHANGED raised
    BY <1>12, <2>3 DEF ThreadResumes, SysExit, Deadlocked, MayDeliver, MayCall, Idle, Yielding
  <2> QED BY <1>12, <2>1, <2>2, <2>3 DEF ThreadResumes
<1>13. CASE ProcessExits
  <2>1. CASE ExitedEvent
    <3>1. Enqueue(<<"exited">>) /\ "exited" \in Events
      BY <2>1 DEF ExitedEvent, Events
    <3> QED BY <1>13, <2>1, <3>1, EnqueueOne, EmptyStack, PushFirst, PushStack DEF ProcessExits,
           ExitedEvent, Drain, Reselect, MayDeliver, MayCall, Idle, Yielding
  <2>2. CASE SysExit
    BY <1>13, <2>2 DEF ProcessExits, SysExit, Deadlocked, Reselect, MayDeliver, MayCall, Idle,
       Yielding
  <2> QED BY <1>13, <2>1, <2>2 DEF ProcessExits
<1>14. CASE ObjfileLoads
  <2>1. CASE \E safe \in BOOLEAN : ObjfileEvent(safe)
    <3>1. Enqueue(<<"check", "new_objfile">>) /\ "new_objfile" \in Events
      BY <2>1 DEF ObjfileEvent, Events
    <3> QED BY <1>14, <2>1, <3>1, EnqueueTwo, EmptyStack, PushFirst, PushStack DEF ObjfileLoads,
           ObjfileEvent, Post, Drain, MayDeliver, MayCall, Idle, Yielding
  <2>2. CASE SysExit
    BY <1>14, <2>2 DEF ObjfileLoads, SysExit, Deadlocked, MayDeliver, MayCall, Idle, Yielding
  <2> QED BY <1>14, <2>1, <2>2 DEF ObjfileLoads
<1>15. CASE OtherHappens
  <2>1. CASE PlainEvent("other")
    <3>1. Enqueue(<<"other">>) /\ "other" \in Events
      BY <2>1 DEF PlainEvent, Events
    <3> QED BY <1>15, <2>1, <3>1, EnqueueOne, EmptyStack, PushFirst, PushStack DEF OtherHappens,
           PlainEvent, Drain, HandlerDelivers, MayDeliver, MayCall, Idle, Yielding
  <2>2. CASE SysExit
    BY <1>15, <2>2 DEF OtherHappens, SysExit, Deadlocked, HandlerDelivers, MayDeliver, MayCall,
       Idle, Yielding
  <2> QED BY <1>15, <2>1, <2>2 DEF OtherHappens
<1>16. CASE Suspend
  <2>1. Holds(queue, {"cont"}) => Holds(queue, Urgent)
    BY DEF Holds
  <2> QED BY <1>16, <2>1, EmptyStack DEF Suspend, Idle
<1>17. CASE ResumeEvents
  BY <1>17, EmptyStack DEF ResumeEvents, Idle
<1>18. CASE PromptHook
  BY <1>18, ReloadStack, EmptyStack DEF PromptHook, Idle
<1>19. CASE UNCHANGED vars
  BY <1>19 DEF vars
<1> QED BY <1>1, <1>2, <1>3, <1>4, <1>5, <1>6, <1>7, <1>8, <1>9, <1>10, <1>11, <1>12, <1>13,
        <1>14, <1>15, <1>16, <1>17, <1>18, <1>19 DEF Next, Pwndbg

\* What the handlers are told.
LEMMA ToldStep ==
    /\ FlagsOK /\ CallsOK /\ StackInv /\ RanOK /\ RangesOK
    /\ BusyInv /\ ArmedInv /\ StartInv /\ PresentInv /\ SuspensionInv /\ FreshInv /\ ToldOK
    /\ [Next]_vars
    => ToldOK'
<1> SUFFICES ASSUME FlagsOK, CallsOK, StackInv, RanOK, RangesOK, BusyInv, ArmedInv, StartInv,
                    PresentInv, SuspensionInv, FreshInv, ToldOK, [Next]_vars
             PROVE  ToldOK'
  OBVIOUS
<1>a. UNCHANGED <<mode, Urgent>>
  BY UrgentCalls
<1> USE <1>a, UrgentCalls DEF FlagsOK, CallsOK, calls, prompt, history, StackInv, RangesOK,
        BusyInv, ArmedInv, StartInv, PresentInv, SuspensionInv, FreshInv, ToldOK,
        StartBeforeStop, NoStopWithoutProcess, SuspensionHolds, ContextIsFresh
<1>1. CASE YieldEnds
  BY <1>1, YieldToDrain DEF YieldEnds, At
<1>2. CASE YieldRaises
  BY <1>2, PopCall DEF YieldRaises, At
<1>3. CASE StartHandlers
  BY <1>3, TakeHead, PopCall DEF StartHandlers, At, InvokeEvent, Starting
<1>4. CASE CheckPasses
  BY <1>4, TakeHead DEF CheckPasses, At, Starting
<1>5. CASE EventHandlers
  <2>1. ASSUME Head(queue).call = "stop"
        PROVE  /\ ~raised /\ mode # "enabled" => startRunning \/ thread = "none"
               /\ ~raised /\ mode = "disabled" => thread # "none"
    <3>1. ~quit /\ StopsNext(queue) /\ Holds(queue, {"stop"})
      BY <1>5, <2>1, TakeHead DEF EventHandlers, At, StopsNext
    <3> QED BY <3>1
  <2>2. ASSUME ~raised, mode # "enabled", ~suspended, Head(queue).ignored
        PROVE  Head(queue).call \in {"check", "new_objfile"}
    <3>1. 1 \in DOMAIN queue /\ Head(queue) = queue[1]
      BY <1>5 DEF EventHandlers
    <3> QED BY <2>2, <3>1 DEF Unignored
  <2>3. /\ ~raised' => ~raised
        /\ UNCHANGED <<mode, thread, prompted, moved, replaced, starts>>
        /\ Head(queue).call # "check"
        /\ \/ ran' = ran
           \/ /\ ~suspended /\ ran'.event = Head(queue).call /\ ran'.thread = thread
              /\ ran'.first = (starts' = 0) /\ ran'.ignored = Head(queue).ignored
    BY <1>5 DEF EventHandlers, InvokeEvent
  <2>4. StartBeforeStop'
    BY <2>1, <2>3
  <2>5. NoStopWithoutProcess'
    BY <2>1, <2>3
  <2>6. SuspensionHolds'
    BY <2>2, <2>3
  <2>7. ContextIsFresh'
    BY <2>3
  <2> QED BY <2>4, <2>5, <2>6, <2>7
<1>6. CASE CallReturns
  BY <1>6, <1>a, PopCall, EmptyQueue DEF CallReturns, At
<1>7. CASE ReloadHandlers
  <2>1. Reloading(frames) /\ Last(frames) = frames[1] /\ Front(frames) = << >> /\ ~Works(frames)
    BY <1>7, PopCall DEF ReloadHandlers, At
  <2> QED BY <1>7, <2>1, ReloadStack DEF ReloadHandlers, At, InvokeEvent
<1>8. CASE PromptAppears
  <2>1. ~Works(frames) /\ ~quit
    BY <1>8, PopCall DEF PromptAppears, At
  <2>2. moved /\ ~replaced /\ ~raised => ~shown
    <3>1. Holds(queue, {"cont"}) => Holds(queue, Urgent)
      BY UrgentCalls DEF Holds
    <3> QED BY <2>1, <3>1
  <2> QED BY <1>8, <2>2 DEF PromptAppears
<1>9. CASE RunPosted
  BY <1>9, PushFirst, PushStack DEF RunPosted, MayCall, Idle, Yielding
<1>10. CASE ProcessAppears
  BY <1>10 DEF ProcessAppears, Idle, Reselect
<1>11. CASE ThreadStops
  <2>1. CASE StopEvent
    BY <1>11, <2>1, PushFirst, PushStack DEF ThreadStops, StopEvent, Post, MayDeliver, MayCall,
       Idle, Yielding
  <2>2. CASE SysExit
    BY <1>11, <2>2 DEF ThreadStops, SysExit, Deadlocked, MayDeliver, MayCall, Idle, Yielding
  <2> QED BY <1>11, <2>1, <2>2 DEF ThreadStops
<1>12. CASE ThreadResumes
  <2>1. CASE PlainEvent("cont") /\ UNCHANGED raised
    BY <1>12, <2>1, PushFirst, PushStack DEF ThreadResumes, PlainEvent, Drain, MayDeliver,
       MayCall, Idle, Yielding
  <2>2. CASE SwitchRaises /\ raised' = TRUE
    BY <1>12, <2>2, PushFirst, PushStack DEF ThreadResumes, SwitchRaises, MayDeliver, MayCall,
       Idle, Yielding
  <2>3. CASE SysExit /\ UNCHANGED raised
    BY <1>12, <2>3 DEF ThreadResumes, SysExit, Deadlocked, MayDeliver, MayCall, Idle, Yielding
  <2> QED BY <1>12, <2>1, <2>2, <2>3 DEF ThreadResumes
<1>13. CASE ProcessExits
  <2>1. CASE ExitedEvent
    BY <1>13, <2>1, PushFirst, PushStack DEF ProcessExits, ExitedEvent, Drain, Reselect,
       MayDeliver, MayCall, Idle, Yielding
  <2>2. CASE SysExit
    BY <1>13, <2>2 DEF ProcessExits, SysExit, Deadlocked, Reselect, MayDeliver, MayCall, Idle,
       Yielding
  <2> QED BY <1>13, <2>1, <2>2 DEF ProcessExits
<1>14. CASE ObjfileLoads
  <2>1. CASE \E safe \in BOOLEAN : ObjfileEvent(safe)
    BY <1>14, <2>1, PushFirst, PushStack DEF ObjfileLoads, ObjfileEvent, Post, Drain,
       MayDeliver, MayCall, Idle, Yielding
  <2>2. CASE SysExit
    BY <1>14, <2>2 DEF ObjfileLoads, SysExit, Deadlocked, MayDeliver, MayCall, Idle, Yielding
  <2> QED BY <1>14, <2>1, <2>2 DEF ObjfileLoads
<1>15. CASE OtherHappens
  <2>1. CASE PlainEvent("other")
    BY <1>15, <2>1, PushFirst, PushStack DEF OtherHappens, PlainEvent, Drain, HandlerDelivers,
       MayDeliver, MayCall, Idle, Yielding
  <2>2. CASE SysExit
    BY <1>15, <2>2 DEF OtherHappens, SysExit, Deadlocked, HandlerDelivers, MayDeliver, MayCall,
       Idle, Yielding
  <2> QED BY <1>15, <2>1, <2>2 DEF OtherHappens
<1>16. CASE Suspend
  BY <1>16 DEF Suspend, Idle
<1>17. CASE ResumeEvents
  BY <1>17 DEF ResumeEvents, Idle
<1>18. CASE PromptHook
  BY <1>18, ReloadStack DEF PromptHook, Idle
<1>19. CASE UNCHANGED vars
  BY <1>19 DEF vars
<1> QED BY <1>1, <1>2, <1>3, <1>4, <1>5, <1>6, <1>7, <1>8, <1>9, <1>10, <1>11, <1>12, <1>13,
        <1>14, <1>15, <1>16, <1>17, <1>18, <1>19 DEF Next, Pwndbg

GdbInv == /\ ExecutingInv /\ StackInv /\ BusyInv /\ ArmedInv /\ StartInv
          /\ PresentInv /\ SuspensionInv /\ FreshInv /\ ToldOK

\* The invariant of the queue and the stack, and what the handlers are told.
LEMMA GdbInvariant == Spec => []GdbInv
<1>1. Init => GdbInv
  <2> SUFFICES ASSUME Init PROVE GdbInv
    OBVIOUS
  <2>1. /\ queue = << >> /\ frames = << >> /\ startRunning = FALSE /\ starts = 0
        /\ moved = FALSE /\ prompted = FALSE /\ executing = FALSE /\ quit = FALSE
        /\ ran.event = "none" /\ ran.ignored = FALSE
    BY DEF Init
  <2>2. ExecutingInv /\ StackInv /\ BusyInv
    BY <2>1, EmptyStack, EmptyQueue
       DEF ExecutingInv, DeadlockIsRealUnlessRaised, DeadlockIsReal, StackInv, BusyInv
  <2>3. StopsChecked(queue) /\ ~StopsNext(queue) /\ Unignored(queue)
    BY <2>1 DEF StopsChecked, StopsNext, Unignored
  <2>4. ArmedInv /\ StartInv /\ PresentInv /\ SuspensionInv /\ FreshInv
    BY <2>1, <2>3, EmptyStack, EmptyQueue
       DEF Init, ArmedInv, StartInv, PresentInv, SuspensionInv, FreshInv
  <2>5. ToldOK
    BY <2>1 DEF ToldOK, StartBeforeStop, NoStopWithoutProcess, SuspensionHolds, ContextIsFresh
  <2> QED BY <2>2, <2>4, <2>5 DEF GdbInv
<1>2. TypeOK /\ StartOnce /\ GdbInv /\ [Next]_vars => GdbInv'
  BY ExecutingStep, StackStep, BusyStep, ArmedStep, StartStep, PresentStep, SuspensionStep,
     FreshStep, ToldStep DEF TypeOK, GdbInv
<1> QED BY <1>1, <1>2, TypeCorrect, PTL DEF Spec

\* On a stop event the handlers of START come before those of STOP, whatever GDB
\* delivers inside which call (unless stop events are asynchronous, or one raised).
THEOREM StartIsFirst == Spec => []StartBeforeStop
<1>1. GdbInv => StartBeforeStop
  BY DEF GdbInv, ToldOK
<1> QED BY <1>1, GdbInvariant, PTL

\* By default no handler of STOP runs for a process that is gone.
THEOREM StopsHaveAProcess == Spec => []NoStopWithoutProcess
<1>1. GdbInv => NoStopWithoutProcess
  BY DEF GdbInv, ToldOK
<1> QED BY <1>1, GdbInvariant, PTL

\* An event triggered during a suspension (paused, events.py) runs no
\* handlers afterwards.
THEOREM SuspensionsHold == Spec => []SuspensionHolds
<1>1. GdbInv => SuspensionHolds
  BY DEF GdbInv, ToldOK
<1> QED BY <1>1, GdbInvariant, PTL

\* At the prompt the context of the process where it stands has been displayed,
\* unless it replaced one that was displayed (prompt_hook, prompt.py).
THEOREM ContextStaysFresh == Spec => []ContextIsFresh
<1>1. GdbInv => ContextIsFresh
  BY DEF GdbInv, ToldOK
<1> QED BY <1>1, GdbInvariant, PTL
=============================================================================
