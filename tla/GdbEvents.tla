----------------------------- MODULE GdbEvents -----------------------------
(***************************************************************************)
(* When pwndbg's event handlers run in GDB: the queue of                   *)
(* pwndbg/gdblib/events.py, its emulated start event, its workarounds for  *)
(* events that come while the process runs, the suspension of events, and  *)
(* the prompt hook of pwndbg/gdblib/prompt.py.                             *)
(*                                                                         *)
(* GDB delivers an event by calling _inner_handler.  It may deliver        *)
(* another one while the first executes an empty command, which is when    *)
(* GDB runs the commands of a breakpoint, and it does when a handler       *)
(* changes memory or a register: calls nest.                               *)
(***************************************************************************)
EXTENDS Naturals, SequencesExt

CONSTANTS
    MaxDepth,         \* bound: nested calls of _inner_handler
    MaxQueue,         \* bound: handlers queued when GDB delivers an event
    HandlersMayRaise  \* whether handlers, and commands of breakpoints, may fail

ASSUME EventsAssumption ==
    /\ MaxDepth \in Nat \ {0} /\ MaxQueue \in Nat
    /\ HandlersMayRaise \in BOOLEAN

VARIABLES
    thread,           \* GDB's selected thread
    mode,             \* gdb_workaround_stop_event
    quit,             \* has sys.exit been called?
    queue,            \* queued_events
    posted,           \* is a call of _loop_until_thread_ok posted?
    executing,        \* executing_event
    frames,           \* the calls that handle events, innermost last
    startRunning,     \* gdb.events.start.running
    suspended,        \* paused[gdb.events.suspend_all]
    cur,              \* prompt.cur, compared to what is selected
    shown,            \* prompt.context_shown
    prompted,         \* is the prompt up, nothing having happened since?
    starts,           \* history: how often START was invoked for this process (2: or more)
    byHand,           \* history: did after_reload invoke it?
    ran,              \* history: the last event whose handlers ran, and when
    moved,            \* history: is it elsewhere than at the last context display?
    replaced,         \* history: did it replace one displayed, and has not been resumed?
    raised            \* history: has anything raised?

calls   == <<queue, posted, executing, frames>>
prompt  == <<cur, shown, prompted, moved, replaced>>
history == <<starts, byHand, ran, raised>>
vars    == <<thread, mode, quit, calls, startRunning, suspended, prompt, history>>

Threads == {"none", "fresh", "stopped", "running"}
\* "other" stands for memory_changed, register_changed, new_thread and
\* before_prompt, which are delivered alike.
Events  == {"stop", "cont", "exited", "new_objfile", "other"}

\* A queued call: the handlers of an event, or the check of the start event.
\* `ignored': was the event triggered during a suspension?
Queued == [call : Events \cup {"check"}, ignored : BOOLEAN]
Frames == [at : {"yield", "drain"}, todo : {<< >>}] \cup
          [at : {"reload"}, todo : Seq(Events \cup {"start"})]

FlagsOK ==
    /\ quit \in BOOLEAN /\ posted \in BOOLEAN /\ executing \in BOOLEAN
    /\ startRunning \in BOOLEAN /\ suspended \in BOOLEAN
    /\ shown \in BOOLEAN /\ prompted \in BOOLEAN /\ moved \in BOOLEAN /\ raised \in BOOLEAN
    /\ replaced \in BOOLEAN /\ byHand \in BOOLEAN

CallsOK == queue \in Seq(Queued) /\ frames \in Seq(Frames)

RangesOK ==
    /\ thread \in Threads
    /\ mode \in {"disabled", "disabled-deadlock", "enabled"}
    /\ cur \in {"none", "selected", "other"}
    /\ starts \in 0..2

RanOK ==
    ran \in [event : Events \cup {"start", "none"}, thread : Threads, first : BOOLEAN,
             ignored : BOOLEAN]

TypeOK == FlagsOK /\ CallsOK /\ RangesOK /\ RanOK

Init ==
    /\ thread = "none" /\ quit = FALSE
    /\ mode \in {"disabled", "disabled-deadlock", "enabled"}
    /\ queue = << >> /\ posted = FALSE /\ executing = FALSE /\ frames = << >>
    /\ startRunning = FALSE /\ suspended = FALSE
    /\ cur = "none" /\ shown = FALSE /\ prompted = FALSE /\ moved = FALSE
    /\ replaced = FALSE /\ starts = 0 /\ byHand = FALSE /\ raised = FALSE
    /\ ran = [event |-> "none", thread |-> "none", first |-> FALSE, ignored |-> FALSE]

(***************************************************************************)
(* _inner_handler                                                          *)
(***************************************************************************)
Yielding == frames # << >> /\ Last(frames).at = "yield"
Idle     == frames = << >> /\ ~quit

\* GDB delivers events from its main loop, and while a command executes.
MayCall    == ~quit /\ (Idle \/ Yielding) /\ Len(frames) < MaxDepth
MayDeliver == MayCall /\ Len(queue) <= MaxQueue

\* A handler runs, of an event or in after_reload.
HandlerDelivers ==
    /\ ~quit /\ frames # << >> /\ Last(frames).at \in {"drain", "reload"}
    /\ Len(frames) < MaxDepth /\ Len(queue) <= MaxQueue

Call(at) == Append(frames, [at |-> at, todo |-> << >>])
Entry(c) == [call |-> c, ignored |-> suspended]
Enqueue(cs) == queue' = queue \o [i \in DOMAIN cs |-> Entry(cs[i])]

Deadlocked == executing /\ mode # "disabled-deadlock"

SysExit ==
    /\ Deadlocked
    /\ quit' = TRUE
    /\ UNCHANGED <<calls, startRunning>>

Post == posted' = TRUE /\ UNCHANGED <<executing, frames>>
Drain == frames' = Call("drain") /\ UNCHANGED <<posted, executing>>

\* Variant: stop events are put off in every mode.
StopEventPosted ==
    /\ ~Deadlocked
    /\ Enqueue(<<"check", "stop">>)
    /\ Post
    /\ UNCHANGED <<quit, startRunning>>

StopEvent ==
    /\ ~Deadlocked
    /\ Enqueue(<<"check", "stop">>)
    /\ IF mode = "enabled"
       THEN Post
       ELSE executing' = TRUE /\ frames' = Call("yield") /\ UNCHANGED posted
    /\ UNCHANGED <<quit, startRunning>>

\* Variant: an unsafe event waits for the next one.
ObjfileEventUnposted(safe) ==
    /\ ~Deadlocked
    /\ Enqueue(<<"check", "new_objfile">>)
    /\ IF safe THEN Drain ELSE UNCHANGED <<posted, executing, frames>>
    /\ UNCHANGED <<quit, startRunning>>

ObjfileEvent(safe) ==
    /\ ~Deadlocked
    /\ Enqueue(<<"check", "new_objfile">>)
    /\ IF safe THEN Drain ELSE Post
    /\ UNCHANGED <<quit, startRunning>>

\* Variant: the start event is not armed again.
ExitedEventUnreset ==
    /\ ~Deadlocked
    /\ Enqueue(<<"exited">>)
    /\ Drain
    /\ UNCHANGED <<quit, startRunning>>

ExitedEvent ==
    /\ ~Deadlocked
    /\ startRunning' = FALSE
    /\ Enqueue(<<"exited">>)
    /\ Drain
    /\ UNCHANGED quit

PlainEvent(e) ==
    /\ ~Deadlocked
    /\ Enqueue(<<e>>)
    /\ Drain
    /\ UNCHANGED <<quit, startRunning>>

\* The workaround for extended-remote targets raises: it finds no thread.
SwitchRaises ==
    /\ HandlersMayRaise /\ ~Deadlocked
    /\ Enqueue(<<"cont">>)
    /\ UNCHANGED <<quit, posted, executing, frames, startRunning>>

(***************************************************************************)
(* What GDB does, and the event it delivers for it.                        *)
(***************************************************************************)
Reselect == cur' = IF cur = "selected" THEN "other" ELSE cur

ProcessAppears ==
    /\ Idle /\ ~suspended
    /\ thread = "none" /\ thread' = "fresh"
    /\ starts' = 0 /\ byHand' = FALSE
    /\ moved' = TRUE /\ replaced' = shown
    /\ Reselect
    /\ prompted' = FALSE
    /\ UNCHANGED <<mode, quit, calls, startRunning, suspended, shown, ran, raised>>

ThreadStops ==
    /\ MayDeliver
    /\ thread \in {"fresh", "running"} /\ thread' = "stopped"
    /\ StopEvent \/ SysExit
    /\ prompted' = FALSE
    /\ UNCHANGED <<mode, suspended, cur, shown, moved, replaced, history>>

ThreadResumes ==
    /\ MayDeliver
    /\ thread \in {"fresh", "stopped"} /\ thread' = "running"
    /\ \/ (PlainEvent("cont") \/ SysExit) /\ UNCHANGED raised
       \/ SwitchRaises /\ raised' = TRUE
    /\ moved' = (moved \/ ~suspended) /\ replaced' = (replaced /\ suspended)
    /\ prompted' = FALSE
    /\ UNCHANGED <<mode, suspended, cur, shown, starts, byHand, ran>>

ProcessExits ==
    /\ MayDeliver
    /\ thread # "none" /\ thread' = "none"
    /\ ExitedEvent \/ SysExit
    /\ Reselect
    /\ prompted' = FALSE
    /\ UNCHANGED <<mode, suspended, shown, moved, replaced, history>>

\* Only a thread that does not run has registers of the wrong size.
ObjfileLoads ==
    /\ MayDeliver
    /\ \/ \E safe \in BOOLEAN : ObjfileEvent(safe) /\ (~safe => thread \in {"fresh", "stopped"})
       \/ SysExit
    /\ prompted' = FALSE
    /\ UNCHANGED <<thread, mode, suspended, cur, shown, moved, replaced, history>>

\* A handler that changes memory or a register triggers an event itself.
OtherHappens ==
    /\ MayDeliver \/ HandlerDelivers
    /\ PlainEvent("other") \/ SysExit
    /\ prompted' = FALSE
    /\ UNCHANGED <<thread, mode, suspended, cur, shown, moved, replaced, history>>

\* GDB's main loop, or that of a command, runs the posted call.
RunPosted ==
    /\ MayCall /\ posted
    /\ thread # "running"
    /\ posted' = FALSE
    /\ frames' = IF queue = << >> THEN frames ELSE Call("drain")
    /\ prompted' = FALSE
    /\ UNCHANGED <<thread, mode, quit, queue, executing, startRunning, suspended, cur, shown,
                   moved, replaced, history>>

(***************************************************************************)
(* The steps of a call                                                     *)
(***************************************************************************)
At(p) == ~quit /\ frames # << >> /\ Last(frames).at = p

\* Variant: executing_event is left set.
YieldEndsSet ==
    /\ At("yield")
    /\ frames' = Front(frames) \o <<[at |-> "drain", todo |-> << >>]>>
    /\ UNCHANGED <<thread, mode, quit, queue, posted, executing, startRunning, suspended, prompt,
                   history>>

YieldEnds ==
    /\ At("yield")
    /\ executing' = FALSE
    /\ frames' = Front(frames) \o <<[at |-> "drain", todo |-> << >>]>>
    /\ UNCHANGED <<thread, mode, quit, queue, posted, startRunning, suspended, prompt, history>>

\* gdb.execute("") raises the error of a breakpoint's command: nothing resets
\* executing_event.
YieldRaises ==
    /\ At("yield") /\ HandlersMayRaise
    /\ frames' = Front(frames)
    /\ raised' = TRUE
    /\ UNCHANGED <<thread, mode, quit, queue, posted, executing, startRunning, suspended, prompt,
                   starts, byHand, ran>>

\* invoke_event: the handlers of e run, or the event is paused.  `next' is the
\* call stack if they return; if one raises, so does the call.
InvokeEvent(e, ignored, next) ==
    IF suspended
    THEN frames' = next /\ UNCHANGED <<ran, shown, raised>>
    ELSE /\ ran' = [event |-> e, thread |-> thread, first |-> starts' = 0, ignored |-> ignored]
         /\ \/ /\ frames' = next
               /\ shown' = (shown /\ e # "cont")
               /\ UNCHANGED raised
            \/ /\ HandlersMayRaise
               /\ frames' = Front(frames)
               /\ shown' \in {shown, shown /\ e # "cont"}
               /\ raised' = TRUE

MoreThan(n) == IF n < 2 THEN n + 1 ELSE n

Starting == Head(queue).call = "check" /\ ~startRunning /\ thread # "none"

\* StartEvent.on_new_objfile runs the handlers of START.
StartHandlers ==
    /\ At("drain") /\ queue # << >>
    /\ Starting
    /\ queue' = Tail(queue)
    /\ startRunning' = TRUE
    /\ starts' = MoreThan(starts)
    /\ InvokeEvent("start", Head(queue).ignored, frames)
    /\ UNCHANGED <<thread, mode, quit, posted, executing, suspended, cur, prompted, moved,
                   replaced, byHand>>

CheckPasses ==
    /\ At("drain") /\ queue # << >>
    /\ Head(queue).call = "check" /\ ~Starting
    /\ queue' = Tail(queue)
    /\ UNCHANGED <<thread, mode, quit, posted, executing, frames, startRunning, suspended, prompt,
                   history>>

\* Variant: the handlers of CONTINUE do not reset context_shown.
EventHandlersKeepShown ==
    /\ At("drain") /\ queue # << >>
    /\ Head(queue).call # "check"
    /\ queue' = Tail(queue)
    /\ UNCHANGED <<starts, byHand>>
    /\ InvokeEvent(IF Head(queue).call = "cont" THEN "other" ELSE Head(queue).call,
                   Head(queue).ignored, frames)
    /\ UNCHANGED <<thread, mode, quit, posted, executing, startRunning, suspended, cur,
                   prompted, moved, replaced>>

EventHandlers ==
    /\ At("drain") /\ queue # << >>
    /\ Head(queue).call # "check"
    /\ queue' = Tail(queue)
    /\ UNCHANGED <<starts, byHand>>
    /\ InvokeEvent(Head(queue).call, Head(queue).ignored, frames)
    /\ UNCHANGED <<thread, mode, quit, posted, executing, startRunning, suspended, cur,
                   prompted, moved, replaced>>

CallReturns ==
    /\ At("drain") /\ queue = << >>
    /\ frames' = Front(frames)
    /\ UNCHANGED <<thread, mode, quit, queue, posted, executing, startRunning, suspended, prompt,
                   history>>

(***************************************************************************)
(* Commands and the prompt                                                 *)
(***************************************************************************)
\* A command that injects code suspends all events while it runs it.
Suspend ==
    /\ Idle /\ ~suspended
    /\ thread = "stopped"
    /\ suspended' = TRUE /\ prompted' = FALSE
    /\ UNCHANGED <<thread, mode, quit, calls, startRunning, cur, shown, moved, replaced, history>>

\* Variant: events are resumed before the injected code has stopped.
ResumeEventsEarly ==
    /\ ~quit /\ suspended
    /\ suspended' = FALSE
    /\ UNCHANGED <<thread, mode, quit, calls, startRunning, prompt, history>>

ResumeEvents ==
    /\ Idle /\ suspended
    /\ thread # "running"
    /\ suspended' = FALSE
    /\ UNCHANGED <<thread, mode, quit, calls, startRunning, prompt, history>>

\* The prompt comes when nothing runs; a process that has not been announced by
\* an event is not at a prompt yet.  after_reload runs handlers by hand when
\* another thread is selected than at the last prompt.
PromptHook ==
    /\ Idle /\ ~suspended /\ ~prompted
    /\ thread # "running" /\ (thread = "fresh" => startRunning)
    /\ LET reload == IF cur = "selected" \/ thread = "none" THEN << >>
                     ELSE <<"stop">> \o (IF cur = "none" THEN <<"start">> ELSE << >>)
                                     \o <<"new_objfile", "other">>
       IN frames' = <<[at |-> "reload", todo |-> reload]>>
    /\ UNCHANGED <<thread, mode, quit, queue, posted, executing, startRunning, suspended, prompt,
                   history>>

ReloadHandlers ==
    /\ At("reload") /\ Last(frames).todo # << >>
    /\ IF Head(Last(frames).todo) = "start"
       THEN starts' = MoreThan(starts) /\ byHand' = TRUE
       ELSE UNCHANGED <<starts, byHand>>
    /\ InvokeEvent(Head(Last(frames).todo), FALSE,
                   <<[at |-> "reload", todo |-> Tail(Last(frames).todo)]>>)
    /\ UNCHANGED <<thread, mode, quit, queue, posted, executing, startRunning, suspended, cur,
                   prompted, moved, replaced>>

PromptAppears ==
    /\ At("reload") /\ Last(frames).todo = << >>
    /\ frames' = << >>
    /\ cur' = "selected" /\ prompted' = TRUE
    /\ LET display == ~shown /\ thread # "none"
       IN /\ shown' = (shown \/ display)
          /\ moved' = (moved /\ ~display) /\ replaced' = (replaced /\ ~display)
    /\ UNCHANGED <<thread, mode, quit, queue, posted, executing, startRunning, suspended, history>>

Pwndbg ==
    \/ YieldEnds \/ YieldRaises \/ StartHandlers \/ CheckPasses \/ EventHandlers \/ CallReturns
    \/ ReloadHandlers \/ PromptAppears

Next ==
    \/ Pwndbg \/ RunPosted
    \/ ProcessAppears \/ ThreadStops \/ ThreadResumes \/ ProcessExits \/ ObjfileLoads
    \/ OtherHappens
    \/ Suspend \/ ResumeEvents \/ PromptHook

Spec == Init /\ [][Next]_vars

\* GDB goes on with a call, and its main loop runs what was posted whatever else
\* it does in between; it need not deliver anything.
FairSpec == Spec /\ WF_vars(Pwndbg) /\ SF_vars(RunPosted)

(***************************************************************************)
(* Properties                                                              *)
(***************************************************************************)
\* The handlers of STOP run for a process only when those of START have been
\* run for it: on a stop event START comes first, also for a process that GDB
\* attached to.  (With stop events made asynchronous, the prompt hook may come
\* before them; and a handler that raised leaves them to a later event.)
StartBeforeStop ==
    ran.event = "stop" /\ ran.thread # "none" /\ mode # "enabled" /\ ~raised => ~ran.first

\* START is invoked once in the life of a process, and armed only for one for which
\* it has not been invoked; but for the process at the first prompt of the session,
\* for which after_reload may invoke it a second time (prompt.py 87), or a first time
\* before the event does.
StartOnce ==
    ~byHand => starts <= 1 /\ (thread # "none" /\ ~startRunning => starts = 0)

\* In the default mode, and unless a handler raised, no handler of STOP runs for
\* a process that is gone.  (In the others, a breakpoint's command may kill it.)
NoStopWithoutProcess ==
    ran.event = "stop" /\ mode = "disabled" /\ ~raised => ran.thread # "none"

\* GDB is never idle with handlers queued that nothing will run, unless a
\* handler raised: those behind it wait for the next event.
NothingForgotten == Idle /\ ~posted /\ ~raised => queue = << >>

\* What pwndbg takes for a deadlock, and ends GDB for, is an event inside the
\* handling of another one.
DeadlockIsReal == quit => \E i \in DOMAIN frames : frames[i].at = "yield"

\* The same unless a command of a breakpoint failed.
DeadlockIsRealUnlessRaised == ~raised => DeadlockIsReal

\* When the prompt is up, the context of the process where it stands has been
\* displayed, unless a handler raised; or unless the process has taken the place of
\* one that went away after its context display, and has not been resumed: only
\* CONTINUE resets context_shown (prompt.py 90), and nothing is displayed for it.
ContextIsFresh == prompted /\ thread # "none" /\ ~raised => ~moved \/ replaced

\* Unless stop events are asynchronous or a handler raised, an event triggered
\* during a suspension runs no handlers afterwards; new objfiles excepted, whose
\* handling may be put off.
SuspensionHolds ==
    ran.ignored /\ mode # "enabled" /\ ~raised => ran.event \in {"new_objfile", "start"}

\* What is queued is handled, unless the process runs, something raised, or GDB
\* was ended.
QueueDrains == queue # << >> ~> (queue = << >> \/ thread = "running" \/ raised \/ quit)
=============================================================================
