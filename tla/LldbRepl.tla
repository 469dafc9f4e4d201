------------------------------ MODULE LldbRepl ------------------------------
(***************************************************************************)
(* The main loop and the commands of pwndbg-lldb,                          *)
(* pwndbg/dbg_mod/lldb/repl/__init__.py, on top of the process driver: the *)
(* commands that start, attach to, resume and end a process, the relay     *)
(* that turns the driver's events into pwndbg's, and the queue of          *)
(* execution controllers (coroutines) that LLDB commands leave behind.     *)
(***************************************************************************)
EXTENDS ProcessDriver

CONSTANT MaxControllers       \* bound: controllers one command queues

ASSUME ReplAssumption == MaxControllers \in Nat

VARIABLES
    rpc,                      \* where the REPL is
    stay,                     \* stop_at_entry of launch, ~cont of attach
    target,                   \* does LLDB have a target?
    autoTarget,               \* did AutoTarget create it?
    controllers,              \* dbg.controllers: is each one's process current?
    next,                     \* how many of them the loop has taken
    ignoreResumed,            \* EventRelay.ignore_resumed
    told                      \* the last event pwndbg's handlers were given

replVars == <<rpc, stay, target, autoTarget, controllers, next, ignoreResumed, told>>
allVars == <<vars, replVars>>

ReplLabels ==
    {"prompt", "launch", "killed", "launched", "connected", "loaded", "resuming",
     "continued", "command", "ran", "controllers", "controller", "dead"}

ReplTypeOK ==
    /\ rpc \in ReplLabels /\ stay \in BOOLEAN
    /\ target \in BOOLEAN /\ autoTarget \in BOOLEAN
    /\ controllers \in Seq(BOOLEAN) /\ next \in 0..Len(controllers)
    /\ ignoreResumed \in Nat
    /\ told \in {"none", "START", "STOP", "CONTINUE"}

ReplInit ==
    /\ Init
    /\ rpc = "prompt" /\ stay = FALSE /\ target = FALSE /\ autoTarget = FALSE
    /\ controllers = << >> /\ next = 0 /\ ignoreResumed = 0 /\ told = "none"

AtRest == pc = "idle"
At(l)  == rpc = l /\ AtRest
ReplGoto(l) == rpc' = l

(***************************************************************************)
(* The user types a command.  `set', `help' and other commands that touch  *)
(* nothing here are left out, and so are those refused with a message.     *)
(***************************************************************************)
\* run and starti kill the process first, process launch refuses; entry lets
\* a running process be, and its command is executed after the launch.
UserLaunches ==
    /\ At("prompt") /\ target
    /\ stay' \in BOOLEAN
    /\ \/ /\ HasProcess /\ Call("kill") /\ ReplGoto("killed")
       \/ /\ ~HasProcess /\ UNCHANGED vars /\ ReplGoto("launch")
    /\ UNCHANGED <<target, autoTarget, controllers, next, ignoreResumed, told>>

UserAttaches ==
    /\ At("prompt") /\ ~HasProcess
    /\ stay' \in BOOLEAN
    /\ target' = TRUE /\ autoTarget' = ~target
    /\ Call("attach") /\ ReplGoto("launched")
    /\ UNCHANGED <<controllers, next, ignoreResumed, told>>

UserConnects ==
    /\ At("prompt") /\ ~HasConnection
    /\ target' = TRUE /\ autoTarget' = ~target
    /\ Call("connect") /\ ReplGoto("connected")
    /\ UNCHANGED <<stay, controllers, next, ignoreResumed, told>>

UserCreatesTarget ==
    /\ At("prompt") /\ ~target
    /\ target' = TRUE
    /\ \/ Call("core") /\ ReplGoto("loaded")
       \/ UNCHANGED <<vars, rpc>>
    /\ UNCHANGED <<stay, autoTarget, controllers, next, ignoreResumed, told>>

\* Variant: continue does not look whether the process is a core file.
UserContinuesCore ==
    /\ At("prompt") /\ HasProcess
    /\ Call("cont") /\ ReplGoto("continued")
    /\ UNCHANGED <<stay, target, autoTarget, controllers, next, ignoreResumed, told>>

UserContinues ==
    /\ At("prompt") /\ HasProcess /\ ~isCore
    /\ Call("cont") /\ ReplGoto("continued")
    /\ UNCHANGED <<stay, target, autoTarget, controllers, next, ignoreResumed, told>>

UserCommands ==
    /\ At("prompt")
    /\ ReplGoto("command")
    /\ UNCHANGED <<vars, stay, target, autoTarget, controllers, next, ignoreResumed, told>>

\* `target delete' without a process.
UserDeletesTarget ==
    /\ At("prompt") /\ target /\ ~HasConnection
    /\ target' = FALSE
    /\ UNCHANGED <<vars, rpc, stay, autoTarget, controllers, next, ignoreResumed, told>>

(***************************************************************************)
(* An exception that leaves the driver: UserCancelledError brings the loop *)
(* back to the prompt, anything else ends the program.                     *)
(***************************************************************************)
CommandRaised ==
    /\ AtRest /\ exc # "none"
    /\ \/ rpc \in {"killed", "launched", "connected", "loaded", "continued", "ran"}
       \/ rpc = "controller" /\ exc = "Cancelled"
    /\ rpc' = IF exc = "Cancelled" THEN "prompt" ELSE "dead"
    /\ UNCHANGED <<vars, stay, target, autoTarget, controllers, next, ignoreResumed, told>>

Done(l) == At(l) /\ exc = "none"

(***************************************************************************)
(* process_launch, _attach_with_info, process_connect, continue_process,   *)
(* target_create_core                                                      *)
(***************************************************************************)
\* When kill fails the error message is taken from `result', which is not the
\* error (repl/__init__.py 1136): reporting it raises AttributeError.
KillDone ==
    /\ Done("killed")
    /\ rpc' = IF ret = "ok" THEN "launch" ELSE "dead"
    /\ UNCHANGED <<vars, stay, target, autoTarget, controllers, next, ignoreResumed, told>>

Launch ==
    /\ At("launch")
    /\ Call("launch") /\ ReplGoto("launched")
    /\ autoTarget' = FALSE
    /\ UNCHANGED <<stay, target, controllers, next, ignoreResumed, told>>

\* auto.close() deletes a target that AutoTarget created.
LaunchFailed ==
    /\ rpc \in {"launched", "connected"} /\ Done(rpc)
    /\ ret \in {"error", "early_exit"}
    /\ target' = (target /\ ~autoTarget) /\ autoTarget' = FALSE
    /\ ReplGoto("prompt")
    /\ UNCHANGED <<vars, stay, controllers, next, ignoreResumed, told>>

\* The process stays stopped: the relay's START is followed by a STOP, whose
\* handlers may raise.
LaunchStays ==
    /\ \/ Done("launched") /\ ret = "success" /\ stay /\ told' = "STOP"
       \/ Done("connected") /\ ret = "success" /\ told' = "STOP"
       \/ Done("connected") /\ ret = "connected" /\ UNCHANGED told
    /\ \/ ReplGoto("prompt")
       \/ HandlersMayRaise /\ ret = "success" /\ ReplGoto("dead")
    /\ UNCHANGED <<vars, stay, target, autoTarget, controllers, next, ignoreResumed>>

\* Variant: the relay swallows one event too many.
LaunchGoesTwice ==
    /\ Done("launched") /\ ret = "success" /\ ~stay
    /\ ignoreResumed' = ignoreResumed + 2
    /\ ReplGoto("resuming")
    /\ UNCHANGED <<vars, stay, target, autoTarget, controllers, next, told>>

\* The relay is told to swallow the resumed event of the cont that follows.
LaunchGoes ==
    /\ Done("launched") /\ ret = "success" /\ ~stay
    /\ ignoreResumed' = ignoreResumed + 1
    /\ ReplGoto("resuming")
    /\ UNCHANGED <<vars, stay, target, autoTarget, controllers, next, told>>

LaunchResumes ==
    /\ At("resuming")
    /\ Call("cont") /\ ReplGoto("continued")
    /\ UNCHANGED <<stay, target, autoTarget, controllers, next, ignoreResumed, told>>

SimplyDone ==
    /\ Done("continued") \/ Done("loaded")
    /\ ReplGoto("prompt")
    /\ UNCHANGED <<vars, stay, target, autoTarget, controllers, next, ignoreResumed, told>>

(***************************************************************************)
(* Any other command goes to LLDB; then the controllers it queued run.     *)
(***************************************************************************)
Command ==
    /\ At("command")
    /\ IF HasProcess THEN Call("command") /\ ReplGoto("ran")
                     ELSE UNCHANGED vars /\ ReplGoto("controllers")
    /\ next' = 0
    /\ UNCHANGED <<stay, target, autoTarget, controllers, ignoreResumed, told>>

CommandDone ==
    /\ Done("ran")
    /\ ReplGoto("controllers")
    /\ UNCHANGED <<vars, stay, target, autoTarget, controllers, next, ignoreResumed, told>>

\* The two assertions of the loop: there is a process, and it is the one the
\* controller was queued for.
ControllerStarts ==
    /\ At("controllers") /\ next < Len(controllers)
    /\ next' = next + 1
    /\ IF HasProcess /\ controllers[next + 1]
       THEN IF isCore THEN UNCHANGED <<vars, rpc>>
                      ELSE Call("coroutine") /\ ReplGoto("controller")
       ELSE UNCHANGED vars /\ ReplGoto("dead")
    /\ UNCHANGED <<stay, target, autoTarget, controllers, ignoreResumed, told>>

ControllerDone ==
    /\ At("controller") /\ exc # "Cancelled"
    /\ ReplGoto("controllers")
    /\ UNCHANGED <<vars, stay, target, autoTarget, controllers, next, ignoreResumed, told>>

\* Variant: the list is kept.
ControllersKept ==
    /\ At("controllers") /\ next = Len(controllers)
    /\ next' = 0 /\ ReplGoto("prompt")
    /\ UNCHANGED <<vars, stay, target, autoTarget, controllers, ignoreResumed, told>>

ControllersCleared ==
    /\ At("controllers") /\ next = Len(controllers)
    /\ controllers' = << >> /\ next' = 0
    /\ ReplGoto("prompt")
    /\ UNCHANGED <<vars, stay, target, autoTarget, ignoreResumed, told>>

(***************************************************************************)
(* A step of the driver, of LLDB or of the user that reaches the REPL.     *)
(***************************************************************************)
\* The command LLDB executes may be a pwndbg command that queues a controller,
\* or a sourced script of LLDB's and pwndbg's commands that queues several.
Queues == pc = "command" /\ pc' # "command"

\* The driver runs: its events go through the relay, and a controller whose
\* process ends is left with a stale one.
DriverRuns ==
    /\ Driver
    /\ \E n \in 0..(IF Queues THEN MaxControllers - Len(controllers) ELSE 0) :
          LET queued == controllers \o [i \in 1..n |-> TRUE]
          IN controllers' = IF process' THEN queued ELSE [i \in DOMAIN queued |-> FALSE]
    /\ LET resumed == pc = "call" /\ op = "cont" /\ exc' # "Assertion"
       IN /\ ignoreResumed' = IF resumed /\ ignoreResumed > 0 THEN ignoreResumed - 1
                                                              ELSE ignoreResumed
          /\ told' = IF resumed THEN IF ignoreResumed > 0 THEN told ELSE "CONTINUE"
                     ELSE IF view' = view THEN told
                     ELSE CASE view' = "created" -> "START"
                            [] view' = "suspended" -> "STOP"
                            [] view' = "none" -> "none"
    /\ UNCHANGED <<rpc, stay, target, autoTarget, next>>

LldbRuns == Lldb /\ UNCHANGED replVars

\* UserCancelledError in the REPL's own code brings it back to the prompt.
UserInterrupts ==
    /\ Interrupt
    /\ rpc # "dead"
    /\ rpc' = IF AtRest THEN "prompt" ELSE rpc
    /\ UNCHANGED <<stay, target, autoTarget, controllers, next, ignoreResumed, told>>

User ==
    \/ UserLaunches \/ UserAttaches \/ UserConnects \/ UserCreatesTarget
    \/ UserContinues \/ UserCommands \/ UserDeletesTarget

Repl ==
    \/ CommandRaised \/ KillDone \/ Launch \/ LaunchFailed \/ LaunchStays
    \/ LaunchGoes \/ LaunchResumes \/ SimplyDone \/ Command \/ CommandDone
    \/ ControllerStarts \/ ControllerDone \/ ControllersCleared

ReplNext == User \/ Repl \/ DriverRuns \/ LldbRuns \/ UserInterrupts

ReplSpec == ReplInit /\ [][ReplNext]_allVars

(***************************************************************************)
(* Properties                                                              *)
(***************************************************************************)
\* No command calls a method of the driver in a state its assertions exclude,
\* whatever was cancelled or failed before, and none of the assertions fails, but
\* for three:
\*   - launch, attach and connect find the I/O driver of a connection, or of a
\*     launch or attach that failed, still there (896, 926, 952, 963, 1088),
\*   - kill runs the event loop for a core file (449),
\*   - a command that LLDB says did not resume the process is followed by the
\*     events of two resumptions, and the second starts the I/O driver again (379).
\* launch_core_file asserts nothing; the REPL never makes it forget a process.
DriverContract ==
    /\ pc = "call" =>
           /\ op \in {"cont", "kill", "command", "coroutine"} => HasProcess
           /\ op \in {"cont", "coroutine"} => ~isCore
           /\ op \in {"launch", "attach"} => ~HasProcess
           /\ op \in {"connect", "core"} => ~HasConnection
    /\ pc = "co_count" => HasProcess
    /\ exc = "Assertion" =>
           \/ op \in {"launch", "attach", "connect"} /\ io
           \/ op = "kill" /\ isCore
           \/ op = "poll"

\* Caches, the architecture and the context display all hang on what pwndbg was
\* told: when the prompt shows up, the last thing is that the process stopped,
\* exactly if there is one; when the driver resumes a process, it is START if the
\* process was just created, and otherwise a CONTINUE that was not swallowed.
\* (Until the first Ctrl-C: it may leave a process running under the prompt, and
\* the relay one event behind.)
PwndbgIsTold ==
    Undisturbed =>
        /\ rpc = "prompt" => (HasProcess <=> told = "STOP")
        /\ pc = "cont_go" => told \in {"START", "CONTINUE"}

\* An execution controller runs at the end of the command that queued it, or
\* never: none is left for a later command, unless an interrupt cut the command
\* short.
ControllersRunAtOnce == rpc = "prompt" /\ Undisturbed => controllers = << >>
=============================================================================
