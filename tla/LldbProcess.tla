---------------------------- MODULE LldbProcess ----------------------------
(***************************************************************************)
(* What pwndbg's process driver (pwndbg/dbg_mod/lldb/repl/proc.py) sees of *)
(* LLDB: one SBProcess and the queue of its SBListener.  This module is    *)
(* external to the repository.  It says which events LLDB may post, and    *)
(* when, as the driver's event loop relies on them (proc.py 466-567).      *)
(***************************************************************************)
EXTENDS Naturals, Sequences

CONSTANT MaxEvents        \* bound: longest listener queue LLDB builds alone

ASSUME MaxEventsAssumption == MaxEvents \in Nat \ {0}

VARIABLES
    inferior,             \* SBProcess::GetState()
    events,               \* the SBListener's queue
    asyncInt              \* a SendAsyncInterrupt not yet answered

lldbVars == <<inferior, events, asyncInt>>

InferiorStates == {"none", "connected", "stopped", "running", "exited"}

\* "exited" stands for Exited, Crashed and Detached, which the driver treats
\* alike; "handled" is a stop at a breakpoint that has a Python stop handler.
EventKinds ==
    {"connected", "running", "stopped", "handled", "exited", "modules", "output"}

LldbRangesOK == inferior \in InferiorStates /\ events \in Seq(EventKinds)

LldbInit ==
    /\ inferior = "none"
    /\ events = << >>
    /\ asyncInt = FALSE

Room == Len(events) < MaxEvents

(***************************************************************************)
(* What LLDB does on its own threads while the inferior runs.              *)
(***************************************************************************)
\* A signal, or a breakpoint of either kind.
InferiorStops ==
    /\ inferior = "running"
    /\ Room
    /\ inferior' = "stopped"
    /\ \/ events' = Append(events, "stopped") /\ asyncInt' = FALSE
       \/ events' = Append(events, "handled") /\ UNCHANGED asyncInt

InferiorExits ==
    /\ inferior = "running"
    /\ Room
    /\ inferior' = "exited"
    /\ events' = Append(events, "exited")
    /\ asyncInt' = FALSE

\* The inferior writes to its standard output, or loads a module.
InferiorActs ==
    /\ inferior = "running"
    /\ Room
    /\ \E e \in {"output", "modules"} : events' = Append(events, e)
    /\ UNCHANGED <<inferior, asyncInt>>

\* LLDB answers SendAsyncInterrupt by stopping the process, once it runs.
AnswerInterrupt ==
    /\ asyncInt
    /\ inferior = "running"
    /\ inferior' = "stopped"
    /\ events' = Append(events, "stopped")
    /\ asyncInt' = FALSE

LldbNext ==
    \/ InferiorStops
    \/ InferiorExits
    \/ InferiorActs
    \/ AnswerInterrupt

(***************************************************************************)
(* What LLDB does when the driver calls it.                                *)
(***************************************************************************)
\* SBProcess::Continue and SBThread::StepInstruction: only a stopped process
\* resumes; anything else is an error that changes nothing.
Resume ==
    /\ IF inferior = "stopped"
       THEN inferior' = "running" /\ events' = Append(events, "running")
       ELSE UNCHANGED <<inferior, events>>
    /\ UNCHANGED asyncInt

\* SBProcess::Kill, or the detach and kill commands.
Terminate ==
    /\ inferior' = "exited"
    /\ events' = IF inferior = "exited" THEN events ELSE Append(events, "exited")
    /\ asyncInt' = FALSE

\* A launch or attach: the process stops at its entry, or is gone at once.
Start ==
    /\ \E e \in {"stopped", "exited"} :
          inferior' = e /\ events' = <<e>>
    /\ asyncInt' = FALSE

\* ConnectRemote: the server already has a process, has none, or loses it.
Connect ==
    /\ \E e \in {"connected", "stopped", "exited"} :
          inferior' = e /\ events' = <<e>>
    /\ asyncInt' = FALSE

\* The process object is thrown away (its listener with it).
Discard ==
    /\ inferior' = "none"
    /\ events' = << >>
    /\ asyncInt' = FALSE
=============================================================================
