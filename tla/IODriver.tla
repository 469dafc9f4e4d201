------------------------------ MODULE IODriver ------------------------------
(***************************************************************************)
(* What the process driver is promised by an I/O driver, the base class    *)
(* IODriver of pwndbg/dbg_mod/lldb/repl/io.py: between start() and the     *)
(* return of stop() its workers copy, at any other time none of them       *)
(* touches the terminal or the process, and after close() none is left.    *)
(***************************************************************************)
CONSTANT Workers

VARIABLES phase,          \* of the driver
          active          \* the workers that are copying

vars == <<phase, active>>

TypeOK ==
    /\ phase \in {"stopped", "running", "stopping", "closed"}
    /\ active \subseteq Workers

Init == phase = "stopped" /\ active = {}

\* start() returned, or is about to: the workers may begin.
Start == phase = "stopped" /\ phase' = "running" /\ UNCHANGED active

BeginCopy(w) ==
    /\ phase = "running"
    /\ active' = active \cup {w}
    /\ UNCHANGED phase

EndCopy(w) ==
    /\ w \in active
    /\ active' = active \ {w}
    /\ UNCHANGED phase

\* stop() asks, and does not return before the workers have stopped.
RequestStop == phase = "running" /\ phase' = "stopping" /\ UNCHANGED active
Stopped == phase = "stopping" /\ active = {} /\ phase' = "stopped" /\ UNCHANGED active

Close == phase = "stopped" /\ phase' = "closed" /\ UNCHANGED active

Next ==
    \/ Start \/ RequestStop \/ Stopped \/ Close
    \/ \E w \in Workers : BeginCopy(w) \/ EndCopy(w)

Spec == Init /\ [][Next]_vars
=============================================================================
