---------------------------- MODULE GdbStopPoints ----------------------------
(***************************************************************************)
(* Stop points of the GDB backend: breakpoints and watchpoints with a      *)
(* handler that decides whether the program stops.  GDB forbids creating,  *)
(* deleting, enabling and disabling them inside such a handler; the        *)
(* backend refuses the first and defers the others to the next STOP event, *)
(* with a wrapper (_stop) slotted in place of the handler until then.      *)
(*                                                                         *)
(* src/pwndbg/dbg_mod/gdb/__init__.py  GDBStopPoint, GDBProcess.break_at   *)
(* src/pwndbg/dbg_mod/gdb/hooks.py     bpwp_process_deferred               *)
(***************************************************************************)
EXTENDS FiniteSets

CONSTANTS
    StopPoints,   \* GDBStopPoint objects
    Procs,        \* GDBProcess objects: selected_inferior() makes a new one
    Return,       \* the finish breakpoint of trace_ret
    None

ASSUME NoneAssumption == None \notin StopPoints \union {Return} /\ Return \notin StopPoints

VARIABLES
    status,       \* of the inferior: "none", "running", "stopping", "stopped"
    current,      \* stop point whose handler is running, or None
    live,         \* stop points that GDB has
    traced,       \* trace_ret placed a finish breakpoint that was not hit yet
    proc,         \* GDBStopPoint.proc
    enabled,      \* those of live that GDB has enabled
    slot,         \* inner.stop: BreakpointAdapter.stop or GDBStopPoint._stop
    saved,        \* GDBStopPoint.inner_stop
    inHandler,    \* process objects whose in_bpwp_stop_handler is set
    toDelete,     \* BPWP_DEFERRED_DELETE
    toEnable,     \* BPWP_DEFERRED_ENABLE
    toDisable,    \* BPWP_DEFERRED_DISABLE
    wanted,       \* history: what the last operation on a stop point asked for
    lost,         \* history: stop points a deferred operation on which was not settled
    twice,        \* history: stop points wrapped while they were wrapped
    foreign       \* history: a handler operated on what its process object does not guard

deferred == <<toDelete, toEnable, toDisable>>
history == <<wanted, lost, twice, foreign>>
vars == <<status, current, live, traced, proc, enabled, slot, saved, inHandler, deferred, history>>

Stops == {"original", "_stop"}
Deferred == toDelete \union toEnable \union toDisable

TypeOK ==
    /\ status \in {"none", "running", "stopping", "stopped"}
    /\ current \in StopPoints \union {Return, None}
    /\ live \subseteq StopPoints
    /\ traced \in BOOLEAN
    /\ proc \in [StopPoints -> Procs]
    /\ enabled \subseteq StopPoints
    /\ slot \in [StopPoints -> Stops]
    /\ saved \in [StopPoints -> Stops \union {"none"}]
    /\ inHandler \subseteq Procs
    /\ toDelete \subseteq StopPoints
    /\ toEnable \subseteq StopPoints
    /\ toDisable \subseteq StopPoints
    /\ wanted \in [StopPoints -> {"new", "on", "off", "gone"}]
    /\ lost \subseteq StopPoints
    /\ twice \subseteq StopPoints
    /\ foreign \in BOOLEAN

Init ==
    /\ status = "stopped"
    /\ current = None
    /\ live = {} /\ enabled = {} /\ traced = FALSE
    /\ proc \in [StopPoints -> Procs]
    /\ slot = [s \in StopPoints |-> "original"]
    /\ saved = [s \in StopPoints |-> "none"]
    /\ inHandler = {}
    /\ toDelete = {} /\ toEnable = {} /\ toDisable = {}
    /\ wanted = [s \in StopPoints |-> "new"]
    /\ lost = {} /\ twice = {}
    /\ foreign = FALSE

-----------------------------------------------------------------------------
(* Operations, called at the prompt or by the handler that is running.      *)

MayCall == status = "stopped" \/ current # None

\* The history keeps whether a handler operates on a stop point whose process
\* object does not know of the handler.
Recorded(p) ==
    foreign' = (foreign \/ current = Return \/ (current # None /\ p # proc[current]))

\* break_at raises if this process object runs a stop handler, and changes nothing.
BreakAt(s) ==
    /\ MayCall
    /\ wanted[s] = "new"
    /\ proc[s] \notin inHandler
    /\ live' = live \union {s}
    /\ enabled' = enabled \union {s}
    /\ wanted' = [wanted EXCEPT ![s] = "on"]
    /\ Recorded(proc[s])
    /\ UNCHANGED <<status, current, traced, proc, slot, saved, inHandler, deferred, lost, twice>>

\* trace_ret makes a finish breakpoint wherever it is called: no guard.
TraceRet ==
    /\ MayCall
    /\ ~traced
    /\ traced' = TRUE
    /\ UNCHANGED <<status, current, live, proc, enabled, slot, saved, inHandler, deferred,
                   wanted, lost, twice, foreign>>

\* A deferred operation saves inner.stop and puts _stop in its place.
Wrap(s) ==
    /\ saved' = [saved EXCEPT ![s] = slot[s]]
    /\ slot' = [slot EXCEPT ![s] = "_stop"]
    /\ twice' = IF slot[s] = "_stop" THEN twice \union {s} ELSE twice

\* Variant: a stop point to enable is left among those to disable.
DeferEnabledBoth(s, on) ==
    /\ toEnable' = IF on THEN toEnable \union {s} ELSE toEnable \ {s}
    /\ toDisable' = IF on THEN toDisable ELSE toDisable \union {s}

DeferEnabled(s, on) ==
    /\ toEnable' = IF on THEN toEnable \union {s} ELSE toEnable \ {s}
    /\ toDisable' = IF on THEN toDisable \ {s} ELSE toDisable \union {s}

Want(s, what) ==
    wanted' = [wanted EXCEPT ![s] = IF @ = "gone" THEN @ ELSE what]

SetEnabledDeferred(s, on) ==
    /\ MayCall
    /\ s \in live
    /\ proc[s] \in inHandler
    /\ Wrap(s)
    /\ DeferEnabled(s, on)
    /\ Want(s, IF on THEN "on" ELSE "off")
    /\ Recorded(proc[s])
    /\ UNCHANGED <<status, current, live, traced, proc, enabled, inHandler, toDelete, lost>>

SetEnabledDirect(s, on) ==
    /\ MayCall
    /\ s \in live
    /\ proc[s] \notin inHandler
    /\ enabled' = IF on THEN enabled \union {s} ELSE enabled \ {s}
    /\ Want(s, IF on THEN "on" ELSE "off")
    /\ Recorded(proc[s])
    /\ UNCHANGED <<status, current, live, traced, proc, slot, saved, inHandler, deferred, lost,
                   twice>>

RemoveDeferred(s) ==
    /\ MayCall
    /\ s \in live
    /\ proc[s] \in inHandler
    /\ Wrap(s)
    /\ toDelete' = toDelete \union {s}
    /\ Want(s, "gone")
    /\ Recorded(proc[s])
    /\ UNCHANGED <<status, current, live, traced, proc, enabled, inHandler, toEnable, toDisable,
                   lost>>

RemoveDirect(s) ==
    /\ MayCall
    /\ s \in live
    /\ proc[s] \notin inHandler
    /\ live' = live \ {s}
    /\ enabled' = enabled \ {s}
    /\ Want(s, "gone")
    /\ Recorded(proc[s])
    /\ UNCHANGED <<status, current, traced, proc, slot, saved, inHandler, deferred, lost, twice>>

-----------------------------------------------------------------------------
(* A stop point is hit.                                                     *)

\* Variant: _stop looks at BPWP_DEFERRED_DELETE alone.
SilencedDeletedOnly(s) == slot[s] = "_stop" /\ s \in toDelete

\* _stop answers False for a stop point that is to be disabled or deleted.
Silenced(s) == slot[s] = "_stop" /\ s \in toDisable \union toDelete

\* The handler break_at made is what GDB reaches, through _stop or not.
Reaches(s) == slot[s] = "original" \/ saved[s] = "original"

Hit(s) ==
    /\ status = "running" /\ current = None
    /\ s \in live /\ s \in enabled
    /\ ~Silenced(s)

HandlerStarts(s) ==
    /\ Hit(s) /\ Reaches(s)
    /\ current' = s
    /\ inHandler' = inHandler \union {proc[s]}
    /\ UNCHANGED <<status, live, traced, proc, enabled, slot, saved, deferred, history>>

\* A stop point that was given no handler stops the program.
PlainStop(s) ==
    /\ Hit(s) /\ Reaches(s)
    /\ status' = "stopping"
    /\ UNCHANGED <<current, live, traced, proc, enabled, slot, saved, inHandler, deferred, history>>

\* inner_stop is _stop itself or None: the call raises, and GDB stops the program.
WrapperRaises(s) ==
    /\ Hit(s) /\ ~Reaches(s)
    /\ status' = "stopping"
    /\ UNCHANGED <<current, live, traced, proc, enabled, slot, saved, inHandler, deferred, history>>

\* The finish breakpoint is hit: its handler runs with no flag set.
ReturnStarts ==
    /\ status = "running" /\ current = None
    /\ traced
    /\ traced' = FALSE
    /\ current' = Return
    /\ UNCHANGED <<status, live, proc, enabled, slot, saved, inHandler, deferred, history>>

HandlerReturns(stop) ==
    /\ current # None
    /\ inHandler' = IF current = Return THEN inHandler ELSE inHandler \ {proc[current]}
    /\ status' = IF stop THEN "stopping" ELSE "running"
    /\ current' = None
    /\ UNCHANGED <<live, traced, proc, enabled, slot, saved, deferred, history>>

\* An exception leaves in_bpwp_stop_handler set, and GDB stops the program.
HandlerRaises ==
    /\ current # None
    /\ status' = "stopping"
    /\ current' = None
    /\ UNCHANGED <<live, traced, proc, enabled, slot, saved, inHandler, deferred, history>>

-----------------------------------------------------------------------------
(* Events.                                                                  *)

\* Variant: the saved handler is forgotten, and not put back.
RestoredHalf(t) ==
    /\ slot' = slot
    /\ saved' = [s \in StopPoints |-> IF s \in t THEN "none" ELSE saved[s]]

\* _clear for every stop point of t.
Restored(t) ==
    /\ slot' = [s \in StopPoints |-> IF s \in t /\ saved[s] # "none" THEN saved[s] ELSE slot[s]]
    /\ saved' = [s \in StopPoints |-> IF s \in t THEN "none" ELSE saved[s]]

\* bpwp_clear_deferred.
Cleared ==
    /\ Restored(Deferred)
    /\ toDelete' = {} /\ toEnable' = {} /\ toDisable' = {}

\* bpwp_process_deferred, at the STOP event.
ProcessDeferred ==
    /\ status = "stopping"
    /\ Deferred \subseteq live
    /\ status' = "stopped"
    /\ enabled' = ((enabled \union toEnable) \ toDisable) \ toDelete
    /\ live' = live \ toDelete
    /\ Cleared
    /\ UNCHANGED <<current, traced, proc, inHandler, history>>

\* One that GDB has no longer makes it raise: some are applied and none is
\* cleared, so the next STOP event applies the same operations again.
ProcessDeferredRaises ==
    /\ status = "stopping"
    /\ ~(Deferred \subseteq live)
    /\ status' = "stopped"
    /\ \/ \* while enabling
          /\ ~(toEnable \subseteq live)
          /\ \E done \in SUBSET (toEnable \intersect live) : enabled' = enabled \union done
          /\ live' = live
       \/ \* while disabling
          /\ toEnable \subseteq live
          /\ ~(toDisable \subseteq live)
          /\ \E done \in SUBSET (toDisable \intersect live) :
                enabled' = (enabled \union toEnable) \ done
          /\ live' = live
       \/ \* while deleting
          /\ toEnable \subseteq live
          /\ toDisable \subseteq live
          /\ \E done \in SUBSET (toDelete \intersect live) :
                /\ live' = live \ done
                /\ enabled' = ((enabled \union toEnable) \ toDisable) \ done
    /\ lost' = lost \union Deferred
    /\ UNCHANGED <<current, traced, proc, slot, saved, inHandler, deferred, wanted, twice, foreign>>

\* EXIT and START discard what was deferred.
Discard(next) ==
    /\ status' = next
    /\ Cleared
    /\ lost' = lost \union Deferred
    /\ UNCHANGED <<current, live, traced, proc, enabled, inHandler, wanted, twice, foreign>>

Exit == status \in {"running", "stopped"} /\ current = None /\ Discard("none")
Start == status = "none" /\ Discard("running")

Continue ==
    /\ status = "stopped"
    /\ status' = "running"
    /\ UNCHANGED <<current, live, traced, proc, enabled, slot, saved, inHandler, deferred, history>>

OtherStop ==
    /\ status = "running" /\ current = None
    /\ status' = "stopping"
    /\ UNCHANGED <<current, live, traced, proc, enabled, slot, saved, inHandler, deferred, history>>

\* GDB or the user deletes a stop point: `delete`, a watched frame that ends.
Vanish(s) ==
    /\ current = None /\ status # "stopping"
    /\ s \in live
    /\ live' = live \ {s}
    /\ enabled' = enabled \ {s}
    /\ UNCHANGED <<status, current, traced, proc, slot, saved, inHandler, deferred, history>>

Operation(s) ==
    \/ BreakAt(s)
    \/ \E on \in BOOLEAN : SetEnabledDeferred(s, on) \/ SetEnabledDirect(s, on)
    \/ RemoveDeferred(s)
    \/ RemoveDirect(s)

Next ==
    \/ \E s \in StopPoints :
          Operation(s) \/ HandlerStarts(s) \/ PlainStop(s) \/ WrapperRaises(s) \/ Vanish(s)
    \/ \E stop \in BOOLEAN : HandlerReturns(stop)
    \/ TraceRet \/ ReturnStarts
    \/ HandlerRaises
    \/ ProcessDeferred \/ ProcessDeferredRaises
    \/ Exit \/ Start \/ Continue \/ OtherStop

Spec == Init /\ [][Next]_vars

-----------------------------------------------------------------------------
(* Properties.                                                              *)

\* A stop point that a caller disabled or removed never runs its handler
\* again until one enables it: not between the deferred call and the STOP
\* event either, and not if the handler that called it raised.  Exceptions are
\* an operation that EXIT or START discarded or a failed STOP left behind, and
\* one that a handler made on the stop point of another process object
\* or from the handler of trace_ret.
DisabledStaysQuiet ==
    [][\A s \in StopPoints :
          HandlerStarts(s) => wanted[s] = "on" \/ s \in lost \/ foreign]_vars

\* When nothing is deferred for a stop point, GDB has what the last operation
\* asked for: deferred operations take effect in the order of the calls.
GdbAgrees ==
    \A s \in StopPoints :
        s \in live /\ s \notin Deferred /\ s \notin lost /\ ~foreign =>
            /\ wanted[s] # "gone"
            /\ (s \in enabled) = (wanted[s] = "on")

\* The wrapper is in place only while an operation is pending, and knows the
\* original handler then, unless it wrapped itself in a second operation.
OriginalComesBack ==
    \A s \in StopPoints \ twice :
        IF s \in Deferred
        THEN slot[s] = "_stop" /\ saved[s] = "original"
        ELSE slot[s] = "original" /\ saved[s] = "none"
=============================================================================
