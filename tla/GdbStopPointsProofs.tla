------------------------- MODULE GdbStopPointsProofs -------------------------
(***************************************************************************)
(* Proofs about the stop points of the GDB backend, for any number of stop *)
(* points, process objects and operations.                                 *)
(***************************************************************************)
EXTENDS GdbStopPoints, TLAPS

Data ==
    /\ status \in {"none", "running", "stopping", "stopped"}
    /\ current \in StopPoints \union {Return, None}
    /\ live \subseteq StopPoints
    /\ proc \in [StopPoints -> Procs]
    /\ enabled \subseteq StopPoints
    /\ slot \in [StopPoints -> Stops]
    /\ saved \in [StopPoints -> Stops \union {"none"}]
    /\ inHandler \subseteq Procs
    /\ toDelete \subseteq StopPoints
    /\ toEnable \subseteq StopPoints
    /\ toDisable \subseteq StopPoints
    /\ wanted \in [StopPoints -> {"new", "on", "off", "gone"}]
    /\ lost \subseteq StopPoints
    /\ twice \subseteq StopPoints

Flags == traced \in BOOLEAN /\ foreign \in BOOLEAN

\* What is deferred goes through the wrapper; a handler runs with the flag of its
\* process object set, the finish breakpoint's excepted.
WrapInv ==
    /\ \A s \in Deferred : slot[s] = "_stop"
    /\ current \in StopPoints => proc[current] \in inHandler
    /\ \A s \in live \union Deferred : wanted[s] # "new"

\* What the sets of deferred operations say of a stop point is the last thing
\* that was asked for, and while something is deferred at the prompt, everything
\* on the stop point still is.
Settles(s) ==
    /\ s \in toDelete <=> wanted[s] = "gone"
    /\ s \notin toDelete => /\ s \in toEnable => wanted[s] = "on" /\ s \notin toDisable
                            /\ s \in toDisable => wanted[s] = "off"
    /\ status = "stopped" => proc[s] \in inHandler

DeferInv == ~foreign => \A s \in Deferred \ lost : Settles(s)

IInv == Data /\ WrapInv /\ DeferInv /\ GdbAgrees

\* The variables that hold data keep their types.
LEMMA DataStep == Data /\ [Next]_vars => Data'
<1> SUFFICES ASSUME Data, [Next]_vars PROVE Data'
  OBVIOUS
<1> USE NoneAssumption DEF Data, Stops, Deferred
<1>1. ASSUME NEW s \in StopPoints, BreakAt(s) PROVE Data'
  BY <1>1 DEF BreakAt, deferred
<1>2. ASSUME NEW s \in StopPoints, NEW on \in BOOLEAN, SetEnabledDeferred(s, on) PROVE Data'
  BY <1>2 DEF SetEnabledDeferred, Wrap, DeferEnabled, Want
<1>3. ASSUME NEW s \in StopPoints, NEW on \in BOOLEAN, SetEnabledDirect(s, on) PROVE Data'
  BY <1>3 DEF SetEnabledDirect, Want, deferred
<1>4. ASSUME NEW s \in StopPoints, RemoveDeferred(s) PROVE Data'
  BY <1>4 DEF RemoveDeferred, Wrap, Want
<1>5. ASSUME NEW s \in StopPoints, RemoveDirect(s) PROVE Data'
  BY <1>5 DEF RemoveDirect, Want, deferred
<1>6. ASSUME NEW s \in StopPoints, HandlerStarts(s) PROVE Data'
  BY <1>6 DEF HandlerStarts, Hit, deferred, history
<1>7. ASSUME NEW s \in StopPoints, PlainStop(s) \/ WrapperRaises(s) \/ Vanish(s) PROVE Data'
  BY <1>7 DEF PlainStop, WrapperRaises, Vanish, deferred, history
<1>8. ASSUME NEW stop \in BOOLEAN, HandlerReturns(stop) PROVE Data'
  BY <1>8 DEF HandlerReturns, deferred, history
<1>9. CASE TraceRet \/ ReturnStarts \/ HandlerRaises \/ Continue \/ OtherStop
  BY <1>9 DEF TraceRet, ReturnStarts, HandlerRaises, Continue, OtherStop, deferred, history
<1>10. CASE ProcessDeferred
  BY <1>10 DEF ProcessDeferred, Cleared, Restored, history
<1>11. CASE ProcessDeferredRaises
  BY <1>11 DEF ProcessDeferredRaises, deferred
<1>12. CASE Exit
  BY <1>12 DEF Exit, Discard, Cleared, Restored
<1>13. CASE Start
  BY <1>13 DEF Start, Discard, Cleared, Restored
<1>14. CASE UNCHANGED vars
  BY <1>14 DEF vars, deferred, history
<1> QED
  BY <1>1, <1>2, <1>3, <1>4, <1>5, <1>6, <1>7, <1>8, <1>9, <1>10, <1>11, <1>12, <1>13, <1>14
  DEF Next, Operation

\* The two flags are Boolean.
LEMMA FlagsStep == Flags /\ [Next]_vars => Flags'
<1> SUFFICES ASSUME Flags, [Next]_vars PROVE Flags'
  OBVIOUS
<1> DEFINE Known == UNCHANGED foreign \/ \E s \in StopPoints : Recorded(proc[s])
           Trace == UNCHANGED traced \/ traced' = TRUE \/ traced' = FALSE
<1>1. ASSUME NEW s \in StopPoints, Operation(s) PROVE Known /\ Trace
  BY <1>1, Zenon DEF Operation, BreakAt, SetEnabledDeferred, SetEnabledDirect, RemoveDeferred,
    RemoveDirect
<1>2. ASSUME NEW s \in StopPoints,
             HandlerStarts(s) \/ PlainStop(s) \/ WrapperRaises(s) \/ Vanish(s)
      PROVE Known /\ Trace
  BY <1>2, Zenon DEF HandlerStarts, PlainStop, WrapperRaises, Vanish, history
<1>3. ASSUME \/ TraceRet \/ ReturnStarts \/ HandlerRaises \/ Continue \/ OtherStop
             \/ ProcessDeferred \/ ProcessDeferredRaises \/ Exit \/ Start
             \/ \E stop \in BOOLEAN : HandlerReturns(stop)
      PROVE Known /\ Trace
  BY <1>3, Zenon DEF TraceRet, ReturnStarts, HandlerRaises, Continue, OtherStop, ProcessDeferred,
    ProcessDeferredRaises, Exit, Start, Discard, HandlerReturns, history
<1>4. ASSUME UNCHANGED vars PROVE Known /\ Trace
  BY <1>4, Zenon DEF vars, history
<1>5. Known /\ Trace
  BY <1>1, <1>2, <1>3, <1>4 DEF Next
<1> QED
  BY <1>5, Zenon DEF Flags, Recorded

\* Whoever is deferred has its wrapper, and a handler its flag.
LEMMA WrapStep == Data /\ WrapInv /\ [Next]_vars => WrapInv'
<1> SUFFICES ASSUME Data, WrapInv, [Next]_vars PROVE WrapInv'
  OBVIOUS
<1> USE NoneAssumption DEF Data, Stops, Deferred, WrapInv
<1>1. ASSUME NEW s \in StopPoints, BreakAt(s) PROVE WrapInv'
  BY <1>1 DEF BreakAt, deferred
<1>2. ASSUME NEW s \in StopPoints, NEW on \in BOOLEAN, SetEnabledDeferred(s, on) PROVE WrapInv'
  BY <1>2 DEF SetEnabledDeferred, Wrap, DeferEnabled, Want
<1>3. ASSUME NEW s \in StopPoints, NEW on \in BOOLEAN, SetEnabledDirect(s, on) PROVE WrapInv'
  BY <1>3 DEF SetEnabledDirect, Want, deferred
<1>4. ASSUME NEW s \in StopPoints, RemoveDeferred(s) PROVE WrapInv'
  BY <1>4 DEF RemoveDeferred, Wrap, Want
<1>5. ASSUME NEW s \in StopPoints, RemoveDirect(s) PROVE WrapInv'
  BY <1>5 DEF RemoveDirect, Want, deferred
<1>6. ASSUME NEW s \in StopPoints, HandlerStarts(s) PROVE WrapInv'
  BY <1>6 DEF HandlerStarts, Hit, deferred, history
<1>7. ASSUME NEW s \in StopPoints, PlainStop(s) \/ WrapperRaises(s) \/ Vanish(s) PROVE WrapInv'
  BY <1>7 DEF PlainStop, WrapperRaises, Vanish, deferred, history
<1>8. ASSUME NEW stop \in BOOLEAN, HandlerReturns(stop) PROVE WrapInv'
  BY <1>8 DEF HandlerReturns, deferred, history
<1>9. CASE TraceRet \/ ReturnStarts \/ HandlerRaises \/ Continue \/ OtherStop
  BY <1>9 DEF TraceRet, ReturnStarts, HandlerRaises, Continue, OtherStop, deferred, history
<1>10. CASE ProcessDeferred
  BY <1>10 DEF ProcessDeferred, Cleared, Restored, history
<1>11. CASE ProcessDeferredRaises
  BY <1>11 DEF ProcessDeferredRaises, deferred
<1>12. CASE Exit
  BY <1>12 DEF Exit, Discard, Cleared, Restored
<1>13. CASE Start
  BY <1>13 DEF Start, Discard, Cleared, Restored
<1>14. CASE UNCHANGED vars
  BY <1>14 DEF vars, deferred, history
<1> QED
  BY <1>1, <1>2, <1>3, <1>4, <1>5, <1>6, <1>7, <1>8, <1>9, <1>10, <1>11, <1>12, <1>13, <1>14
  DEF Next, Operation

\* Deferred operations add up to the last one asked for, and STOP applies that.
LEMMA AgreeStep == IInv /\ [Next]_vars => DeferInv' /\ GdbAgrees'
<1> SUFFICES ASSUME IInv, [Next]_vars, ~foreign' PROVE (DeferInv /\ GdbAgrees)'
  BY DEF DeferInv, GdbAgrees
<1> DEFINE Goal == (DeferInv /\ GdbAgrees)'
<1> USE NoneAssumption DEF IInv, Data, Stops, Deferred, WrapInv, DeferInv, Settles, GdbAgrees
<1>0. ASSUME NEW s \in StopPoints, Recorded(proc[s])
      PROVE ~foreign /\ (current # None => proc[s] = proc[current] /\ proc[s] \in inHandler)
  BY <1>0 DEF Recorded
<1>1. ASSUME NEW s \in StopPoints, BreakAt(s) PROVE Goal
  BY <1>1, <1>0 DEF BreakAt, deferred
<1>2. ASSUME NEW s \in StopPoints, NEW on \in BOOLEAN, SetEnabledDeferred(s, on) PROVE Goal
  BY <1>2, <1>0 DEF SetEnabledDeferred, DeferEnabled, Want, MayCall
<1>3. ASSUME NEW s \in StopPoints, NEW on \in BOOLEAN, SetEnabledDirect(s, on) PROVE Goal
  BY <1>3, <1>0 DEF SetEnabledDirect, Want, deferred, MayCall
<1>4. ASSUME NEW s \in StopPoints, RemoveDeferred(s) PROVE Goal
  BY <1>4, <1>0 DEF RemoveDeferred, Want, MayCall
<1>5. ASSUME NEW s \in StopPoints, RemoveDirect(s) PROVE Goal
  BY <1>5, <1>0 DEF RemoveDirect, Want, deferred, MayCall
<1>6. ASSUME NEW s \in StopPoints, HandlerStarts(s) PROVE Goal
  BY <1>6 DEF HandlerStarts, Hit, deferred, history
<1>7. ASSUME NEW s \in StopPoints, PlainStop(s) \/ WrapperRaises(s) \/ Vanish(s) PROVE Goal
  BY <1>7 DEF PlainStop, WrapperRaises, Vanish, deferred, history, Hit
<1>8. ASSUME NEW stop \in BOOLEAN, HandlerReturns(stop) PROVE Goal
  BY <1>8 DEF HandlerReturns, deferred, history
<1>9. CASE TraceRet \/ ReturnStarts \/ HandlerRaises \/ Continue \/ OtherStop
  BY <1>9 DEF TraceRet, ReturnStarts, HandlerRaises, Continue, OtherStop, deferred, history
<1>10. CASE ProcessDeferred
  BY <1>10 DEF ProcessDeferred, Cleared, history
<1>11. CASE ProcessDeferredRaises
  BY <1>11 DEF ProcessDeferredRaises, deferred
<1>12. CASE Exit
  BY <1>12 DEF Exit, Discard, Cleared
<1>13. CASE Start
  BY <1>13 DEF Start, Discard, Cleared
<1>14. CASE UNCHANGED vars
  BY <1>14 DEF vars, deferred, history
<1> QED
  BY <1>1, <1>2, <1>3, <1>4, <1>5, <1>6, <1>7, <1>8, <1>9, <1>10, <1>11, <1>12, <1>13, <1>14
  DEF Next, Operation

\* The wrapper is in place exactly while something is deferred.
LEMMA OriginalStep == Data /\ OriginalComesBack /\ [Next]_vars => OriginalComesBack'
<1> SUFFICES ASSUME Data, OriginalComesBack, [Next]_vars,
                    NEW s \in StopPoints, s \notin twice'
             PROVE IF s \in Deferred'
                   THEN slot'[s] = "_stop" /\ saved'[s] = "original"
                   ELSE slot'[s] = "original" /\ saved'[s] = "none"
  BY DEF OriginalComesBack
<1> DEFINE Goal == IF s \in Deferred'
                   THEN slot'[s] = "_stop" /\ saved'[s] = "original"
                   ELSE slot'[s] = "original" /\ saved'[s] = "none"
<1> USE DEF Data, Stops, Deferred, OriginalComesBack
<1>1. ASSUME NEW r \in StopPoints, NEW on \in BOOLEAN, SetEnabledDeferred(r, on) PROVE Goal
  BY <1>1 DEF SetEnabledDeferred, DeferEnabled, Wrap
<1>2. ASSUME NEW r \in StopPoints, RemoveDeferred(r) PROVE Goal
  BY <1>2 DEF RemoveDeferred, Wrap
<1>3. ASSUME Cleared, UNCHANGED twice PROVE Goal
  BY <1>3 DEF Cleared, Restored
<1>4. ASSUME UNCHANGED <<slot, saved, deferred, twice>> PROVE Goal
  BY <1>4 DEF deferred
<1>5. ASSUME NEW r \in StopPoints,
             \/ BreakAt(r) \/ RemoveDirect(r) \/ \E on \in BOOLEAN : SetEnabledDirect(r, on)
             \/ HandlerStarts(r) \/ PlainStop(r) \/ WrapperRaises(r) \/ Vanish(r)
      PROVE UNCHANGED <<slot, saved, deferred, twice>>
  BY <1>5, Zenon DEF BreakAt, RemoveDirect, SetEnabledDirect, HandlerStarts, PlainStop,
    WrapperRaises, Vanish, history
<1>6. ASSUME \/ TraceRet \/ ReturnStarts \/ HandlerRaises \/ Continue \/ OtherStop
             \/ ProcessDeferredRaises \/ UNCHANGED vars
             \/ \E stop \in BOOLEAN : HandlerReturns(stop)
      PROVE UNCHANGED <<slot, saved, deferred, twice>>
  BY <1>6, Zenon DEF TraceRet, ReturnStarts, HandlerRaises, Continue, OtherStop,
    ProcessDeferredRaises, HandlerReturns, history, vars
<1>7. ASSUME ProcessDeferred \/ Exit \/ Start PROVE Cleared /\ UNCHANGED twice
  BY <1>7, Zenon DEF ProcessDeferred, Exit, Start, Discard, history
<1> QED
  BY <1>1, <1>2, <1>3, <1>4, <1>5, <1>6, <1>7 DEF Next, Operation

\* A handler that is reached is one the callers want.
LEMMA QuietStep ==
    IInv /\ [Next]_vars =>
        [\A s \in StopPoints : HandlerStarts(s) => wanted[s] = "on" \/ s \in lost \/ foreign]_vars
<1> SUFFICES ASSUME IInv, NEW s \in StopPoints, HandlerStarts(s), s \notin lost, ~foreign
             PROVE wanted[s] = "on"
  OBVIOUS
<1>1. s \in live /\ s \in enabled /\ ~Silenced(s)
  BY DEF HandlerStarts, Hit
<1>2. CASE s \in Deferred
  <2>1. s \in toEnable \ (toDisable \union toDelete)
    BY <1>1, <1>2 DEF Silenced, IInv, WrapInv, Deferred
  <2> QED BY <1>2, <2>1 DEF IInv, DeferInv, Settles
<1>3. CASE s \notin Deferred
  BY <1>1, <1>3 DEF IInv, GdbAgrees
<1> QED BY <1>2, <1>3

\* The initial states.
LEMMA InitHolds == Init => IInv /\ Flags /\ OriginalComesBack
<1> SUFFICES ASSUME Init PROVE IInv /\ Flags /\ OriginalComesBack
  OBVIOUS
<1>1. IInv /\ OriginalComesBack
  BY NoneAssumption DEF Init, IInv, Data, Stops, Deferred, WrapInv, DeferInv, GdbAgrees,
    OriginalComesBack
<1>2. Flags
  BY Zenon DEF Init, Flags
<1> QED BY <1>1, <1>2

\* Every variable keeps its type.
THEOREM TypeCorrect == Spec => []TypeOK
<1>1. Init => Data /\ Flags
  BY InitHolds DEF IInv
<1>2. Data /\ Flags => TypeOK
  BY Zenon DEF Data, Flags, TypeOK
<1> QED BY <1>1, <1>2, DataStep, FlagsStep, PTL DEF Spec

\* The inductive invariant.
LEMMA Inductive == Spec => []IInv
<1>1. Init => IInv
  BY InitHolds
<1>2. IInv /\ [Next]_vars => IInv'
  BY DataStep, WrapStep, AgreeStep DEF IInv
<1> QED BY <1>1, <1>2, PTL DEF Spec

\* When nothing is deferred for a stop point, GDB has what the last operation
\* asked for, whatever handlers ran, raised or deferred before.
THEOREM DeferredTakeEffect == Spec => []GdbAgrees
<1>1. IInv => GdbAgrees
  BY DEF IInv
<1> QED BY <1>1, Inductive, PTL

\* The original handler comes back when the deferred operations are done.
THEOREM HandlersComeBack == Spec => []OriginalComesBack
<1>1. Init => Data /\ OriginalComesBack
  BY InitHolds DEF IInv
<1> QED BY <1>1, DataStep, OriginalStep, PTL DEF Spec

\* A stop point that was disabled or removed does not run its handler.
THEOREM QuietAtOnce == Spec => DisabledStaysQuiet
  BY Inductive, QuietStep, PTL DEF Spec, DisabledStaysQuiet
=============================================================================
