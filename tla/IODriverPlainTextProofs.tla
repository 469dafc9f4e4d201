---------------------- MODULE IODriverPlainTextProofs ----------------------
(***************************************************************************)
(* Proofs about the plain text I/O driver: its invariants, and that it     *)
(* implements IODriver, for any amount of output and whether or not a      *)
(* worker may die.                                                         *)
(***************************************************************************)
EXTENDS IODriverPlainText, TLAPS

\* What the debugger's thread has set up, by where it is.
Session ==
    /\ running => proc /\ ~blocking /\ ~closed
    /\ main = "starting" => proc /\ ~blocking /\ ~running /\ ~closing /\ ~stopRequested
    /\ main \in {"acquire1", "acquire2", "restore"} => running /\ stopRequested
    /\ main = "idle" /\ running => ~stopRequested /\ ~closing
    /\ main \in {"join", "end"} <=> closed
    /\ closed => ~running

IInv == RangesOK /\ Conservation /\ Session

LEMMA FlagsStep == FlagsOK /\ [Next]_vars => FlagsOK'
<1> SUFFICES ASSUME FlagsOK, [Next]_vars PROVE FlagsOK'
  OBVIOUS
<1> USE DEF FlagsOK, mainVars
<1>1. CASE Main
  BY <1>1, Zenon DEF Main, StartRelease, StopAcquire, StopRestore, CloseSet, CloseJoin
<1>2. CASE StartCall \/ StopCall \/ CloseCall \/ OnOutputEvent \/ ProcessWrites
  BY <1>2, Zenon DEF StartCall, StopCall, CloseCall, OnOutputEvent, ProcessWrites
<1>3. ASSUME NEW w \in Workers, Worker(w) PROVE FlagsOK'
  BY <1>3, Zenon DEF Worker, WorkerEnds, WorkerStarts, WorkerChecks, PassEnds,
              WorkerFulfils, WorkerDies, OutputWaits, OutputCopies
<1>4. CASE UNCHANGED vars
  BY <1>4, Zenon DEF vars
<1> QED BY <1>1, <1>2, <1>3, <1>4 DEF Next

LEMMA InitInv == Init => IInv
  BY PlainTextAssumption DEF Workers, Init, IInv, RangesOK, Conservation, Session, Busy, Taken

LEMMA StepInv == IInv /\ [Next]_vars => IInv'
<1> SUFFICES ASSUME IInv, [Next]_vars PROVE IInv'
  OBVIOUS
<1> USE PlainTextAssumption
     DEF Workers, IInv, RangesOK, Conservation, Session, Busy, Taken, mainVars, Move
<1>1. CASE Main
  <2>1. CASE StartRelease
    BY <2>1 DEF StartRelease
  <2>2. CASE StopAcquire
    <3>1. RangesOK'
      BY <2>2 DEF StopAcquire
    <3>2. Conservation'
      BY <2>2 DEF StopAcquire
    <3>3. Session'
      BY <2>2 DEF StopAcquire
    <3> QED BY <3>1, <3>2, <3>3
  <2>3. CASE StopRestore
    BY <2>3 DEF StopRestore
  <2>4. CASE CloseSet
    BY <2>4 DEF CloseSet
  <2>5. CASE CloseJoin
    BY <2>5 DEF CloseJoin
  <2> QED BY <1>1, <2>1, <2>2, <2>3, <2>4, <2>5 DEF Main
<1>2. CASE StartCall \/ StopCall \/ CloseCall \/ OnOutputEvent \/ ProcessWrites
  <2>1. CASE StartCall
    BY <2>1 DEF StartCall
  <2>2. CASE StopCall \/ CloseCall
    BY <2>2 DEF StopCall, CloseCall
  <2>3. CASE OnOutputEvent \/ ProcessWrites
    BY <2>3 DEF OnOutputEvent, ProcessWrites
  <2> QED BY <1>2, <2>1, <2>2, <2>3
<1>3. ASSUME NEW w \in Workers, Worker(w) PROVE IInv'
  BY <1>3 DEF Worker, WorkerEnds, WorkerStarts, WorkerChecks, PassEnds, WorkerFulfils,
              WorkerDies, OutputWaits, OutputCopies
<1>4. CASE UNCHANGED vars
  BY <1>4 DEF vars
<1> QED BY <1>1, <1>2, <1>3, <1>4 DEF Next

\* Every variable has a value of its kind, and no semaphore exceeds the bound
\* its constructor gave it.
THEOREM TypeCorrect == Spec => []TypeOK
<1>1. Init => FlagsOK
  BY Zenon DEF Init, FlagsOK
<1> QED BY <1>1, FlagsStep, InitInv, StepInv, PTL DEF Spec, TypeOK, IInv

\* start() and stop() conserve the workers' permits in every session.
THEOREM PermitsConserved == Spec => []Conservation
  BY InitInv, StepInv, PTL DEF Spec, IInv

\* No worker touches the process or the streams outside of start() .. stop().
THEOREM CopyingIsBracketed == Spec => []CopyingIsSetUp
<1>1. IInv => CopyingIsSetUp
  BY DEF IInv, RangesOK, Conservation, Session, Busy, Taken, CopyingIsSetUp, Workers
<1> QED BY <1>1, InitInv, StepInv, PTL DEF Spec

\* The plain text driver implements the I/O driver.
THEOREM Implements == Spec => ImplementsIODriver
<1> USE DEF Workers
<1>1. Init => Abstract!Init
  BY DEF Init, Abstract!Init, phase
<1>2. IInv /\ [Next]_vars => [Abstract!Next]_(Abstract!vars)
  <2> SUFFICES ASSUME IInv, [Next]_vars PROVE [Abstract!Next]_(Abstract!vars)
    OBVIOUS
  <2> USE DEF IInv, RangesOK, Conservation, Session, Busy, Taken, mainVars, Move, phase,
              Abstract!vars, Abstract!Next
  <2>1. CASE StartRelease
    BY <2>1 DEF StartRelease, Abstract!Start
  <2>2. CASE StopAcquire
    BY <2>2 DEF StopAcquire
  <2>3. CASE StopRestore
    BY <2>3 DEF StopRestore, Abstract!Stopped
  <2>4. CASE CloseSet
    BY <2>4 DEF CloseSet, Abstract!Close
  <2>5. CASE CloseJoin
    BY <2>5 DEF CloseJoin
  <2>6. CASE StopCall \/ CloseCall
    BY <2>6 DEF StopCall, CloseCall, Abstract!RequestStop
  <2>7. CASE StartCall \/ OnOutputEvent \/ ProcessWrites
    BY <2>7 DEF StartCall, OnOutputEvent, ProcessWrites
  <2>8. ASSUME NEW w \in Workers, Worker(w) PROVE [Abstract!Next]_(Abstract!vars)
    BY <2>8 DEF Worker, WorkerEnds, WorkerStarts, WorkerChecks, PassEnds, WorkerFulfils,
                WorkerDies, OutputWaits, OutputCopies, Abstract!BeginCopy, Abstract!EndCopy
  <2>9. CASE UNCHANGED vars
    BY <2>9 DEF vars
  <2> QED BY <2>1, <2>2, <2>3, <2>4, <2>5, <2>6, <2>7, <2>8, <2>9 DEF Next, Main
<1> QED BY <1>1, <1>2, InitInv, StepInv, PTL DEF Spec, ImplementsIODriver, Abstract!Spec
=============================================================================
