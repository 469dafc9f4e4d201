-------------------- MODULE IODriverPseudoTerminalProofs --------------------
(***************************************************************************)
(* Proofs about the pseudo-terminal I/O driver, for any amount of data.    *)
(***************************************************************************)
EXTENDS IODriverPseudoTerminal, TLAPS

\* A thread, a process and a changed terminal come and go together.
Session ==
    /\ proc => was = users /\ wpc # "none"
    /\ ~proc => term = users /\ wpc = "none"
    /\ main = "join" => proc /\ stopRequested
    /\ main = "end" => ~proc
    /\ main = "idle" /\ proc => ~stopRequested

IInv == RangesOK /\ Session

LEMMA FlagsStep == FlagsOK /\ [Next]_vars => FlagsOK'
<1> SUFFICES ASSUME FlagsOK, [Next]_vars PROVE FlagsOK'
  OBVIOUS
<1> QED
  BY Zenon DEF FlagsOK, vars, Next, Thread, Start, StopCall, StopJoin, Close, UserTypes,
               ProcessWrites, ThreadChecks, ReadInput, WriteInput, CopyOutput

LEMMA InitInv == Init => IInv
  BY PseudoTerminalAssumption DEF Init, IInv, RangesOK, Session, Modes

LEMMA StepInv == IInv /\ [Next]_vars => IInv'
<1> SUFFICES ASSUME IInv, [Next]_vars PROVE IInv'
  OBVIOUS
<1> USE PseudoTerminalAssumption DEF IInv, RangesOK, Session, Modes
<1>1. CASE Start \/ StopCall
  BY <1>1 DEF Start, StopCall
<1>2. CASE StopJoin \/ Close
  BY <1>2 DEF StopJoin, Close
<1>3. CASE Thread
  BY <1>3 DEF Thread, ThreadChecks, ReadInput, WriteInput, CopyOutput
<1>4. CASE UserTypes \/ ProcessWrites
  BY <1>4 DEF UserTypes, ProcessWrites
<1>5. CASE UNCHANGED vars
  BY <1>5 DEF vars
<1> QED BY <1>1, <1>2, <1>3, <1>4, <1>5 DEF Next

\* Every variable has a value of its kind.
THEOREM TypeCorrect == Spec => []TypeOK
<1>1. Init => FlagsOK
  BY Zenon DEF Init, FlagsOK
<1> QED BY <1>1, FlagsStep, InitInv, StepInv, PTL DEF Spec, TypeOK, IInv

\* Whatever start() changed in the user's terminal, stop() changes back.
THEOREM TerminalRestored == Spec => []TerminalIsRestored
<1>1. IInv => TerminalIsRestored
  BY DEF IInv, Session, TerminalIsRestored
<1> QED BY <1>1, InitInv, StepInv, PTL DEF Spec

\* The pseudo-terminal driver implements the I/O driver.
THEOREM Implements == Spec => ImplementsIODriver
<1>1. Init => Abstract!Init
  BY DEF Init, Abstract!Init, phase
<1>2. IInv /\ [Next]_vars => [Abstract!Next]_(Abstract!vars)
  <2> SUFFICES ASSUME IInv, [Next]_vars PROVE [Abstract!Next]_(Abstract!vars)
    OBVIOUS
  <2> USE DEF IInv, RangesOK, Session, phase, Abstract!vars, Abstract!Next
  <2>1. CASE Start
    BY <2>1 DEF Start, Abstract!Start
  <2>2. CASE StopCall
    BY <2>2 DEF StopCall, Abstract!RequestStop
  <2>3. CASE StopJoin
    BY <2>3 DEF StopJoin, Abstract!Stopped
  <2>4. CASE Close
    BY <2>4 DEF Close, Abstract!Close
  <2>5. CASE Thread
    BY <2>5 DEF Thread, ThreadChecks, ReadInput, WriteInput, CopyOutput,
                Abstract!BeginCopy, Abstract!EndCopy
  <2>6. CASE UserTypes \/ ProcessWrites
    BY <2>6 DEF UserTypes, ProcessWrites
  <2>7. CASE UNCHANGED vars
    BY <2>7 DEF vars
  <2> QED BY <2>1, <2>2, <2>3, <2>4, <2>5, <2>6, <2>7 DEF Next
<1> QED BY <1>1, <1>2, InitInv, StepInv, PTL DEF Spec, ImplementsIODriver, Abstract!Spec
=============================================================================
