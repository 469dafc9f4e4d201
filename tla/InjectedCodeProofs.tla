-------------------------- MODULE InjectedCodeProofs --------------------------
(***************************************************************************)
(* Proofs about injected code: whatever stops or ends the run, a live      *)
(* program is put back as it was, no other thread runs meanwhile, and the  *)
(* prompt reads no register that has changed since it was cached.          *)
(***************************************************************************)
EXTENDS InjectedCode, TLAPS

Flags ==
    /\ alive \in BOOLEAN /\ locked \in BOOLEAN /\ suspended \in BOOLEAN
    /\ tapped \in BOOLEAN /\ staleRead \in BOOLEAN /\ mishap \in BOOLEAN

Values == Own \union {Ret}

Ranges ==
    /\ over \subseteq Cells /\ stack \in {"own", "dirty"}
    /\ loc \in [Threads -> 0..MappedEnd] /\ regs \in [Threads -> Values]
    /\ selected \in Threads /\ bps \subseteq UserBps /\ endBp \in -1..MappedEnd
    /\ cache \in [Threads -> Values \union {None}]
    /\ at \in Labels /\ kind \in Kinds \union {None, "cont"}
    /\ saved \in [thread : Threads, loc : Cells, regs : Values]
    /\ before \in [loc : [Threads -> Cells], regs : [Threads -> Values]]
    /\ captured \in Values \union {None} /\ reason \in {"end", "other"}
    /\ steps \in Nat

\* Which command is where.  A mishap ends the session, so none is in the middle
\* of another kind of command.
LabelsOK ==
    /\ at \notin {"prompt", "running", "stopped"} => kind \in Agnostic
    /\ at = "restore_stack" => kind = "hijack"
    /\ at \in {"running", "stopped"} => kind # None
    /\ at # "prompt" /\ kind # "got" => ~mishap

\* What a call saved is what was there when it began.
SavedOK ==
    kind \in Kinds =>
        saved.loc = before.loc[saved.thread] /\ saved.regs = before.regs[saved.thread]

Quiet == bps = UserBps /\ endBp = -1 /\ ~locked /\ ~suspended

InCells == \A t \in Threads : loc[t] \in Cells
Fresh == \A t \in Threads : cache[t] # None => cache[t] = regs[t]

Back == loc[selected] = saved.loc /\ regs[selected] = saved.regs

\* The program has its code from Start to Target, and a breakpoint after it.
Injected == over = Start..(Target - 1) /\ endBp = Target /\ Target \in Cells

AtPrompt ==
    at = "prompt" =>
        /\ Quiet /\ over = {} /\ InCells /\ Fresh
        /\ kind \in Kinds => selected = saved.thread /\ Back
        /\ kind = "hijack" => stack = "own"

Continuing ==
    at # "prompt" /\ kind = "cont" =>
        /\ Quiet /\ over = {} /\ InCells
        /\ at = "stopped" => Fresh

GdbRuns ==
    at # "prompt" /\ kind = "got" => Injected /\ InCells /\ ~locked /\ ~suspended

AgnosticRuns ==
    at # "prompt" /\ kind \in Agnostic =>
        /\ selected = saved.thread /\ bps = UserBps
        /\ at \in {"running", "stopped"} => Injected /\ locked
        /\ at \notin {"running", "stopped"} => endBp = -1 /\ ~locked /\ ~suspended
        /\ at \in {"jumped", "restore_regs", "restore_stack"} => over = {}
        /\ at = "restore_stack" => Back

PhaseOK == alive /\ ~mishap => AtPrompt /\ Continuing /\ GdbRuns /\ AgnosticRuns

IInv == Ranges /\ LabelsOK /\ SavedOK /\ OthersUntouched /\ PhaseOK

\* The thread that is given code has run it up to where it is, and nothing is in the
\* cache yet unless a stop handler put it there.
Walked ==
    /\ loc[saved.thread] \in Start..Target /\ steps = loc[saved.thread] - Start
    /\ loc[saved.thread] = Target => at = "stopped" /\ regs[saved.thread] = Ret
    /\ kind \in Agnostic /\ at = "stopped" /\ reason = "end" => loc[saved.thread] = Target
    /\ kind \in Agnostic /\ at = "stopped" /\ reason = "other" => loc[saved.thread] # Target

NothingCached == tapped \/ cache = Empty

\* How much of the code has run, and what the caller has got, at each step of a call.
RunOK ==
    alive /\ ~mishap =>
        /\ at \in {"running", "stopped"} /\ kind \in Kinds => Walked /\ NothingCached
        /\ at \in {"running", "stopped"} /\ kind = "got" => bps = {}
        /\ at \in {"running", "stopped"} /\ kind \in Agnostic => suspended
        /\ at = "jumped" => steps = 0 /\ loc[saved.thread] = Start
        /\ at = "arrived" => steps = BlobLen /\ regs[saved.thread] = Ret /\ NothingCached

\* The result is read once, where the code has ended.
CaptureOK ==
    /\ at \in {"jumped", "running", "stopped", "arrived"} => captured = None
    /\ at = "arrived" => alive

\* The flags are Boolean.
LEMMA FlagsStep == Flags /\ [Next]_vars => Flags'
<1> SUFFICES ASSUME Flags, [Next]_vars PROVE Flags'
  OBVIOUS
<1> USE DEF Flags
<1>1. CASE ShowRegisters
  BY <1>1, Zenon DEF ShowRegisters, program, history
<1>2. CASE Continue
  BY <1>2, Zenon DEF Continue, program, debugger, history
<1>3. CASE ContinueReturns
  BY <1>3, Zenon DEF ContinueReturns, program, debugger, history
<1>4. CASE \E k \in Agnostic : Jump(k)
  BY <1>4, Zenon DEF Jump, Calls
<1>5. CASE CodeFails
  BY <1>5, Zenon DEF CodeFails, program, debugger, history
<1>6. CASE InjectCode
  BY <1>6, Zenon DEF InjectCode, RunsSelected, history
<1>7. CASE Retry
  BY <1>7, Zenon DEF Retry, RunsSelected, program, history
<1>8. CASE RetryRaises
  BY <1>8, Zenon DEF RetryRaises, LeaveRun, program, history
<1>9. CASE RunEnds
  BY <1>9, Zenon DEF RunEnds, LeaveRun, program, history
<1>10. CASE Capture
  BY <1>10, Zenon DEF Capture, program, history
<1>11. CASE CaptureRaises
  BY <1>11, Zenon DEF CaptureRaises, program, debugger, history
<1>12. CASE RestoreCode
  BY <1>12, Zenon DEF RestoreCode, history
<1>13. CASE RestoreRegs
  BY <1>13, Zenon DEF RestoreRegs, history
<1>14. CASE RestoreStack
  BY <1>14, Zenon DEF RestoreStack, history
<1>15. CASE GdbInject
  BY <1>15, Zenon DEF GdbInject, Calls
<1>16. CASE GdbAsserts
  BY <1>16, Zenon DEF GdbAsserts, program
<1>17. CASE GdbReturns
  BY <1>17, Zenon DEF GdbReturns
<1>18. CASE \E t \in Threads : ThreadSteps(t)
  <2>1. PICK t \in Threads, c \in 0..MappedEnd, v \in Own \union {Ret} :
            Goes(t, c, v) \/ Arrives(t, c, v) \/ HandlerRuns(t, c, v) \/ AdapterRuns(t, c, v)
    BY <1>18 DEF ThreadSteps
  <2>2. alive' \in BOOLEAN /\ mishap' \in BOOLEAN
    BY <2>1, Zenon DEF Goes, Arrives, HandlerRuns, AdapterRuns, Executes
  <2>3. locked' \in BOOLEAN /\ suspended' \in BOOLEAN
    BY <2>1, Zenon DEF Goes, Arrives, HandlerRuns, AdapterRuns, debugger
  <2>4. tapped' \in BOOLEAN /\ staleRead' \in BOOLEAN
    BY <2>1, Zenon DEF Goes, Arrives, HandlerRuns, AdapterRuns
  <2> QED BY <2>2, <2>3, <2>4
<1>19. CASE \E t \in Threads : SignalStops(t)
  BY <1>19, Zenon DEF SignalStops, Stops, program, history
<1>20. CASE ProgramEnds
  BY <1>20, Zenon DEF ProgramEnds, debugger, history
<1>21. CASE UNCHANGED vars
  BY <1>21, Zenon DEF vars, program, debugger, history
<1> QED BY <1>1, <1>2, <1>3, <1>4, <1>5, <1>6, <1>7, <1>8, <1>9, <1>10, <1>11, <1>12, <1>13,
        <1>14, <1>15, <1>16, <1>17, <1>18, <1>19, <1>20, <1>21 DEF Next, Controller

\* An instruction of a thread that runs: the thread that was given code runs it up
\* to its end, and another one does so only in the GOT tracker's call, a mishap.
LEMMA Walks ==
    ASSUME IInv, NEW t \in Threads, NEW c \in 0..MappedEnd, NEW v \in Values, Executes(t, c, v)
    PROVE  /\ alive /\ at = "running" /\ UNCHANGED <<alive, over, before>>
           /\ loc' = [loc EXCEPT ![t] = c] /\ regs' = [regs EXCEPT ![t] = v]
           /\ stack' \in {"own", "dirty"} /\ steps' \in Nat
           /\ ~mishap => c \in Cells
           /\ mishap => mishap'
           /\ kind # "got" => ~mishap'
           /\ kind \in Agnostic => t = saved.thread
<1> USE DEF IInv, Executes, MayRun
<1>1. /\ alive /\ at = "running" /\ UNCHANGED <<alive, over, before>>
      /\ loc' = [loc EXCEPT ![t] = c] /\ regs' = [regs EXCEPT ![t] = v]
  OBVIOUS
<1>2. stack' \in {"own", "dirty"} /\ steps' \in Nat
  BY DEF Ranges
<1>3. kind # "got" => ~mishap
  BY <1>1 DEF LabelsOK
<1>4. kind \in Agnostic => t = saved.thread
  BY <1>1, <1>3 DEF PhaseOK, AgnosticRuns, Agnostic
<1>5. kind = "cont" /\ ~mishap => over = {}
  BY <1>1 DEF PhaseOK, Continuing
<1>6. mishap => mishap'
  OBVIOUS
<1>7. kind \in Kinds \union {"cont"}
  BY <1>1 DEF LabelsOK, Ranges
<1>8. kind # "got" => ~mishap'
  BY <1>3, <1>4, <1>5, <1>7 DEF Kinds
<1>9. ~mishap => c \in Cells
  <2>1. CASE loc[t] \notin over
    BY <2>1
  <2>2. CASE loc[t] \in over /\ ~mishap
    <3>1. Injected
      BY <1>1, <1>5, <1>7, <2>2 DEF PhaseOK, GdbRuns, AgnosticRuns, Kinds
    <3>2. Start \in Nat
      BY DEF Ranges, Cells, Start
    <3>3. c = loc[t] + 1 /\ loc[t] \in Start..(Target - 1) /\ Target \in Cells
      BY <2>2, <3>1 DEF Injected
    <3>4. MappedEnd \in Nat
      BY InjectedAssumption
    <3>5. Target \in Nat /\ Target < MappedEnd
      BY ONLY <3>3, <3>4 DEF Cells
    <3>6. c \in Nat /\ c < MappedEnd
      BY ONLY <3>2, <3>3, <3>4, <3>5
    <3> QED BY ONLY <3>4, <3>6 DEF Cells
  <2> QED BY <2>1, <2>2
<1> QED BY <1>1, <1>2, <1>4, <1>6, <1>8, <1>9

\* A label belongs to its commands, and a mishap to GDB's own exec_shellcode.
LEMMA LabelsStep == IInv /\ [Next]_vars => LabelsOK'
<1> SUFFICES ASSUME IInv, [Next]_vars PROVE LabelsOK'
  OBVIOUS
<1> USE DEF IInv, LabelsOK, PhaseOK, AgnosticRuns, Continuing, Ranges, Kinds, Agnostic, None,
            LeaveRun, RunsSelected, Stops, Cleared, Empty, program, debugger, command, bounds,
            history
<1>1. CASE ShowRegisters
  BY <1>1 DEF ShowRegisters
<1>2. CASE Continue \/ ContinueReturns
  BY <1>2 DEF Continue, ContinueReturns, Calls
<1>3. CASE \E k \in Agnostic : Jump(k)
  BY <1>3 DEF Jump, Calls
<1>4. CASE CodeFails \/ InjectCode
  BY <1>4 DEF CodeFails, InjectCode
<1>5. CASE Retry \/ RetryRaises \/ RunEnds
  BY <1>5 DEF Retry, RetryRaises, RunEnds
<1>6. CASE Capture \/ CaptureRaises
  BY <1>6 DEF Capture, CaptureRaises
<1>7. CASE RestoreCode
  BY <1>7 DEF RestoreCode
<1>8. CASE RestoreRegs
  BY <1>8 DEF RestoreRegs
<1>9. CASE RestoreStack
  BY <1>9 DEF RestoreStack
<1>10. CASE GdbInject
  BY <1>10 DEF GdbInject, Calls
<1>11. CASE GdbAsserts \/ GdbReturns
  BY <1>11 DEF GdbAsserts, GdbReturns
<1>12. CASE \E t \in Threads : ThreadSteps(t)
  <2>1. PICK t \in Threads, c \in 0..MappedEnd, v \in Values :
            Goes(t, c, v) \/ Arrives(t, c, v) \/ HandlerRuns(t, c, v) \/ AdapterRuns(t, c, v)
    BY <1>12 DEF ThreadSteps, Values
  <2>2. Executes(t, c, v)
    BY <2>1 DEF Goes, Arrives, HandlerRuns, AdapterRuns
  <2>3. /\ alive /\ at = "running" /\ UNCHANGED <<alive, over, before>>
        /\ loc' = [loc EXCEPT ![t] = c] /\ regs' = [regs EXCEPT ![t] = v]
        /\ stack' \in {"own", "dirty"} /\ steps' \in Nat
        /\ ~mishap => c \in Cells
        /\ mishap => mishap'
        /\ kind # "got" => ~mishap'
        /\ kind \in Agnostic => t = saved.thread
    BY <2>2, Walks
  <2>4. at' \in {"running", "stopped"} /\ kind' = kind
    BY <2>1, <2>3 DEF Goes, Arrives, HandlerRuns, AdapterRuns
  <2> QED BY <2>3, <2>4
<1>13. CASE \E t \in Threads : SignalStops(t)
  BY <1>13 DEF SignalStops, MayRun
<1>14. CASE ProgramEnds
  BY <1>14 DEF ProgramEnds
<1>15. CASE UNCHANGED vars
  BY <1>15 DEF vars
<1> QED BY <1>1, <1>2, <1>3, <1>4, <1>5, <1>6, <1>7, <1>8, <1>9, <1>10, <1>11, <1>12, <1>13,
        <1>14, <1>15 DEF Next, Controller

\* What exec_shellcode saves is what was there: the registers it reads through the
\* cache are those of the thread.
LEMMA SavedStep == IInv /\ [Next]_vars => SavedOK'
<1> SUFFICES ASSUME IInv, [Next]_vars PROVE SavedOK'
  OBVIOUS
<1> USE DEF IInv, SavedOK, PhaseOK, AtPrompt, Fresh, Ranges, Kinds, Agnostic, None, Read,
            LeaveRun, RunsSelected, Stops, Cleared, Empty, program, debugger, command, bounds,
            history
<1>1. CASE ShowRegisters
  BY <1>1 DEF ShowRegisters
<1>2. CASE Continue \/ ContinueReturns
  BY <1>2 DEF Continue, ContinueReturns, Calls
<1>3. CASE \E k \in Agnostic : Jump(k)
  BY <1>3 DEF Jump, Calls
<1>4. CASE CodeFails \/ InjectCode
  BY <1>4 DEF CodeFails, InjectCode
<1>5. CASE Retry \/ RetryRaises \/ RunEnds
  BY <1>5 DEF Retry, RetryRaises, RunEnds
<1>6. CASE Capture \/ CaptureRaises
  BY <1>6 DEF Capture, CaptureRaises
<1>7. CASE RestoreCode
  BY <1>7 DEF RestoreCode
<1>8. CASE RestoreRegs
  BY <1>8 DEF RestoreRegs
<1>9. CASE RestoreStack
  BY <1>9 DEF RestoreStack
<1>10. CASE GdbInject
  BY <1>10 DEF GdbInject, Calls
<1>11. CASE GdbAsserts \/ GdbReturns
  BY <1>11 DEF GdbAsserts, GdbReturns
<1>12. CASE \E t \in Threads : ThreadSteps(t)
  BY <1>12 DEF ThreadSteps, Goes, Arrives, HandlerRuns, AdapterRuns, Executes, MayRun
<1>13. CASE \E t \in Threads : SignalStops(t)
  BY <1>13 DEF SignalStops, MayRun
<1>14. CASE ProgramEnds
  BY <1>14 DEF ProgramEnds
<1>15. CASE UNCHANGED vars
  BY <1>15 DEF vars
<1> QED BY <1>1, <1>2, <1>3, <1>4, <1>5, <1>6, <1>7, <1>8, <1>9, <1>10, <1>11, <1>12, <1>13,
        <1>14, <1>15 DEF Next, Controller

\* Threads are locked as long as the selected one runs the code.
LEMMA OthersStep == IInv /\ [Next]_vars => OthersUntouched'
<1> SUFFICES ASSUME IInv, [Next]_vars PROVE OthersUntouched'
  OBVIOUS
<1> USE DEF IInv, OthersUntouched, LabelsOK, PhaseOK, AgnosticRuns, Ranges, Kinds, Agnostic, None,
            LeaveRun, RunsSelected, Stops, Cleared, Empty, program, debugger, command, bounds,
            history
<1>1. CASE ShowRegisters
  BY <1>1 DEF ShowRegisters
<1>2. CASE Continue \/ ContinueReturns
  BY <1>2 DEF Continue, ContinueReturns, Calls
<1>3. CASE \E k \in Agnostic : Jump(k)
  BY <1>3 DEF Jump, Calls
<1>4. CASE CodeFails \/ InjectCode
  BY <1>4 DEF CodeFails, InjectCode
<1>5. CASE Retry \/ RetryRaises \/ RunEnds
  BY <1>5 DEF Retry, RetryRaises, RunEnds
<1>6. CASE Capture \/ CaptureRaises
  BY <1>6 DEF Capture, CaptureRaises
<1>7. CASE RestoreCode
  BY <1>7 DEF RestoreCode
<1>8. CASE RestoreRegs
  BY <1>8 DEF RestoreRegs
<1>9. CASE RestoreStack
  BY <1>9 DEF RestoreStack
<1>10. CASE GdbInject
  BY <1>10 DEF GdbInject, Calls
<1>11. CASE GdbAsserts \/ GdbReturns
  BY <1>11 DEF GdbAsserts, GdbReturns
<1>12. CASE \E t \in Threads : ThreadSteps(t)
  BY <1>12 DEF ThreadSteps, Goes, Arrives, HandlerRuns, AdapterRuns, Executes, MayRun
<1>13. CASE \E t \in Threads : SignalStops(t)
  BY <1>13 DEF SignalStops, MayRun
<1>14. CASE ProgramEnds
  BY <1>14 DEF ProgramEnds
<1>15. CASE UNCHANGED vars
  BY <1>15 DEF vars
<1> QED BY <1>1, <1>2, <1>3, <1>4, <1>5, <1>6, <1>7, <1>8, <1>9, <1>10, <1>11, <1>12, <1>13,
        <1>14, <1>15 DEF Next, Controller

\* Each step of exec_shellcode finds what the one before has left, and the steps
\* outwards undo those inwards, whichever way the run ended.
LEMMA PhaseStep == IInv /\ [Next]_vars => PhaseOK'
<1> SUFFICES ASSUME IInv, [Next]_vars PROVE PhaseOK'
  OBVIOUS
<1> USE InjectedAssumption DEF IInv, PhaseOK, AtPrompt, Continuing, GdbRuns, AgnosticRuns, Quiet,
                               InCells, Fresh, Back, Injected, Start, Target, SavedOK,
                               OthersUntouched, LabelsOK, Ranges, Kinds, Agnostic, Cells, Values,
                               None, Read, Filled, LeaveRun, RunsSelected, Stops, Cleared, Empty,
                               program, debugger, command, bounds, history
<1>1. CASE ShowRegisters
  BY <1>1 DEF ShowRegisters
<1>2. CASE Continue \/ ContinueReturns
  BY <1>2 DEF Continue, ContinueReturns, Calls
<1>3. CASE \E k \in Agnostic : Jump(k)
  BY <1>3 DEF Jump, Calls
<1>4. CASE CodeFails
  BY <1>4 DEF CodeFails
<1>5. CASE InjectCode
  BY <1>5, SMTT(30) DEF InjectCode
<1>6. CASE Retry \/ RetryRaises \/ RunEnds
  BY <1>6 DEF Retry, RetryRaises, RunEnds
<1>7. CASE Capture \/ CaptureRaises
  BY <1>7 DEF Capture, CaptureRaises
<1>8. CASE RestoreCode
  BY <1>8 DEF RestoreCode
<1>9. CASE RestoreRegs
  BY <1>9 DEF RestoreRegs
<1>10. CASE RestoreStack
  BY <1>10 DEF RestoreStack
<1>11. CASE GdbInject
  BY <1>11, SMTT(30) DEF GdbInject, Calls
<1>12. CASE GdbAsserts
  BY <1>12 DEF GdbAsserts
<1>13. CASE GdbReturns
  BY <1>13 DEF GdbReturns
<1>14. CASE \E t \in Threads : ThreadSteps(t)
  <2>1. PICK t \in Threads, c \in 0..MappedEnd, v \in Values :
            Goes(t, c, v) \/ Arrives(t, c, v) \/ HandlerRuns(t, c, v) \/ AdapterRuns(t, c, v)
    BY <1>14 DEF ThreadSteps, Values
  <2>2. Executes(t, c, v)
    BY <2>1 DEF Goes, Arrives, HandlerRuns, AdapterRuns
  <2>3. /\ alive /\ at = "running" /\ UNCHANGED <<alive, over, before>>
        /\ loc' = [loc EXCEPT ![t] = c] /\ regs' = [regs EXCEPT ![t] = v]
        /\ stack' \in {"own", "dirty"} /\ steps' \in Nat
        /\ ~mishap => c \in Cells
        /\ mishap => mishap'
        /\ kind # "got" => ~mishap'
        /\ kind \in Agnostic => t = saved.thread
    BY <2>2, Walks
  <2>4. CASE Goes(t, c, v)
    BY <2>3, <2>4 DEF Goes
  <2>5. CASE Arrives(t, c, v)
    BY <2>3, <2>5 DEF Arrives
  <2>6. CASE HandlerRuns(t, c, v)
    BY <2>3, <2>6 DEF HandlerRuns
  <2>7. CASE AdapterRuns(t, c, v)
    BY <2>3, <2>7 DEF AdapterRuns
  <2> QED BY <2>1, <2>4, <2>5, <2>6, <2>7
<1>15. CASE \E t \in Threads : SignalStops(t)
  BY <1>15 DEF SignalStops, MayRun
<1>16. CASE ProgramEnds
  BY <1>16 DEF ProgramEnds
<1>17. CASE UNCHANGED vars
  BY <1>17 DEF vars
<1> QED BY <1>1, <1>2, <1>3, <1>4, <1>5, <1>6, <1>7, <1>8, <1>9, <1>10, <1>11, <1>12, <1>13,
        <1>14, <1>15, <1>16, <1>17 DEF Next, Controller

\* The other variables keep their types; the code stays inside the page.
LEMMA RangesStep == IInv /\ [Next]_vars => Ranges'
<1> SUFFICES ASSUME IInv, [Next]_vars PROVE Ranges'
  OBVIOUS
<1> USE InjectedAssumption DEF IInv, Ranges, Labels, Values, Cells, Kinds, Agnostic, Own, Ret,
                               None, Start, Target, LabelsOK, PhaseOK, AtPrompt, InCells, Read,
                               Filled, LeaveRun, RunsSelected, Stops, Cleared, Empty, program,
                               debugger, command, bounds, history
<1>1. CASE ShowRegisters
  BY <1>1 DEF ShowRegisters
<1>2. CASE Continue \/ ContinueReturns
  BY <1>2 DEF Continue, ContinueReturns, Calls
<1>3. CASE \E k \in Agnostic : Jump(k)
  BY <1>3 DEF Jump, Calls
<1>4. CASE CodeFails
  BY <1>4 DEF CodeFails
<1>5. CASE InjectCode
  <2>1. Start \in Nat /\ Target \in Nat /\ Target + 1 <= MappedEnd
    BY <1>5, InjectedAssumption, SMTT(30) DEF InjectCode
  <2> HIDE DEF Start, Target
  <2>2. over' \subseteq Cells /\ endBp' \in -1..MappedEnd
    BY <1>5, <2>1, InjectedAssumption DEF InjectCode
  <2>3. cache' \in [Threads -> Values \union {None}]
    BY <1>5 DEF InjectCode
  <2> QED BY <1>5, <2>2, <2>3 DEF InjectCode
<1>6. CASE Retry
  BY <1>6 DEF Retry
<1>7. CASE RetryRaises
  BY <1>7 DEF RetryRaises
<1>8. CASE RunEnds
  BY <1>8 DEF RunEnds
<1>9. CASE Capture \/ CaptureRaises
  BY <1>9 DEF Capture, CaptureRaises
<1>10. CASE RestoreCode
  BY <1>10 DEF RestoreCode
<1>11. CASE RestoreRegs
  BY <1>11 DEF RestoreRegs
<1>12. CASE RestoreStack
  BY <1>12 DEF RestoreStack
<1>13. CASE GdbInject
  <2>1. loc[selected] \in Cells
    BY <1>13 DEF GdbInject, Calls
  <2>2. over' \subseteq Cells /\ endBp' \in -1..MappedEnd /\ bps' = {}
    BY <1>13, <2>1, InjectedAssumption, SMTT(30) DEF GdbInject
  <2>3. cache' \in [Threads -> Values \union {None}]
    BY <1>13 DEF GdbInject
  <2>4. Read(cache, selected) \in Values
    OBVIOUS
  <2>5. saved' \in [thread : Threads, loc : Cells, regs : Values]
    BY <1>13, <2>1, <2>4 DEF GdbInject
  <2>6. before' \in [loc : [Threads -> Cells], regs : [Threads -> Values]]
    BY <1>13 DEF GdbInject, Calls
  <2> QED BY <1>13, <2>2, <2>3, <2>5, <2>6 DEF GdbInject, Calls
<1>14. CASE GdbAsserts
  BY <1>14 DEF GdbAsserts
<1>15. CASE GdbReturns
  BY <1>15 DEF GdbReturns
<1>16. CASE \E t \in Threads : ThreadSteps(t)
  <2>1. PICK t \in Threads, c \in 0..MappedEnd, v \in Values :
            Goes(t, c, v) \/ Arrives(t, c, v) \/ HandlerRuns(t, c, v) \/ AdapterRuns(t, c, v)
    BY <1>16 DEF ThreadSteps, Values
  <2>2. Executes(t, c, v)
    BY <2>1 DEF Goes, Arrives, HandlerRuns, AdapterRuns
  <2>3. /\ alive /\ at = "running" /\ UNCHANGED <<alive, over, before>>
        /\ loc' = [loc EXCEPT ![t] = c] /\ regs' = [regs EXCEPT ![t] = v]
        /\ stack' \in {"own", "dirty"} /\ steps' \in Nat
        /\ ~mishap => c \in Cells
        /\ mishap => mishap'
        /\ kind # "got" => ~mishap'
        /\ kind \in Agnostic => t = saved.thread
    BY <2>2, Walks
  <2>4. loc' \in [Threads -> 0..MappedEnd] /\ regs' \in [Threads -> Values]
    BY <2>3
  <2>5. CASE Goes(t, c, v)
    BY <2>3, <2>4, <2>5 DEF Goes
  <2>6. CASE Arrives(t, c, v)
    BY <2>3, <2>4, <2>6 DEF Arrives
  <2>7. CASE HandlerRuns(t, c, v)
    BY <2>3, <2>4, <2>7 DEF HandlerRuns, HandlerView
  <2>8. CASE AdapterRuns(t, c, v)
    <3>1. cache' \in [Threads -> Values \union {None}]
      BY <2>8 DEF AdapterRuns
    <3> QED BY <2>3, <2>4, <2>8, <3>1 DEF AdapterRuns
  <2> QED BY <2>1, <2>5, <2>6, <2>7, <2>8
<1>17. CASE \E t \in Threads : SignalStops(t)
  BY <1>17 DEF SignalStops, MayRun
<1>18. CASE ProgramEnds
  BY <1>18 DEF ProgramEnds
<1>19. CASE UNCHANGED vars
  BY <1>19 DEF vars
<1> QED BY <1>1, <1>2, <1>3, <1>4, <1>5, <1>6, <1>7, <1>8, <1>9, <1>10, <1>11, <1>12, <1>13,
        <1>14, <1>15, <1>16, <1>17, <1>18, <1>19 DEF Next, Controller

\* No handler of a Breakpoint of bpoint.py finds an old value: stop has cleared the cache.
LEMMA HandlersReadStep == Ranges /\ ~staleRead /\ [Next]_vars => ~staleRead'
<1> SUFFICES ASSUME Ranges, ~staleRead, [Next]_vars PROVE ~staleRead'
  OBVIOUS
<1>1. CASE \E t \in Threads : ThreadSteps(t)
  BY <1>1 DEF ThreadSteps, Goes, Arrives, HandlerRuns, AdapterRuns, HandlerView, Empty, None
<1>2. CASE (\E t \in Threads : SignalStops(t)) \/ ProgramEnds \/ UNCHANGED vars
  BY <1>2 DEF SignalStops, ProgramEnds, vars, history
<1>3. CASE Controller
  BY <1>3 DEF Controller, CodeFails, InjectCode, Retry, RetryRaises, RunEnds, Capture,
              CaptureRaises, RestoreCode, RestoreRegs, RestoreStack, GdbAsserts, GdbReturns,
              ContinueReturns, LeaveRun, history
<1>4. CASE ShowRegisters \/ Continue \/ (\E k \in Agnostic : Jump(k)) \/ GdbInject
  BY <1>4 DEF ShowRegisters, Continue, Jump, GdbInject, history
<1> QED BY <1>1, <1>2, <1>3, <1>4 DEF Next

\* An instruction of a thread: that of the thread that is given code brings it one
\* further, and it leaves its result when it gets to the end.
LEMMA Advances ==
    ASSUME IInv, RunOK, NEW t \in Threads, NEW c \in 0..MappedEnd, NEW v \in Values,
           Executes(t, c, v), kind \in Kinds, ~mishap'
    PROVE  LET s == saved.thread
           IN  /\ ~mishap /\ Walked /\ NothingCached
               /\ steps' = loc'[s] - Start /\ loc'[s] \in Start..Target
               /\ t = s => loc'[s] = c /\ (c = Target => regs'[s] = Ret)
               /\ t # s => loc'[s] = loc[s]
<1> DEFINE s == saved.thread
<1>1. alive /\ at = "running" /\ ~mishap
  BY DEF Executes, MayRun
<1>2. Walked /\ NothingCached /\ Injected
  BY <1>1 DEF RunOK, IInv, PhaseOK, GdbRuns, AgnosticRuns, Kinds
<1>3. s \in Threads /\ Start \in Nat /\ Target = Start + BlobLen /\ BlobLen \in Nat
  BY InjectedAssumption DEF IInv, Ranges, Cells, Start, Target
<1>4. loc \in [Threads -> 0..MappedEnd] /\ regs \in [Threads -> Values]
  BY DEF IInv, Ranges
<1>5. loc' = [loc EXCEPT ![t] = c] /\ regs' = [regs EXCEPT ![t] = v]
  BY DEF Executes
<1>6. loc[s] \in Start..(Target - 1)
  BY <1>1, <1>2, <1>3 DEF Walked
<1>7. CASE t = s
  <2>1. loc[t] \in over
    BY <1>2, <1>6, <1>7 DEF Injected
  <2>2. c = loc[t] + 1 /\ steps' = steps + 1 /\ v = (IF c = Target THEN Ret ELSE regs[t])
    BY <2>1 DEF Executes
  <2>3. loc'[s] = c /\ regs'[s] = v
    BY <1>3, <1>4, <1>5, <1>7
  <2>4. steps = loc[s] - Start
    BY <1>2 DEF Walked
  <2> HIDE DEF s
  <2>5. steps' = c - Start /\ c \in Start..Target
    BY <1>3, <1>6, <1>7, <2>2, <2>4
  <2> QED BY <1>1, <1>2, <1>7, <2>2, <2>3, <2>5 DEF s
<1>8. CASE t # s
  <2>1. loc[t] \notin over
    BY <1>8 DEF Executes
  <2>2. steps' = steps
    BY <2>1 DEF Executes
  <2>3. loc'[s] = loc[s]
    BY <1>3, <1>4, <1>5, <1>8
  <2> QED BY <1>1, <1>2, <1>8, <2>2, <2>3 DEF Walked
<1> QED BY <1>7, <1>8

\* The code runs from its start to its end, however often it is stopped and resumed.
LEMMA RunStep == IInv /\ RunOK /\ CaptureOK /\ [Next]_vars => RunOK'
<1> SUFFICES ASSUME IInv, RunOK, CaptureOK, [Next]_vars PROVE RunOK'
  OBVIOUS
<1> USE InjectedAssumption DEF IInv, RunOK, CaptureOK, Walked, NothingCached, Start, Target,
                               PhaseOK, AtPrompt, GdbRuns, AgnosticRuns, Quiet, Injected,
                               LabelsOK, Ranges, Kinds, Agnostic, Cells, Values, None, Read,
                               Filled, LeaveRun, RunsSelected, Stops, Cleared,
                               program, debugger, command, bounds, history
<1>1. CASE ShowRegisters
  BY <1>1 DEF ShowRegisters
<1>2. CASE Continue \/ ContinueReturns
  BY <1>2 DEF Continue, ContinueReturns
<1>3. CASE \E k \in Agnostic : Jump(k)
  BY <1>3 DEF Jump, Calls
<1>4. CASE CodeFails
  BY <1>4 DEF CodeFails
<1>5. CASE InjectCode
  BY <1>5, SMTT(30) DEF InjectCode
<1>6. CASE Retry \/ RetryRaises \/ RunEnds
  <2>1. CASE Retry
    BY <2>1 DEF Retry
  <2>2. CASE RetryRaises
    BY <2>2 DEF RetryRaises
  <2>3. CASE RunEnds
    <3>1. /\ alive /\ reason = "end" /\ at' = "arrived"
          /\ UNCHANGED <<program, kind, saved, cache, tapped, mishap, steps>>
      BY <2>3 DEF RunEnds
    <3>2. CASE mishap
      BY <3>1, <3>2
    <3>3. CASE ~mishap
      <4>1. Walked /\ NothingCached /\ loc[saved.thread] = Target
        BY <2>3, <3>1, <3>3 DEF RunEnds
      <4>2. steps = Target - Start /\ Target = Start + BlobLen /\ Start \in Nat
        BY <4>1
      <4> HIDE DEF Start, Target
      <4>3. steps = BlobLen
        BY <4>2
      <4> QED BY <3>1, <3>3, <4>1, <4>3
    <3> QED BY <3>2, <3>3
  <2> QED BY <1>6, <2>1, <2>2, <2>3
<1>7. CASE Capture \/ CaptureRaises
  BY <1>7 DEF Capture, CaptureRaises
<1>8. CASE RestoreCode
  BY <1>8 DEF RestoreCode
<1>9. CASE RestoreRegs
  BY <1>9 DEF RestoreRegs
<1>10. CASE RestoreStack
  BY <1>10 DEF RestoreStack
<1>11. CASE GdbInject
  BY <1>11 DEF GdbInject, Calls
<1>12. CASE GdbAsserts \/ GdbReturns
  BY <1>12 DEF GdbAsserts, GdbReturns
<1>13. CASE \E t \in Threads : ThreadSteps(t)
  <2>1. PICK t \in Threads, c \in 0..MappedEnd, v \in Values :
            Goes(t, c, v) \/ Arrives(t, c, v) \/ HandlerRuns(t, c, v) \/ AdapterRuns(t, c, v)
    BY <1>13 DEF ThreadSteps, Values
  <2>2. Executes(t, c, v) /\ kind' = kind /\ saved' = saved
    BY <2>1 DEF Goes, Arrives, HandlerRuns, AdapterRuns
  <2>3. CASE mishap' \/ kind \notin Kinds
    BY <2>1, <2>2, <2>3 DEF Goes, Arrives, HandlerRuns, AdapterRuns, Executes, MayRun
  <2>4. CASE ~mishap' /\ kind \in Kinds
    <3> DEFINE s == saved.thread
    <3>1. /\ ~mishap /\ Walked /\ NothingCached
          /\ steps' = loc'[s] - Start /\ loc'[s] \in Start..Target
          /\ t = s => loc'[s] = c /\ (c = Target => regs'[s] = Ret)
          /\ t # s => loc'[s] = loc[s]
      BY <2>2, <2>4, Advances
    <3>2. alive /\ at = "running" /\ alive' = alive /\ loc[s] # Target
      BY <2>2, <3>1 DEF Executes, MayRun
    <3>3. endBp = Target /\ (kind = "got" => bps = {} /\ ~suspended)
      BY <2>4, <3>1, <3>2
    <3>4. kind \in Agnostic => t = s /\ bps = UserBps
      BY <2>2, <3>1, <3>2, Walks
    <3>5. Start' = Start /\ Target' = Target
      BY <2>2
    <3>6. s \in Threads /\ Start \in Nat /\ Target \in Nat
      BY SMTT(30)
    <3>7. CASE Goes(t, c, v)
      BY <2>2, <2>4, <3>1, <3>2, <3>3, <3>4, <3>5, <3>7 DEF Goes
    <3>8. CASE Arrives(t, c, v)
      BY <2>2, <2>4, <3>1, <3>2, <3>3, <3>4, <3>5, <3>8 DEF Arrives
    <3>9. CASE HandlerRuns(t, c, v) \/ AdapterRuns(t, c, v)
      <4>1. kind # "got"
        BY <3>3, <3>9 DEF HandlerRuns, AdapterRuns
      <4>2. kind \in Agnostic /\ suspended
        BY <2>4, <3>1, <3>2, <4>1
      <4>3. tapped' /\ at' = "running" /\ UNCHANGED <<suspended, kind, saved>>
        BY <3>2, <3>9, <4>2 DEF HandlerRuns, AdapterRuns
      <4>4. loc'[s] # Target
        BY <3>1, <3>2, <3>3, <3>9 DEF HandlerRuns, AdapterRuns
      <4> QED BY <2>2, <3>1, <3>2, <3>5, <4>1, <4>2, <4>3, <4>4
    <3> QED BY <2>1, <3>7, <3>8, <3>9
  <2> QED BY <2>3, <2>4
<1>14. CASE \E t \in Threads : SignalStops(t)
  BY <1>14 DEF SignalStops, MayRun
<1>15. CASE ProgramEnds
  BY <1>15 DEF ProgramEnds
<1>16. CASE UNCHANGED vars
  BY <1>16 DEF vars
<1> QED BY <1>1, <1>2, <1>3, <1>4, <1>5, <1>6, <1>7, <1>8, <1>9, <1>10, <1>11, <1>12, <1>13,
        <1>14, <1>15, <1>16 DEF Next, Controller

\* The caller reads the result when the code has ended, and never again.
LEMMA CaptureStep ==
    IInv /\ RunOK /\ CaptureOK /\ ResultIsOurs /\ [Next]_vars => CaptureOK' /\ ResultIsOurs'
<1> SUFFICES ASSUME IInv, RunOK, CaptureOK, ResultIsOurs, [Next]_vars
             PROVE CaptureOK' /\ ResultIsOurs'
  OBVIOUS
<1> USE InjectedAssumption DEF IInv, RunOK, CaptureOK, ResultIsOurs, NothingCached, Empty, Start,
                               Target, PhaseOK, AgnosticRuns, GdbRuns, LabelsOK, Ranges, Kinds,
                               Agnostic, None, Ret, Own, Read, LeaveRun, RunsSelected, Stops,
                               program, debugger, command, bounds, history
<1>1. CASE ShowRegisters
  BY <1>1 DEF ShowRegisters
<1>2. CASE Continue \/ ContinueReturns
  BY <1>2 DEF Continue, ContinueReturns
<1>3. CASE \E k \in Agnostic : Jump(k)
  BY <1>3 DEF Jump, Calls
<1>4. CASE CodeFails \/ InjectCode
  BY <1>4 DEF CodeFails, InjectCode
<1>5. CASE Retry \/ RetryRaises \/ RunEnds
  BY <1>5 DEF Retry, RetryRaises, RunEnds
<1>6. CASE Capture \/ CaptureRaises
  BY <1>6 DEF Capture, CaptureRaises
<1>7. CASE RestoreCode
  BY <1>7 DEF RestoreCode
<1>8. CASE RestoreRegs
  BY <1>8 DEF RestoreRegs
<1>9. CASE RestoreStack
  BY <1>9 DEF RestoreStack
<1>10. CASE GdbInject
  BY <1>10 DEF GdbInject, Calls
<1>11. CASE GdbAsserts
  BY <1>11 DEF GdbAsserts
<1>12. CASE GdbReturns
  <2>1. CaptureOK'
    BY <1>12 DEF GdbReturns
  <2>2. ResultIsOurs'
    <3> SUFFICES ASSUME ~mishap', ~tapped' PROVE captured' = Ret /\ steps' = BlobLen
      OBVIOUS
    <3>1. alive /\ ~mishap /\ selected = saved.thread /\ loc[selected] = Target
      BY <1>12 DEF GdbReturns
    <3>2. Walked /\ cache = Empty /\ tapped' = tapped
      BY <1>12, <3>1 DEF GdbReturns
    <3>3. steps = Target - Start /\ regs[selected] = Ret
      BY <3>1, <3>2 DEF Walked
    <3>4. Target = Start + BlobLen /\ Start \in Nat
      BY DEF Cells
    <3>5. captured' = Ret /\ steps' = steps
      BY <1>12, <3>2, <3>3 DEF GdbReturns
    <3> HIDE DEF Start, Target
    <3> QED BY <3>3, <3>4, <3>5
  <2> QED BY <2>1, <2>2
<1>13. CASE \E t \in Threads : ThreadSteps(t)
  BY <1>13 DEF ThreadSteps, Goes, Arrives, HandlerRuns, AdapterRuns, Executes, MayRun
<1>14. CASE \E t \in Threads : SignalStops(t)
  BY <1>14 DEF SignalStops, MayRun
<1>15. CASE ProgramEnds
  BY <1>15 DEF ProgramEnds
<1>16. CASE UNCHANGED vars
  BY <1>16 DEF vars
<1> QED BY <1>1, <1>2, <1>3, <1>4, <1>5, <1>6, <1>7, <1>8, <1>9, <1>10, <1>11, <1>12, <1>13,
        <1>14, <1>15, <1>16 DEF Next, Controller

-----------------------------------------------------------------------------
\* The initial states.
LEMMA InitHolds == Init => Flags /\ IInv /\ ~staleRead
<1>1. Init => Flags /\ ~staleRead
  BY Zenon DEF Init, Flags
<1> SUFFICES ASSUME Init PROVE IInv
  BY <1>1
<1>2. Ranges
  BY InjectedAssumption DEF Init, Ranges, Values, Cells, Labels, Kinds, Agnostic, Own, Ret, None,
                            Empty
<1>3. LabelsOK /\ SavedOK /\ OthersUntouched
  BY DEF Init, LabelsOK, SavedOK, OthersUntouched, Kinds, Agnostic, None
<1>4. PhaseOK
  BY DEF Init, PhaseOK, AtPrompt, Continuing, GdbRuns, AgnosticRuns, Quiet, InCells, Fresh,
         Kinds, Agnostic, None, Empty
<1> QED BY <1>2, <1>3, <1>4 DEF IInv

\* The inductive invariant.
LEMMA Inductive == Spec => []IInv
<1>1. IInv /\ [Next]_vars => IInv'
  BY RangesStep, LabelsStep, SavedStep, OthersStep, PhaseStep DEF IInv
<1> QED BY <1>1, InitHolds, PTL DEF Spec

\* Every variable keeps its type.
THEOREM TypeCorrect == Spec => []TypeOK
<1>1. Spec => []Flags
  BY InitHolds, FlagsStep, PTL DEF Spec
<1>2. IInv => Ranges
  BY DEF IInv
<1>3. Flags /\ Ranges => TypeOK
  BY Zenon DEF Flags, Ranges, Values, TypeOK
<1> QED BY <1>1, <1>2, <1>3, Inductive, PTL

\* No other thread runs while the selected one runs the injected code, however
\* often the run is interrupted and resumed.
THEOREM OthersStay == Spec => []OthersUntouched
<1>1. IInv => OthersUntouched
  BY DEF IInv
<1> QED BY <1>1, Inductive, PTL

\* A live program is at the prompt as it was, for any code, page, breakpoints,
\* threads, signals and number of commands.
THEOREM ProgramComesBack == Spec => []ProgramIsBack
<1>1. IInv => ProgramIsBack
  BY DEF IInv, PhaseOK, AtPrompt, Quiet, Back, SavedOK, ProgramIsBack
<1> QED BY <1>1, Inductive, PTL

\* Neither a command at the prompt nor the handler of a Breakpoint of bpoint.py, which
\* clears the cache first, reads a register that has changed since it was cached.
THEOREM CacheIsFresh == Spec => []NothingStale
<1>1. IInv => Ranges
  BY DEF IInv
<1>2. Spec => []~staleRead
  BY <1>1, InitHolds, HandlersReadStep, Inductive, PTL DEF Spec
<1>3. IInv /\ ~staleRead => NothingStale
  BY DEF IInv, PhaseOK, AtPrompt, Fresh, NothingStale
<1> QED BY <1>2, <1>3, Inductive, PTL

\* What the caller of exec_shellcode gets is what the injected code left when all of
\* it had run once, for any code and any stops in the middle, unless a stop handler
\* has read the register while events were suspended.
THEOREM ResultComesFromTheCode == Spec => []ResultIsOurs
<1>1. Init => RunOK /\ CaptureOK /\ ResultIsOurs
  BY DEF Init, RunOK, CaptureOK, ResultIsOurs, None
<1>2. IInv /\ (RunOK /\ CaptureOK /\ ResultIsOurs) /\ [Next]_vars
        => (RunOK /\ CaptureOK /\ ResultIsOurs)'
  BY RunStep, CaptureStep
<1> QED BY <1>1, <1>2, Inductive, PTL DEF Spec
=============================================================================
