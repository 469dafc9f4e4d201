---------------------------- MODULE InjectedCode ----------------------------
(***************************************************************************)
(* Code that pwndbg makes the program run: machine code is written over    *)
(* the program's own, the selected thread runs it up to a breakpoint, and  *)
(* the code and the registers are put back.  Registers are read through a  *)
(* cache that stop events and writes clear.                                *)
(*                                                                         *)
(*   exec_syscall, exec_shellcode   src/pwndbg/aglib/shellcode.py          *)
(*   exec_shellcode_with_stack      src/pwndbg/commands/hijack_fd.py       *)
(*   exec_shellcode of GDB          src/pwndbg/gdblib/shellcode.py         *)
(*   cache_until, clear             src/pwndbg/lib/cache.py                *)
(*                                                                         *)
(* Cells are instructions of two pages of code, one after the other; what    *)
(* comes after them is not mapped.                                          *)
(***************************************************************************)
EXTENDS Integers, FiniteSets

CONSTANTS
    Threads,
    PageEnd,      \* cells of the first page
    MappedEnd,    \* cells of both pages
    BlobLen,      \* instructions of the injected code
    UserBps,      \* cells with a breakpoint of the user
    MaxCalls,     \* bound on the commands of the user
    MaxSignals    \* bound on the signals that stop the program

ASSUME InjectedAssumption ==
    /\ MappedEnd \in Nat /\ PageEnd \in 0..MappedEnd /\ BlobLen \in Nat \ {0}
    /\ UserBps \subseteq 0..MappedEnd - 1
    /\ {MaxCalls, MaxSignals} \subseteq Nat

Cells == 0..MappedEnd - 1
Own == {"x", "y"}           \* register values of the program's making
Ret == "ret"                \* what the injected code leaves in the registers
None == "none"
Agnostic == {"syscall", "hijack"}     \* exec_syscall and hijack-fd
Kinds == Agnostic \union {"got"}

VARIABLES
    \* The program.
    alive, over,    \* cells that hold injected code
    loc, regs,      \* of each thread: program counter, the other registers
    stack,          \* what is below the stack pointer: "own", "dirty"
    \* The debugger.
    selected,       \* the selected thread
    bps,            \* enabled breakpoints of the user
    endBp,          \* target of a call whose breakpoint exists, or -1
    locked,         \* scheduler locking
    suspended,      \* SUSPEND_ALL
    cache,          \* of read_reg_in_frame, by thread
    \* The command.
    at, kind,
    saved,          \* thread and registers that exec_shellcode puts back
    captured,       \* what the caller got from the injected code
    reason,         \* of the last stop: "end", "other"
    calls, signals,
    \* History.
    before,         \* where the threads were, and their registers, at the start
    steps,          \* instructions of the injected code that ran
    tapped,         \* a stop handler read a register during the run
    staleRead,      \* a handler that clears the cache read another value than
                    \* the register's
    mishap          \* exec_shellcode of GDB failed: the session is not followed on

program == <<alive, over, loc, regs, stack>>
debugger == <<selected, bps, endBp, locked, suspended, cache>>
command == <<kind, saved, captured>>
bounds == <<calls, signals>>
history == <<before, steps, tapped, staleRead, mishap>>
vars == <<program, debugger, at, command, reason, bounds, history>>

Labels == {"prompt", "jumped", "running", "stopped", "arrived", "restore_code",
           "restore_regs", "restore_stack"}
Empty == [t \in Threads |-> None]

Init ==
    /\ alive = TRUE /\ over = {} /\ stack = "own"
    /\ loc \in [Threads -> Cells] /\ regs = [t \in Threads |-> "x"]
    /\ selected \in Threads
    /\ bps = UserBps /\ endBp = -1 /\ locked = FALSE /\ suspended = FALSE
    /\ cache = Empty
    /\ at = "prompt" /\ kind = None /\ captured = None /\ reason = "other"
    /\ saved = [thread |-> selected, loc |-> 0, regs |-> "x"]
    /\ before = [loc |-> loc, regs |-> regs]
    /\ calls = 0 /\ signals = 0
    /\ steps = 0 /\ tapped = FALSE /\ staleRead = FALSE /\ mishap = FALSE

TypeOK ==
    /\ alive \in BOOLEAN /\ over \subseteq Cells /\ stack \in {"own", "dirty"}
    /\ loc \in [Threads -> 0..MappedEnd] /\ regs \in [Threads -> Own \union {Ret}]
    /\ selected \in Threads /\ bps \subseteq UserBps /\ endBp \in -1..MappedEnd
    /\ locked \in BOOLEAN /\ suspended \in BOOLEAN
    /\ cache \in [Threads -> Own \union {Ret, None}]
    /\ at \in Labels /\ kind \in Kinds \union {None, "cont"}
    /\ saved \in [thread : Threads, loc : Cells, regs : Own \union {Ret}]
    /\ before \in [loc : [Threads -> Cells], regs : [Threads -> Own \union {Ret}]]
    /\ captured \in Own \union {Ret, None} /\ reason \in {"end", "other"}
    /\ steps \in Nat /\ {tapped, staleRead, mishap} \subseteq BOOLEAN

-----------------------------------------------------------------------------
(* The cache.                                                               *)

\* An event that clears the cache is delivered, unless events are suspended.
Cleared == IF suspended THEN cache ELSE Empty

\* decorator: the value in the cache, or else the register, which it then holds.
Read(c, t) == IF c[t] # None THEN c[t] ELSE regs[t]
Filled(c, t) == [c EXCEPT ![t] = Read(c, t)]

\* A command of the user reads the registers of the selected thread.
ShowRegisters ==
    /\ at = "prompt" /\ alive
    /\ cache' = Filled(cache, selected)
    /\ UNCHANGED <<program, selected, bps, endBp, locked, suspended, at, command, reason,
                   bounds, history>>

-----------------------------------------------------------------------------
(* The program runs.                                                        *)

\* Where the injected code starts, and where its breakpoint is.
Start == IF kind = "got" THEN saved.loc ELSE saved.loc + 1
Target == Start + BlobLen

MayRun(t) == at = "running" /\ alive /\ (locked => t = selected)

\* The next instruction of t leads to cell c and leaves v in its registers.
Executes(t, c, v) ==
    /\ MayRun(t)
    /\ IF loc[t] \in over
       THEN /\ c = loc[t] + 1
            /\ v = IF c = Target THEN Ret ELSE regs[t]
            /\ stack' \in {stack, "dirty"}
            /\ steps' = steps + 1
            /\ mishap' = (mishap \/ t # saved.thread)
       ELSE c \in Cells /\ v \in Own /\ UNCHANGED <<stack, steps, mishap>>
    /\ loc' = [loc EXCEPT ![t] = c]
    /\ regs' = [regs EXCEPT ![t] = v]
    /\ UNCHANGED <<alive, over, before>>

\* GDB stops for a breakpoint where a thread arrives.
Stops(t, why) ==
    /\ at' = "stopped" /\ reason' = why
    /\ selected' = t
    /\ cache' = Cleared

Goes(t, c, v) ==
    /\ Executes(t, c, v)
    /\ c # endBp /\ c \notin bps
    /\ UNCHANGED <<debugger, at, command, reason, bounds, tapped, staleRead>>

Arrives(t, c, v) ==
    /\ Executes(t, c, v)
    /\ c = endBp \/ c \in bps
    /\ Stops(t, IF c = endBp THEN "end" ELSE "other")
    /\ UNCHANGED <<bps, endBp, locked, suspended, command, bounds, tapped, staleRead>>

\* Variant: the handler does not clear the cache first.
HandlerViewKept == cache

\* The cache as the handler of a Breakpoint of bpoint.py finds it: stop clears it.
HandlerView == Empty

\* A conditional breakpoint of that class: its handler reads a register and lets
\* the program go on.  GDB sends no stop event.
HandlerRuns(t, c, v) ==
    /\ Executes(t, c, v)
    /\ c # endBp /\ c \in bps
    /\ LET value == IF HandlerView[t] # None THEN HandlerView[t] ELSE v
       IN /\ cache' = [HandlerView EXCEPT ![t] = value]
          /\ staleRead' = (staleRead \/ value # v)
    /\ tapped' = (tapped \/ suspended)
    /\ UNCHANGED <<selected, bps, endBp, locked, suspended, at, command, reason, bounds>>

\* A breakpoint of break_at or trace_ret: its adapter clears nothing, and the
\* handler may read what was cached at an earlier stop.
AdapterRuns(t, c, v) ==
    /\ Executes(t, c, v)
    /\ c # endBp /\ c \in bps
    /\ cache' = [cache EXCEPT ![t] = IF @ # None THEN @ ELSE v]
    /\ tapped' = (tapped \/ suspended)
    /\ UNCHANGED <<selected, bps, endBp, locked, suspended, at, command, reason, bounds,
                   staleRead>>

\* A signal, Ctrl-C included, stops the program.
SignalStops(t) ==
    /\ MayRun(t)
    /\ signals < MaxSignals /\ signals' = signals + 1
    /\ Stops(t, "other")
    /\ UNCHANGED <<program, bps, endBp, locked, suspended, command, calls, history>>

\* The program ends; there is no stop event.
ProgramEnds ==
    /\ at = "running" /\ alive
    /\ alive' = FALSE
    /\ at' = "stopped" /\ reason' = "other"
    /\ UNCHANGED <<over, loc, regs, stack, debugger, command, bounds, history>>

ThreadSteps(t) ==
    \E c \in 0..MappedEnd, v \in Own \union {Ret} :
        Goes(t, c, v) \/ Arrives(t, c, v) \/ HandlerRuns(t, c, v) \/ AdapterRuns(t, c, v)

-----------------------------------------------------------------------------
(* The user continues the program.                                          *)

Continue ==
    /\ at = "prompt" /\ alive /\ ~mishap
    /\ calls < MaxCalls /\ calls' = calls + 1
    /\ kind' = "cont" /\ captured' = None
    /\ at' = "running"
    /\ UNCHANGED <<program, debugger, saved, reason, signals, history>>

ContinueReturns ==
    /\ at = "stopped" /\ kind = "cont"
    /\ at' = "prompt"
    /\ UNCHANGED <<program, debugger, command, reason, bounds, history>>

-----------------------------------------------------------------------------
(* exec_shellcode, debugger-agnostic: nested context managers.              *)

Calls(k) ==
    /\ at = "prompt" /\ alive /\ ~mishap
    /\ calls < MaxCalls /\ calls' = calls + 1
    /\ kind' = k /\ captured' = None
    /\ before' = [loc |-> loc, regs |-> regs]
    /\ stack' = "own"
    /\ steps' = 0
    /\ tapped' = FALSE
    /\ UNCHANGED signals

\* _ctx_registers: the registers are saved, and the program counter goes past
\* the current instruction.
Jump(k) ==
    /\ Calls(k)
    /\ saved' = [thread |-> selected, loc |-> loc[selected], regs |-> regs[selected]]
    /\ loc' = [loc EXCEPT ![selected] = @ + 1]
    /\ cache' = Cleared
    /\ at' = "jumped"
    /\ UNCHANGED <<alive, over, regs, selected, bps, endBp, locked, suspended, reason,
                   staleRead, mishap>>

\* _ctx_code: the page is too short, or the code cannot be written.
CodeFails ==
    /\ at = "jumped"
    /\ at' = "restore_regs"
    /\ UNCHANGED <<program, debugger, command, reason, bounds, history>>

\* Variant: threads are not locked.
RunsAll == at' = "running" /\ locked' = FALSE

\* cont_selected_thread.
RunsSelected == at' = "running" /\ locked' = TRUE

\* _ctx_code and _execute_until_addr.  The page holds the code and one byte more.
InjectCode ==
    /\ at = "jumped"
    /\ Target + 1 <= IF Start < PageEnd THEN PageEnd ELSE MappedEnd
    /\ over' = Start..(Target - 1)
    /\ cache' = Cleared
    /\ suspended' = TRUE
    /\ endBp' = Target
    /\ RunsSelected
    /\ UNCHANGED <<alive, loc, regs, stack, selected, bps, command, reason, bounds, history>>

\* A CancelledError: "we're supposed to ignore any breakpoints that aren't the
\* one we put at the end of the range, so just retry".
Retry ==
    /\ at = "stopped" /\ kind \in Agnostic
    /\ reason = "other" /\ alive
    /\ RunsSelected
    /\ UNCHANGED <<program, selected, bps, endBp, suspended, cache, command, reason, bounds,
                   history>>

\* The breakpoint is removed, events are delivered again.
LeaveRun(l) ==
    /\ at' = l
    /\ endBp' = -1 /\ locked' = FALSE /\ suspended' = FALSE
    /\ UNCHANGED <<program, selected, bps, cache, command, reason, bounds, history>>

\* Variant: any exception is taken for a cancellation.
RetryRaisesNever ==
    /\ at = "stopped" /\ kind \in Agnostic
    /\ ~alive
    /\ at' = "running"
    /\ UNCHANGED <<program, debugger, command, reason, bounds, history>>

\* There is no program to continue.
RetryRaises ==
    /\ at = "stopped" /\ kind \in Agnostic
    /\ ~alive
    /\ LeaveRun("restore_code")

\* Variant: any stop is taken for the end of the run.
RunEndsAnywhere ==
    /\ at = "stopped" /\ kind \in Agnostic
    /\ alive
    /\ LeaveRun("arrived")

\* The stop is at the breakpoint the coroutine waits for.
RunEnds ==
    /\ at = "stopped" /\ kind \in Agnostic
    /\ reason = "end" /\ alive
    /\ LeaveRun("arrived")

\* The caller reads the result.
Capture ==
    /\ at = "arrived"
    /\ captured' = Read(cache, selected)
    /\ cache' = Filled(cache, selected)
    /\ at' = "restore_code"
    /\ UNCHANGED <<program, selected, bps, endBp, locked, suspended, kind, saved, reason,
                   bounds, history>>

\* The caller raises.
CaptureRaises ==
    /\ at = "arrived"
    /\ at' = "restore_code"
    /\ UNCHANGED <<program, debugger, command, reason, bounds, history>>

\* The writes fail if the program is gone; the exception goes on outwards.
RestoreCode ==
    /\ at = "restore_code"
    /\ over' = IF alive THEN {} ELSE over
    /\ cache' = IF alive THEN Cleared ELSE cache
    /\ at' = "restore_regs"
    /\ UNCHANGED <<alive, loc, regs, stack, selected, bps, endBp, locked, suspended, command,
                   reason, bounds, history>>

\* Variant: the registers are put back after a normal return only.
RestoreRegsIfCaptured ==
    /\ at = "restore_regs"
    /\ IF alive /\ captured # None
       THEN /\ loc' = [loc EXCEPT ![selected] = saved.loc]
            /\ regs' = [regs EXCEPT ![selected] = saved.regs]
            /\ cache' = Cleared
       ELSE UNCHANGED <<loc, regs, cache>>
    /\ at' = IF kind = "hijack" THEN "restore_stack" ELSE "prompt"
    /\ UNCHANGED <<alive, over, stack, selected, bps, endBp, locked, suspended, command,
                   reason, bounds, history>>

RestoreRegs ==
    /\ at = "restore_regs"
    /\ IF alive
       THEN /\ loc' = [loc EXCEPT ![selected] = saved.loc]
            /\ regs' = [regs EXCEPT ![selected] = saved.regs]
            /\ cache' = Cleared
       ELSE UNCHANGED <<loc, regs, cache>>
    /\ at' = IF kind = "hijack" THEN "restore_stack" ELSE "prompt"
    /\ UNCHANGED <<alive, over, stack, selected, bps, endBp, locked, suspended, command,
                   reason, bounds, history>>

\* exec_shellcode_with_stack.
RestoreStack ==
    /\ at = "restore_stack"
    /\ stack' = IF alive THEN "own" ELSE stack
    /\ cache' = IF alive THEN Cleared ELSE cache
    /\ at' = "prompt"
    /\ UNCHANGED <<alive, over, loc, regs, selected, bps, endBp, locked, suspended, command,
                   reason, bounds, history>>

-----------------------------------------------------------------------------
(* exec_shellcode of GDB, as the GOT tracker calls it: every thread runs,   *)
(* events are delivered, the user's breakpoints are disabled meanwhile.     *)

\* The check of the room forgets where the code starts: it may go on in the next
\* page.  If that is not mapped the program's own code cannot be read, and nothing
\* changes.  Registers are read through the cache.
GdbInject ==
    /\ Calls("got")
    /\ saved' = [thread |-> selected, loc |-> loc[selected], regs |-> Read(cache, selected)]
    /\ loc[selected] + BlobLen <= MappedEnd
    /\ over' = loc[selected]..(loc[selected] + BlobLen - 1)
    /\ cache' = Cleared
    /\ bps' = {}
    /\ endBp' = loc[selected] + BlobLen
    /\ IF endBp' \in Cells
       THEN at' = "running" /\ mishap' = mishap
       ELSE at' = "prompt" /\ mishap' = TRUE    \* the breakpoint cannot be inserted
    /\ UNCHANGED <<alive, loc, regs, selected, locked, suspended, reason, staleRead>>

\* The assertion that the program counter is at the target.
GdbAsserts ==
    /\ at = "stopped" /\ kind = "got"
    /\ ~alive \/ loc[selected] # Target
    /\ bps' = UserBps
    /\ mishap' = TRUE
    /\ at' = "prompt"
    /\ UNCHANGED <<program, selected, endBp, locked, suspended, cache, command, reason,
                   bounds, before, steps, tapped, staleRead>>

GdbReturns ==
    /\ at = "stopped" /\ kind = "got"
    /\ alive /\ loc[selected] = Target
    /\ bps' = UserBps
    /\ endBp' = -1
    /\ captured' = Read(cache, selected)
    /\ over' = {}
    /\ loc' = [loc EXCEPT ![selected] = saved.loc]
    /\ regs' = [regs EXCEPT ![selected] = saved.regs]
    /\ cache' = Cleared
    /\ mishap' = (mishap \/ selected # saved.thread)
    /\ at' = "prompt"
    /\ UNCHANGED <<alive, stack, selected, locked, suspended, kind, saved, reason, bounds,
                   before, steps, tapped, staleRead>>

-----------------------------------------------------------------------------
Controller ==
    \/ CodeFails \/ InjectCode \/ Retry \/ RetryRaises \/ RunEnds
    \/ Capture \/ CaptureRaises \/ RestoreCode \/ RestoreRegs \/ RestoreStack
    \/ GdbAsserts \/ GdbReturns \/ ContinueReturns

Next ==
    \/ ShowRegisters \/ Continue \/ (\E k \in Agnostic : Jump(k)) \/ GdbInject
    \/ Controller
    \/ \E t \in Threads : ThreadSteps(t) \/ SignalStops(t)
    \/ ProgramEnds

Spec == Init /\ [][Next]_vars

\* The thread that is given code runs its next instruction.
CodeSteps ==
    LET t == saved.thread
    IN /\ loc[t] \in over
       /\ \E v \in {regs[t], Ret} :
             \/ Goes(t, loc[t] + 1, v) \/ Arrives(t, loc[t] + 1, v)
             \/ HandlerRuns(t, loc[t] + 1, v) \/ AdapterRuns(t, loc[t] + 1, v)

\* pwndbg runs, and so does the thread that is given code: it has to be code
\* "that will (1) terminate".  Nothing else of the program need run.
FairSpec == Spec /\ WF_vars(Controller) /\ WF_vars(CodeSteps)

-----------------------------------------------------------------------------
(* Properties.                                                              *)

\* Whatever happened on the way, a live program is at the prompt as it was when
\* it was given code to run: its code, the registers and the place of each thread
\* that ran only then, the user's breakpoints, the stack if it was saved;
\* and nothing of the call is left in the debugger.  (GDB's own exec_shellcode
\* puts nothing back if the program stops elsewhere: a mishap.)
ProgramIsBack ==
    at = "prompt" /\ alive /\ ~mishap =>
        /\ over = {}
        /\ bps = UserBps /\ endBp = -1 /\ ~locked /\ ~suspended
        /\ kind \in Kinds =>
              /\ selected = saved.thread
              /\ loc[selected] = before.loc[selected]
              /\ regs[selected] = before.regs[selected]
        /\ kind = "hijack" => stack = "own"

\* No other thread runs, through the injected code or elsewhere, while the
\* selected one runs it.
OthersUntouched ==
    at # "prompt" /\ kind \in Agnostic =>
        \A t \in Threads \ {saved.thread} :
            loc[t] = before.loc[t] /\ regs[t] = before.regs[t]

\* What the caller gets is what the injected code left, after all of it has run
\* once, however often the run was interrupted.  (Events are suspended: a
\* stop handler that reads the register in the middle leaves it in the cache.)
ResultIsOurs ==
    captured # None /\ kind \in Kinds /\ ~mishap /\ ~tapped =>
        captured = Ret /\ steps = BlobLen

\* No command of pwndbg, and no handler of a Breakpoint of bpoint.py, reads a
\* register that has changed since it was cached.  (The handlers that break_at and
\* trace_ret install in GDB do: their adapters clear nothing.)
NothingStale ==
    /\ ~staleRead
    /\ at = "prompt" /\ alive /\ ~mishap =>
          \A t \in Threads : cache[t] # None => cache[t] = regs[t]

\* A program that was given code to run gives the prompt back, even if it ends.
CommandReturns == (at # "prompt" /\ kind \in Kinds) ~> at = "prompt"
=============================================================================
