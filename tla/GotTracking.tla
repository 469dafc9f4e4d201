----------------------------- MODULE GotTracking -----------------------------
(***************************************************************************)
(* GOT call tracking.  Each jump slot of the program's GOTs is made to     *)
(* hold the address of a trap; a breakpoint on the trap (Tracker) counts   *)
(* the call and moves the program counter to the real target, and a        *)
(* watchpoint on the slot (Patcher) takes over what the program writes.    *)
(* Traps come from an allocator of blocks that the program itself maps     *)
(* and unmaps, by an injected system call that lets its other threads run  *)
(* with every breakpoint disabled.                                         *)
(*                                                                         *)
(* src/pwndbg/gdblib/got.py, commands/got_tracking.py, gdblib/shellcode.py *)
(***************************************************************************)
EXTENDS Integers, Sequences, FiniteSets, SequencesExt

CONSTANTS
    SlotCount,      \* number of jump slots, numbered in link map order
    Threads,
    Bases,          \* addresses mmap may return
    BlockCapacity,  \* TrapAllocator.block_capacity, 4096 in the code
    MaxEnables      \* bound on the times the user enables tracking

\* A block that mmap maps lies apart from the program's code.
ASSUME TrackingAssumption ==
    /\ SlotCount \in Nat /\ MaxEnables \in Nat
    /\ BlockCapacity \in Nat \ {0}
    /\ Bases \intersect {"stub", "func"} = {}

Slot == 1..SlotCount

App == <<"app">>           \* outside every call through the GOT
Lost == <<"lost">>         \* executing what is not code
Zero == <<"zero">>         \* the null pointer
Stub(s) == <<"stub", s>>   \* the resolver stub a slot points to at first
Func(s) == <<"func", s>>   \* the function it is bound to
Trap == Bases \X (0..BlockCapacity - 1)
Code == {Stub(s) : s \in Slot} \union {Func(s) : s \in Slot}

VARIABLES
    \* The program.
    status,      \* "none", "stopped", "running"; "syscall" inside exec_syscall
    loaded,      \* number of slots whose objects are loaded
    entry,       \* the value in each slot
    linked,      \* what the program itself stored there last
    pc,          \* where each thread is: App, in Code, in Trap, or Lost
    mapped,      \* blocks that are mapped in the program
    \* pwndbg.
    tracking,    \* GOT_TRACKING
    installed,   \* slots in INSTALLED_WATCHPOINTS
    trap,        \* Tracker.trapped_address, or Zero
    target,      \* Tracker.target, or Zero
    blocks,      \* TrapAllocator.blocks
    occupancy,   \* TrapAllocator.current_block_occupancy
    vacant,      \* TrapAllocator.vacant_slots
    occupied,    \* TrapAllocator.occupied_slots
    op,          \* command in progress: "none", "enable", "disable"
    \* History.
    enables,     \* times tracking was enabled in this process
    failed,      \* a system call failed
    stale        \* the process ended with blocks or trackers in place

program == <<status, loaded, entry, linked, pc, mapped>>
allocator == <<blocks, occupancy, vacant, occupied>>
tracker == <<tracking, installed, trap, target>>
history == <<enables, failed, stale>>
vars == <<program, allocator, tracker, op, history>>

Init ==
    /\ status = "running"
    /\ loaded \in 1..SlotCount
    /\ entry = [s \in Slot |-> Stub(s)]
    /\ linked = entry
    /\ pc = [t \in Threads |-> App]
    /\ mapped = {}
    /\ tracking = FALSE
    /\ installed = {}
    /\ trap = [s \in Slot |-> Zero] /\ target = [s \in Slot |-> Zero]
    /\ blocks = <<>> /\ occupancy = 0 /\ vacant = <<>> /\ occupied = {}
    /\ op = "none"
    /\ enables = 0 /\ failed = FALSE /\ stale = FALSE

-----------------------------------------------------------------------------
(* The program.  exec_shellcode continues every thread, with breakpoints    *)
(* disabled.                                                                *)

\* Bound: one fault, a system call that fails or a process that ends while pwndbg
\* keeps traps in it.
FaultLeft == ~failed /\ ~stale

Runs == status \in {"running", "syscall"}
Armed == status = "running"

\* GDB cannot insert a breakpoint on a trap that is not mapped, and does not resume.
Insertable == \A s \in installed : trap[s][1] \in mapped

Moves(t, to) == pc' = [pc EXCEPT ![t] = to]

Call(t, s) ==
    /\ Runs /\ pc[t] = App
    /\ s <= loaded
    /\ Moves(t, entry[s])
    /\ UNCHANGED <<status, loaded, entry, linked, mapped, allocator, tracker, op, history>>

\* The dynamic linker binds the slot and enters the function.
Bind(t, s) ==
    /\ Runs /\ pc[t] = Stub(s)
    /\ entry' = [entry EXCEPT ![s] = Func(s)]
    /\ linked' = [linked EXCEPT ![s] = Func(s)]
    /\ Moves(t, Func(s))
    /\ UNCHANGED <<status, loaded, mapped, allocator, tracker, op, history>>

Leave(t, s) ==
    /\ Runs /\ pc[t] = Func(s)
    /\ Moves(t, App)
    /\ UNCHANGED <<status, loaded, entry, linked, mapped, allocator, tracker, op, history>>

\* A trap without a breakpoint is empty memory, or none.
RunAway(t) ==
    /\ Runs
    /\ pc[t] \in Trap
    /\ ~(Armed /\ \E s \in installed : trap[s] = pc[t])
    /\ Moves(t, Lost)
    /\ UNCHANGED <<status, loaded, entry, linked, mapped, allocator, tracker, op, history>>

\* dlopen: the tracker is not told, the link map hook is disabled.
Load ==
    /\ Runs
    /\ loaded < SlotCount
    /\ loaded' = loaded + 1
    /\ UNCHANGED <<status, entry, linked, pc, mapped, allocator, tracker, op, history>>

-----------------------------------------------------------------------------
(* Stop handlers.                                                           *)

\* Tracker.should_stop: "divert execution back to the real jump target".
TrackerShouldStop(t, s) ==
    /\ Armed
    /\ s \in installed /\ pc[t] = trap[s]
    /\ Moves(t, IF target[s] = Zero THEN Lost ELSE target[s])
    /\ UNCHANGED <<status, loaded, entry, linked, mapped, allocator, tracker, op, history>>

\* Variant: the slot is patched and the tracker keeps its first target.
PatchedKeepsTarget(s, addr) ==
    /\ target' = [target EXCEPT ![s] = IF entry[s] # addr /\ @ = Zero THEN entry[s] ELSE @]
    /\ entry' = [entry EXCEPT ![s] = addr]

\* Patcher.should_stop for a tracker on addr: its own write is not a target.
Patched(s, addr) ==
    /\ target' = [target EXCEPT ![s] = IF entry[s] = addr THEN @ ELSE entry[s]]
    /\ entry' = [entry EXCEPT ![s] = addr]

\* GDB may notice the write late: a software watchpoint watches one thread.
PatcherShouldStop(s) ==
    /\ Armed
    /\ s \in installed
    /\ Patched(s, trap[s])
    /\ UNCHANGED <<status, loaded, linked, pc, mapped, allocator, tracking, installed, trap,
                   op, history>>

-----------------------------------------------------------------------------
(* track-got enable: _update_watchpoints installs the slots one by one.     *)

Enable ==
    /\ status = "stopped" /\ op = "none"
    /\ ~tracking
    /\ enables < MaxEnables
    /\ tracking' = TRUE
    /\ op' = "enable"
    /\ enables' = enables + 1
    /\ UNCHANGED <<program, allocator, installed, trap, target, failed, stale>>

\* The next slot to install: _update_watchpoints follows the link map.
NextSlot(s) == s \in 1..loaded /\ s \notin installed /\ 1..(s - 1) \subseteq installed

\* A new Tracker on addr and a new Patcher, whose first target is what the
\* slot holds.
Install(s, addr) ==
    /\ installed' = installed \union {s}
    /\ trap' = [trap EXCEPT ![s] = addr]
    /\ target' = [target EXCEPT ![s] = IF entry[s] = addr THEN Zero ELSE entry[s]]
    /\ entry' = [entry EXCEPT ![s] = addr]
    /\ occupied' = occupied \union {addr}

Installing(s) ==
    /\ status = "stopped" /\ op = "enable"
    /\ NextSlot(s)

\* alloc recycles the slot that was freed last.
InstallRecycled(s) ==
    /\ Installing(s)
    /\ vacant # <<>>
    /\ Install(s, Last(vacant))
    /\ vacant' = Front(vacant)
    /\ UNCHANGED <<status, loaded, linked, pc, mapped, tracking, blocks, occupancy, op, history>>

\* Variant: the occupancy of the block is not counted up.
InstallInBlockAgain(s) ==
    /\ Installing(s)
    /\ vacant = <<>> /\ blocks # <<>> /\ occupancy < BlockCapacity
    /\ Install(s, <<Last(blocks), occupancy>>)
    /\ UNCHANGED <<status, loaded, linked, pc, mapped, tracking, blocks, vacant, occupancy, op,
                   history>>

\* alloc takes the next slot of a block that is not full.
InstallInBlock(s) ==
    /\ Installing(s)
    /\ vacant = <<>> /\ blocks # <<>> /\ occupancy < BlockCapacity
    /\ Install(s, <<Last(blocks), occupancy>>)
    /\ occupancy' = occupancy + 1
    /\ UNCHANGED <<status, loaded, linked, pc, mapped, tracking, blocks, vacant, op, history>>

\* alloc needs a block: the program runs mmap.
MmapRuns(s) ==
    /\ Installing(s)
    /\ vacant = <<>> /\ (blocks = <<>> \/ occupancy = BlockCapacity)
    /\ status' = "syscall"
    /\ UNCHANGED <<loaded, entry, linked, pc, mapped, allocator, tracker, op, history>>

\* mmap returns a block; is_mmap_error takes every error for one, too.
MmapReturns(s, base) ==
    /\ status = "syscall" /\ op = "enable"
    /\ NextSlot(s)
    /\ \/ base \notin mapped /\ mapped' = mapped \union {base} /\ failed' = failed
       \/ FaultLeft /\ base \notin mapped /\ mapped' = mapped /\ failed' = TRUE
    /\ status' = "stopped"
    /\ blocks' = Append(blocks, base)
    /\ occupancy' = 1
    /\ Install(s, <<base, 0>>)
    /\ UNCHANGED <<loaded, linked, pc, vacant, tracking, op, enables, stale>>

\* The shellcode stops elsewhere: the assertion raises out of the command.
MmapRaises ==
    /\ FaultLeft
    /\ status = "syscall" /\ op = "enable"
    /\ status' = "stopped"
    /\ op' = "none"
    /\ failed' = TRUE
    /\ UNCHANGED <<loaded, entry, linked, pc, mapped, allocator, tracker, enables, stale>>

Enabled ==
    /\ status = "stopped" /\ op = "enable"
    /\ 1..loaded \subseteq installed
    /\ op' = "none"
    /\ UNCHANGED <<program, allocator, tracker, history>>

-----------------------------------------------------------------------------
(* track-got disable: every tracker frees its trap, then the blocks go.     *)

\* The traps of the trackers, in the order they are deleted.
Freed == [i \in 1..Cardinality(installed) |-> trap[i]]

\* Variant: GOT_TRACKING is left set.
DisableRunsOn ==
    /\ status = "stopped" /\ op = "none"
    /\ tracking
    /\ tracking' = TRUE
    /\ op' = "disable"
    /\ installed' = {}
    /\ occupied' = occupied \ {trap[s] : s \in installed}
    /\ vacant' = vacant \o Freed
    /\ UNCHANGED <<program, trap, target, blocks, occupancy, history>>

DisableRuns ==
    /\ status = "stopped" /\ op = "none"
    /\ tracking
    /\ tracking' = FALSE
    /\ op' = "disable"
    /\ installed' = {}
    /\ occupied' = occupied \ {trap[s] : s \in installed}
    /\ vacant' = vacant \o Freed
    /\ UNCHANGED <<program, trap, target, blocks, occupancy, history>>

MunmapRuns ==
    /\ status = "stopped" /\ op = "disable"
    /\ blocks # <<>>
    /\ status' = "syscall"
    /\ UNCHANGED <<loaded, entry, linked, pc, mapped, allocator, tracker, op, history>>

MunmapReturns ==
    /\ status = "syscall" /\ op = "disable"
    /\ mapped' = mapped \ {Last(blocks)}
    /\ blocks' = Front(blocks)
    /\ status' = "stopped"
    /\ UNCHANGED <<loaded, entry, linked, pc, occupancy, vacant, occupied, tracker, op, history>>

\* The call raises after its block was taken from the list.
MunmapRaises ==
    /\ FaultLeft
    /\ status = "syscall" /\ op = "disable"
    /\ blocks' = Front(blocks)
    /\ mapped' \in {mapped, mapped \ {Last(blocks)}}
    /\ status' = "stopped"
    /\ op' = "none"
    /\ failed' = TRUE
    /\ UNCHANGED <<loaded, entry, linked, pc, occupancy, vacant, occupied, tracker,
                   enables, stale>>

\* clear ends with _reset.
Disabled ==
    /\ status = "stopped" /\ op = "disable"
    /\ blocks = <<>>
    /\ op' = "none"
    /\ occupancy' = 0 /\ vacant' = <<>> /\ occupied' = {}
    /\ UNCHANGED <<program, tracker, blocks, history>>

-----------------------------------------------------------------------------
(* The process.  Trackers and allocator outlive it.                         *)

Stop ==
    /\ status = "running"
    /\ status' = "stopped"
    /\ UNCHANGED <<loaded, entry, linked, pc, mapped, allocator, tracker, op, history>>

Continue ==
    /\ status = "stopped" /\ op = "none"
    /\ Insertable
    /\ status' = "running"
    /\ UNCHANGED <<loaded, entry, linked, pc, mapped, allocator, tracker, op, history>>

Exit ==
    /\ status \in {"running", "stopped"} /\ op = "none"
    /\ status' = "none"
    /\ stale' = (blocks # <<>> \/ tracking \/ vacant # <<>>)
    /\ stale' => FaultLeft
    /\ UNCHANGED <<loaded, entry, linked, pc, mapped, allocator, tracker, op, enables, failed>>

Start ==
    /\ status = "none"
    /\ status' = "stopped"
    /\ loaded' \in Slot
    /\ entry' = [s \in Slot |-> Stub(s)]
    /\ linked' = [s \in Slot |-> Stub(s)]
    /\ pc' = [t \in Threads |-> App]
    /\ mapped' = {}
    /\ enables' = 0
    /\ UNCHANGED <<allocator, tracker, op, failed, stale>>

Next ==
    \/ \E t \in Threads : RunAway(t)
    \/ \E t \in Threads, s \in Slot :
          Call(t, s) \/ Bind(t, s) \/ Leave(t, s) \/ TrackerShouldStop(t, s)
    \/ Load
    \/ \E s \in Slot : PatcherShouldStop(s)
    \/ Enable
    \/ \E s \in Slot : InstallRecycled(s) \/ InstallInBlock(s) \/ MmapRuns(s)
    \/ \E s \in Slot, base \in Bases : MmapReturns(s, base)
    \/ MmapRaises \/ Enabled
    \/ DisableRuns \/ MunmapRuns \/ MunmapReturns \/ MunmapRaises \/ Disabled
    \/ Stop \/ Continue \/ Exit \/ Start

Spec == Init /\ [][Next]_vars

-----------------------------------------------------------------------------
(* Properties.                                                              *)

\* Where a call through a slot arrives, once the tracker has diverted it.
Route(s) == IF s \in installed /\ entry[s] = trap[s] THEN target[s] ELSE entry[s]

\* Tracking changes nothing for the program: while it is on for the first time
\* in a process, and before, a call through a slot arrives at what the dynamic
\* linker stored there last, whether pwndbg saw that write or ran a system
\* call meanwhile, or failed to.
RouteIsRight ==
    enables <= 1 /\ (tracking \/ enables = 0) =>
        \A s \in Slot : Route(s) = linked[s]

\* No thread runs into a trap that has no breakpoint while tracking is on for
\* the first time, as long as one block is enough and no system call failed.
\* (A second mmap runs the other threads with the first trackers disabled.)
NobodyLost ==
    tracking /\ enables = 1 /\ ~failed
        /\ Len(blocks) <= 1 /\ ~(status = "syscall" /\ installed # {}) =>
        \A t \in Threads : pc[t] # Lost

\* No trap serves two slots, and each lies in a block that is mapped: those in
\* use are the trackers' own, the recycled ones are not in use and recycled
\* once, the rest of the last block has not been handed out; so the program can
\* be continued, and disabling unmaps what the allocator mapped.
TrapsAreUsable ==
    ~failed /\ ~stale =>
        /\ \A s, r \in installed : trap[s] = trap[r] => s = r
        /\ occupied = {trap[s] : s \in installed}
        /\ IsInjective(vacant)
        /\ Range(vacant) \intersect occupied = {}
        /\ IsInjective(blocks)
        /\ Range(blocks) \subseteq mapped
        /\ Insertable
        /\ op # "disable" =>
              /\ \A a \in occupied \union Range(vacant) : a[1] \in Range(blocks)
              /\ blocks # <<>> =>
                    \A n \in occupancy..BlockCapacity - 1 :
                        <<Last(blocks), n>> \notin occupied \union Range(vacant)
=============================================================================
