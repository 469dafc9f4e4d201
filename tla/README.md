# pwndbg in TLA+

A model of the parts of pwndbg that keep state of their own across debugger
events, with TLC runs and TLAPS proofs. Every definition is read off the source
(`PROJECT.json`, "map" gives the lines); LLDB, GDB, libc, the dynamic linker, the
terminal and the program being debugged are external and modelled from how the
code uses them.

pwndbg is for the most part a large set of read-only queries of a debugger. What
can go wrong beyond a wrong printout is in the code that drives a process, waits
for it, shares a terminal with it, changes it behind its back, and decides when
pwndbg's handlers run. That code is what this project is about.

## 1. Inventory

### pwndbg-lldb

| Part | Source (under `src/pwndbg/`) | State | Operations |
|---|---|---|---|
| Process driver | `dbg_mod/lldb/repl/proc.py` | the process, its listener, the I/O driver, a core-file flag; three scope counters and a pending cancellation | `launch`, `attach`, `connect`, `launch_core_file`, `cont`, `kill`, `run_lldb_command`, `run_coroutine`, `interrupt`, `_run_until_next_stop` |
| REPL | `dbg_mod/lldb/repl/__init__.py` | the target, the queue of execution controllers, the relay's `ignore_resumed` | the main loop and its commands, `EventRelay` |
| Plain text I/O | `dbg_mod/lldb/repl/io.py` | three semaphores, two events, `_running`, the mode of the streams, two worker threads | `start`, `stop`, `close`, `on_output_event`, `_handle_input`, `_handle_output` |
| Pseudo-terminal I/O | the same file | the user's terminal mode, `has_terminal_control`, a thread, an input buffer | `start`, `stop`, `close`, `_handle_io` |
| Debugger backend | `dbg_mod/lldb/__init__.py`, `hooks.py` | event handlers, suspended events, `controllers`, the Python state stack | `_trigger_event`, `dispatch_execution_controller`, `break_at` |

How they interact. The REPL calls one method of the driver at a time, on one
thread. A method that resumes the process then runs the event loop, which starts
the I/O driver, takes events from LLDB's listener, calls the relay, and stops the
I/O driver. The relay turns the driver's events into pwndbg's (START, STOP,
CONTINUE, EXIT, NEW_MODULE), whose handlers may raise. LLDB posts events from
threads of its own. SIGINT is handled on the driver's thread, between any two
bytecodes: it raises `UserCancelledError` where it falls, or is postponed by a
`_suspend_interrupts()`, or becomes a `SendAsyncInterrupt` inside the event loop.
A pwndbg command that must resume the process is a coroutine; it is queued by the
LLDB command, and run by the REPL at the end of it.

### pwndbg-gdb

| Part | Source | State | Operations |
|---|---|---|---|
| Event delivery | `gdblib/events.py` | a queue of handlers, the start event's flag, `executing_event`, the suspension flags | `connect`, `_inner_handler`, `_loop_until_thread_ok`, `after_reload`, `suspend_events` |
| Prompt | `gdblib/prompt.py` | `cur`, `context_shown` | `prompt_hook`, `show_hint`, `reset_context_shown` |
| Stop points | `dbg_mod/gdb/__init__.py`, `hooks.py` | sets of deferred operations, a saved handler per stop point, `in_bpwp_stop_handler` per process object | `break_at`, `set_enabled`, `remove`, `bpwp_process_deferred`, `bpwp_clear_deferred`, `trace_ret` |
| Execution controller, scheduler lock | `dbg_mod/gdb/__init__.py`, `gdblib/scheduler.py` | GDB's `scheduler-locking` | `cont`, `cont_selected_thread` |
| Heap tracker | `gdblib/ptmalloc2_tracking.py` | a map of free and one of allocated chunks, `memory_management_calls` per thread, a watchpoint per free chunk | the entry and exit breakpoints of malloc, calloc, realloc and free; `install`, `uninstall` |
| GOT tracking | `gdblib/got.py`, `commands/got_tracking.py` | trackers, patchers, a block allocator of traps | enable, disable, `should_stop` of both breakpoints, `alloc`, `free`, `clear` |

How they interact. GDB calls back on one thread, but nested: a handler that makes
GDB run the program, or an empty command, causes further events before it
returns. Stop handlers run inside GDB's own stop handling and may not change stop
points, which is why those operations are deferred to the STOP event. The GOT
tracker makes the program run system calls of its own, with every thread running
and its breakpoints disabled. Registers and memory are read through caches that
the same events clear.

### Common

| Part | Source | State | Operations |
|---|---|---|---|
| Injected code | `aglib/shellcode.py`, `gdblib/shellcode.py`, `commands/hijack_fd.py` | saved registers, code and stack; suspended events | `exec_syscall`, `exec_shellcode` (two), `exec_shellcode_with_stack` |
| Caches | `lib/cache.py` | every `cache_until` dictionary | the decorator, `clear_cache`, the events that clear |
| Memory maps | `aglib/vmmap.py`, `vmmap_custom.py` | explored and custom pages | added and cleared by commands |
| Heap walkers, kernel, disassembly, commands, integration, config | see "components" | none that a run of the debugger could corrupt | |

### What is hard

- A Ctrl-C at any point of the driver's thread, twice, or while an event or a
  handler's exception is on its way.
- Exceptions through the event loop, its `finally` clause, a scope counter, a
  postponed cancellation and a coroutine, in this order.
- Events out of phase with the method that waits for them: left over from a
  command, from before a kill, from a process that is gone.
- A failed launch, attach or kill, and what the next command finds.
- Threads that copy terminal I/O and have to be stopped between two sessions.
- Queues that outlive the command, or the process, they were filled for.
- On GDB: handlers deferred to a later event, nested events, values cached across
  a clear, operations on a stop point from inside its own handler.
- A shadow of someone else's data structure, updated before or after the fact:
  libc's free chunks, the slots of the GOT.
- Code run in the program's name, with signals, breakpoints, other threads or the
  end of the program in between, all of which must leave no trace.

`PROJECT.json`, "hazards", lists these at the line where they bite, each with the
properties that would catch it.

## 2. Modules

| Module | Models | Built on |
|---|---|---|
| `LldbProcess` | external: one SBProcess and its listener: which events LLDB may post, and when | |
| `ProcessDriver` | `ProcessDriver` of proc.py: all of its methods, the event loop, the coroutine loop, the SIGINT handler | `LldbProcess` |
| `LldbRepl` | the main loop, the commands that start, attach to, resume and end a process, core files, the relay, the controllers queue; made of `ProcessDriver`'s own steps | `ProcessDriver` |
| `IODriver` | what an I/O driver promises the event loop: it copies only between `start()` and the return of `stop()` | |
| `IODriverPlainText` | `IODriverPlainText`; implements `IODriver` | |
| `IODriverPseudoTerminal` | `IODriverPseudoTerminal`; implements `IODriver` | |
| `GdbEvents` | `gdblib/events.py` and the prompt hook of `gdblib/prompt.py`: when handlers run in GDB | |
| `GdbStopPoints` | `GDBStopPoint` and the deferral of its operations | |
| `GotTracking` | GOT call tracking with its trap allocator, and the program that runs meanwhile | |
| `HeapTracker` | the ptmalloc2 tracker, and a libc that serves the calls | |
| `InjectedCode` | code run in the program's name, in three forms, with the register cache | |
| `LldbProofs` | theorems about `ProcessDriver` and `LldbRepl` | `LldbRepl`, TLAPS |
| other `*Proofs` | theorems about the module they are named for | TLAPS |

### How state and actions correspond to the code

*ProcessDriver.* One thread: `pc` is the place in the code, `op` the method that
runs, `exc` the exception in flight, `ret` what the last method returned. Labels
are the places where control can be seen from outside: a call of LLDB, a wait for
an event, an event handler, the end of a `with` or `finally`. `hold`, `inRun` and
`inCo` are the counters of `_suspend_interrupts`, `_in_run_until_next_stop` and
`_in_run_coroutine`; `pending` is `_pending_cancellation`. `frozen` says that an
execution controller suspended the other threads; `view` is the last event the
driver's `EventHandler` was given. An action is one handler of one kind of event,
or the piece of a method between two labels. An exception does not return at
once: it goes to the label of its `finally`, `with` or caller (`Raise`). Several
`_enter` variants share `EnterSucceeds` and `EnterFails`, which differ only in
LLDB calls. A coroutine is not a program here but everything a coroutine may do
to the driver: yield a step or a cont, return, raise, catch what is thrown.
`CommandUnanswered` is a command whose return object is not valid (614).

*Interrupt* is the signal handler. It may run at any label, `MaxSigInts` times.
`in_lldb_command_handler` is passed to it by the REPL and is never set to TRUE
anywhere in the source, so `InCommandHandler == FALSE`. Python runs it when a call
into C returns, so its exception may come between the `setattr` that raises a scope
counter (161) and the `try` (162), and in the `finally` clause before the one that
lowers it (166). Only `_in_run_coroutine` is exposed to that: under the other two
counters `interrupt` does not raise. The label `co_count` is the first place, `co_exit`
the second; `leaks` (history) counts the counters left high. Inside the event loop the
handler only calls `SendAsyncInterrupt`, which LLDB ignores for a process that is
stopped, as it is at a breakpoint whose stop handler runs (`AtHandler`); `heard`
(history) says that one was sent which LLDB heeds.

*LldbRepl.* `rpc` is the place in the main loop or in a command. A step is a step
of the REPL while the driver is idle (`AtRest`), a call (the driver's `Call`), a
step of the driver (with what it tells the relay), of LLDB, or a Ctrl-C. A
controller is only remembered by whether the process it was queued for is still
the current one, which is what the assertions at 766-767 ask.

*I/O drivers.* The debugger's thread is one sequence of actions in the order the
process driver calls them, each worker another; semaphores are their values,
`threading.Event`s are booleans. Bytes are counted, not represented.

*GdbEvents.* The other debugger, independent of the modules above. `frames` is the
stack of calls that GDB made of `_inner_handler`, of `_loop_until_thread_ok` and of
the prompt hook, innermost last; a frame is at "yield" while it executes the empty
command (234), at "drain" while it empties `queued_events`, at "reload" while
`after_reload` runs handlers by hand. A queue entry is the caller of one event's
handlers, or the check of the emulated start event that goes before it. An action
named for something that happens to the process (`ThreadStops`, `ObjfileLoads`, ...)
is GDB's delivery of the event and the whole of `_inner_handler` up to its first
yield or its drain. It is enabled when GDB is idle or inside a yield, and for memory
and register changes also while a handler runs. `mode` is the setting
`gdb-workaround-stop-event`, fixed for a behaviour. `_loop_until_thread_ok` posts
itself until the thread has stopped (199-203), which `RunPosted` models by its guard.
All handlers of an event are one step: what they see is recorded in the history
variable `ran`, and the effect that matters here (CONTINUE resets `context_shown`) is
part of it. `raised` remembers that a handler or a breakpoint's command failed,
`starts` how often START's handlers were invoked for the process, by the event or by
`after_reload` (`byHand`). `moved` says that the process is not where the last context
display found it, or is another one; `replaced` the latter, after a process whose
display still counts as shown.

*GdbStopPoints.* `live` and `enabled` are GDB's, `slot` is what `inner.stop` is and
`saved` is `inner_stop`. Each stop point belongs to a process object of its own
choosing, because `selected_inferior()` makes a new object for each call and
`in_bpwp_stop_handler` is a field of it; this is chosen at the start. Operations are
called at the prompt or by the handler that is running (`current`), and go one of two
ways as in the code: `...Direct` or `...Deferred`. `ProcessDeferred` is the STOP
handler; `ProcessDeferredRaises` is the same when GDB no longer has one of the
breakpoints, which applies any part of the operations, in Python's order of a set, and
clears none. `wanted`, `lost`, `twice` and `foreign` are history: the last operation
on a stop point, whether an event discarded one, whether the wrapper wrapped itself,
and whether an operation was not recognised as coming from a handler.

*GotTracking.* `entry` is the GOT, `linked` what the program stored in it, `pc` where
each thread is: in its own code, a resolver stub, a function, a trap, or lost. `Call`,
`Bind`, `Leave` and `Load` are the program and its dynamic linker. `TrackerShouldStop`
and `PatcherShouldStop` are the two stop handlers; the patcher's may come late, or not
at all, because a software watchpoint watches one thread. `Install...` are the three
ways `TrapAllocator.alloc` finds a trap, of which the third makes the program run
`mmap`; while it runs (`status = "syscall"`) the program's threads run too, and no
breakpoint is armed. `failed` and `stale` are history: a system call failed, or the
process ended with traps in it.

*HeapTracker.* libc's heap is a line of units, a chunk its header and size. `call` is
where each thread is in a call of libc: not served yet, or served (`done`) with the
breakpoint at its return not yet hit; `by` is the tracker whose finish breakpoint waits
there. `Enters` is an entry breakpoint, `AllocExit`, `FreeExit`, `ReallocExit` the
finish breakpoints, `Outside` a call from outside the program's code, `OutOfScope` a
frame that goes away. `Touched` and `Rescanned` are the bisection of `free_chunks` and
the walk over libc's bins that replaces what it found. `leaked` holds watchpoints that
stay enabled after a map has lost their entry. A handler may raise at any point before
it leaves memory management (`EnterRaises`, `ExitRaises`, if `HandlersMayRaise`): an
assertion of `Tracker.malloc` (288, 310, 326), `Heap()` of memory that has no arena, a
register or chunk that cannot be read, a breakpoint that cannot be set. What it had done
to the maps stays (`RescanRaises`, `FreeRaises`). The payload of a chunk reaches into the
header of the next one, whose first half libc lends it; entries that a rescan adds begin
at the chunk's header. libc serves calls in any order, from its
thread caches, from the arena (whole, or the front of a chunk), or from the top.

*InjectedCode.* Cells are instructions of two adjoining pages (`PageEnd`, `MappedEnd`).
`at` is the place in the nested
context managers of `exec_shellcode`: registers, code, the run, then the same outwards.
A thread executes one cell at a time (`Executes`): the injected code forwards, and its
own anywhere. The run is stopped by the breakpoint at its end, by one of the user's, by
a signal, or by the end of the program; the execution controller's
`CancelledError` is `Retry`. A conditional breakpoint's handler reads a register in the
middle of it: with an emptied cache if it is a `Breakpoint` of `gdblib/bpoint.py`
(`HandlerRuns`), with whatever is cached if `break_at` or `trace_ret` installed it, whose
adapters clear nothing (`AdapterRuns`). `cache` is the value cached for each thread by
`read_reg_in_frame`, cleared by stop events and writes unless events are suspended.
GDB's own `exec_shellcode`, which the GOT tracker uses, is `GdbInject`, `GdbAsserts` and
`GdbReturns`; its check of the room lets the code go on in the next page.

### What is abstracted

Output capture, formatting, parsing of commands, environment and arguments of a
launch, the broadcasters of a listener, the meaning of return codes and error
texts, IPython, window sizes. "Exited", "Crashed" and "Detached" are one event,
which the code treats alike (528-564).

In the GOT tracker, hit counts, call stacks and reports. Where a module has one
thread in its run, the second thread's part in a system call is played by that one:
every thread runs then.

In the heap tracker, what a watchpoint's handler reports; whether a chunk is in a
fastbin or another bin of the arena; `realloc` moves a chunk in one step of libc.

In the injected code, breakpoints between an instruction's bytes; how much stack the
code uses (it may use it, or not); what is cached besides registers. After GDB's
`exec_shellcode` fails (`mishap`) the session is not followed further: nothing is put
back, and the user is told so by an exception.

## 3. Runs

All bounds are constants of the configuration. "Ctrl-C" is `MaxSigInts`, "queue"
is `MaxEvents`, the length up to which LLDB fills the listener by itself (replies
to a call of the driver may exceed it).

| Run | Question | Bounds | Expected |
|---|---|---|---|
| `driver` | does each method keep what it promises its caller, and do a call and an interrupted loop end? | queue 2, Ctrl-C 2, handlers do not raise, fair | pass |
| `repl` | does the driver's bookkeeping survive, do the commands only make calls the driver accepts, keep pwndbg informed, and run controllers in time? | queue 1, Ctrl-C 2, handlers may raise, 2 controllers | pass |
| `io_plain` | do both workers start and stop in step with the debugger, over any number of sessions? | output 2, fair | pass |
| `io_pty` | is the user's terminal given back, and is I/O copied exactly in between? | data 2, fair | pass |
| `gdb_events` | do handlers run in order, for a process that is there, and all of them? | nesting 2, queue 2, all modes, handlers may raise, fair | pass |
| `stop_points` | do deferred operations take effect, in order, and do handlers come back? | 2 stop points, 2 process objects | pass |
| `got_tracking` | does a tracked process do what it would do untracked, and are traps usable? | 3 slots, 1 thread, 2 blocks of 2 traps, enabled twice, one fault | pass |
| `heap_tracker` | is every call seen once, and does the shadow heap agree with libc's? | 2 threads, heap of 7 units, chunks of 2 and 3, 4 calls, 1 tracker, handlers may raise | pass |
| `injected_code` | is the program put back, is the result the code's own, does the prompt return? | 2 threads, pages of 1 and 3, code of 2, 1 breakpoint, 2 commands, 1 signal, fair | pass |
| `failed_enter` | a failed launch or attach is undone (proc.py 857) | queue 2 | violation |
| `gdb_deadlock` | without an event inside another event there is no deadlock (events.py 138-140) | nesting 2, queue 2 | violation |
| `realloc_zero` | `realloc(p, 0)` is ignored (ptmalloc2_tracking.py 504) | 1 thread, 3 calls | violation |

Why the bounds suffice. A queue of two holds an event left from before and
the one the method waits for; the loop looks at one event at a time and keeps only
the last one and `running` of the others. Two controllers are the first number
where one is taken and one is left. Two pieces of output make "some read, some
not" possible; the semaphores have bounds of their own (2, 2 and 1). In GDB, two
calls are the first nesting, and a queue of two holds the check and the event that
a posted call left behind, to which the next event adds two more. Two stop points
and two process objects make the handler of one operate on the other, with and
without the flag it looks at. Three slots fill a block of two traps and need a second
one; enabling twice recycles. Chunks of 2 and 3 in 7 units leave free chunks of each
size before, between and after used ones, and merge two of them; four calls are two
allocations and two frees, by any thread. Pages of 1 and 3 have room for code of 2 at
some places and not at others, and let code cross from one into the other; two Ctrl-C
are the first one and one that finds what it left; two commands are the first one and one that finds what it
left; one signal or breakpoint interrupts it. The REPL, the I/O drivers and the stop
points are checked over any number of commands, sessions and operations. Where the
bounds matter, the proofs below do without them.

Deadlock checking is on in `stop_points` and `got_tracking`, where something can
always happen. It is off in the others: an exception the main loop does not survive
ends the program, and so does `close()` for an I/O driver; a deadlock that
`events.py` detects ends GDB; the heap tracker and the injected code run out of
calls and commands.

### What each property is about

`driver`: `PromptIsClean` and `EventOrder` are what the methods promise each other:
the process is stopped, no event is left for the next method, pwndbg hears of a
process first that it was created. They are stated up to the first Ctrl-C, because
an interrupt between `Continue()` (586) and the event loop (587) breaks them for
good: the exception leaves `cont()`, the process runs under the prompt, and its
events wait in the listener for the next method. `ThreadsThawed` holds with Ctrl-C,
and is checked with handlers that do not raise: an exception from the event loop at
763 skips the resumption of the other threads. `PendingIsScoped`: a Ctrl-C that is
postponed has a `_suspend_interrupts()` to deliver it, and does not hit a later command.
`CallsReturn` and `InterruptWorks` are liveness: kill and connect come to an end, and a
Ctrl-C ends the event loop, unless it comes while the process stands at a breakpoint with
a stop handler: that one is lost, and if the handler lets the process go on nothing
remains of it. A Ctrl-C beside a scope counter's `try` is what `PendingIsScoped` excepts.

`repl`: `ScopesBalanced` (the REPL gets the driver back with its counters at zero;
otherwise every later Ctrl-C is postponed for ever; the one leak is that of
`_in_run_coroutine`, one for each Ctrl-C that falls beside its `try`) and `IoOnlyInRunLoop` (I/O is
never left running, or paused, under the prompt) are checked here, with handlers
that raise and two Ctrl-C at any points; `DriverContract` (no command calls a method
where its assertions on process, connection and core file exclude it, and of all the
driver's assertions three can fail, which it names), `PwndbgIsTold` (what pwndbg was told
agrees with what happened) and `ControllersRunAtOnce`.

`io_plain`, `io_pty`: `Conservation` (each permit is in one place),
`TerminalIsRestored`, `ImplementsIODriver`, `StopReturns` (`close()` included),
`OutputFlows`. In the plain text driver a worker thread may die (`encode()` at 284
and `read()` may raise what the loop does not catch); it never gives its permit
back, and `stop()` waits for it for ever (389-390). `StopReturns` says that this is
the only reason to wait.

`gdb_events`: `StartBeforeStop` is what the start event is for; `NoStopWithoutProcess`
says that STOP handlers may rely on a process; `NothingForgotten` and `QueueDrains`
that each return without running what was queued has posted a call that will;
`DeadlockIsRealUnlessRaised` that GDB is ended only for an event inside an event;
`ContextIsFresh` that the prompt never stands for a process whose new state was not
displayed, except for a process that took the place of a displayed one (see the
findings); `SuspensionHolds` that an event which was triggered during injected code is
not delivered after it. Where the code promises less, the property names the
exception: with stop events made asynchronous (mode "enabled") a handler may run after
the process is gone, START may follow a STOP that the prompt hook ran, and a suspended
event is delivered after the suspension, because `suspend_events` is asked when
handlers run and not when the event came; a handler that raises leaves those behind it
in the queue until the next event.

`stop_points`: `GdbAgrees` (with nothing deferred, GDB has what the last operation
asked for), `OriginalComesBack` (the wrapper is there only while an operation is
pending, and knows the original), `DisabledStaysQuiet` (a stop point is silent from
the call on, not from the STOP event on). Exceptions, which the model shows to be
needed: an operation that EXIT or START discards, or whose STOP failed (`lost`); a
second deferred operation in one handler, which saves the wrapper as the original
(`twice`); an operation by a handler that its process object does not know of
(`foreign`).

`got_tracking`: `RouteIsRight` (a call arrives where the dynamic linker says),
`NobodyLost` (no thread runs into a trap without a breakpoint), `TrapsAreUsable` (no
trap serves two slots; what is occupied, recycled and fresh is disjoint; all of it is
mapped). The first two are stated for the first time tracking is on in a process, and
the second for one block: see the findings below.

`heap_tracker`: `FlagsMatchCalls` (no call is missed, and none is taken for a write of
the program), `OwnedIsUnwatched` (no false alarm), `FreedIsWatched` (no use after free
is missed). The first holds of a thread until a handler raises in it, or a frame goes
away while another thread is selected. The second excepts the chunk right before a free
one that a rescan noted, whose last bytes the new watchpoint covers. The last two need a session in which every call was seen, in libc's order,
and in which no two free chunks were next to each other. `FreedIsWatched` holds without
the latter on the run's heap, but not on a larger one: TLC's simulation of one thread on
14 units, with chunks of 2 to 5, finds a chunk that merged from freed ones, and that a
malloc forgets when it rescans their nested entries.

`injected_code`: `ProgramIsBack` (whatever happened on the way), `OthersUntouched` (no
other thread runs meanwhile), `ResultIsOurs` (the result is what the code left, after
all of it ran once, however often it was interrupted), `NothingStale` (nobody reads a
register that changed since it was cached: no command at the prompt, and no handler of a
`Breakpoint` of `gdblib/bpoint.py`; handlers behind the adapters of `break_at` and
`trace_ret` do), `CommandReturns`.

### Fairness

`WF_vars(Driver)`: the driver's thread is never starved, and every wait for an
event times out. `SF_vars(AnswerInterrupt)`: LLDB answers a `SendAsyncInterrupt`
even if breakpoints with Python handlers stop and resume the process over and over
before it does; weak fairness would not do, since the action is disabled at each
such stop. GDB: `WF_vars(Pwndbg)`, a call that has begun goes on; `SF_vars(RunPosted)`, the
main loop runs what was posted whatever else it does in between, once the thread has
stopped. Nothing makes the process stop or exit by itself, nothing makes the user
type, and the REPL is not required to call the driver. I/O: each thread goes on
when it can; nobody has to call `start()` or `stop()`. Injected code:
`WF_vars(Controller)`, a coroutine that was resumed goes on, and `WF_vars(CodeSteps)`,
the thread that was given code runs it: `exec_shellcode` asks for code that will
terminate. Nothing else of the program need run.

## 4. Findings

1. `failed_enter`: after a launch or attach that LLDB refuses, `self.io` stays set
   (862-863 reset only process and listener), and the next one fails its assertion
   `self.io is None`. The comment at 857 says that the initialization is undone.
2. `gdb_deadlock`: a breakpoint's command that fails makes `gdb.execute("")` raise
   between `executing_event = True` and `False`. The next event, inside no other one,
   is reported as a deadlock and ends GDB.
3. `realloc_zero`: `realloc(p, 0)` enters memory management (499) before it is
   recognised, and neither the AttributeError of line 505 nor the `return` of 511
   leaves it. The thread's later calls are taken for calls from within libc.

Further places seen while modelling, which the model reproduces or excludes by name
and no run states as a finding:

- *Driver.* A Ctrl-C between lines 161 and 162, or in the `finally` clause before 166,
  leaves `_in_run_coroutine` high for good: from then on a Ctrl-C in any event loop sets
  `_pending_cancellation` (323), and the next `_suspend_interrupts()` to end raises it in
  a command that nobody cancelled. A Ctrl-C while a breakpoint's stop handler runs inside
  the event loop is lost. After a command that did not resume the process the listener is
  polled with the I/O driver stopped; two resumptions seen in that poll start it twice,
  and the second time fails the assertion of `_start_io_driver` (379); two Ctrl-C bring
  that about. The result of `run_coroutine` is taken from the last exception queued
  (825), which stays queued when the coroutine catches it and completes; the docstring
  (668-670) speaks of running to completion. `connect()` to a server without a
  process installs the I/O driver, and the launch that has to follow asserts that
  there is none (1088, 896). `in_lldb_command_handler` is initialised (repl 334) and
  never set.
- *REPL.* A `UserCancelledError` before line 781 leaves the controllers queued, those
  that ran included; they run again at the end of a later command. `run` on a core file
  calls `kill()`, whose event loop asserts that there is no core file (449). The
  message of a failed kill is built from the parsed arguments (1136): AttributeError.
- *GDB's events.* A process that takes the place of one that went away is not displayed
  at its first prompt: `context_shown` stays set, and only CONTINUE resets it (prompt.py
  90). `after_reload`, which the prompt hook calls at the first prompt (prompt.py 87),
  runs the START handlers again, or before the event does.
- *I/O.* Output that arrives after the worker's last pass is lost at the end of a
  process.
- *Stop points.* Two deferred operations on one stop point in one handler save the
  wrapper as the original handler (561, 589). A handler of `trace_ret` sets no flag. A
  handler that raises leaves the flag set. The adapters (508-526) do not clear the caches,
  so that a stop handler may read registers of an earlier stop.
- *GOT.* Disabling does not put the entries back: a call through a slot that was not
  rebound runs into unmapped memory, and enabling again takes the old trap for the
  target. `is_mmap_error` compares with a pointer size in bytes where bits are needed
  (112). A second block runs the program with the first trackers disabled. Trackers
  and blocks survive the process they were made for.
- *Heap.* Adjoining free chunks, which libc merges and splits unseen, leave a watchpoint
  on a chunk in use, or a free chunk without one. Entries of a rescan begin at the chunk's
  header (341, 362-366), those of a `free` behind it (386): the watchpoint of a rescanned
  chunk covers the last usable bytes of the one before, and a legal write there is
  reported as a use after free. A failed `realloc` raises (541); so do the assertions at
  288, 310 and 326, and of the other errors of a rescan only `IndexError` is caught (370):
  the thread's flag stays set. `out_of_scope` leaves memory management for the selected
  thread, not for its own (481); `uninstall` leaves the
  finish breakpoints and the watchpoints.
- *Injected code.* GDB's `exec_shellcode` computes its room without the address where the
  code starts (96), so that code goes on in the next page, if that is mapped, and puts nothing back when the program stops elsewhere (138). The
  agnostic one cannot be cancelled: Ctrl-C is retried like any other stop. A stop handler
  that reads a register while events are suspended leaves the value in the cache for
  the caller to read as the result.

## 5. Proofs

TLAPS proves, for every value of the constants:

| Theorem | Statement |
|---|---|
| `LldbProofs!TypeCorrect` | `Spec => []TypeOK` |
| `LldbProofs!ScopesAreBalanced` | `Spec => []ScopesBalanced`: counters at zero at rest, but for the leaks of `_in_run_coroutine` |
| `LldbProofs!PendingCancellationIsScoped` | `Spec => []PendingIsScoped`: a cancellation is postponed only inside the `with` that delivers it, until a counter has leaked |
| `LldbProofs!IoIsInsideTheLoop` | `Spec => []IoOnlyInRunLoop` |
| `LldbProofs!TheLoopListens` | `Spec => []RunLoopListens`: the loop never waits on a core file, without I/O, or without the listener it waits on |
| `LldbProofs!EventsInOrder` | `Spec => EventOrder` |
| `LldbProofs!ThreadsAreThawed` | `Spec => []ThreadsThawed`, when handlers do not raise |
| `LldbProofs!PromptStaysClean` | `Spec => []PromptIsClean`, when handlers do not raise |
| `LldbProofs!ReplTypeCorrect` | `ReplSpec => []ReplTypeOK` |
| `LldbProofs!ReplScopesBalanced`, `ReplIoIsInsideTheLoop` | the driver's invariants, under the REPL |
| `LldbProofs!ContractIsKept` | `ReplSpec => []DriverContract` |
| `LldbProofs!PwndbgKnows` | `ReplSpec => []PwndbgIsTold` |
| `LldbProofs!ControllersRunThen` | `ReplSpec => []ControllersRunAtOnce` |
| `IODriverPlainTextProofs!TypeCorrect`, `PermitsConserved`, `CopyingIsBracketed`, `Implements` | types, `Conservation`, `CopyingIsSetUp`, `ImplementsIODriver` |
| `IODriverPseudoTerminalProofs!TypeCorrect`, `TerminalRestored`, `Implements` | types, `TerminalIsRestored`, `ImplementsIODriver` |
| `GdbEventsProofs!TypeCorrect` | `Spec => []TypeOK /\ []StartOnce` |
| `GdbEventsProofs!DeadlockDetection` | `Spec => []DeadlockIsRealUnlessRaised` |
| `GdbEventsProofs!QueueHasRunner` | `Spec => []NothingForgotten` |
| `GdbEventsProofs!StartIsFirst` | `Spec => []StartBeforeStop` |
| `GdbEventsProofs!StopsHaveAProcess` | `Spec => []NoStopWithoutProcess` |
| `GdbEventsProofs!SuspensionsHold` | `Spec => []SuspensionHolds` |
| `GdbEventsProofs!ContextStaysFresh` | `Spec => []ContextIsFresh` |
| `GdbStopPointsProofs!TypeCorrect` | `Spec => []TypeOK` |
| `GdbStopPointsProofs!DeferredTakeEffect` | `Spec => []GdbAgrees` |
| `GdbStopPointsProofs!HandlersComeBack` | `Spec => []OriginalComesBack` |
| `GdbStopPointsProofs!QuietAtOnce` | `Spec => DisabledStaysQuiet` |
| `HeapTrackerProofs!TypeCorrect` | `Spec => []TypeOK` |
| `HeapTrackerProofs!FlagsMatch` | `Spec => []FlagsMatchCalls` |
| `HeapTrackerProofs!MapsAgree` | `Spec => []MapAgrees`, the invariant of the next two |
| `HeapTrackerProofs!OwnedUnwatched` | `Spec => []OwnedIsUnwatched` |
| `HeapTrackerProofs!FreedWatched` | `Spec => []FreedIsWatched` |
| `InjectedCodeProofs!TypeCorrect` | `Spec => []TypeOK` |
| `InjectedCodeProofs!ProgramComesBack` | `Spec => []ProgramIsBack` |
| `InjectedCodeProofs!OthersStay` | `Spec => []OthersUntouched` |
| `InjectedCodeProofs!CacheIsFresh` | `Spec => []NothingStale` |
| `InjectedCodeProofs!ResultComesFromTheCode` | `Spec => []ResultIsOurs` |
| `GotTrackingProofs!RoutesAreRight` | `Spec => []RouteIsRight` |
| `GotTrackingProofs!NobodyGetsLost` | `Spec => []NobodyLost` |
| `GotTrackingProofs!TrapsStayUsable` | `Spec => []TrapsAreUsable` |

Assumptions: `MaxEventsAssumption`, `DriverAssumption`, `ReplAssumption`,
`PlainTextAssumption`, `PseudoTerminalAssumption`, `EventsAssumption`, `NoneAssumption`,
`HeapAssumption`, `InjectedAssumption`, `TrackingAssumption`, each in the module that
declares the constant and evaluated by TLC. Two theorems of the driver have a hypothesis
of their own, `HandlersMayRaise = FALSE`, the value in their run: a stop handler of
pwndbg that raises leaves the event loop with its event untreated, and a coroutine's
`resume` without the line that thaws the threads, so neither property holds with it.
Every other theorem about the driver, and those about the REPL, hold either way.

*The driver's invariant.* None of the four safety properties is inductive: that the
counters are zero at `idle` follows only from knowing them at every other label. The
inductive invariant is `LocalsOK /\ ScopesOK /\ ControlOK /\ ObjectOK`. `ScopesOK`
gives the three counters as functions of `pc` and `op` (`hold` is 1 exactly inside a
suspension, `inRun` is 1 exactly between `run_enter` and `run_leave`, `inCo` is 1
in a coroutine and 0 elsewhere, more by the number of `leaks`) and says where `pending` may be set; `ControlOK` says which
methods may be at which label and which labels may see an exception; `ObjectOK`
relates `process`, `listener`, `io`, `isCore` and `ioState` to the label. The step is
proved once per action, and one conjunct at a time.

*What the driver leaves behind.* Three more invariants are proved on top of it.
`ViewOK` and `ConnectedOK` say what pwndbg has been told at each label, from which
`EventOrder` follows step by step. `FrozenOK` places frozen threads inside the event loop
of a `resume`. For `PromptIsClean`, `ProcessOK`, `ErrorsOK` and `FlowOK` say what LLDB's
queue may hold at each label: in the loop the queue tells of whatever became of the
process (`Followed`: at most the last event is one after which it does not run), and
wherever the driver is not in the loop nothing makes it run (`Still`). The queue may be of
any length; what the argument needs of it is in the lemmas on posting and taking an
event.

*The REPL.* Its behaviours are behaviours of the driver's specification (the lemma
`Implements`): each step is a call at `idle`, a step of the driver, of LLDB or of the
signal handler, or a stutter. This holds by construction of the model and is only there to
carry the driver's theorems over. The one call it must justify is that of
`launch_core_file`, which has no assertion and would make the driver forget a process:
the REPL loads a core file only without a target, and a process has one (`Targeted`).
`ContractIsKept` needs more, because `run` calls `kill`, `launch` and `cont` one after
another and looks at the process only once: `ReturnsOK` says what the driver's methods
return to their caller (kill returns "ok" only without a process, a launch "success"
only with one that can be resumed), and `CommandsOK` carries that from each label of
the REPL to the next call. `AssertionsOK` says of an AssertionError that is on its way
which of the three it is. They are inductive together with the driver's invariant.
`PwndbgIsTold` relates what the relay has passed on to LLDB's process: `ReturnedViewOK`
says what each method of the driver has reported when it returns, `MethodOK` which method
each label of the REPL waits for, and `ToldOK` what pwndbg was told last at each label.
The proof found the one place where the model was not determined: the event relay was a
CASE whose guards overlap, and of two that hold TLA+ does not say which is taken. It is
now in the order of the code. `ControllersOK` follows the queue of controllers from the
command that fills it to the end of that command.

*The I/O drivers.* For the plain text driver the invariant is the conservation of
permits itself, strengthened by where the debugger's thread may be while `running`;
that all permits are back when the streams are restored gives `CopyingIsSetUp`, and
this the refinement of `IODriver`. For the pseudo-terminal the thread exists exactly
in a session.

*GDB's events.* `ExecutingInv` gives the flag `executing_event` its meaning (some call
on the stack executes a command, unless something raised) and says that `after_reload`
is never inside another call, so that its end removes no other frame. `QueueInv` says
who will run what is queued: a posted call, or one on the stack that has not finished
draining. Both are about a stack of any depth, which the lemmas on pushing and popping
(`PushStack`, `PopStack`) reduce to its last element.
The four properties about what handlers are told need a joint invariant, `GdbInv`. By
default only the outermost call executes the commands of a breakpoint (`StackInv`,
`YieldFirst`), so no process exits or stops behind a STOP that is being handled
(`PresentInv`); a check for the start event comes right before each STOP in the queue, and
until it has been made it is still queued and somebody will run it (`StartInv`,
`ArmedInv`, `BusyInv`); what is queued while events are suspended does not outlive the
suspension, new objfiles and the check excepted (`SuspensionInv`); and a process that was
resumed has its CONTINUE in the queue for as long as the old context counts as shown,
if it is the process that was displayed (`FreshInv`). Each conjunct has one lemma with a case for each action; queue and stack are
of any length, and what the cases need of them is stated by `Holds`, `StopsChecked` and
`Unignored`.

*Stop points.* `GdbAgrees` says nothing while an operation is pending, so it is
strengthened by `DeferInv`: what is pending for a stop point is what was asked last,
in the order in which `bpwp_process_deferred` applies it, and a stop point is never
both to be enabled and to be disabled. `WrapInv` says that whatever is deferred has
its wrapper in place, and that a handler that runs has its flag set. `OriginalComesBack`
is inductive by itself; the action property follows from the invariant, since a
handler that is reached is neither silenced nor disabled.

*The heap tracker.* `FlagsMatchCalls` is inductive, given the types: the exceptions
are history variables that only grow (`HistoryGrows`), and each action either leaves
flag and call of a thread alone, raises the one with the beginning of the other,
clears both, or has raised and counts the thread as `deaf`. That maps hold entries (`MapsOK`) needs the lemmas on what a malloc and a
free note in them.

`OwnedIsUnwatched` and `FreedIsWatched` follow from `MapAgrees`, which relates the heap
to both of the tracker's maps in a session without the exceptions. `HeapOK`: chunks in
use and free chunks do not overlap, and free ones do not adjoin. `CallsFollowed`: the
one tracker follows every call, and at most one call has been served and not handled.
`InOrder` allows for that call: entries of the map are apart from each other and `Live`
(of a free chunk, or beyond the top), or `Stale` because of the chunk just handed out;
every free chunk of the arena has an entry, or is what is left of one that has, or was
just freed; every chunk in use has an entry in the other map, under its own address.
The heart is `MallocRebuilds`: the bisection finds every stale entry, and leaves none
between two that it finds; and the rescan of libc's bins from the first to the last of
them gives back every free chunk of the arena that they stood for, and nothing that has
an entry among the rest (`Rebuilt`), whether libc handed out a chunk, its front or a part
of the top. Each of libc's steps is a lemma about the
geometry (`TakesFromTop` and its like), each exit one about the maps. That a set of
entries has a first and a last (`FirstAndLast`) rests on the library's theorem on
finite sets.

*Injected code.* `ProgramIsBack` speaks of the prompt only. The inductive invariant
says for each label what the steps so far have left to be undone (`AgnosticRuns`,
`GdbRuns`), that what is saved is what was there (`SavedOK`, which needs a fresh cache,
because GDB's variant saves registers as the cache has them), and that threads are
locked while the run lasts, so that only the selected one reaches the code. Each action
is then one small step; `Walks` collects what an instruction of the program may do.
`ResultIsOurs` needs to know how far the code has run: `RunOK` counts the steps by the
distance of the program counter from the code's start (`Walked`), and `CaptureOK` says
that the result is read once, at the end.

*GOT tracking.* `GotInv` takes the program's side and the allocator's side together.
`FreshOK` says that a process runs without traps until tracking is on in it, trackers of
an earlier process included: their traps are not mapped, so GDB does not resume it.
`RoutesOK` is `RouteIsRight` with a target for every tracker, and `ThreadsOK` says that a
thread in a trap is in that of a tracker, from which nobody is lost. For the traps, the
allocator's lists are without repetition, apart from each other, within its blocks, and
clear of the room that is left in the last one (`UsedOK`, `VacantOK`, `BlocksOK`,
`RoomOK`); `IdleOK` says that they are empty between two trackings. What is needed of
sequences without repetition (a new last element, none, the last one taken, two of them
joined) is in four lemmas. The one assumption that is not about numbers says that mmap
returns no address of the program's own code.

Only model-checked:

- liveness, which is out of the prover's reach: `CallsReturn`, `InterruptWorks`,
  `StopReturns`, `OutputFlows`, `QueueDrains` and `CommandReturns`;
- what the violation runs refute.

## 6. Not modelled

- *Heap walkers* (`aglib/heap/`), *kernel* (`aglib/kernel/`), `godbg.py`: read-only
  decoding of structures in another program's memory. They keep no state but caches, and
  properties of the structures would be the allocators' or the kernel's, not pwndbg's.
- *Memory maps*: lists of pages read anew after each event and merged; only commands of
  the user change the custom ones.
- *Disassembly, emulation, decompiler integration*: the state is Capstone's, Unicorn's
  or another program's.
- *Commands and context display*: about two hundred commands that print. Those that
  drive the program do it through the execution controller and the injected code,
  which are modelled; the step helpers of `next.py` are loops of single steps.
- *Configuration*: parameters with triggers; nothing modelled depends on their order.
- *Line editing*, *install scripts*, *tests*, *documentation*, and the tables of
  function signatures (`lib/functions_data.py`): no behaviour across events.
- Of the components modelled in part: registration and reloading of pwndbg itself;
  caches other than the one of registers, which are cleared by the same events in the
  same way; in the REPL, argument parsing, IPython and output capture.

The share of the repository's lines that the modules stand for is small because most
of those lines are tables, decoders and printing.
