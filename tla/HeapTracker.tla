----------------------------- MODULE HeapTracker -----------------------------
(***************************************************************************)
(* The heap tracker of GDB.  Breakpoints on malloc, calloc, realloc and    *)
(* free, and a finish breakpoint in each call they see, keep a map of the  *)
(* chunks that are allocated and of those that are free; each free chunk   *)
(* is watched, and a write to one outside memory management is reported as *)
(* a use after free.  libc moves boundaries of free chunks as it likes, so *)
(* malloc rebuilds the part of the map that the new chunk touches.         *)
(*                                                                         *)
(* src/pwndbg/gdblib/ptmalloc2_tracking.py                                 *)
(*                                                                         *)
(* Addresses count units of 16 bytes: a chunk [hdr, size] has its header   *)
(* in unit hdr, and the program is given the address hdr + 1.              *)
(***************************************************************************)
EXTENDS Integers, FiniteSets, FiniteSetsExt, TLC

CONSTANTS
    Threads,
    HeapEnd,      \* bound: units of the heap
    Sizes,        \* chunk sizes the program asks for
    MaxCalls,     \* bound on the calls of libc
    MaxTrackers,  \* bound on the times the tracker is installed
    HandlersMayRaise  \* GDB or an assertion may make any handler raise

ASSUME HeapAssumption ==
    /\ HandlersMayRaise \in BOOLEAN
    /\ HeapEnd \in Nat /\ Sizes \subseteq 2..HeapEnd
    /\ {MaxCalls, MaxTrackers} \subseteq Nat

Symmetry == Permutations(Threads)

Chunk == [hdr : Int, size : Int]
Null == [hdr |-> -1, size |-> 0]            \* the null pointer
Idle == [kind |-> "idle"]
Kinds == {"malloc", "free", "realloc"}

VARIABLES
    \* libc and the program.
    owned,     \* chunks the program owns
    bins,      \* free chunks, with the thread cache or the arena that has them
    top,       \* first unit of the top chunk, which is in no bin
    call,      \* the outermost libc call of each thread
    calls,     \* how many there were
    \* The tracker objects; the last one is installed, if any is.
    installs,  \* how many there are
    enabled,   \* is_enabled()
    flag,      \* memory_management_calls
    frees,     \* free_chunks and free_watchpoints: address and size
    allocs,    \* alloc_chunks
    leaked,    \* enabled watchpoints that no tracker knows
    \* History.
    deaf,      \* tracker and thread: a handler left with the flag set
    crossed,   \* a finish breakpoint went out of scope in another thread
    overtaken, \* a call returned while another one was not handled yet
    untracked, \* a call was handled as untracked, given up, or not seen
    crowded    \* two free chunks were next to each other, or became one

libc == <<owned, bins, top>>
maps == <<frees, allocs, leaked>>
history == <<deaf, crossed, overtaken, untracked, crowded>>
vars == <<libc, call, calls, installs, enabled, flag, maps, history>>

Arena == "arena"
Trackers == 1..MaxTrackers
Units(a, n) == a..(a + n - 1)

\* The size of an entry found in a bin holds the flag bits of the size field: with
\* PREV_INUSE set it ends in the header of the next chunk.
Entry == [address : Int, size : Int, prevInUse : BOOLEAN]

Calling == [kind : Kinds, ptr : Chunk, ret : Chunk, done : BOOLEAN, by : 0..MaxTrackers]

\* Chunk of get_chunk: the size of the whole chunk, from the address the program has.
Tracked(c) == [address |-> c.hdr + 1, size |-> c.size, prevInUse |-> FALSE]

Init ==
    /\ owned = {} /\ bins = {} /\ top = 0
    /\ call = [t \in Threads |-> Idle] /\ calls = 0
    /\ installs = 0 /\ enabled = FALSE
    /\ flag = [g \in Trackers |-> [t \in Threads |-> FALSE]]
    /\ frees = [g \in Trackers |-> {}]
    /\ allocs = [g \in Trackers |-> {}]
    /\ leaked = {}
    /\ deaf = {}
    /\ crossed = FALSE /\ overtaken = FALSE /\ untracked = FALSE /\ crowded = FALSE

CallsOK ==
    /\ call \in [Threads -> Calling \union {Idle}]
    /\ owned \subseteq Chunk
    /\ top \in Int
    /\ installs \in 0..MaxTrackers
    /\ enabled => installs # 0

FlagsOK == flag \in [Trackers -> [Threads -> BOOLEAN]]

MapsOK ==
    /\ bins \subseteq [hdr : Int, size : Int, home : Threads \union {Arena}]
    /\ frees \in [Trackers -> SUBSET Entry]
    /\ allocs \in [Trackers -> SUBSET Entry]
    /\ leaked \subseteq Entry

\* Every variable has its type.
TypeOK == CallsOK /\ FlagsOK /\ MapsOK

-----------------------------------------------------------------------------
(* libc: what it does between the entry of a call and its return.           *)

\* A new chunk from the top.
FromTop(n) ==
    /\ top + n <= HeapEnd
    /\ top' = top + n
    /\ bins' = bins

\* A free chunk, whole, or the front of one in the arena.
FromBin(t, b, n) ==
    /\ b.home \in {t, Arena}
    /\ top' = top
    /\ \/ b.size = n /\ bins' = bins \ {b}
       \/ /\ b.home = Arena /\ b.size >= n + 2
          /\ bins' = (bins \ {b})
                \union {[hdr |-> b.hdr + n, size |-> b.size - n, home |-> Arena]}

\* A chunk of n units becomes the program's.
Gets(t, c, n) ==
    \/ FromTop(n) /\ c = [hdr |-> top, size |-> n]
    \/ \E b \in bins : FromBin(t, b, n) /\ c = [hdr |-> b.hdr, size |-> n]

\* A freed chunk goes to the thread's cache, to the arena, to the chunk before
\* it, or to the top.
Gives(t, c) ==
    \/ /\ \E home \in {t, Arena} :
             bins' = bins \union {[hdr |-> c.hdr, size |-> c.size, home |-> home]}
       /\ top' = top
    \/ \E b \in bins :
          /\ b.home = Arena /\ b.hdr + b.size = c.hdr
          /\ bins' = (bins \ {b}) \union {[b EXCEPT !.size = @ + c.size]}
          /\ top' = top
    \/ c.hdr + c.size = top /\ top' = c.hdr /\ bins' = bins

\* A free chunk ends where another begins, or has taken a neighbour in.
Adjoins(a, b) ==
    \/ a \in bins' /\ a.hdr + a.size = b.hdr
    \/ a \in bins /\ b \in bins' /\ a.hdr = b.hdr /\ a.size < b.size

Returns(t, c) ==
    /\ call' = [call EXCEPT ![t].done = TRUE, ![t].ret = c]
    /\ crowded' = (crowded \/ \E a \in bins \union bins', b \in bins' : Adjoins(a, b))
    /\ overtaken' = (overtaken \/ \E u \in Threads \ {t} : call[u] # Idle /\ call[u].done)
    /\ UNCHANGED <<calls, installs, enabled, flag, maps, deaf, crossed, untracked>>

InLibc(t, kind) == call[t] # Idle /\ call[t].kind = kind /\ ~call[t].done

LibcMalloc(t) ==
    /\ InLibc(t, "malloc")
    /\ \E n \in Sizes, h \in 0..HeapEnd - 1 :
          LET c == [hdr |-> h, size |-> n] IN
              Gets(t, c, n) /\ owned' = owned \union {c} /\ Returns(t, c)

LibcFree(t) ==
    /\ InLibc(t, "free")
    /\ Gives(t, call[t].ptr)
    /\ owned' = owned \ {call[t].ptr}
    /\ Returns(t, Null)

\* realloc keeps the chunk or moves it (malloc, copy, free: two steps of libc,
\* in one here, to a chunk from the top).
LibcRealloc(t) ==
    /\ InLibc(t, "realloc")
    /\ LET p == call[t].ptr IN
       \/ owned' = owned /\ UNCHANGED <<bins, top>> /\ Returns(t, p)
       \/ \E n \in Sizes, home \in {t, Arena} :
             /\ top + n <= HeapEnd
             /\ top' = top + n
             /\ bins' = bins \union {[hdr |-> p.hdr, size |-> p.size, home |-> home]}
             /\ owned' = (owned \ {p}) \union {[hdr |-> top, size |-> n]}
             /\ Returns(t, [hdr |-> top, size |-> n])

\* Out of memory; nothing changes.
LibcFails(t) ==
    /\ InLibc(t, "malloc") \/ InLibc(t, "realloc")
    /\ UNCHANGED libc
    /\ Returns(t, Null)

-----------------------------------------------------------------------------
(* The tracker.                                                             *)

Put(map, e) == {x \in map : x.address # e.address} \union {e}

\* Enabled watchpoints a map loses when e replaces the entry of its address.
Replaced(map, e) == {x \in map : x.address = e.address}

\* Variant: bisect_left, which takes the chunk at the same address for no
\* left neighbour.
TouchedBefore(map, e) ==
    LET left == {x \in map : x.address < e.address /\ x.address + x.size >= e.address}
    IN {x \in map : x.address > e.address /\ x.address <= e.address + e.size}
         \union {x \in left : \A y \in left : y.address <= x.address}

\* Free chunks that the new chunk e touches: free_chunks[lo_i..hi_i - 1].
Touched(map, e) ==
    LET before == {x \in map : x.address <= e.address}
        left == {x \in before : \A y \in before : y.address <= x.address}
    IN {x \in map : x.address > e.address /\ x.address <= e.address + e.size}
         \union {x \in left : x.address + x.size >= e.address}

PrevInUse(b) == \A a \in bins : a.home = Arena => a.hdr + a.size # b.hdr

\* Variant: only the chunks that lie inside the range.
RescannedInside(t, touched) ==
    LET lo == Min({x.address : x \in touched})
        last == CHOOSE x \in touched : \A y \in touched : y.address <= x.address
    IN {[address |-> b.hdr, size |-> b.size, prevInUse |-> PrevInUse(b)] :
           b \in {b \in bins : /\ b.home \in {t, Arena}
                               /\ b.hdr >= lo
                               /\ b.hdr + b.size <= last.address + last.size}}

\* The free chunks libc has now in the range of those, as far as t sees them.
Rescanned(t, touched) ==
    LET lo == Min({x.address : x \in touched})
        last == CHOOSE x \in touched : \A y \in touched : y.address <= x.address
    IN {[address |-> b.hdr, size |-> b.size, prevInUse |-> PrevInUse(b)] :
           b \in {b \in bins : /\ b.home \in {t, Arena}
                               /\ \/ b.hdr < last.address + last.size
                                  \/ last.prevInUse /\ b.hdr = last.address + last.size
                               /\ \/ b.hdr + b.size > lo
                                  \/ PrevInUse(b) /\ b.hdr + b.size = lo}}

\* Tracker g's free chunks, which were map, lose the touched ones and gain the new.
\* The watchpoints of the entries that are removed are disabled, and deleted at
\* the next STOP event; those of entries that are overwritten are not.
Replaces(g, map, touched, new, lost) ==
    LET rest == map \ touched
        over == {x \in rest : \E y \in new : x.address = y.address}
    IN /\ frees' = [frees EXCEPT ![g] = (rest \ over) \union new]
       /\ leaked' = lost \union over

\* Tracker.malloc in tracker g, for the chunk e that t was given, when its free
\* chunks are map and its allocated ones held.
NotesMalloc(g, t, e, map, held, lost) ==
    LET touched == Touched(map, e)
        new == IF touched = {} THEN {} ELSE Rescanned(t, touched)
    IN /\ Replaces(g, map, touched, new, lost)
       /\ allocs' = [allocs EXCEPT ![g] = Put(held, e)]

\* It raises where the rescan, in the order of the addresses, has come to end: a
\* chunk cannot be read, or its watchpoint not be set.
RescanRaises(g, t, e, map, held, lost) ==
    LET touched == Touched(map, e) IN
    /\ touched # {}
    /\ \E end \in 0..HeapEnd :
          Replaces(g, map, touched, {x \in Rescanned(t, touched) : x.address < end}, lost)
    /\ allocs' = [allocs EXCEPT ![g] = held]

Known(g, c) == {x \in allocs[g] : x.address = c.hdr + 1}

\* Tracker.free of a chunk the tracker knows, with the size it noted for it.
NotesFree(g, c) ==
    \E e \in Known(g, c) :
        /\ frees' = [frees EXCEPT ![g] = Put(@, e)]
        /\ leaked' = leaked \union Replaced(frees[g], e)
        /\ allocs' = [allocs EXCEPT ![g] = @ \ {e}]

\* It raises where it sets the watchpoint: the chunk is in neither map.
FreeRaises(g, c) ==
    /\ allocs' = [allocs EXCEPT ![g] = @ \ Known(g, c)]
    /\ UNCHANGED <<frees, leaked>>

-----------------------------------------------------------------------------
(* Entry breakpoints.                                                       *)

\* A thread calls libc.  by is the tracker whose finish breakpoint waits in the
\* call: none if tracking is off or the thread is taken to be in libc already.
Enters(t, kind, p) ==
    /\ call[t] = Idle
    /\ calls < MaxCalls /\ calls' = calls + 1
    /\ IF enabled /\ ~flag[installs][t]
       THEN /\ flag' = [flag EXCEPT ![installs][t] = TRUE]
            /\ call' = [call EXCEPT ![t] = [kind |-> kind, ptr |-> p, ret |-> Null, done |-> FALSE,
                                            by |-> installs]]
            /\ untracked' = untracked
       ELSE /\ flag' = flag
            /\ call' = [call EXCEPT ![t] = [kind |-> kind, ptr |-> p, ret |-> Null, done |-> FALSE,
                                            by |-> 0]]
            /\ untracked' = TRUE
    /\ UNCHANGED <<libc, installs, enabled, maps, deaf, crossed, overtaken, crowded>>

\* malloc, calloc, and realloc of the null pointer.
MallocEnter(t) == Enters(t, "malloc", Null)

\* A chunk is freed, or reallocated, by one thread at a time.
Passed(p) == \E u \in Threads : call[u] # Idle /\ call[u].ptr = p

FreeEnter(t) == \E p \in owned : ~Passed(p) /\ Enters(t, "free", p)
ReallocEnter(t) == \E p \in owned : ~Passed(p) /\ Enters(t, "realloc", p)

\* realloc(p, 0) enters memory management, raises on its way to the warning,
\* and places no finish breakpoint: nothing leaves it.  libc frees p.
ReallocZeroEnter(t) ==
    /\ call[t] = Idle
    /\ calls < MaxCalls /\ calls' = calls + 1
    /\ enabled /\ ~flag[installs][t]
    /\ \E p \in owned :
          /\ ~Passed(p)
          /\ call' = [call EXCEPT ![t] = [kind |-> "free", ptr |-> p, ret |-> Null, done |-> FALSE,
                                          by |-> 0]]
    /\ flag' = [flag EXCEPT ![installs][t] = TRUE]
    /\ deaf' = deaf \union {<<installs, t>>}
    /\ untracked' = TRUE
    /\ UNCHANGED <<libc, installs, enabled, maps, crossed, overtaken, crowded>>

\* Any other handler that raises: on its way into memory management, or after
\* that, because no finish breakpoint can be placed (in the outermost frame).
EnterRaises(t) ==
    /\ HandlersMayRaise
    /\ call[t] = Idle
    /\ calls < MaxCalls /\ calls' = calls + 1
    /\ enabled /\ ~flag[installs][t]
    /\ \E kind \in Kinds, p \in owned \union {Null} :
          /\ IF kind = "malloc" THEN p = Null ELSE p # Null /\ ~Passed(p)
          /\ call' = [call EXCEPT ![t] = [kind |-> kind, ptr |-> p, ret |-> Null, done |-> FALSE,
                                          by |-> 0]]
    /\ \/ UNCHANGED <<flag, deaf>>
       \/ /\ flag' = [flag EXCEPT ![installs][t] = TRUE]
          /\ deaf' = deaf \union {<<installs, t>>}
    /\ untracked' = TRUE
    /\ UNCHANGED <<libc, installs, enabled, maps, crossed, overtaken, crowded>>

-----------------------------------------------------------------------------
(* Finish breakpoints.  exit_memory_management asserts that the flag is set. *)

Ends(t) ==
    /\ call[t] # Idle /\ call[t].done
    /\ call' = [call EXCEPT ![t] = Idle]
    /\ UNCHANGED <<libc, calls, installs, enabled, crossed, overtaken, crowded>>

Exits(t) == flag' = [flag EXCEPT ![call[t].by][t] = FALSE]

\* No finish breakpoint waits in the call.
Unseen(t) ==
    /\ Ends(t)
    /\ call[t].by = 0
    /\ UNCHANGED <<flag, maps, deaf, untracked>>

\* Variant: a call from outside the program's code does not leave.
OutsideStays(t) ==
    /\ Ends(t)
    /\ call[t].by # 0
    /\ untracked' = TRUE
    /\ UNCHANGED <<flag, maps, deaf>>

\* No frame of the stack is in the program's code: untracked.
Outside(t) ==
    /\ Ends(t)
    /\ call[t].by # 0
    /\ Exits(t)
    /\ untracked' = TRUE
    /\ UNCHANGED <<maps, deaf>>

\* AllocExitBreakpoint.
AllocExit(t) ==
    /\ Ends(t)
    /\ call[t].by # 0 /\ call[t].kind = "malloc"
    /\ Exits(t)
    /\ IF call[t].ret = Null THEN UNCHANGED maps
       ELSE NotesMalloc(call[t].by, t, Tracked(call[t].ret), frees[call[t].by],
                        allocs[call[t].by], leaked)
    /\ UNCHANGED <<deaf, untracked>>

\* FreeExitBreakpoint; an unknown pointer is reported.
FreeExit(t) ==
    /\ Ends(t)
    /\ call[t].by # 0 /\ call[t].kind = "free"
    /\ Exits(t)
    /\ IF Known(call[t].by, call[t].ptr) = {} THEN UNCHANGED maps
       ELSE NotesFree(call[t].by, call[t].ptr)
    /\ UNCHANGED <<deaf, untracked>>

\* ReallocExitBreakpoint: free, then malloc.
ReallocExit(t) ==
    /\ Ends(t)
    /\ call[t].by # 0 /\ call[t].kind = "realloc" /\ call[t].ret # Null
    /\ Exits(t)
    /\ LET g == call[t].by
           known == Known(g, call[t].ptr)
           replaced == {x \in frees[g] : \E e \in known : x.address = e.address}
       IN NotesMalloc(g, t, Tracked(call[t].ret), (frees[g] \ replaced) \union known,
                      allocs[g] \ known, leaked \union replaced)
    /\ UNCHANGED <<deaf, untracked>>

\* A realloc that failed is read like one that did not: get_chunk(0) raises.
ReallocExitRaises(t) ==
    /\ Ends(t)
    /\ call[t].by # 0 /\ call[t].kind = "realloc" /\ call[t].ret = Null
    /\ deaf' = deaf \union {<<call[t].by, t>>}
    /\ UNCHANGED <<flag, maps, untracked>>

\* Any handler that raises before it leaves memory management: in_program_code_stack,
\* get_chunk, an assertion of Tracker.malloc (the memory of its free chunks has no
\* arena any more), Heap(), or a watchpoint that cannot be set.  Of the errors of
\* the rescan only IndexError is caught.
ExitRaises(t) ==
    /\ HandlersMayRaise
    /\ Ends(t)
    /\ call[t].by # 0
    /\ deaf' = deaf \union {<<call[t].by, t>>}
    /\ untracked' = TRUE
    /\ flag' = flag
    /\ LET g == call[t].by
           known == IF call[t].kind = "malloc" THEN {} ELSE Known(g, call[t].ptr)
           replaced == {x \in frees[g] : \E e \in known : x.address = e.address}
       IN \/ UNCHANGED maps
          \/ known # {} /\ FreeRaises(g, call[t].ptr)
          \/ known # {} /\ call[t].kind = "realloc" /\ NotesFree(g, call[t].ptr)
          \/ /\ call[t].kind # "free" /\ call[t].ret # Null
             /\ RescanRaises(g, t, Tracked(call[t].ret), (frees[g] \ replaced) \union known,
                             allocs[g] \ known, leaked \union replaced)

\* The frame of a call is gone at a stop.  out_of_scope leaves for the thread
\* that is selected then, whose flag it asserts to be set.
OutOfScope(t, selected) ==
    /\ call[t] # Idle /\ call[t].by # 0
    /\ call' = [call EXCEPT ![t] = Idle]
    /\ flag' = [flag EXCEPT ![call[t].by][selected] = FALSE]
    /\ crossed' = (crossed \/ selected # t)
    /\ untracked' = TRUE
    /\ UNCHANGED <<libc, calls, installs, enabled, maps, deaf, overtaken, crowded>>

-----------------------------------------------------------------------------
(* track-heap enable and disable.                                           *)

Install ==
    /\ ~enabled
    /\ installs < MaxTrackers
    /\ installs' = installs + 1
    /\ enabled' = TRUE
    /\ untracked' = (untracked \/ owned # {} \/ \E t \in Threads : call[t] # Idle)
    /\ UNCHANGED <<libc, call, calls, flag, maps, deaf, crossed, overtaken, crowded>>

\* The breakpoints in the calls and on the free chunks stay, with their tracker.
Uninstall ==
    /\ enabled
    /\ enabled' = FALSE
    /\ UNCHANGED <<libc, call, calls, installs, flag, maps, history>>

Next ==
    \/ \E t \in Threads :
          \/ MallocEnter(t) \/ FreeEnter(t) \/ ReallocEnter(t)
          \/ ReallocZeroEnter(t) \/ EnterRaises(t)
          \/ LibcMalloc(t) \/ LibcFree(t) \/ LibcRealloc(t) \/ LibcFails(t)
          \/ Unseen(t) \/ Outside(t) \/ AllocExit(t) \/ FreeExit(t)
          \/ ReallocExit(t) \/ ReallocExitRaises(t) \/ ExitRaises(t)
          \/ \E selected \in Threads : OutOfScope(t, selected)
    \/ Install \/ Uninstall

Spec == Init /\ [][Next]_vars

-----------------------------------------------------------------------------
(* Properties.                                                              *)

\* Units the program may write to in its chunk c.  Of the last one, which has the
\* header of the next chunk, it has the first half.
Payload(c) == Units(c.hdr + 1, c.size)

\* The enabled watchpoints.
Watched == leaked \union UNION {frees[g] : g \in Trackers}

Covers(w, units) == Units(w.address, w.size) \intersect units # {}

\* c has been handed to the program, and the tracker has seen it.
Settled(c) == \A t \in Threads : call[t] # Idle => call[t].ret # c

\* One tracker, told of every call, in the order libc served them.
Regular == installs <= 1 /\ ~untracked /\ ~overtaken

\* Each thread is in memory management exactly while one of its calls has a
\* finish breakpoint, so no call is missed and none is taken for a write of the
\* program.  Exceptions are a handler that raised in the thread, as those of
\* realloc(p, 0) and of a realloc that fails always do, and a frame that goes away
\* while another thread is selected.
FlagsMatchCalls ==
    ~crossed =>
        \A g \in Trackers, t \in Threads :
            <<g, t>> \notin deaf =>
                (flag[g][t] <=> call[t] # Idle /\ call[t].by = g)

\* No byte of a chunk the program owns is watched, so no legal write is reported as
\* a use after free, in a regular session where no two free chunks were next to each
\* other.  The exception is the chunk before a free one that a rescan noted: such
\* an entry, which has PREV_INUSE in its size, begins at the header, the first half
\* of which the program may write to.
OwnedIsUnwatched ==
    Regular /\ ~crowded =>
        \A c \in owned : Settled(c) =>
            \A w \in Watched : Covers(w, Payload(c)) => w.prevInUse /\ w.address = c.hdr + c.size

\* A chunk that was freed stays watched while libc keeps it in the arena, in
\* a regular session where no two free chunks were next to each other.  (malloc in
\* another thread does not find a chunk in a thread cache, and forgets it; and with
\* entries of chunks that have merged in the map, its rescan can leave out a chunk.)
FreedIsWatched ==
    Regular /\ ~crowded =>
        \A b \in bins :
            /\ b.home = Arena
            /\ \A t \in Threads : call[t] # Idle => call[t].ptr # [hdr |-> b.hdr, size |-> b.size]
            => \E w \in Watched : Covers(w, Units(b.hdr + 1, b.size - 1))

\* realloc(p, 0) is ignored: "print a warning and do nothing"
\* (src/pwndbg/gdblib/ptmalloc2_tracking.py:504).  When a call that was ignored
\* returns, its thread is not left in memory management, so its next call is seen.
IgnoredLeavesNothing ==
    [][\A t \in Threads : Unseen(t) /\ enabled => ~flag[installs][t]]_vars
=============================================================================
