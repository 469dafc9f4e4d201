------------------------- MODULE GotTrackingProofs -------------------------
(***************************************************************************)
(* Proofs about GOT tracking, for any number of slots and threads, any     *)
(* addresses and any capacity of a block.                                  *)
(***************************************************************************)
EXTENDS GotTracking, FiniteSetTheorems, TLAPS

(***************************************************************************)
(* The inductive invariant.                                                *)
(***************************************************************************)
Places == Code \cup Trap \cup {App, Lost}

SlotsOK ==
    /\ entry \in [Slot -> Code \cup Trap]
    /\ linked \in [Slot -> Code]
    /\ trap \in [Slot -> Trap \cup {Zero}]
    /\ target \in [Slot -> Code \cup Trap \cup {Zero}]
    /\ \A s \in installed : trap[s] \in Trap

PlacesOK ==
    /\ pc \in [Threads -> Places \cup {Zero}]
    /\ loaded \in Slot
    /\ enables \in Nat

AllocatorOK ==
    /\ blocks \in Seq(Bases) /\ vacant \in Seq(Trap)
    /\ occupancy \in 0..BlockCapacity /\ occupied \subseteq Trap

\* What a command that is in progress relies on.
CommandsOK ==
    /\ status \in {"none", "running"} => op = "none"
    /\ status = "syscall" => op \in {"enable", "disable"}
    /\ op = "enable" => tracking /\ enables > 0
    /\ op = "disable" => ~tracking
    /\ status = "syscall" /\ op = "disable" => blocks # <<>>
    /\ ~tracking => installed = {}

\* The slots are installed in their order.
OrderOK == \E k \in Nat : installed = 1..k /\ k <= SlotCount

\* Before tracking is on for the first time in a process there are no traps in it;
\* with trackers of an earlier process it cannot run at all.
FreshOK ==
    enables = 0 =>
        /\ mapped = {} /\ entry = linked
        /\ Runs => installed = {}
        /\ \A t \in Threads : pc[t] \in Code \cup {App}

\* While it is on for the first time, a tracker has a target.
RoutesOK ==
    enables = 1 /\ tracking =>
        \A s \in Slot :
            /\ Route(s) = linked[s]
            /\ s \in installed => target[s] \in Code

\* A thread in a trap is in that of a tracker.
ThreadsOK ==
    tracking /\ enables = 1 /\ ~failed
        /\ Len(blocks) <= 1 /\ ~(status = "syscall" /\ installed # {}) =>
        \A t \in Threads : pc[t] \in Code \cup {App} \cup {trap[s] : s \in installed}

\* Each tracker has a trap of its own, and only trackers occupy traps.
UsedOK ==
    ~failed =>
        /\ \A s, r \in installed : trap[s] = trap[r] => s = r
        /\ occupied = {trap[s] : s \in installed}

VacantOK == ~failed => IsInjective(vacant) /\ Range(vacant) \intersect occupied = {}

\* The allocator's blocks are mapped, until another process starts.
BlocksOK == ~failed => IsInjective(blocks) /\ (enables > 0 => Range(blocks) \subseteq mapped)

\* The rest of the last block has not been handed out.
RoomOK ==
    ~failed /\ op # "disable" =>
        /\ \A a \in occupied \cup Range(vacant) : a[1] \in Range(blocks)
        /\ blocks # <<>> =>
              \A n \in occupancy..BlockCapacity - 1 :
                  <<Last(blocks), n>> \notin occupied \cup Range(vacant)

\* Nothing is left in the allocator between two trackings, nor of an earlier
\* process, unless the history says so.
IdleOK ==
    ~failed =>
        /\ ~tracking /\ op = "none" => blocks = <<>> /\ vacant = <<>>
        /\ ~stale /\ (enables = 0 \/ status = "none") =>
              ~tracking /\ blocks = <<>> /\ vacant = <<>>

GotInv ==
    /\ SlotsOK /\ PlacesOK /\ AllocatorOK
    /\ CommandsOK /\ OrderOK
    /\ FreshOK /\ RoutesOK /\ ThreadsOK
    /\ UsedOK /\ VacantOK /\ BlocksOK /\ RoomOK /\ IdleOK

-----------------------------------------------------------------------------
(* Sequences without repetition.                                            *)

\* A new last element.
LEMMA Appended ==
    ASSUME NEW T, NEW q \in Seq(T), NEW e \in T
    PROVE  /\ Append(q, e) \in Seq(T) /\ Append(q, e) # <<>>
           /\ Last(Append(q, e)) = e
           /\ Len(Append(q, e)) = Len(q) + 1
           /\ Range(Append(q, e)) = Range(q) \cup {e}
           /\ IsInjective(q) /\ e \notin Range(q) => IsInjective(Append(q, e))
<1> DEFINE r == Append(q, e)
<1>1. /\ r \in Seq(T) /\ Len(r) = Len(q) + 1
      /\ DOMAIN q = 1..Len(q) /\ DOMAIN r = 1..(Len(q) + 1)
      /\ \A i \in 1..Len(q) : r[i] = q[i]
      /\ r[Len(q) + 1] = e /\ Len(q) \in Nat
  OBVIOUS
<1> HIDE DEF r
<1>2. r # <<>> /\ Last(r) = e
  BY <1>1 DEF Last
<1>3. Range(r) = Range(q) \cup {e}
  <2>1. ASSUME NEW x \in Range(r) PROVE x \in Range(q) \cup {e}
    BY <1>1 DEF Range
  <2>2. ASSUME NEW x \in Range(q) PROVE x \in Range(r)
    BY <1>1 DEF Range
  <2>3. e \in Range(r)
    BY <1>1 DEF Range
  <2> QED BY <2>1, <2>2, <2>3
<1>4. ASSUME IsInjective(q), e \notin Range(q) PROVE IsInjective(r)
  <2> SUFFICES ASSUME NEW i \in DOMAIN r, NEW j \in DOMAIN r, r[i] = r[j] PROVE i = j
    BY DEF IsInjective
  <2>1. CASE i \in 1..Len(q) /\ j \in 1..Len(q)
    BY <1>1, <1>4, <2>1 DEF IsInjective
  <2>2. CASE i = Len(q) + 1 /\ j \in 1..Len(q)
    BY <1>1, <1>4, <2>2 DEF Range
  <2>3. CASE j = Len(q) + 1 /\ i \in 1..Len(q)
    BY <1>1, <1>4, <2>3 DEF Range
  <2> QED BY <1>1, <2>1, <2>2, <2>3
<1> QED BY <1>1, <1>2, <1>3, <1>4 DEF r

\* Without the last element.
LEMMA Shortened ==
    ASSUME NEW T, NEW q \in Seq(T), q # <<>>
    PROVE  /\ Front(q) \in Seq(T) /\ Last(q) \in T
           /\ Len(Front(q)) < Len(q)
           /\ Range(q) = Range(Front(q)) \cup {Last(q)} /\ Last(q) \in Range(q)
           /\ IsInjective(q) => IsInjective(Front(q)) /\ Last(q) \notin Range(Front(q))
<1> DEFINE n == Len(q) - 1
           r == Front(q)
<1>1. Len(q) \in Nat /\ Len(q) # 0 /\ n \in Nat /\ n + 1 = Len(q)
  OBVIOUS
<1>2. /\ r \in Seq(T) /\ Len(r) = n
      /\ DOMAIN q = 1..(n + 1) /\ DOMAIN r = 1..n
      /\ \A i \in 1..n : r[i] = q[i]
  BY <1>1 DEF Front
<1>3. Last(q) = q[n + 1] /\ Last(q) \in T
  BY <1>1 DEF Last
<1> HIDE DEF r, n
<1>4. Range(q) = Range(r) \cup {Last(q)}
  <2>1. ASSUME NEW x \in Range(q) PROVE x \in Range(r) \cup {Last(q)}
    BY <1>1, <1>2, <1>3 DEF Range
  <2>2. ASSUME NEW x \in Range(r) PROVE x \in Range(q)
    BY <1>1, <1>2 DEF Range
  <2>3. Last(q) \in Range(q)
    BY <1>1, <1>2, <1>3 DEF Range
  <2> QED BY <2>1, <2>2, <2>3
<1>5. IsInjective(q) => IsInjective(r)
  BY <1>1, <1>2 DEF IsInjective
<1>6. IsInjective(q) => Last(q) \notin Range(r)
  BY <1>1, <1>2, <1>3 DEF IsInjective, Range
<1>7. Len(r) < Len(q)
  BY <1>1, <1>2
<1> QED BY <1>2, <1>3, <1>4, <1>5, <1>6, <1>7 DEF r

\* One after the other.
LEMMA Joined ==
    ASSUME NEW T, NEW p \in Seq(T), NEW q \in Seq(T)
    PROVE  /\ p \o q \in Seq(T)
           /\ Range(p \o q) = Range(p) \cup Range(q)
           /\ IsInjective(p) /\ IsInjective(q) /\ Range(p) \cap Range(q) = {}
                => IsInjective(p \o q)
<1> DEFINE r == p \o q
<1>1. /\ r \in Seq(T) /\ Len(p) \in Nat /\ Len(q) \in Nat /\ Len(r) = Len(p) + Len(q)
      /\ DOMAIN p = 1..Len(p) /\ DOMAIN q = 1..Len(q)
      /\ DOMAIN r = 1..(Len(p) + Len(q))
      /\ \A i \in 1..Len(p) : r[i] = p[i]
  OBVIOUS
<1>2. \A i \in 1..Len(q) : r[Len(p) + i] = q[i]
  OBVIOUS
<1>3. \A i \in DOMAIN r : i \in DOMAIN p \/ (i - Len(p) \in DOMAIN q /\ r[i] = q[i - Len(p)])
  <2> SUFFICES ASSUME NEW i \in 1..(Len(p) + Len(q)), i \notin 1..Len(p)
               PROVE i - Len(p) \in 1..Len(q) /\ r[i] = q[i - Len(p)]
    BY <1>1
  <2>1. i - Len(p) \in 1..Len(q) /\ Len(p) + (i - Len(p)) = i
    BY <1>1
  <2> QED BY <1>2, <2>1
<1>4. \A i \in 1..Len(q) : Len(p) + i \in DOMAIN r
  BY <1>1
<1>5. \A i \in DOMAIN p : i \in DOMAIN r /\ r[i] = p[i]
  BY <1>1
<1> HIDE DEF r
<1>6. Range(r) = Range(p) \cup Range(q)
  <2>1. ASSUME NEW x \in Range(r) PROVE x \in Range(p) \cup Range(q)
    BY <1>3, <1>5 DEF Range
  <2>2. ASSUME NEW x \in Range(p) PROVE x \in Range(r)
    BY <1>5 DEF Range
  <2>3. ASSUME NEW x \in Range(q) PROVE x \in Range(r)
    BY <1>1, <1>2, <1>4 DEF Range
  <2> QED BY <2>1, <2>2, <2>3
<1>7. ASSUME IsInjective(p), IsInjective(q), Range(p) \cap Range(q) = {}
      PROVE IsInjective(r)
  <2> SUFFICES ASSUME NEW i \in DOMAIN r, NEW j \in DOMAIN r, r[i] = r[j] PROVE i = j
    BY DEF IsInjective
  <2>1. \A a \in DOMAIN p, b \in DOMAIN q : p[a] # q[b]
    BY <1>7 DEF Range
  <2>2. CASE i \in DOMAIN p /\ j \in DOMAIN p
    BY <1>5, <1>7, <2>2 DEF IsInjective
  <2>3. CASE i \in DOMAIN p /\ j \notin DOMAIN p
    BY <1>3, <1>5, <2>1, <2>3
  <2>4. CASE i \notin DOMAIN p /\ j \in DOMAIN p
    BY <1>3, <1>5, <2>1, <2>4
  <2>5. CASE i \notin DOMAIN p /\ j \notin DOMAIN p
    <3>1. i - Len(p) = j - Len(p)
      BY <1>3, <1>7, <2>5 DEF IsInjective
    <3> QED BY <1>1, <3>1
  <2> QED BY <2>2, <2>3, <2>4, <2>5
<1> QED BY <1>1, <1>6, <1>7 DEF r

\* Nothing at all.
LEMMA EmptySequence ==
    ASSUME NEW T
    PROVE  /\ <<>> \in Seq(T) /\ Len(<<>>) = 0 /\ Range(<<>>) = {} /\ IsInjective(<<>>)
  BY DEF Range, IsInjective

\* What disabling frees: the traps of the trackers, each once.
LEMMA FreedTraps ==
    ASSUME OrderOK, SlotsOK
    PROVE  /\ Freed \in Seq(Trap)
           /\ Range(Freed) = {trap[s] : s \in installed}
           /\ (\A s, r \in installed : trap[s] = trap[r] => s = r) => IsInjective(Freed)
<1>1. PICK k \in Nat : installed = 1..k
  BY DEF OrderOK
<1>2. Cardinality(installed) = k
  BY <1>1, FS_Interval
<1>3. Freed = [i \in 1..k |-> trap[i]]
  BY <1>2 DEF Freed
<1>4. \A i \in 1..k : trap[i] \in Trap
  BY <1>1 DEF SlotsOK
<1>5. Freed \in Seq(Trap) /\ DOMAIN Freed = 1..k /\ \A i \in 1..k : Freed[i] = trap[i]
  BY <1>3, <1>4
<1> QED BY <1>1, <1>5 DEF Range, IsInjective

-----------------------------------------------------------------------------
(* Types.                                                                   *)

\* Every place in the program is what it is only once.
LEMMA Distinct ==
    /\ \A a \in Trap : a \notin Code /\ a # App /\ a # Lost /\ a # Zero
    /\ App \notin Code /\ Lost \notin Code /\ Zero \notin Code /\ App # Lost
    /\ \A s \in Slot : Stub(s) \in Code /\ Func(s) \in Code
  BY TrackingAssumption DEF Trap, Code, App, Lost, Zero, Stub, Func

\* What the allocator hands out is a trap.
LEMMA HandedOut ==
    ASSUME AllocatorOK
    PROVE  /\ vacant # <<>> => Last(vacant) \in Trap /\ Front(vacant) \in Seq(Trap)
           /\ blocks # <<>> => Last(blocks) \in Bases /\ Front(blocks) \in Seq(Bases)
           /\ blocks # <<>> /\ occupancy < BlockCapacity => <<Last(blocks), occupancy>> \in Trap
           /\ \A base \in Bases : <<base, 0>> \in Trap
<1>1. vacant # <<>> => Last(vacant) \in Trap /\ Front(vacant) \in Seq(Trap)
  BY Shortened DEF AllocatorOK
<1>2. blocks # <<>> => Last(blocks) \in Bases /\ Front(blocks) \in Seq(Bases)
  BY Shortened DEF AllocatorOK
<1> QED BY <1>1, <1>2, TrackingAssumption DEF AllocatorOK, Trap

\* A slot holds an address, and a tracker has a trap.
LEMMA SlotsStep ==
    ASSUME SlotsOK, AllocatorOK, [Next]_vars
    PROVE  SlotsOK'
<1> USE DEF SlotsOK, program, allocator, tracker, history
<1>1. ASSUME NEW t \in Threads, RunAway(t) PROVE SlotsOK'
  BY <1>1 DEF RunAway
<1>2. ASSUME NEW t \in Threads, NEW s \in Slot, Call(t, s) PROVE SlotsOK'
  BY <1>2 DEF Call
<1>3. ASSUME NEW t \in Threads, NEW s \in Slot, Bind(t, s) PROVE SlotsOK'
  BY <1>3, Distinct DEF Bind
<1>4. ASSUME NEW t \in Threads, NEW s \in Slot, Leave(t, s) PROVE SlotsOK'
  BY <1>4 DEF Leave
<1>5. ASSUME NEW t \in Threads, NEW s \in Slot, TrackerShouldStop(t, s) PROVE SlotsOK'
  BY <1>5 DEF TrackerShouldStop
<1>6. CASE Load
  BY <1>6 DEF Load
<1>7. ASSUME NEW s \in Slot, PatcherShouldStop(s) PROVE SlotsOK'
  BY <1>7 DEF PatcherShouldStop, Patched
<1>8. CASE Enable
  BY <1>8 DEF Enable
<1>9. ASSUME NEW s \in Slot, InstallRecycled(s) PROVE SlotsOK'
  BY <1>9, HandedOut DEF InstallRecycled, Install
<1>10. ASSUME NEW s \in Slot, InstallInBlock(s) PROVE SlotsOK'
  BY <1>10, HandedOut DEF InstallInBlock, Install
<1>11. ASSUME NEW s \in Slot, MmapRuns(s) PROVE SlotsOK'
  BY <1>11 DEF MmapRuns
<1>12. ASSUME NEW s \in Slot, NEW base \in Bases, MmapReturns(s, base) PROVE SlotsOK'
  BY <1>12, HandedOut DEF MmapReturns, Install
<1>13. CASE MmapRaises \/ Enabled
  BY <1>13 DEF MmapRaises, Enabled
<1>14. CASE DisableRuns
  BY <1>14 DEF DisableRuns
<1>15. CASE MunmapRuns \/ MunmapReturns \/ MunmapRaises \/ Disabled
  BY <1>15 DEF MunmapRuns, MunmapReturns, MunmapRaises, Disabled
<1>16. CASE Stop \/ Continue \/ Exit
  BY <1>16 DEF Stop, Continue, Exit
<1>17. CASE Start
  BY <1>17, Distinct DEF Start
<1>18. CASE UNCHANGED vars
  BY <1>18 DEF vars
<1> QED BY <1>1, <1>2, <1>3, <1>4, <1>5, <1>6, <1>7, <1>8, <1>9, <1>10, <1>11, <1>12, <1>13,
          <1>14, <1>15, <1>16, <1>17, <1>18 DEF Next

\* A thread is somewhere.
LEMMA PlacesStep ==
    ASSUME PlacesOK, SlotsOK, CommandsOK, [Next]_vars
    PROVE  PlacesOK'
<1> USE DEF PlacesOK, Places, program, allocator, tracker, history
<1>1. ASSUME NEW t \in Threads, RunAway(t) PROVE PlacesOK'
  BY <1>1 DEF RunAway, Moves
<1>2. ASSUME NEW t \in Threads, NEW s \in Slot, Call(t, s) PROVE PlacesOK'
  BY <1>2 DEF Call, Moves, SlotsOK
<1>3. ASSUME NEW t \in Threads, NEW s \in Slot, Bind(t, s) PROVE PlacesOK'
  BY <1>3, Distinct DEF Bind, Moves
<1>4. ASSUME NEW t \in Threads, NEW s \in Slot, Leave(t, s) PROVE PlacesOK'
  BY <1>4 DEF Leave, Moves
<1>5. ASSUME NEW t \in Threads, NEW s \in Slot, TrackerShouldStop(t, s) PROVE PlacesOK'
  BY <1>5 DEF TrackerShouldStop, Moves, SlotsOK
<1>6. CASE Load
  BY <1>6, TrackingAssumption DEF Load, Slot
<1>7. ASSUME NEW s \in Slot, PatcherShouldStop(s) PROVE PlacesOK'
  BY <1>7 DEF PatcherShouldStop
<1>8. CASE Enable
  BY <1>8 DEF Enable
<1>9. ASSUME NEW s \in Slot, InstallRecycled(s) PROVE PlacesOK'
  BY <1>9 DEF InstallRecycled, Install
<1>10. ASSUME NEW s \in Slot, InstallInBlock(s) PROVE PlacesOK'
  BY <1>10 DEF InstallInBlock, Install
<1>11. ASSUME NEW s \in Slot, MmapRuns(s) PROVE PlacesOK'
  BY <1>11 DEF MmapRuns
<1>12. ASSUME NEW s \in Slot, NEW base \in Bases, MmapReturns(s, base) PROVE PlacesOK'
  BY <1>12 DEF MmapReturns, Install
<1>13. CASE MmapRaises \/ Enabled
  BY <1>13 DEF MmapRaises, Enabled
<1>14. CASE DisableRuns \/ MunmapRuns \/ MunmapReturns \/ MunmapRaises \/ Disabled
  BY <1>14 DEF DisableRuns, MunmapRuns, MunmapReturns, MunmapRaises, Disabled
<1>15. CASE Stop \/ Continue \/ Exit
  BY <1>15 DEF Stop, Continue, Exit
<1>16. CASE Start
  BY <1>16 DEF Start
<1>17. CASE UNCHANGED vars
  BY <1>17 DEF vars
<1> QED BY <1>1, <1>2, <1>3, <1>4, <1>5, <1>6, <1>7, <1>8, <1>9, <1>10, <1>11, <1>12, <1>13,
          <1>14, <1>15, <1>16, <1>17 DEF Next

\* The allocator's lists hold blocks and traps.
LEMMA AllocatorStep ==
    ASSUME AllocatorOK, SlotsOK, CommandsOK, OrderOK, [Next]_vars
    PROVE  AllocatorOK'
<1> USE DEF AllocatorOK, program, allocator, tracker, history
<1>1. ASSUME NEW t \in Threads, RunAway(t) PROVE AllocatorOK'
  BY <1>1 DEF RunAway
<1>2. ASSUME NEW t \in Threads, NEW s \in Slot,
             Call(t, s) \/ Bind(t, s) \/ Leave(t, s) \/ TrackerShouldStop(t, s)
      PROVE AllocatorOK'
  BY <1>2 DEF Call, Bind, Leave, TrackerShouldStop
<1>3. CASE Load
  BY <1>3 DEF Load
<1>4. ASSUME NEW s \in Slot, PatcherShouldStop(s) PROVE AllocatorOK'
  BY <1>4 DEF PatcherShouldStop
<1>5. CASE Enable
  BY <1>5 DEF Enable
<1>6. ASSUME NEW s \in Slot, InstallRecycled(s) PROVE AllocatorOK'
  BY <1>6, HandedOut DEF InstallRecycled, Install
<1>7. ASSUME NEW s \in Slot, InstallInBlock(s) PROVE AllocatorOK'
  <2>1. occupancy < BlockCapacity /\ occupancy' = occupancy + 1
    BY <1>7 DEF InstallInBlock
  <2>2. occupancy' \in 0..BlockCapacity
    BY <2>1, TrackingAssumption
  <2>3. <<Last(blocks), occupancy>> \in Trap
    BY <1>7, HandedOut DEF InstallInBlock
  <2> QED BY <1>7, <2>2, <2>3 DEF InstallInBlock, Install
<1>8. ASSUME NEW s \in Slot, MmapRuns(s) PROVE AllocatorOK'
  BY <1>8 DEF MmapRuns
<1>9. ASSUME NEW s \in Slot, NEW base \in Bases, MmapReturns(s, base) PROVE AllocatorOK'
  <2>1. Append(blocks, base) \in Seq(Bases)
    BY Appended
  <2> QED BY <1>9, <2>1, HandedOut, TrackingAssumption DEF MmapReturns, Install
<1>10. CASE MmapRaises \/ Enabled
  BY <1>10 DEF MmapRaises, Enabled
<1>11. CASE DisableRuns
  <2>1. vacant \o Freed \in Seq(Trap)
    BY Joined, FreedTraps
  <2> QED BY <1>11, <2>1 DEF DisableRuns
<1>12. CASE MunmapRuns
  BY <1>12 DEF MunmapRuns
<1>13. CASE MunmapReturns
  BY <1>13, HandedOut DEF MunmapReturns, CommandsOK
<1>14. CASE MunmapRaises
  BY <1>14, HandedOut DEF MunmapRaises, CommandsOK
<1>15. CASE Disabled
  BY <1>15, EmptySequence, TrackingAssumption DEF Disabled
<1>16. CASE Stop \/ Continue \/ Exit \/ Start
  BY <1>16 DEF Stop, Continue, Exit, Start
<1>17. CASE UNCHANGED vars
  BY <1>17 DEF vars
<1> QED BY <1>1, <1>2, <1>3, <1>4, <1>5, <1>6, <1>7, <1>8, <1>9, <1>10, <1>11, <1>12, <1>13,
          <1>14, <1>15, <1>16, <1>17 DEF Next

\* A command holds its place from its start to its end.
LEMMA CommandsStep ==
    ASSUME CommandsOK, PlacesOK, [Next]_vars
    PROVE  CommandsOK'
<1> USE DEF CommandsOK, program, allocator, tracker, history
<1>1. ASSUME NEW t \in Threads, RunAway(t) PROVE CommandsOK'
  BY <1>1 DEF RunAway
<1>2. ASSUME NEW t \in Threads, NEW s \in Slot,
             Call(t, s) \/ Bind(t, s) \/ Leave(t, s) \/ TrackerShouldStop(t, s)
      PROVE CommandsOK'
  BY <1>2 DEF Call, Bind, Leave, TrackerShouldStop
<1>3. CASE Load
  BY <1>3 DEF Load
<1>4. ASSUME NEW s \in Slot, PatcherShouldStop(s) PROVE CommandsOK'
  BY <1>4 DEF PatcherShouldStop
<1>5. CASE Enable
  BY <1>5 DEF Enable, PlacesOK
<1>6. ASSUME NEW s \in Slot, InstallRecycled(s) PROVE CommandsOK'
  BY <1>6 DEF InstallRecycled, Install, Installing
<1>7. ASSUME NEW s \in Slot, InstallInBlock(s) PROVE CommandsOK'
  BY <1>7 DEF InstallInBlock, Install, Installing
<1>8. ASSUME NEW s \in Slot, MmapRuns(s) PROVE CommandsOK'
  BY <1>8 DEF MmapRuns, Installing
<1>9. ASSUME NEW s \in Slot, NEW base \in Bases, MmapReturns(s, base) PROVE CommandsOK'
  BY <1>9 DEF MmapReturns, Install
<1>10. CASE MmapRaises \/ Enabled
  BY <1>10 DEF MmapRaises, Enabled
<1>11. CASE DisableRuns \/ MunmapRuns \/ MunmapReturns \/ MunmapRaises \/ Disabled
  BY <1>11 DEF DisableRuns, MunmapRuns, MunmapReturns, MunmapRaises, Disabled
<1>12. CASE Stop \/ Continue \/ Exit \/ Start
  BY <1>12 DEF Stop, Continue, Exit, Start
<1>13. CASE UNCHANGED vars
  BY <1>13 DEF vars
<1> QED BY <1>1, <1>2, <1>3, <1>4, <1>5, <1>6, <1>7, <1>8, <1>9, <1>10, <1>11, <1>12,
          <1>13 DEF Next

\* The slots up to one that is not installed are those before the next one.
LEMMA InstalledNext ==
    ASSUME OrderOK, NEW s \in Slot, NextSlot(s)
    PROVE  \E k \in Nat : installed \cup {s} = 1..k /\ k <= SlotCount
<1>1. PICK k \in Nat : installed = 1..k /\ k <= SlotCount
  BY DEF OrderOK
<1>2. s \in Nat /\ s <= SlotCount /\ s > 0
  BY TrackingAssumption DEF Slot
<1>3. s = k + 1
  <2>1. s > k
    BY <1>1, <1>2 DEF NextSlot
  <2>2. ~(s > k + 1)
    <3> SUFFICES ASSUME s > k + 1 PROVE FALSE
      OBVIOUS
    <3>1. k + 1 \in 1..(s - 1)
      BY <1>2
    <3> QED BY <1>1, <3>1 DEF NextSlot
  <2> QED BY <1>2, <2>1, <2>2
<1>4. installed \cup {s} = 1..s
  BY <1>1, <1>3
<1> QED BY <1>2, <1>4

\* The slots are installed one after the other.
LEMMA OrderStep ==
    ASSUME OrderOK, CommandsOK, [Next]_vars
    PROVE  OrderOK'
<1> USE DEF OrderOK, program, allocator, tracker, history
<1>1. ASSUME NEW t \in Threads, RunAway(t) PROVE OrderOK'
  BY <1>1 DEF RunAway
<1>2. ASSUME NEW t \in Threads, NEW s \in Slot,
             Call(t, s) \/ Bind(t, s) \/ Leave(t, s) \/ TrackerShouldStop(t, s)
      PROVE OrderOK'
  BY <1>2 DEF Call, Bind, Leave, TrackerShouldStop
<1>3. CASE Load
  BY <1>3 DEF Load
<1>4. ASSUME NEW s \in Slot, PatcherShouldStop(s) PROVE OrderOK'
  BY <1>4 DEF PatcherShouldStop
<1>5. CASE Enable
  BY <1>5 DEF Enable
<1>6. ASSUME NEW s \in Slot, InstallRecycled(s) PROVE OrderOK'
  BY <1>6, InstalledNext DEF InstallRecycled, Install, Installing
<1>7. ASSUME NEW s \in Slot, InstallInBlock(s) PROVE OrderOK'
  BY <1>7, InstalledNext DEF InstallInBlock, Install, Installing
<1>8. ASSUME NEW s \in Slot, MmapRuns(s) PROVE OrderOK'
  BY <1>8 DEF MmapRuns
<1>9. ASSUME NEW s \in Slot, NEW base \in Bases, MmapReturns(s, base) PROVE OrderOK'
  BY <1>9, InstalledNext DEF MmapReturns, Install
<1>10. CASE MmapRaises \/ Enabled
  BY <1>10 DEF MmapRaises, Enabled
<1>11. CASE DisableRuns
  <2>1. installed' = 1..0 /\ 0 <= SlotCount
    BY <1>11, TrackingAssumption DEF DisableRuns
  <2> QED BY <2>1
<1>12. CASE MunmapRuns \/ MunmapReturns \/ MunmapRaises \/ Disabled
  BY <1>12 DEF MunmapRuns, MunmapReturns, MunmapRaises, Disabled
<1>13. CASE Stop \/ Continue \/ Exit \/ Start
  BY <1>13 DEF Stop, Continue, Exit, Start
<1>14. CASE UNCHANGED vars
  BY <1>14 DEF vars
<1> QED BY <1>1, <1>2, <1>3, <1>4, <1>5, <1>6, <1>7, <1>8, <1>9, <1>10, <1>11, <1>12, <1>13,
          <1>14 DEF Next
-----------------------------------------------------------------------------
(* Where a call through a slot arrives.                                     *)

\* The program runs without traps, or not at all, before tracking is on.
LEMMA FreshStep ==
    ASSUME FreshOK, SlotsOK, CommandsOK, PlacesOK, [Next]_vars
    PROVE  FreshOK'
<1> USE DEF FreshOK, Runs, program, allocator, tracker, history
<1>1. ASSUME NEW t \in Threads, RunAway(t) PROVE FreshOK'
  BY <1>1, Distinct DEF RunAway
<1>2. ASSUME NEW t \in Threads, NEW s \in Slot, Call(t, s) PROVE FreshOK'
  BY <1>2 DEF Call, Moves, SlotsOK, PlacesOK
<1>3. ASSUME NEW t \in Threads, NEW s \in Slot, Bind(t, s) PROVE FreshOK'
  BY <1>3, Distinct DEF Bind, Moves, SlotsOK, PlacesOK
<1>4. ASSUME NEW t \in Threads, NEW s \in Slot, Leave(t, s) PROVE FreshOK'
  BY <1>4 DEF Leave, Moves, PlacesOK
<1>5. ASSUME NEW t \in Threads, NEW s \in Slot, TrackerShouldStop(t, s) PROVE FreshOK'
  BY <1>5 DEF TrackerShouldStop, Armed
<1>6. CASE Load
  BY <1>6 DEF Load
<1>7. ASSUME NEW s \in Slot, PatcherShouldStop(s) PROVE FreshOK'
  BY <1>7 DEF PatcherShouldStop, Armed
<1>8. CASE Enable
  BY <1>8 DEF Enable, PlacesOK
<1>9. ASSUME NEW s \in Slot, InstallRecycled(s) PROVE FreshOK'
  BY <1>9 DEF InstallRecycled, Install, Installing, CommandsOK
<1>10. ASSUME NEW s \in Slot, InstallInBlock(s) PROVE FreshOK'
  BY <1>10 DEF InstallInBlock, Install, Installing, CommandsOK
<1>11. ASSUME NEW s \in Slot, MmapRuns(s) PROVE FreshOK'
  BY <1>11 DEF MmapRuns, Installing, CommandsOK
<1>12. ASSUME NEW s \in Slot, NEW base \in Bases, MmapReturns(s, base) PROVE FreshOK'
  BY <1>12 DEF MmapReturns, Install, CommandsOK
<1>13. CASE MmapRaises \/ Enabled
  BY <1>13 DEF MmapRaises, Enabled
<1>14. CASE DisableRuns \/ MunmapRuns \/ MunmapReturns \/ MunmapRaises \/ Disabled
  BY <1>14 DEF DisableRuns, MunmapRuns, MunmapReturns, MunmapRaises, Disabled, CommandsOK
<1>15. CASE Stop \/ Exit
  BY <1>15 DEF Stop, Exit
<1>16. CASE Continue
  BY <1>16 DEF Continue, Insertable
<1>17. CASE Start
  BY <1>17 DEF Start
<1>18. CASE UNCHANGED vars
  BY <1>18 DEF vars
<1> QED BY <1>1, <1>2, <1>3, <1>4, <1>5, <1>6, <1>7, <1>8, <1>9, <1>10, <1>11, <1>12, <1>13,
          <1>14, <1>15, <1>16, <1>17, <1>18 DEF Next

\* A new tracker takes what the slot holds for its target.
LEMMA InstallRoutes ==
    ASSUME RoutesOK, SlotsOK, NEW s \in Slot, s \notin installed, NEW addr \in Trap,
           Install(s, addr), enables = 1, tracking,
           enables' = 1, tracking', linked' = linked
    PROVE  RoutesOK'
<1>1. entry[s] = linked[s] /\ linked[s] \in Code /\ entry[s] # addr
  BY Distinct DEF RoutesOK, Route, SlotsOK
<1> SUFFICES ASSUME NEW r \in Slot
             PROVE  Route(r)' = linked[r] /\ (r \in installed' => target'[r] \in Code)
  BY DEF RoutesOK
<1>2. CASE r = s
  BY <1>1, <1>2 DEF Install, Route, SlotsOK
<1>3. CASE r # s
  BY <1>3 DEF Install, Route, SlotsOK, RoutesOK
<1> QED BY <1>2, <1>3

\* While tracking is on for the first time, no write to a slot is lost.
LEMMA RoutesStep ==
    ASSUME RoutesOK, FreshOK, SlotsOK, CommandsOK, PlacesOK, AllocatorOK, [Next]_vars
    PROVE  RoutesOK'
<1> USE DEF program, allocator, tracker, history
<1>1. ASSUME NEW t \in Threads, RunAway(t) PROVE RoutesOK'
  BY <1>1 DEF RunAway, RoutesOK, Route
<1>2. ASSUME NEW t \in Threads, NEW s \in Slot,
             Call(t, s) \/ Leave(t, s) \/ TrackerShouldStop(t, s)
      PROVE RoutesOK'
  BY <1>2 DEF Call, Leave, TrackerShouldStop, RoutesOK, Route
<1>3. ASSUME NEW t \in Threads, NEW s \in Slot, Bind(t, s) PROVE RoutesOK'
  BY <1>3, Distinct DEF Bind, RoutesOK, Route, SlotsOK
<1>4. CASE Load
  BY <1>4 DEF Load, RoutesOK, Route
<1>5. ASSUME NEW s \in Slot, PatcherShouldStop(s) PROVE RoutesOK'
  <2> SUFFICES ASSUME enables = 1, tracking, NEW r \in Slot
               PROVE  Route(r)' = linked[r] /\ (r \in installed => target'[r] \in Code)
    BY <1>5 DEF RoutesOK, PatcherShouldStop
  <2>1. CASE r = s
    BY <1>5, <2>1, Distinct DEF PatcherShouldStop, Patched, RoutesOK, Route, SlotsOK
  <2>2. CASE r # s
    BY <1>5, <2>2 DEF PatcherShouldStop, Patched, RoutesOK, Route, SlotsOK
  <2> QED BY <2>1, <2>2
<1>6. CASE Enable
  BY <1>6 DEF Enable, RoutesOK, Route, FreshOK, CommandsOK, PlacesOK, SlotsOK
<1>7. ASSUME NEW s \in Slot, InstallRecycled(s) PROVE RoutesOK'
  <2> SUFFICES ASSUME enables' = 1, tracking' PROVE RoutesOK'
    BY DEF RoutesOK
  <2>1. s \notin installed
    BY <1>7 DEF InstallRecycled, Installing, NextSlot
  <2> QED BY <1>7, <2>1, HandedOut, InstallRoutes DEF InstallRecycled, Installing
<1>8. ASSUME NEW s \in Slot, InstallInBlock(s) PROVE RoutesOK'
  <2> SUFFICES ASSUME enables' = 1, tracking' PROVE RoutesOK'
    BY DEF RoutesOK
  <2>1. s \notin installed
    BY <1>8 DEF InstallInBlock, Installing, NextSlot
  <2> QED BY <1>8, <2>1, HandedOut, InstallRoutes DEF InstallInBlock, Installing
<1>9. ASSUME NEW s \in Slot, MmapRuns(s) PROVE RoutesOK'
  BY <1>9 DEF MmapRuns, RoutesOK, Route
<1>10. ASSUME NEW s \in Slot, NEW base \in Bases, MmapReturns(s, base) PROVE RoutesOK'
  <2> SUFFICES ASSUME enables' = 1, tracking' PROVE RoutesOK'
    BY DEF RoutesOK
  <2>1. s \notin installed
    BY <1>10 DEF MmapReturns, NextSlot
  <2> QED BY <1>10, <2>1, HandedOut, InstallRoutes DEF MmapReturns
<1>11. CASE MmapRaises \/ Enabled
  BY <1>11 DEF MmapRaises, Enabled, RoutesOK, Route
<1>12. CASE DisableRuns
  BY <1>12 DEF DisableRuns, RoutesOK
<1>13. CASE MunmapRuns \/ MunmapReturns \/ MunmapRaises \/ Disabled
  BY <1>13 DEF MunmapRuns, MunmapReturns, MunmapRaises, Disabled, RoutesOK, Route
<1>14. CASE Stop \/ Continue \/ Exit
  BY <1>14 DEF Stop, Continue, Exit, RoutesOK, Route
<1>15. CASE Start
  BY <1>15 DEF Start, RoutesOK
<1>16. CASE UNCHANGED vars
  BY <1>16 DEF vars, RoutesOK, Route
<1> QED BY <1>1, <1>2, <1>3, <1>4, <1>5, <1>6, <1>7, <1>8, <1>9, <1>10, <1>11, <1>12, <1>13,
          <1>14, <1>15, <1>16 DEF Next

\* Nor is a thread left in a trap without a tracker.
LEMMA ThreadsStep ==
    ASSUME ThreadsOK, RoutesOK, FreshOK, SlotsOK, CommandsOK, PlacesOK, AllocatorOK, UsedOK,
           RoomOK, [Next]_vars
    PROVE  ThreadsOK'
<1> USE DEF program, allocator, tracker, history
<1>1. ASSUME NEW t \in Threads, RunAway(t) PROVE ThreadsOK'
  <2> SUFFICES ASSUME tracking', enables' = 1, ~failed', Len(blocks') <= 1,
                        ~(status' = "syscall" /\ installed' # {}), NEW u \in Threads
               PROVE  pc'[u] \in Code \cup {App} \cup {trap'[r] : r \in installed'}
    BY DEF ThreadsOK
  <2>1. /\ tracking /\ enables = 1 /\ ~failed /\ Len(blocks) <= 1
        /\ ~(status = "syscall" /\ installed # {})
    BY <1>1 DEF RunAway
  <2>2. \A v \in Threads : pc[v] \in Code \cup {App} \cup {trap[r] : r \in installed}
    BY <2>1 DEF ThreadsOK
  <2> QED BY <1>1, <2>1, <2>2, Distinct DEF RunAway, Runs, Armed
<1>2. ASSUME NEW t \in Threads, NEW s \in Slot, Call(t, s) PROVE ThreadsOK'
  <2> SUFFICES ASSUME tracking', enables' = 1, ~failed', Len(blocks') <= 1,
                        ~(status' = "syscall" /\ installed' # {}), NEW u \in Threads
               PROVE  pc'[u] \in Code \cup {App} \cup {trap'[r] : r \in installed'}
    BY DEF ThreadsOK
  <2>1. /\ tracking /\ enables = 1 /\ ~failed /\ Len(blocks) <= 1
        /\ ~(status = "syscall" /\ installed # {})
    BY <1>2 DEF Call
  <2>2. \A v \in Threads : pc[v] \in Code \cup {App} \cup {trap[r] : r \in installed}
    BY <2>1 DEF ThreadsOK
  <2> QED BY <1>2, <2>1, <2>2 DEF Call, Moves, PlacesOK, SlotsOK, RoutesOK, Route
<1>3. ASSUME NEW t \in Threads, NEW s \in Slot, Bind(t, s) PROVE ThreadsOK'
  <2> SUFFICES ASSUME tracking', enables' = 1, ~failed', Len(blocks') <= 1,
                        ~(status' = "syscall" /\ installed' # {}), NEW u \in Threads
               PROVE  pc'[u] \in Code \cup {App} \cup {trap'[r] : r \in installed'}
    BY DEF ThreadsOK
  <2>1. /\ tracking /\ enables = 1 /\ ~failed /\ Len(blocks) <= 1
        /\ ~(status = "syscall" /\ installed # {})
    BY <1>3 DEF Bind
  <2>2. \A v \in Threads : pc[v] \in Code \cup {App} \cup {trap[r] : r \in installed}
    BY <2>1 DEF ThreadsOK
  <2> QED BY <1>3, <2>1, <2>2, Distinct DEF Bind, Moves, PlacesOK
<1>4. ASSUME NEW t \in Threads, NEW s \in Slot, Leave(t, s) PROVE ThreadsOK'
  <2> SUFFICES ASSUME tracking', enables' = 1, ~failed', Len(blocks') <= 1,
                        ~(status' = "syscall" /\ installed' # {}), NEW u \in Threads
               PROVE  pc'[u] \in Code \cup {App} \cup {trap'[r] : r \in installed'}
    BY DEF ThreadsOK
  <2>1. /\ tracking /\ enables = 1 /\ ~failed /\ Len(blocks) <= 1
        /\ ~(status = "syscall" /\ installed # {})
    BY <1>4 DEF Leave
  <2>2. \A v \in Threads : pc[v] \in Code \cup {App} \cup {trap[r] : r \in installed}
    BY <2>1 DEF ThreadsOK
  <2> QED BY <1>4, <2>1, <2>2 DEF Leave, Moves, PlacesOK
<1>5. ASSUME NEW t \in Threads, NEW s \in Slot, TrackerShouldStop(t, s) PROVE ThreadsOK'
  <2> SUFFICES ASSUME tracking', enables' = 1, ~failed', Len(blocks') <= 1,
                        ~(status' = "syscall" /\ installed' # {}), NEW u \in Threads
               PROVE  pc'[u] \in Code \cup {App} \cup {trap'[r] : r \in installed'}
    BY DEF ThreadsOK
  <2>1. /\ tracking /\ enables = 1 /\ ~failed /\ Len(blocks) <= 1
        /\ ~(status = "syscall" /\ installed # {})
    BY <1>5 DEF TrackerShouldStop
  <2>2. \A v \in Threads : pc[v] \in Code \cup {App} \cup {trap[r] : r \in installed}
    BY <2>1 DEF ThreadsOK
  <2> QED BY <1>5, <2>1, <2>2, Distinct DEF TrackerShouldStop, Moves, PlacesOK, RoutesOK
<1>6. CASE Load
  BY <1>6 DEF Load, ThreadsOK
<1>7. ASSUME NEW s \in Slot, PatcherShouldStop(s) PROVE ThreadsOK'
  BY <1>7 DEF PatcherShouldStop, ThreadsOK
<1>8. CASE Enable
  BY <1>8 DEF Enable, ThreadsOK, FreshOK, PlacesOK
<1>9. ASSUME NEW s \in Slot, InstallRecycled(s) PROVE ThreadsOK'
  <2> SUFFICES ASSUME tracking', enables' = 1, ~failed', Len(blocks') <= 1,
                        ~(status' = "syscall" /\ installed' # {}), NEW u \in Threads
               PROVE  pc'[u] \in Code \cup {App} \cup {trap'[r] : r \in installed'}
    BY DEF ThreadsOK
  <2>1. /\ tracking /\ enables = 1 /\ ~failed /\ Len(blocks) <= 1
        /\ ~(status = "syscall" /\ installed # {})
    BY <1>9 DEF InstallRecycled, Installing
  <2>2. pc[u] \in Code \cup {App} \cup {trap[r] : r \in installed}
    BY <2>1 DEF ThreadsOK
  <2>4. s \notin installed
    BY <1>9 DEF InstallRecycled, Installing, NextSlot
  <2>5. \A r \in installed : r \in installed' /\ trap'[r] = trap[r]
    BY <1>9, <2>4 DEF InstallRecycled, Install, SlotsOK
  <2>6. pc' = pc
    BY <1>9 DEF InstallRecycled
  <2> QED BY <2>2, <2>5, <2>6
<1>10. ASSUME NEW s \in Slot, InstallInBlock(s) PROVE ThreadsOK'
  <2> SUFFICES ASSUME tracking', enables' = 1, ~failed', Len(blocks') <= 1,
                        ~(status' = "syscall" /\ installed' # {}), NEW u \in Threads
               PROVE  pc'[u] \in Code \cup {App} \cup {trap'[r] : r \in installed'}
    BY DEF ThreadsOK
  <2>1. /\ tracking /\ enables = 1 /\ ~failed /\ Len(blocks) <= 1
        /\ ~(status = "syscall" /\ installed # {})
    BY <1>10 DEF InstallInBlock, Installing
  <2>2. pc[u] \in Code \cup {App} \cup {trap[r] : r \in installed}
    BY <2>1 DEF ThreadsOK
  <2>4. s \notin installed
    BY <1>10 DEF InstallInBlock, Installing, NextSlot
  <2>5. \A r \in installed : r \in installed' /\ trap'[r] = trap[r]
    BY <1>10, <2>4 DEF InstallInBlock, Install, SlotsOK
  <2>6. pc' = pc
    BY <1>10 DEF InstallInBlock
  <2> QED BY <2>2, <2>5, <2>6
<1>11. ASSUME NEW s \in Slot, MmapRuns(s) PROVE ThreadsOK'
  BY <1>11 DEF MmapRuns, Installing, ThreadsOK
<1>12. ASSUME NEW s \in Slot, NEW base \in Bases, MmapReturns(s, base) PROVE ThreadsOK'
  <2> SUFFICES ASSUME tracking', enables' = 1, ~failed', Len(blocks') <= 1,
                        ~(status' = "syscall" /\ installed' # {}), NEW u \in Threads
               PROVE  pc'[u] \in Code \cup {App} \cup {trap'[r] : r \in installed'}
    BY DEF ThreadsOK
  <2>0. Len(blocks) + 1 <= 1 /\ Len(blocks) \in Nat
    BY <1>12, Appended DEF MmapReturns, AllocatorOK
  <2>3. ~failed /\ op = "enable" /\ installed = {}
    <3>1. ~failed /\ op = "enable"
      BY <1>12 DEF MmapReturns
    <3>2. blocks = <<>>
      BY <2>0 DEF AllocatorOK
    <3>3. occupied = {}
      BY <3>1, <3>2, EmptySequence DEF RoomOK
    <3> QED BY <3>1, <3>3 DEF UsedOK
  <2>1. /\ tracking /\ enables = 1 /\ ~failed /\ Len(blocks) <= 1
        /\ ~(status = "syscall" /\ installed # {})
    BY <1>12, <2>0, <2>3 DEF MmapReturns
  <2>2. pc[u] \in Code \cup {App} \cup {trap[r] : r \in installed}
    BY <2>1 DEF ThreadsOK
  <2>4. s \notin installed
    BY <1>12 DEF MmapReturns, NextSlot
  <2>5. \A r \in installed : r \in installed' /\ trap'[r] = trap[r]
    BY <1>12, <2>4 DEF MmapReturns, Install, SlotsOK
  <2>6. pc' = pc
    BY <1>12 DEF MmapReturns
  <2> QED BY <2>2, <2>5, <2>6
<1>13. CASE MmapRaises
  BY <1>13 DEF MmapRaises, ThreadsOK
<1>14. CASE Enabled
  BY <1>14 DEF Enabled, ThreadsOK
<1>15. CASE DisableRuns
  BY <1>15 DEF DisableRuns, ThreadsOK
<1>16. CASE MunmapRuns \/ MunmapReturns \/ MunmapRaises \/ Disabled
  BY <1>16 DEF MunmapRuns, MunmapReturns, MunmapRaises, Disabled, CommandsOK, ThreadsOK
<1>17. CASE Stop \/ Continue \/ Exit
  BY <1>17 DEF Stop, Continue, Exit, ThreadsOK
<1>18. CASE Start
  BY <1>18 DEF Start, ThreadsOK
<1>19. CASE UNCHANGED vars
  BY <1>19 DEF vars, ThreadsOK
<1> QED BY <1>1, <1>2, <1>3, <1>4, <1>5, <1>6, <1>7, <1>8, <1>9, <1>10, <1>11, <1>12, <1>13,
          <1>14, <1>15, <1>16, <1>17, <1>18, <1>19 DEF Next
-----------------------------------------------------------------------------
(* The allocator.                                                           *)

\* What alloc takes is not in use, nor free for somebody else.
LEMMA Taken ==
    ASSUME AllocatorOK, CommandsOK, UsedOK, VacantOK, RoomOK, BlocksOK, ~failed, op = "enable"
    PROVE  /\ vacant # <<>> => Last(vacant) \notin occupied
           /\ blocks # <<>> /\ occupancy < BlockCapacity =>
                 <<Last(blocks), occupancy>> \notin occupied \cup Range(vacant)
           /\ \A base \in Bases \ mapped, n \in Nat : <<base, n>> \notin occupied \cup Range(vacant)
<1>1. vacant # <<>> => Last(vacant) \in Range(vacant)
  BY Shortened DEF AllocatorOK
<1>2. vacant # <<>> => Last(vacant) \notin occupied
  BY <1>1 DEF VacantOK
<1>3. ASSUME blocks # <<>>, occupancy < BlockCapacity
      PROVE  <<Last(blocks), occupancy>> \notin occupied \cup Range(vacant)
  <2>1. occupancy \in occupancy..BlockCapacity - 1
    BY <1>3, TrackingAssumption DEF AllocatorOK
  <2> QED BY <1>3, <2>1 DEF RoomOK
<1>4. ASSUME NEW base \in Bases \ mapped, NEW n \in Nat
      PROVE  <<base, n>> \notin occupied \cup Range(vacant)
  <2>1. base \notin Range(blocks)
    BY DEF BlocksOK, CommandsOK
  <2> QED BY <2>1 DEF RoomOK
<1> QED BY <1>2, <1>3, <1>4

\* A tracker on a trap that nobody occupies.
LEMMA InstallUsed ==
    ASSUME UsedOK, SlotsOK, NEW s \in Slot, s \notin installed, NEW addr \in Trap,
           Install(s, addr), ~failed, addr \notin occupied
    PROVE  UsedOK'
<1>1. trap'[s] = addr /\ \A r \in installed : trap'[r] = trap[r]
  BY DEF Install, SlotsOK
<1>2. \A r \in installed : trap[r] # addr
  BY DEF UsedOK
<1>3. installed' = installed \cup {s} /\ occupied' = occupied \cup {addr}
  BY DEF Install
<1>4. \A q, r \in installed' : trap'[q] = trap'[r] => q = r
  BY <1>1, <1>2, <1>3 DEF UsedOK
<1>5. occupied' = {trap'[r] : r \in installed'}
  BY <1>1, <1>3 DEF UsedOK
<1> QED BY <1>4, <1>5 DEF UsedOK

\* Every trap has one tracker.
LEMMA UsedStep ==
    ASSUME UsedOK, VacantOK, RoomOK, BlocksOK, SlotsOK, CommandsOK, OrderOK, AllocatorOK,
           [Next]_vars
    PROVE  UsedOK'
<1> USE DEF program, allocator, tracker, history, UsedOK
<1>1. ASSUME NEW t \in Threads, RunAway(t) PROVE UsedOK'
  BY <1>1 DEF RunAway
<1>2. ASSUME NEW t \in Threads, NEW s \in Slot,
             Call(t, s) \/ Bind(t, s) \/ Leave(t, s) \/ TrackerShouldStop(t, s)
      PROVE UsedOK'
  BY <1>2 DEF Call, Bind, Leave, TrackerShouldStop
<1>3. CASE Load
  BY <1>3 DEF Load
<1>4. ASSUME NEW s \in Slot, PatcherShouldStop(s) PROVE UsedOK'
  BY <1>4 DEF PatcherShouldStop
<1>5. CASE Enable
  BY <1>5 DEF Enable
<1>6. ASSUME NEW s \in Slot, InstallRecycled(s) PROVE UsedOK'
  <2> SUFFICES ASSUME ~failed' PROVE UsedOK'
    BY DEF UsedOK
  <2>1. s \notin installed /\ ~failed /\ op = "enable"
    BY <1>6 DEF InstallRecycled, Installing, NextSlot
  <2> QED BY <1>6, <2>1, HandedOut, Taken, InstallUsed DEF InstallRecycled, Installing
<1>7. ASSUME NEW s \in Slot, InstallInBlock(s) PROVE UsedOK'
  <2> SUFFICES ASSUME ~failed' PROVE UsedOK'
    BY DEF UsedOK
  <2>1. s \notin installed /\ ~failed /\ op = "enable"
    BY <1>7 DEF InstallInBlock, Installing, NextSlot
  <2> QED BY <1>7, <2>1, HandedOut, Taken, InstallUsed DEF InstallInBlock, Installing
<1>8. ASSUME NEW s \in Slot, MmapRuns(s) PROVE UsedOK'
  BY <1>8 DEF MmapRuns
<1>9. ASSUME NEW s \in Slot, NEW base \in Bases, MmapReturns(s, base) PROVE UsedOK'
  <2> SUFFICES ASSUME ~failed' PROVE UsedOK'
    BY DEF UsedOK
  <2>1. s \notin installed /\ ~failed /\ op = "enable"
    BY <1>9 DEF MmapReturns, NextSlot
  <2> QED BY <1>9, <2>1, HandedOut, Taken, InstallUsed DEF MmapReturns
<1>10. CASE MmapRaises \/ Enabled
  BY <1>10 DEF MmapRaises, Enabled
<1>11. CASE DisableRuns
  BY <1>11 DEF DisableRuns
<1>12. CASE MunmapRuns \/ MunmapReturns \/ MunmapRaises \/ Disabled
  BY <1>12 DEF MunmapRuns, MunmapReturns, MunmapRaises, Disabled, CommandsOK
<1>13. CASE Stop \/ Continue \/ Exit \/ Start
  BY <1>13 DEF Stop, Continue, Exit, Start
<1>14. CASE UNCHANGED vars
  BY <1>14 DEF vars
<1> QED BY <1>1, <1>2, <1>3, <1>4, <1>5, <1>6, <1>7, <1>8, <1>9, <1>10, <1>11, <1>12, <1>13,
          <1>14 DEF Next

\* No trap is free twice, or free and in use.
LEMMA VacantStep ==
    ASSUME UsedOK, VacantOK, RoomOK, BlocksOK, SlotsOK, CommandsOK, OrderOK, AllocatorOK,
           [Next]_vars
    PROVE  VacantOK'
<1> USE DEF program, allocator, tracker, history, VacantOK
<1>1. ASSUME NEW t \in Threads, RunAway(t) PROVE VacantOK'
  BY <1>1 DEF RunAway
<1>2. ASSUME NEW t \in Threads, NEW s \in Slot,
             Call(t, s) \/ Bind(t, s) \/ Leave(t, s) \/ TrackerShouldStop(t, s)
      PROVE VacantOK'
  BY <1>2 DEF Call, Bind, Leave, TrackerShouldStop
<1>3. CASE Load
  BY <1>3 DEF Load
<1>4. ASSUME NEW s \in Slot, PatcherShouldStop(s) PROVE VacantOK'
  BY <1>4 DEF PatcherShouldStop
<1>5. CASE Enable
  BY <1>5 DEF Enable
<1>6. ASSUME NEW s \in Slot, InstallRecycled(s) PROVE VacantOK'
  <2> SUFFICES ASSUME ~failed' PROVE VacantOK'
    OBVIOUS
  <2>1. ~failed /\ op = "enable"
    BY <1>6 DEF InstallRecycled, Installing
  <2>2. /\ IsInjective(Front(vacant)) /\ Last(vacant) \notin Range(Front(vacant))
        /\ Range(Front(vacant)) \subseteq Range(vacant)
    BY <1>6, <2>1, Shortened DEF InstallRecycled, AllocatorOK
  <2> QED BY <1>6, <2>1, <2>2 DEF InstallRecycled, Install
<1>7. ASSUME NEW s \in Slot, InstallInBlock(s) PROVE VacantOK'
  <2> SUFFICES ASSUME ~failed' PROVE VacantOK'
    OBVIOUS
  <2>1. ~failed /\ op = "enable"
    BY <1>7 DEF InstallInBlock, Installing
  <2> QED BY <1>7, <2>1, Taken, TrackingAssumption DEF InstallInBlock, Install
<1>8. ASSUME NEW s \in Slot, MmapRuns(s) PROVE VacantOK'
  BY <1>8 DEF MmapRuns
<1>9. ASSUME NEW s \in Slot, NEW base \in Bases, MmapReturns(s, base) PROVE VacantOK'
  <2> SUFFICES ASSUME ~failed' PROVE VacantOK'
    OBVIOUS
  <2>1. ~failed /\ op = "enable"
    BY <1>9 DEF MmapReturns
  <2>2. <<base, 0>> \notin Range(vacant)
    BY <1>9, <2>1, Taken DEF MmapReturns
  <2> QED BY <1>9, <2>1, <2>2 DEF MmapReturns, Install
<1>10. CASE MmapRaises \/ Enabled
  BY <1>10 DEF MmapRaises, Enabled
<1>11. CASE DisableRuns
  <2> SUFFICES ASSUME ~failed PROVE VacantOK'
    BY <1>11 DEF DisableRuns
  <2>1. Freed \in Seq(Trap) /\ Range(Freed) = occupied /\ IsInjective(Freed)
    BY FreedTraps DEF UsedOK
  <2>2. IsInjective(vacant \o Freed)
    BY <2>1, Joined DEF AllocatorOK
  <2>3. occupied' = {}
    BY <1>11 DEF DisableRuns, UsedOK
  <2> QED BY <1>11, <2>2, <2>3 DEF DisableRuns
<1>12. CASE MunmapRuns \/ MunmapReturns \/ MunmapRaises \/ Disabled
  BY <1>12, EmptySequence DEF MunmapRuns, MunmapReturns, MunmapRaises, Disabled
<1>13. CASE Stop \/ Continue \/ Exit \/ Start
  BY <1>13 DEF Stop, Continue, Exit, Start
<1>14. CASE UNCHANGED vars
  BY <1>14 DEF vars
<1> QED BY <1>1, <1>2, <1>3, <1>4, <1>5, <1>6, <1>7, <1>8, <1>9, <1>10, <1>11, <1>12, <1>13,
          <1>14 DEF Next

\* The allocator's blocks stay mapped.
LEMMA BlocksStep ==
    ASSUME UsedOK, VacantOK, RoomOK, BlocksOK, SlotsOK, CommandsOK, OrderOK, AllocatorOK,
           IdleOK, FreshOK, PlacesOK, [Next]_vars
    PROVE  BlocksOK'
<1> USE DEF program, allocator, tracker, history, BlocksOK
<1>1. ASSUME NEW t \in Threads, RunAway(t) PROVE BlocksOK'
  BY <1>1 DEF RunAway
<1>2. ASSUME NEW t \in Threads, NEW s \in Slot,
             Call(t, s) \/ Bind(t, s) \/ Leave(t, s) \/ TrackerShouldStop(t, s)
      PROVE BlocksOK'
  BY <1>2 DEF Call, Bind, Leave, TrackerShouldStop
<1>3. CASE Load
  BY <1>3 DEF Load
<1>4. ASSUME NEW s \in Slot, PatcherShouldStop(s) PROVE BlocksOK'
  BY <1>4 DEF PatcherShouldStop
<1>5. CASE Enable
  BY <1>5, EmptySequence DEF Enable, IdleOK
<1>6. ASSUME NEW s \in Slot, InstallRecycled(s) PROVE BlocksOK'
  BY <1>6 DEF InstallRecycled, Install
<1>7. ASSUME NEW s \in Slot, InstallInBlock(s) PROVE BlocksOK'
  BY <1>7 DEF InstallInBlock, Install
<1>8. ASSUME NEW s \in Slot, MmapRuns(s) PROVE BlocksOK'
  BY <1>8 DEF MmapRuns
<1>9. ASSUME NEW s \in Slot, NEW base \in Bases, MmapReturns(s, base) PROVE BlocksOK'
  <2> SUFFICES ASSUME ~failed' PROVE BlocksOK'
    OBVIOUS
  <2>1. ~failed /\ op = "enable" /\ base \notin mapped /\ mapped' = mapped \cup {base}
    BY <1>9 DEF MmapReturns
  <2>2. Range(blocks) \subseteq mapped
    BY <2>1 DEF CommandsOK
  <2>3. Range(Append(blocks, base)) = Range(blocks) \cup {base} /\ IsInjective(Append(blocks, base))
    BY <2>1, <2>2, Appended DEF AllocatorOK
  <2> QED BY <1>9, <2>1, <2>2, <2>3 DEF MmapReturns
<1>10. CASE MmapRaises \/ Enabled
  BY <1>10 DEF MmapRaises, Enabled
<1>11. CASE DisableRuns
  BY <1>11 DEF DisableRuns
<1>12. CASE MunmapRuns
  BY <1>12 DEF MunmapRuns
<1>13. CASE MunmapReturns
  <2>1. blocks # <<>>
    BY <1>13 DEF MunmapReturns, CommandsOK
  <2> QED BY <1>13, <2>1, Shortened DEF MunmapReturns, AllocatorOK
<1>14. CASE MunmapRaises \/ Disabled
  BY <1>14, EmptySequence DEF MunmapRaises, Disabled
<1>15. CASE Stop \/ Continue \/ Exit \/ Start
  BY <1>15 DEF Stop, Continue, Exit, Start
<1>16. CASE UNCHANGED vars
  BY <1>16 DEF vars
<1> QED BY <1>1, <1>2, <1>3, <1>4, <1>5, <1>6, <1>7, <1>8, <1>9, <1>10, <1>11, <1>12, <1>13,
          <1>14, <1>15, <1>16 DEF Next

\* The room of the last block is not handed out twice.
LEMMA RoomStep ==
    ASSUME UsedOK, VacantOK, RoomOK, BlocksOK, SlotsOK, CommandsOK, OrderOK, AllocatorOK,
           IdleOK, [Next]_vars
    PROVE  RoomOK'
<1> USE DEF program, allocator, tracker, history
<1>1. ASSUME NEW t \in Threads, RunAway(t) PROVE RoomOK'
  BY <1>1 DEF RunAway, RoomOK
<1>2. ASSUME NEW t \in Threads, NEW s \in Slot,
             Call(t, s) \/ Bind(t, s) \/ Leave(t, s) \/ TrackerShouldStop(t, s)
      PROVE RoomOK'
  BY <1>2 DEF Call, Bind, Leave, TrackerShouldStop, RoomOK
<1>3. CASE Load
  BY <1>3 DEF Load, RoomOK
<1>4. ASSUME NEW s \in Slot, PatcherShouldStop(s) PROVE RoomOK'
  BY <1>4 DEF PatcherShouldStop, RoomOK
<1>5. CASE Enable
  BY <1>5 DEF Enable, RoomOK
<1>6. ASSUME NEW s \in Slot, InstallRecycled(s) PROVE RoomOK'
  <2> SUFFICES ASSUME ~failed' PROVE RoomOK'
    BY DEF RoomOK
  <2>1. ~failed /\ op = "enable"
    BY <1>6 DEF InstallRecycled, Installing
  <2>2. Range(vacant) = Range(Front(vacant)) \cup {Last(vacant)}
    BY <1>6, Shortened DEF InstallRecycled, AllocatorOK
  <2>3. occupied' \cup Range(vacant') = occupied \cup Range(vacant)
    BY <1>6, <2>2 DEF InstallRecycled, Install
  <2>4. blocks' = blocks /\ occupancy' = occupancy
    BY <1>6 DEF InstallRecycled
  <2> QED BY <2>1, <2>3, <2>4 DEF RoomOK
<1>7. ASSUME NEW s \in Slot, InstallInBlock(s) PROVE RoomOK'
  <2> SUFFICES ASSUME ~failed' PROVE RoomOK'
    BY DEF RoomOK
  <2>1. ~failed /\ op = "enable"
    BY <1>7 DEF InstallInBlock, Installing
  <2> DEFINE addr == <<Last(blocks), occupancy>>
  <2>2. /\ occupied' \cup Range(vacant') = occupied \cup Range(vacant) \cup {addr}
        /\ blocks' = blocks /\ blocks # <<>> /\ occupancy' = occupancy + 1
    BY <1>7 DEF InstallInBlock, Install
  <2>3. Last(blocks) \in Range(blocks)
    BY <2>2, Shortened DEF AllocatorOK
  <2>4. \A a \in occupied' \cup Range(vacant') : a[1] \in Range(blocks')
    BY <2>1, <2>2, <2>3 DEF RoomOK
  <2>5. ASSUME NEW n \in occupancy'..BlockCapacity - 1
        PROVE  <<Last(blocks'), n>> \notin occupied' \cup Range(vacant')
    <3>1. n \in occupancy..BlockCapacity - 1 /\ n # occupancy
      BY <2>2, TrackingAssumption DEF AllocatorOK
    <3> QED BY <2>1, <2>2, <3>1 DEF RoomOK
  <2> QED BY <2>4, <2>5 DEF RoomOK
<1>8. ASSUME NEW s \in Slot, MmapRuns(s) PROVE RoomOK'
  BY <1>8 DEF MmapRuns, RoomOK
<1>9. ASSUME NEW s \in Slot, NEW base \in Bases, MmapReturns(s, base) PROVE RoomOK'
  <2> SUFFICES ASSUME ~failed' PROVE RoomOK'
    BY DEF RoomOK
  <2>1. ~failed /\ op = "enable"
    BY <1>9 DEF MmapReturns
  <2>2. /\ occupied' = occupied \cup {<<base, 0>>} /\ vacant' = vacant
        /\ blocks' = Append(blocks, base) /\ occupancy' = 1 /\ base \notin mapped
    BY <1>9 DEF MmapReturns, Install
  <2>3. Range(blocks') = Range(blocks) \cup {base} /\ Last(blocks') = base
    BY <2>2, Appended DEF AllocatorOK
  <2>4. \A a \in occupied' \cup Range(vacant') : a[1] \in Range(blocks')
    BY <2>1, <2>2, <2>3 DEF RoomOK
  <2>5. ASSUME NEW n \in occupancy'..BlockCapacity - 1
        PROVE  <<Last(blocks'), n>> \notin occupied' \cup Range(vacant')
    <3>1. n \in Nat /\ n # 0
      BY <2>2, TrackingAssumption
    <3>2. <<base, n>> \notin occupied \cup Range(vacant)
      BY <2>1, <2>2, <3>1, Taken
    <3> QED BY <2>2, <2>3, <3>1, <3>2
  <2> QED BY <2>4, <2>5 DEF RoomOK
<1>10. CASE MmapRaises \/ Enabled
  BY <1>10 DEF MmapRaises, Enabled, RoomOK
<1>11. CASE DisableRuns \/ MunmapRuns \/ MunmapReturns \/ MunmapRaises
  BY <1>11 DEF DisableRuns, MunmapRuns, MunmapReturns, MunmapRaises, RoomOK
<1>12. CASE Disabled
  BY <1>12, EmptySequence DEF Disabled, RoomOK
<1>13. CASE Stop \/ Continue \/ Exit \/ Start
  BY <1>13 DEF Stop, Continue, Exit, Start, RoomOK
<1>14. CASE UNCHANGED vars
  BY <1>14 DEF vars, RoomOK
<1> QED BY <1>1, <1>2, <1>3, <1>4, <1>5, <1>6, <1>7, <1>8, <1>9, <1>10, <1>11, <1>12, <1>13,
          <1>14 DEF Next

\* What disabling leaves is empty.
LEMMA IdleStep ==
    ASSUME IdleOK, CommandsOK, PlacesOK, [Next]_vars
    PROVE  IdleOK'
<1> USE DEF program, allocator, tracker, history, IdleOK, CommandsOK
<1>1. ASSUME NEW t \in Threads, RunAway(t) PROVE IdleOK'
  BY <1>1 DEF RunAway
<1>2. ASSUME NEW t \in Threads, NEW s \in Slot,
             Call(t, s) \/ Bind(t, s) \/ Leave(t, s) \/ TrackerShouldStop(t, s)
      PROVE IdleOK'
  BY <1>2 DEF Call, Bind, Leave, TrackerShouldStop
<1>3. CASE Load
  BY <1>3 DEF Load
<1>4. ASSUME NEW s \in Slot, PatcherShouldStop(s) PROVE IdleOK'
  BY <1>4 DEF PatcherShouldStop
<1>5. CASE Enable
  BY <1>5 DEF Enable, PlacesOK
<1>6. ASSUME NEW s \in Slot, InstallRecycled(s) PROVE IdleOK'
  BY <1>6 DEF InstallRecycled, Install, Installing
<1>7. ASSUME NEW s \in Slot, InstallInBlock(s) PROVE IdleOK'
  BY <1>7 DEF InstallInBlock, Install, Installing
<1>8. ASSUME NEW s \in Slot, MmapRuns(s) PROVE IdleOK'
  BY <1>8 DEF MmapRuns, Installing
<1>9. ASSUME NEW s \in Slot, NEW base \in Bases, MmapReturns(s, base) PROVE IdleOK'
  BY <1>9 DEF MmapReturns, Install
<1>10. CASE MmapRaises
  BY <1>10 DEF MmapRaises
<1>11. CASE Enabled
  BY <1>11 DEF Enabled
<1>12. CASE DisableRuns
  BY <1>12 DEF DisableRuns
<1>13. CASE MunmapRuns
  BY <1>13 DEF MunmapRuns
<1>14. CASE MunmapReturns
  BY <1>14 DEF MunmapReturns
<1>15. CASE MunmapRaises
  BY <1>15 DEF MunmapRaises
<1>16. CASE Disabled
  BY <1>16 DEF Disabled
<1>17. CASE Stop
  BY <1>17 DEF Stop
<1>18. CASE Continue
  BY <1>18 DEF Continue
<1>19. CASE Exit
  BY <1>19 DEF Exit
<1>20. CASE Start
  BY <1>20 DEF Start
<1>21. CASE UNCHANGED vars
  BY <1>21 DEF vars
<1> QED BY <1>1, <1>2, <1>3, <1>4, <1>5, <1>6, <1>7, <1>8, <1>9, <1>10, <1>11, <1>12, <1>13,
          <1>14, <1>15, <1>16, <1>17, <1>18, <1>19, <1>20, <1>21 DEF Next

-----------------------------------------------------------------------------
(* The theorems.                                                            *)

\* The invariant holds at first.
LEMMA InitInv == Init => GotInv
<1> SUFFICES ASSUME Init PROVE GotInv
  OBVIOUS
<1> USE TrackingAssumption, Distinct, EmptySequence DEF Init
<1>1. SlotsOK /\ PlacesOK
  BY DEF SlotsOK, PlacesOK, Places, Slot
<1>2. AllocatorOK
  BY DEF AllocatorOK
<1>3. CommandsOK /\ RoutesOK /\ ThreadsOK
  BY DEF CommandsOK, RoutesOK, ThreadsOK
<1>4. OrderOK
  <2>1. installed = 1..0 /\ 0 <= SlotCount
    OBVIOUS
  <2> QED BY <2>1 DEF OrderOK
<1>5. FreshOK
  BY DEF FreshOK
<1>6. UsedOK /\ VacantOK /\ BlocksOK /\ RoomOK /\ IdleOK
  BY DEF UsedOK, VacantOK, BlocksOK, RoomOK, IdleOK
<1> QED BY <1>1, <1>2, <1>3, <1>4, <1>5, <1>6 DEF GotInv

\* And every step preserves it.
LEMMA StepInv == GotInv /\ [Next]_vars => GotInv'
  BY SlotsStep, PlacesStep, AllocatorStep, CommandsStep, OrderStep, FreshStep, RoutesStep,
     ThreadsStep, UsedStep, VacantStep, BlocksStep, RoomStep, IdleStep DEF GotInv

\* While tracking is on for the first time in a process, and before, a call
\* through a slot arrives at what the dynamic linker stored there last.
THEOREM RoutesAreRight == Spec => []RouteIsRight
<1>1. GotInv => RouteIsRight
  <2> SUFFICES ASSUME GotInv, enables <= 1, tracking \/ enables = 0, NEW s \in Slot
               PROVE  Route(s) = linked[s]
    BY DEF RouteIsRight
  <2>1. CASE enables = 1
    BY <2>1 DEF GotInv, RoutesOK
  <2>2. CASE enables = 0
    BY <2>2, Distinct DEF GotInv, FreshOK, SlotsOK, Route
  <2> QED BY <2>1, <2>2 DEF GotInv, PlacesOK
<1> QED BY <1>1, InitInv, StepInv, PTL DEF Spec

\* No thread runs into a trap without a breakpoint, while tracking is on for the
\* first time, one block is enough and no system call failed.
THEOREM NobodyGetsLost == Spec => []NobodyLost
<1>1. GotInv => NobodyLost
  <2> SUFFICES ASSUME GotInv, NobodyLost!1, NEW t \in Threads PROVE pc[t] # Lost
    BY DEF NobodyLost
  <2>1. pc[t] \in Code \cup {App} \cup {trap[s] : s \in installed}
    BY DEF GotInv, ThreadsOK
  <2> QED BY <2>1, Distinct DEF GotInv, SlotsOK
<1> QED BY <1>1, InitInv, StepInv, PTL DEF Spec

\* Until a fault, no trap serves two slots, each lies in a mapped block, and the
\* allocator hands out none that is in use.
THEOREM TrapsStayUsable == Spec => []TrapsAreUsable
<1>1. GotInv => TrapsAreUsable
  <2> SUFFICES ASSUME GotInv, ~failed, ~stale PROVE TrapsAreUsable
    BY DEF TrapsAreUsable
  <2>1. Range(blocks) \subseteq mapped
    BY EmptySequence DEF GotInv, BlocksOK, IdleOK, PlacesOK
  <2>2. Insertable
    <3> SUFFICES ASSUME NEW s \in installed PROVE trap[s][1] \in mapped
      BY DEF Insertable
    <3>1. trap[s] \in occupied
      BY DEF GotInv, UsedOK
    <3>2. op # "disable"
      BY DEF GotInv, CommandsOK
    <3> QED BY <2>1, <3>1, <3>2 DEF GotInv, RoomOK
  <2> QED BY <2>1, <2>2 DEF TrapsAreUsable, GotInv, UsedOK, VacantOK, BlocksOK, RoomOK
<1> QED BY <1>1, InitInv, StepInv, PTL DEF Spec
=============================================================================
