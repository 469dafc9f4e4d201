-------------------------- MODULE HeapTrackerProofs --------------------------
(***************************************************************************)
(* Proofs about the heap tracker, for any number of threads, trackers and  *)
(* calls, and any heap: memory_management_calls says exactly which thread  *)
(* is in a call that the tracker follows; and in a session where the       *)
(* tracker sees every call, in order, and no two free chunks are next to   *)
(* each other, the map of free chunks agrees with the heap.                *)
(***************************************************************************)
EXTENDS HeapTracker, FiniteSetTheorems, TLAPS

\* The free chunks are of this set.
Bin == [hdr : Int, size : Int, home : Threads \union {Arena}]

\* A call is not the idle state.
LEMMA CallIsCall ==
    ASSUME NEW r \in Calling
    PROVE  r # Idle /\ r.by \in 0..MaxTrackers /\ r.ptr \in Chunk /\ r.ret \in Chunk
  BY DEF Calling, Idle, Kinds

\* A call that returns keeps its kind and its tracker.
LEMMA ReturnKeeps ==
    ASSUME NEW r \in Calling, NEW c \in Chunk
    PROVE  /\ [r EXCEPT !.done = TRUE, !.ret = c] \in Calling
           /\ [r EXCEPT !.done = TRUE, !.ret = c].by = r.by
  BY DEF Calling

\* What a thread that enters libc becomes.
LEMMA NewCall ==
    ASSUME NEW k \in Kinds, NEW p \in Chunk, NEW g \in 0..MaxTrackers
    PROVE  [kind |-> k, ptr |-> p, ret |-> Null, done |-> FALSE, by |-> g] \in Calling
  BY DEF Calling, Null, Chunk

\* libc's part of a call: the tracker's part of the state is left alone.
LibcSteps(t) == LibcMalloc(t) \/ LibcFree(t) \/ LibcRealloc(t) \/ LibcFails(t)

LEMMA LibcReturns ==
    ASSUME CallsOK, NEW t \in Threads, LibcSteps(t)
    PROVE  /\ owned' \subseteq Chunk /\ top' \in Int
           /\ call[t] # Idle
           /\ \E c \in Chunk : Returns(t, c)
<1> USE HeapAssumption DEF CallsOK
<1>0. call[t] \in Calling /\ call[t] # Idle /\ call[t].ptr \in Chunk /\ Null \in Chunk
  BY CallIsCall DEF LibcSteps, LibcMalloc, LibcFree, LibcRealloc, LibcFails, InLibc, Null, Chunk
<1>1. CASE LibcMalloc(t)
  <2>1. PICK n \in Sizes, h \in 0..HeapEnd - 1 :
           /\ Gets(t, [hdr |-> h, size |-> n], n)
           /\ owned' = owned \union {[hdr |-> h, size |-> n]}
           /\ Returns(t, [hdr |-> h, size |-> n])
    BY <1>1 DEF LibcMalloc
  <2>2. [hdr |-> h, size |-> n] \in Chunk
    BY DEF Chunk
  <2>3. top' \in Int
    <3>1. CASE FromTop(n)
      BY <3>1 DEF FromTop
    <3>2. CASE \E b \in bins : FromBin(t, b, n)
      BY <3>2 DEF FromBin
    <3> QED BY <2>1, <3>1, <3>2 DEF Gets
  <2> QED BY <1>0, <2>1, <2>2, <2>3
<1>2. CASE LibcFree(t)
  <2>1. top' \in Int
    BY <1>0, <1>2 DEF LibcFree, Gives, Chunk
  <2> QED BY <1>0, <1>2, <2>1 DEF LibcFree
<1>3. CASE LibcRealloc(t)
  <2>1. CASE owned' = owned /\ UNCHANGED <<bins, top>> /\ Returns(t, call[t].ptr)
    BY <1>0, <2>1
  <2>2. ASSUME NEW n \in Sizes, top' = top + n,
               owned' = (owned \ {call[t].ptr}) \union {[hdr |-> top, size |-> n]},
               Returns(t, [hdr |-> top, size |-> n])
        PROVE  owned' \subseteq Chunk /\ top' \in Int /\ \E c \in Chunk : Returns(t, c)
    <3>1. [hdr |-> top, size |-> n] \in Chunk
      BY DEF Chunk
    <3> QED BY <2>2, <3>1
  <2> QED BY <1>0, <1>3, <2>1, <2>2 DEF LibcRealloc
<1>4. CASE LibcFails(t)
  BY <1>0, <1>4 DEF LibcFails, libc
<1> QED BY <1>1, <1>2, <1>3, <1>4 DEF LibcSteps

\* A thread whose entry breakpoint raises is in a call that no tracker follows.
LEMMA RaisedEnters ==
    ASSUME CallsOK, NEW t \in Threads, ReallocZeroEnter(t) \/ EnterRaises(t)
    PROVE  /\ call[t] = Idle
           /\ \E r \in Calling : r.by = 0 /\ call' = [call EXCEPT ![t] = r]
           /\ UNCHANGED <<owned, bins, top, installs, enabled, maps, crossed>>
<1>1. call[t] = Idle /\ UNCHANGED <<owned, bins, top, installs, enabled, maps, crossed>>
  BY DEF ReallocZeroEnter, EnterRaises, libc
<1>2. \E k \in Kinds, p \in Chunk :
         call' = [call EXCEPT ![t] = [kind |-> k, ptr |-> p, ret |-> Null, done |-> FALSE,
                                      by |-> 0]]
  <2>1. owned \subseteq Chunk /\ Null \in Chunk /\ "free" \in Kinds
    BY DEF CallsOK, Null, Chunk, Kinds
  <2>2. CASE ReallocZeroEnter(t)
    <3>1. \E p \in owned :
             call' = [call EXCEPT ![t] = [kind |-> "free", ptr |-> p, ret |-> Null,
                                          done |-> FALSE, by |-> 0]]
      BY <2>2, Zenon DEF ReallocZeroEnter
    <3> QED BY <2>1, <3>1
  <2>3. CASE EnterRaises(t)
    <3>1. \E k \in Kinds, p \in owned \union {Null} :
             call' = [call EXCEPT ![t] = [kind |-> k, ptr |-> p, ret |-> Null,
                                          done |-> FALSE, by |-> 0]]
      BY <2>3, Zenon DEF EnterRaises
    <3> QED BY <2>1, <3>1
  <2> QED BY <2>2, <2>3
<1>3. PICK k \in Kinds, p \in Chunk :
         call' = [call EXCEPT ![t] = [kind |-> k, ptr |-> p, ret |-> Null, done |-> FALSE,
                                      by |-> 0]]
  BY <1>2
<1> DEFINE q == [kind |-> k, ptr |-> p, ret |-> Null, done |-> FALSE, by |-> 0]
<1>4. q \in Calling /\ q.by = 0
  BY NewCall, HeapAssumption
<1>5. call' = [call EXCEPT ![t] = q]
  BY <1>3, Zenon
<1> HIDE DEF q
<1> QED BY <1>1, <1>4, <1>5

\* Who enters, who leaves, and who is left behind.
LEMMA CallsStep == CallsOK /\ [Next]_vars => CallsOK'
<1> SUFFICES ASSUME CallsOK, [Next]_vars PROVE CallsOK'
  OBVIOUS
<1> USE HeapAssumption DEF CallsOK
<1>1. ASSUME NEW t \in Threads, NEW k \in Kinds, NEW p \in Chunk, Enters(t, k, p) PROVE CallsOK'
  BY <1>1, NewCall DEF Enters, libc
<1>2. ASSUME NEW t \in Threads, ReallocZeroEnter(t) \/ EnterRaises(t) PROVE CallsOK'
  <2>1. PICK r \in Calling : call' = [call EXCEPT ![t] = r]
    BY <1>2, RaisedEnters
  <2>2. UNCHANGED <<owned, top, installs, enabled>>
    BY <1>2, RaisedEnters
  <2> QED BY <2>1, <2>2
<1>3. ASSUME NEW t \in Threads, LibcSteps(t) PROVE CallsOK'
  <2>1. PICK c \in Chunk : Returns(t, c)
    BY <1>3, LibcReturns
  <2>2. \E r \in Calling : call' = [call EXCEPT ![t] = r]
    <3>1. call' = [call EXCEPT ![t] = [call[t] EXCEPT !.done = TRUE, !.ret = c]]
      BY <2>1 DEF Returns
    <3>2. call[t] \in Calling
      BY <1>3, LibcReturns
    <3>3. [call[t] EXCEPT !.done = TRUE, !.ret = c] \in Calling
      BY <3>2, ReturnKeeps
    <3> QED BY <3>1, <3>3, Zenon
  <2>3. UNCHANGED <<installs, enabled>>
    BY <2>1 DEF Returns
  <2> QED BY <1>3, <2>2, <2>3, LibcReturns
<1>4. ASSUME NEW t \in Threads, Ends(t) PROVE CallsOK'
  BY <1>4 DEF Ends, libc
<1>5. ASSUME NEW t \in Threads, NEW s \in Threads, OutOfScope(t, s) PROVE CallsOK'
  BY <1>5 DEF OutOfScope, libc
<1>6. CASE Install \/ Uninstall
  BY <1>6 DEF Install, Uninstall, libc
<1>7. CASE UNCHANGED vars
  BY <1>7 DEF vars, libc
<1>8. ASSUME NEW t \in Threads, MallocEnter(t) \/ FreeEnter(t) \/ ReallocEnter(t) PROVE CallsOK'
  BY <1>8, <1>1 DEF MallocEnter, FreeEnter, ReallocEnter, Kinds, Chunk, Null
<1>9. ASSUME NEW t \in Threads,
             \/ Unseen(t) \/ Outside(t) \/ AllocExit(t) \/ FreeExit(t)
             \/ ReallocExit(t) \/ ReallocExitRaises(t) \/ ExitRaises(t)
      PROVE Ends(t)
  BY <1>9, Zenon
     DEF Unseen, Outside, AllocExit, FreeExit, ReallocExit, ReallocExitRaises, ExitRaises
<1> QED
  BY <1>2, <1>3, <1>4, <1>5, <1>6, <1>7, <1>8, <1>9 DEF Next, LibcSteps

\* Raising and clearing a flag.
LEMMA SetFlag ==
    ASSUME FlagsOK, NEW g, NEW t, NEW b \in BOOLEAN
    PROVE  [flag EXCEPT ![g][t] = b] \in [Trackers -> [Threads -> BOOLEAN]]
  BY DEF FlagsOK

\* How a step changes the flags and the calls: not at all, for a thread that
\* enters, and for a thread that leaves.
LEMMA FlagsStep == CallsOK /\ FlagsOK /\ [Next]_vars => FlagsOK'
<1> SUFFICES ASSUME CallsOK, FlagsOK, [Next]_vars PROVE FlagsOK'
  OBVIOUS
<1> DEFINE Same == UNCHANGED flag
           Set(g, t) == \E b \in BOOLEAN : flag' = [flag EXCEPT ![g][t] = b]
<1>1. ASSUME NEW t \in Threads, MallocEnter(t) \/ FreeEnter(t) \/ ReallocEnter(t)
      PROVE  Same \/ Set(installs, t)
  BY <1>1, Zenon DEF MallocEnter, FreeEnter, ReallocEnter, Enters
<1>2. ASSUME NEW t \in Threads, ReallocZeroEnter(t) \/ EnterRaises(t)
      PROVE  Same \/ Set(installs, t)
  BY <1>2, Zenon DEF ReallocZeroEnter, EnterRaises
<1>3. ASSUME NEW t \in Threads,
             Outside(t) \/ AllocExit(t) \/ FreeExit(t) \/ ReallocExit(t)
      PROVE  Set(call[t].by, t)
  BY <1>3, Zenon DEF Outside, AllocExit, FreeExit, ReallocExit, Exits
<1>4. ASSUME NEW t \in Threads, NEW s \in Threads, OutOfScope(t, s)
      PROVE  Set(call[t].by, s)
  BY <1>4, Zenon DEF OutOfScope
<1>5. ASSUME NEW t \in Threads, LibcSteps(t) PROVE Same
  BY <1>5, LibcReturns DEF Returns
<1>6. ASSUME \/ \E t \in Threads : Unseen(t) \/ ReallocExitRaises(t) \/ ExitRaises(t)
             \/ Install \/ Uninstall \/ UNCHANGED vars
      PROVE  Same
  BY <1>6, Zenon DEF Unseen, ReallocExitRaises, ExitRaises, Install, Uninstall, vars
<1>7. ASSUME NEW g, NEW t, Set(g, t) PROVE FlagsOK'
  <2>1. PICK b \in BOOLEAN : flag' = [flag EXCEPT ![g][t] = b]
    BY <1>7
  <2>2. [flag EXCEPT ![g][t] = b] \in [Trackers -> [Threads -> BOOLEAN]]
    BY SetFlag
  <2> QED BY <2>1, <2>2, Zenon DEF FlagsOK
<1>8. Same => FlagsOK'
  BY DEF FlagsOK
<1> HIDE DEF Same, Set
<1>9. ASSUME NEW t \in Threads,
             \/ MallocEnter(t) \/ FreeEnter(t) \/ ReallocEnter(t)
             \/ ReallocZeroEnter(t) \/ EnterRaises(t)
             \/ LibcSteps(t)
             \/ Unseen(t) \/ Outside(t) \/ AllocExit(t) \/ FreeExit(t)
             \/ ReallocExit(t) \/ ReallocExitRaises(t) \/ ExitRaises(t)
             \/ \E s \in Threads : OutOfScope(t, s)
      PROVE  FlagsOK'
  BY <1>9, <1>1, <1>2, <1>3, <1>4, <1>5, <1>6, <1>7, <1>8, Zenon
<1> QED
  BY <1>6, <1>8, <1>9, Zenon DEF Next, LibcSteps

\* The exceptions, once made, are remembered.
LEMMA HistoryGrows ==
    ASSUME [Next]_vars
    PROVE  deaf \subseteq deaf' /\ (crossed => crossed')
<1> DEFINE Grows == deaf \subseteq deaf' /\ (crossed => crossed')
<1>1. ASSUME NEW t \in Threads, MallocEnter(t) \/ FreeEnter(t) \/ ReallocEnter(t) PROVE Grows
  <2>1. ASSUME NEW k, NEW p, Enters(t, k, p) PROVE deaf' = deaf /\ crossed' = crossed
    BY <2>1, Zenon DEF Enters
  <2> QED BY <1>1, <2>1 DEF MallocEnter, FreeEnter, ReallocEnter
<1>2. ASSUME NEW t \in Threads, ReallocZeroEnter(t) \/ EnterRaises(t) PROVE Grows
  BY <1>2 DEF ReallocZeroEnter, EnterRaises
<1>3. ASSUME NEW t \in Threads, LibcSteps(t) PROVE Grows
  <2>1. ASSUME NEW c, Returns(t, c) PROVE deaf' = deaf /\ crossed' = crossed
    BY <2>1, Zenon DEF Returns
  <2>2. \E c : Returns(t, c)
    BY <1>3, Zenon DEF LibcSteps, LibcMalloc, LibcFree, LibcRealloc, LibcFails
  <2> QED BY <2>1, <2>2
<1>4. ASSUME NEW t \in Threads,
             Unseen(t) \/ Outside(t) \/ AllocExit(t) \/ FreeExit(t) \/ ReallocExit(t)
      PROVE Grows
  <2>1. deaf' = deaf
    BY <1>4, Zenon DEF Unseen, Outside, AllocExit, FreeExit, ReallocExit
  <2>2. crossed' = crossed
    <3>1. Ends(t)
      BY <1>4, Zenon DEF Unseen, Outside, AllocExit, FreeExit, ReallocExit
    <3> QED BY <3>1 DEF Ends
  <2> QED BY <2>1, <2>2
<1>5. ASSUME NEW t \in Threads, ReallocExitRaises(t) \/ ExitRaises(t) PROVE Grows
  <2>1. deaf \subseteq deaf'
    BY <1>5 DEF ReallocExitRaises, ExitRaises
  <2>2. Ends(t)
    BY <1>5, Zenon DEF ReallocExitRaises, ExitRaises
  <2> QED BY <2>1, <2>2 DEF Ends
<1>6. ASSUME NEW t \in Threads, NEW s \in Threads, OutOfScope(t, s) PROVE Grows
  BY <1>6 DEF OutOfScope
<1>7. ASSUME Install \/ Uninstall \/ UNCHANGED vars PROVE Grows
  BY <1>7 DEF Install, Uninstall, vars, history
<1> HIDE DEF Grows
<1>8. Grows
  BY <1>1, <1>2, <1>3, <1>4, <1>5, <1>6, <1>7, Zenon DEF Next, LibcSteps
<1> QED BY <1>8 DEF Grows

\* The calls that a tracker follows change in three ways: one begins or ends, with
\* its flag, or the pair of thread and tracker becomes deaf.
FollowedBy(g, t) == call[t] # Idle /\ call[t].by = g

LEMMA MatchStep ==
    ASSUME CallsOK, FlagsOK, FlagsMatchCalls, [Next]_vars
    PROVE  FlagsMatchCalls'
<1> SUFFICES ASSUME ~crossed', NEW g \in Trackers, NEW t \in Threads, <<g, t>> \notin deaf'
             PROVE  flag'[g][t] <=> FollowedBy(g, t)'
  BY DEF FlagsMatchCalls, FollowedBy
<1> DEFINE Goal == flag'[g][t] <=> FollowedBy(g, t)'
           Match == flag[g][t] <=> FollowedBy(g, t)
<1>0. /\ <<g, t>> \notin deaf /\ ~crossed => Match
      /\ g \in Trackers /\ g # 0
  BY HeapAssumption DEF FlagsMatchCalls, FollowedBy, Trackers
<1>1. ASSUME Match, NEW u \in Threads, NEW k \in Kinds, NEW p \in Chunk, Enters(u, k, p) PROVE Goal
  <2>1. CASE enabled /\ ~flag[installs][u]
    <3> DEFINE r == [kind |-> k, ptr |-> p, ret |-> Null, done |-> FALSE, by |-> installs]
    <3>1. r \in Calling /\ r.by = installs
      BY NewCall DEF CallsOK
    <3>2. call' = [call EXCEPT ![u] = r] /\ flag' = [flag EXCEPT ![installs][u] = TRUE]
      BY <1>1, <2>1 DEF Enters
    <3>3. call[u] = Idle
      BY <1>1 DEF Enters
    <3> HIDE DEF r
    <3> QED BY <1>1, <3>1, <3>2, <3>3, CallIsCall DEF CallsOK, FlagsOK, FollowedBy
  <2>2. CASE ~(enabled /\ ~flag[installs][u])
    <3> DEFINE r == [kind |-> k, ptr |-> p, ret |-> Null, done |-> FALSE, by |-> 0]
    <3>1. r \in Calling /\ r.by = 0
      BY NewCall, HeapAssumption
    <3>2. call' = [call EXCEPT ![u] = r] /\ flag' = flag
      BY <1>1, <2>2 DEF Enters
    <3>3. call[u] = Idle
      BY <1>1 DEF Enters
    <3> HIDE DEF r
    <3> QED BY <1>0, <1>1, <3>1, <3>2, <3>3, CallIsCall DEF CallsOK, FlagsOK, FollowedBy
  <2> QED BY <2>1, <2>2
<1>2. ASSUME Match, NEW u \in Threads, ReallocZeroEnter(u) \/ EnterRaises(u) PROVE Goal
  <2>1. PICK r \in Calling : call' = [call EXCEPT ![u] = r] /\ r.by = 0
    BY <1>2, RaisedEnters
  <2>2. /\ call[u] = Idle
        /\ \/ flag' = flag
           \/ /\ flag' = [flag EXCEPT ![installs][u] = TRUE]
              /\ deaf' = deaf \union {<<installs, u>>}
    BY <1>2, Zenon DEF ReallocZeroEnter, EnterRaises
  <2>3. flag'[g][t] = flag[g][t]
    <3>1. CASE flag' = [flag EXCEPT ![installs][u] = TRUE] /\ <<installs, u>> \in deaf'
      <4>1. ~(g = installs /\ t = u)
        BY <3>1
      <4> QED BY <3>1, <4>1 DEF FlagsOK
    <3> QED BY <2>2, <3>1
  <2>4. FollowedBy(g, t)' <=> FollowedBy(g, t)
    BY <2>1, <2>2, <1>0, CallIsCall DEF CallsOK, FollowedBy
  <2> QED BY <1>2, <2>3, <2>4
<1>3. ASSUME Match, NEW u \in Threads, LibcSteps(u) PROVE Goal
  <2>1. PICK c \in Chunk : Returns(u, c)
    BY <1>3, LibcReturns
  <2>2. PICK r \in Calling : call' = [call EXCEPT ![u] = r] /\ r.by = call[u].by
    <3> DEFINE q == [call[u] EXCEPT !.done = TRUE, !.ret = c]
    <3>1. call' = [call EXCEPT ![u] = q]
      BY <2>1 DEF Returns
    <3>2. call[u] \in Calling
      BY <1>3, LibcReturns DEF CallsOK
    <3>3. q \in Calling /\ q.by = call[u].by
      BY <3>2, ReturnKeeps
    <3> HIDE DEF q
    <3> QED BY <3>1, <3>3
  <2>3. flag' = flag /\ call[u] # Idle
    BY <1>3, <2>1, LibcReturns DEF Returns
  <2> QED BY <1>3, <2>2, <2>3, CallIsCall DEF CallsOK, FollowedBy
<1>4. ASSUME Match, NEW u \in Threads, Ends(u), Exits(u) PROVE Goal
  BY <1>4 DEF Ends, Exits, CallsOK, FlagsOK, FollowedBy
<1>5. ASSUME Match, NEW u \in Threads, Unseen(u) PROVE Goal
  BY <1>0, <1>5 DEF Unseen, Ends, CallsOK, FollowedBy
<1>6. ASSUME Match, NEW u \in Threads, ReallocExitRaises(u) \/ ExitRaises(u) PROVE Goal
  <2>0. Ends(u) /\ flag' = flag /\ deaf' = deaf \union {<<call[u].by, u>>}
    BY <1>6, Zenon DEF ReallocExitRaises, ExitRaises
  <2>1. call' = [call EXCEPT ![u] = Idle] /\ flag' = flag /\ call[u] # Idle
    BY <2>0 DEF Ends
  <2>2. ~(g = call[u].by /\ t = u)
    BY <2>0
  <2> QED BY <1>6, <2>1, <2>2 DEF CallsOK, FollowedBy
<1>7. ASSUME Match, NEW u \in Threads, NEW s \in Threads, OutOfScope(u, s) PROVE Goal
  <2>1. s = u
    BY <1>7 DEF OutOfScope
  <2> QED BY <1>7, <2>1 DEF OutOfScope, CallsOK, FlagsOK, FollowedBy
<1>8. ASSUME Match, Install \/ Uninstall \/ UNCHANGED vars PROVE Goal
  BY <1>8 DEF Install, Uninstall, vars, FollowedBy
<1>9. <<g, t>> \notin deaf /\ ~crossed
  <2>1. deaf \subseteq deaf' /\ (crossed => crossed')
    BY HistoryGrows
  <2> QED BY <2>1
<1>10. Match
  BY <1>0, <1>9
<1>11. ASSUME NEW u \in Threads, MallocEnter(u) \/ FreeEnter(u) \/ ReallocEnter(u) PROVE Goal
  <2>1. \E k \in Kinds, p \in Chunk : Enters(u, k, p)
    BY <1>11 DEF MallocEnter, FreeEnter, ReallocEnter, Kinds, Chunk, Null, CallsOK
  <2> QED BY <1>1, <1>10, <2>1
<1>12. ASSUME NEW u \in Threads,
              Outside(u) \/ AllocExit(u) \/ FreeExit(u) \/ ReallocExit(u)
       PROVE  Ends(u) /\ Exits(u)
  BY <1>12, Zenon DEF Outside, AllocExit, FreeExit, ReallocExit
<1> HIDE DEF Goal, Match
<1>13. ASSUME NEW u \in Threads,
              \/ MallocEnter(u) \/ FreeEnter(u) \/ ReallocEnter(u)
              \/ ReallocZeroEnter(u) \/ EnterRaises(u)
              \/ LibcSteps(u)
              \/ Unseen(u) \/ Outside(u) \/ AllocExit(u) \/ FreeExit(u)
              \/ ReallocExit(u) \/ ReallocExitRaises(u) \/ ExitRaises(u)
              \/ \E s \in Threads : OutOfScope(u, s)
       PROVE  Goal
  BY <1>13, <1>2, <1>3, <1>4, <1>5, <1>6, <1>7, <1>10, <1>11, <1>12, Zenon
<1>14. Goal
  BY <1>8, <1>10, <1>13, Zenon DEF Next, LibcSteps
<1> QED BY <1>14 DEF Goal


\* The free chunks libc makes are chunks.
LEMMA BinsStep ==
    ASSUME CallsOK, MapsOK, NEW t \in Threads, LibcSteps(t)
    PROVE  bins' \subseteq Bin
<1> USE HeapAssumption DEF Bin
<1>0. bins \subseteq Bin /\ top \in Int /\ Sizes \subseteq Int
  BY DEF CallsOK, MapsOK
<1>1. call[t].ptr \in Chunk
  <2>1. call[t] \in Calling
    BY LibcReturns DEF CallsOK
  <2> QED BY <2>1, CallIsCall
<1>2. ASSUME NEW n \in Sizes, NEW b \in bins, FromBin(t, b, n) PROVE bins' \subseteq Bin
  <2>1. CASE bins' = bins \ {b}
    BY <1>0, <2>1
  <2>2. CASE bins' = (bins \ {b})
                \union {[hdr |-> b.hdr + n, size |-> b.size - n, home |-> Arena]}
    <3>1. [hdr |-> b.hdr + n, size |-> b.size - n, home |-> Arena] \in Bin
      BY <1>0
    <3> QED BY <1>0, <2>2, <3>1
  <2> QED BY <1>2, <2>1, <2>2 DEF FromBin
<1>3. CASE LibcMalloc(t)
  BY <1>0, <1>2, <1>3 DEF LibcMalloc, Gets, FromTop
<1>4. CASE LibcFree(t)
  <2> DEFINE c == call[t].ptr
  <2>1. CASE \E home \in {t, Arena} :
               bins' = bins \union {[hdr |-> c.hdr, size |-> c.size, home |-> home]}
    BY <1>0, <1>1, <2>1 DEF Chunk
  <2>2. CASE \E b \in bins : bins' = (bins \ {b}) \union {[b EXCEPT !.size = @ + c.size]}
    <3>1. PICK b \in bins : bins' = (bins \ {b}) \union {[b EXCEPT !.size = @ + c.size]}
      BY <2>2
    <3>2. [b EXCEPT !.size = @ + c.size] \in Bin
      BY <1>0, <1>1 DEF Chunk
    <3> QED BY <1>0, <3>1, <3>2
  <2>3. CASE bins' = bins
    BY <1>0, <2>3
  <2> QED BY <1>4, <2>1, <2>2, <2>3 DEF LibcFree, Gives
<1>5. CASE LibcRealloc(t)
  <2>1. CASE bins' = bins
    BY <1>0, <2>1
  <2>2. CASE \E home \in {t, Arena} :
               bins' = bins \union {[hdr |-> call[t].ptr.hdr, size |-> call[t].ptr.size,
                                     home |-> home]}
    BY <1>0, <1>1, <2>2 DEF Chunk
  <2> QED BY <1>5, <2>1, <2>2 DEF LibcRealloc
<1>6. CASE LibcFails(t)
  BY <1>0, <1>6 DEF LibcFails, libc
<1> QED BY <1>3, <1>4, <1>5, <1>6 DEF LibcSteps

EntryMaps ==
    /\ frees \in [Trackers -> SUBSET Entry]
    /\ allocs \in [Trackers -> SUBSET Entry]
    /\ leaked \subseteq Entry

\* A chunk read from a bin is an entry.
LEMMA FoundIsEntry ==
    ASSUME NEW h \in Int, NEW n \in Int, NEW b \in BOOLEAN
    PROVE  [address |-> h, size |-> n, prevInUse |-> b] \in Entry
  BY DEF Entry

\* So is what a rescan finds.
LEMMA RescannedEntries ==
    ASSUME MapsOK, NEW t, NEW touched
    PROVE  Rescanned(t, touched) \subseteq Entry
<1> DEFINE found(b) == [address |-> b.hdr, size |-> b.size, prevInUse |-> PrevInUse(b)]
<1>1. ASSUME NEW b \in bins PROVE found(b) \in Entry
  <2>1. PrevInUse(b) \in BOOLEAN
    BY DEF PrevInUse
  <2>2. b.hdr \in Int /\ b.size \in Int
    BY DEF MapsOK
  <2> QED BY <2>1, <2>2, FoundIsEntry
<1> HIDE DEF found
<1>2. \E B \in SUBSET bins : Rescanned(t, touched) = {found(b) : b \in B}
  BY Zenon DEF Rescanned, found
<1> QED BY <1>1, <1>2

\* A map whose touched entries are replaced holds entries, and so do the others.
LEMMA ReplacesEntries ==
    ASSUME MapsOK, NEW g \in Trackers, NEW map \in SUBSET Entry, NEW touched,
           NEW new \in SUBSET Entry, NEW lost \in SUBSET Entry,
           Replaces(g, map, touched, new, lost),
           NEW held \in SUBSET Entry, allocs' = [allocs EXCEPT ![g] = held]
    PROVE  EntryMaps'
<1> DEFINE rest == map \ touched
           over == {x \in rest : \E y \in new : x.address = y.address}
<1>1. over \subseteq Entry /\ (rest \ over) \union new \subseteq Entry
  OBVIOUS
<1>2. frees' = [frees EXCEPT ![g] = (rest \ over) \union new] /\ leaked' = lost \union over
  BY DEF Replaces
<1> HIDE DEF over, rest
<1> QED BY <1>1, <1>2 DEF EntryMaps, MapsOK

\* What a malloc leaves in a map are entries, if what it is given are.
LEMMA MallocNotesEntries ==
    ASSUME MapsOK, NEW g \in Trackers, NEW t, NEW c \in Chunk,
           NEW map \in SUBSET Entry, NEW held \in SUBSET Entry, NEW lost \in SUBSET Entry,
           NotesMalloc(g, t, Tracked(c), map, held, lost)
    PROVE  EntryMaps'
<1> DEFINE e == Tracked(c)
           touched == Touched(map, e)
           new == IF touched = {} THEN {} ELSE Rescanned(t, touched)
<1>1. new \subseteq Entry
  BY RescannedEntries
<1>2. Put(held, e) \subseteq Entry
  <2>1. e \in Entry
    BY DEF Tracked, Chunk, Entry
  <2> QED BY <2>1 DEF Put
<1>3. Replaces(g, map, touched, new, lost) /\ allocs' = [allocs EXCEPT ![g] = Put(held, e)]
  BY DEF NotesMalloc
<1> HIDE DEF e, new, touched
<1> QED BY <1>1, <1>2, <1>3, ReplacesEntries

\* Also if it raises in its rescan.
LEMMA RescanRaisesEntries ==
    ASSUME MapsOK, NEW g \in Trackers, NEW t, NEW e,
           NEW map \in SUBSET Entry, NEW held \in SUBSET Entry, NEW lost \in SUBSET Entry,
           RescanRaises(g, t, e, map, held, lost)
    PROVE  EntryMaps'
<1> DEFINE touched == Touched(map, e)
<1>1. PICK end \in 0..HeapEnd :
         Replaces(g, map, touched, {x \in Rescanned(t, touched) : x.address < end}, lost)
  BY DEF RescanRaises
<1>2. allocs' = [allocs EXCEPT ![g] = held]
  BY DEF RescanRaises
<1> DEFINE new == {x \in Rescanned(t, touched) : x.address < end}
<1>3. new \subseteq Entry /\ Replaces(g, map, touched, new, lost)
  BY <1>1, RescannedEntries
<1> HIDE DEF touched, new
<1> QED BY <1>2, <1>3, ReplacesEntries

\* So are what a free leaves.
LEMMA FreeNotesEntries ==
    ASSUME MapsOK, NEW g \in Trackers, NEW c, NotesFree(g, c)
    PROVE  EntryMaps'
<1>1. PICK e \in Known(g, c) :
        /\ frees' = [frees EXCEPT ![g] = Put(@, e)]
        /\ leaked' = leaked \union Replaced(frees[g], e)
        /\ allocs' = [allocs EXCEPT ![g] = @ \ {e}]
  BY DEF NotesFree
<1>2. e \in Entry
  BY DEF Known, MapsOK
<1>3. Put(frees[g], e) \subseteq Entry /\ Replaced(frees[g], e) \subseteq Entry
  BY <1>2 DEF Put, Replaced, MapsOK
<1> QED BY <1>1, <1>3 DEF EntryMaps, MapsOK

\* Types of the maps of libc and of the tracker.
LEMMA MapsStep == CallsOK /\ MapsOK /\ [Next]_vars => MapsOK'
<1> SUFFICES ASSUME CallsOK, MapsOK, [Next]_vars PROVE MapsOK'
  OBVIOUS
<1> DEFINE Kept == bins' = bins /\ EntryMaps'
<1>1. ASSUME UNCHANGED <<bins, maps>> PROVE MapsOK'
  BY <1>1 DEF MapsOK, maps
<1>2. ASSUME bins' = bins, EntryMaps' PROVE MapsOK'
  BY <1>2 DEF MapsOK, EntryMaps
<1>3. ASSUME NEW t \in Threads, LibcSteps(t) PROVE MapsOK'
  <2>1. UNCHANGED maps
    BY <1>3, LibcReturns DEF Returns
  <2>2. bins' \subseteq Bin
    BY <1>3, BinsStep
  <2> QED BY <2>1, <2>2 DEF MapsOK, maps, Bin
<1>4. ASSUME NEW t \in Threads,
             \/ MallocEnter(t) \/ FreeEnter(t) \/ ReallocEnter(t)
             \/ ReallocZeroEnter(t) \/ EnterRaises(t)
      PROVE  UNCHANGED <<bins, maps>>
  <2>1. ASSUME NEW k, NEW p, Enters(t, k, p) PROVE UNCHANGED <<bins, maps>>
    BY <2>1 DEF Enters, libc
  <2>2. ASSUME ReallocZeroEnter(t) \/ EnterRaises(t) PROVE UNCHANGED <<bins, maps>>
    BY <2>2, RaisedEnters
  <2> QED BY <1>4, <2>1, <2>2, Zenon DEF MallocEnter, FreeEnter, ReallocEnter
<1>5. ASSUME NEW t \in Threads,
             \/ Unseen(t) \/ Outside(t) \/ ReallocExitRaises(t)
             \/ \E s \in Threads : OutOfScope(t, s)
      PROVE  UNCHANGED <<bins, maps>>
  BY <1>5 DEF Unseen, Outside, ReallocExitRaises, OutOfScope, Ends, libc, maps
<1>6. ASSUME NEW t \in Threads, Ends(t), call[t].by # 0
      PROVE  /\ call[t].ret \in Chunk /\ call[t].ptr \in Chunk
             /\ call[t].by \in Trackers /\ bins' = bins
  <2>1. call[t] \in Calling
    BY <1>6 DEF CallsOK, Ends
  <2> QED BY <1>6, <2>1, CallIsCall, HeapAssumption DEF Trackers, Ends, libc
<1>7. ASSUME NEW t \in Threads, AllocExit(t) PROVE MapsOK'
  <2>1. CASE UNCHANGED maps
    BY <1>1, <1>6, <1>7, <2>1 DEF AllocExit
  <2>2. CASE NotesMalloc(call[t].by, t, Tracked(call[t].ret), frees[call[t].by],
                         allocs[call[t].by], leaked)
    <3>1. EntryMaps'
      BY <1>6, <1>7, <2>2, MallocNotesEntries DEF AllocExit, MapsOK
    <3> QED BY <1>2, <1>6, <1>7, <3>1 DEF AllocExit
  <2> QED BY <1>7, <2>1, <2>2 DEF AllocExit
<1>8. ASSUME NEW t \in Threads, FreeExit(t) PROVE MapsOK'
  <2>1. CASE UNCHANGED maps
    BY <1>1, <1>6, <1>8, <2>1 DEF FreeExit
  <2>2. CASE NotesFree(call[t].by, call[t].ptr)
    <3>1. EntryMaps'
      BY <1>6, <1>8, <2>2, FreeNotesEntries DEF FreeExit
    <3> QED BY <1>2, <1>6, <1>8, <3>1 DEF FreeExit
  <2> QED BY <1>8, <2>1, <2>2 DEF FreeExit
<1>9. ASSUME NEW t \in Threads, ReallocExit(t) PROVE MapsOK'
  <2> DEFINE g == call[t].by
             known == Known(g, call[t].ptr)
             replaced == {x \in frees[g] : \E e \in known : x.address = e.address}
  <2>1. NotesMalloc(g, t, Tracked(call[t].ret), (frees[g] \ replaced) \union known,
                    allocs[g] \ known, leaked \union replaced)
    BY <1>9 DEF ReallocExit
  <2>2. Ends(t) /\ g # 0
    BY <1>9, Zenon DEF ReallocExit
  <2>3. g \in Trackers /\ call[t].ret \in Chunk /\ bins' = bins
    BY <1>6, <2>2
  <2>4. /\ (frees[g] \ replaced) \union known \subseteq Entry
        /\ allocs[g] \ known \subseteq Entry
        /\ leaked \union replaced \subseteq Entry
    BY <2>3 DEF MapsOK, Known
  <2> HIDE DEF g, known, replaced
  <2>5. EntryMaps'
    BY <2>1, <2>3, <2>4, MallocNotesEntries
  <2> QED BY <1>2, <2>3, <2>5
<1>10. ASSUME NEW t \in Threads, ExitRaises(t) PROVE MapsOK'
  <2> DEFINE g == call[t].by
             ptr == call[t].ptr
             known == IF call[t].kind = "malloc" THEN {} ELSE Known(g, ptr)
             replaced == {x \in frees[g] : \E e \in known : x.address = e.address}
  <2>1. Ends(t) /\ g # 0
    BY <1>10, Zenon DEF ExitRaises
  <2>2. g \in Trackers /\ bins' = bins
    BY <1>6, <2>1
  <2>3. \/ UNCHANGED maps
        \/ FreeRaises(g, ptr)
        \/ NotesFree(g, ptr)
        \/ RescanRaises(g, t, Tracked(call[t].ret), (frees[g] \ replaced) \union known,
                        allocs[g] \ known, leaked \union replaced)
    BY <1>10 DEF ExitRaises
  <2>4. /\ (frees[g] \ replaced) \union known \subseteq Entry
        /\ allocs[g] \ known \subseteq Entry
        /\ leaked \union replaced \subseteq Entry
    BY <2>2 DEF MapsOK, Known
  <2> HIDE DEF g, ptr, known, replaced
  <2>5. CASE FreeRaises(g, ptr)
    <3>1. EntryMaps'
      BY <2>2, <2>5 DEF FreeRaises, EntryMaps, MapsOK
    <3> QED BY <1>2, <2>2, <3>1
  <2>6. CASE NotesFree(g, ptr)
    BY <1>2, <2>2, <2>6, FreeNotesEntries
  <2>7. CASE RescanRaises(g, t, Tracked(call[t].ret), (frees[g] \ replaced) \union known,
                          allocs[g] \ known, leaked \union replaced)
    <3>1. EntryMaps'
      BY <2>2, <2>4, <2>7, RescanRaisesEntries
    <3> QED BY <1>2, <2>2, <3>1
  <2> QED BY <1>1, <2>2, <2>3, <2>5, <2>6, <2>7
<1>11. ASSUME Install \/ Uninstall \/ UNCHANGED vars PROVE UNCHANGED <<bins, maps>>
  BY <1>11 DEF Install, Uninstall, vars, libc, maps
<1> QED
  BY <1>1, <1>3, <1>4, <1>5, <1>7, <1>8, <1>9, <1>10, <1>11, Zenon DEF Next, LibcSteps

\* Every variable keeps its type: a call is a call, a map holds entries, and the
\* tracker that is enabled exists.
THEOREM TypeCorrect == Spec => []TypeOK
<1>1. Init => TypeOK
  BY HeapAssumption DEF Init, TypeOK, CallsOK, FlagsOK, MapsOK
<1>2. TypeOK /\ [Next]_vars => TypeOK'
  BY CallsStep, FlagsStep, MapsStep DEF TypeOK
<1> QED BY <1>1, <1>2, PTL DEF Spec

\* memory_management_calls is exact: a thread is in memory management exactly
\* while the tracker follows a call of it, whoever calls, fails, returns or is
\* installed in between, but for the exceptions FlagsMatchCalls names.
THEOREM FlagsMatch == Spec => []FlagsMatchCalls
<1>1. Init => FlagsMatchCalls
  BY DEF Init, FlagsMatchCalls
<1>2. TypeOK /\ FlagsMatchCalls /\ [Next]_vars => FlagsMatchCalls'
  BY MatchStep DEF TypeOK
<1> QED BY <1>1, <1>2, TypeCorrect, PTL DEF Spec
-----------------------------------------------------------------------------
(* The map of free chunks, in a session that is quiet: regular, with no two  *)
(* free chunks next to each other.                                           *)

Quiet == Regular /\ ~crowded

End(c) == c.hdr + c.size
Disjoint(a, b) == End(a) <= b.hdr \/ End(b) <= a.hdr

\* The entry of the map for a free chunk: noted when it was freed, or found in its bin.
EntryOf(w, b) ==
    /\ w.size = b.size
    /\ \/ w.address = b.hdr /\ w.prevInUse
       \/ w.address = b.hdr + 1 /\ ~w.prevInUse

\* The entry is one of a free chunk, or of a chunk that has gone into the top.
Live(w) == w.address > top \/ \E b \in bins : EntryOf(w, b)

\* What is left of the free chunk that w is the entry of, when c is its front.
Rest(w, c, r) == r.home = Arena /\ r.hdr = End(c) /\ w.size = c.size + r.size

\* The entry begins where c does, and c adjoined no free chunk when it was free.
Front(w, c) ==
    \/ w.address = c.hdr /\ w.prevInUse /\ \A b \in bins : End(b) # c.hdr
    \/ w.address = c.hdr + 1 /\ ~w.prevInUse

\* The entry was live before libc handed c out: c, or a free chunk that c is the front
\* of, or a part of the top that c was taken from.
Stale(w, c) ==
    \/ Front(w, c) /\ (w.size = c.size \/ \E r \in bins : Rest(w, c, r))
    \/ End(c) = top /\ w.address > c.hdr

\* Entries of the map do not overlap.
Spaced(map) ==
    \A x, y \in map : x # y /\ x.address <= y.address => x.address + x.size <= y.address

\* The free chunks are chunks of the heap, apart from each other.
BinsOK ==
    /\ top \in Nat /\ bins \subseteq Bin
    /\ \A b \in bins : b.hdr >= 0 /\ b.size >= 2 /\ End(b) <= top
    /\ \A a, b \in bins : (a # b => Disjoint(a, b)) /\ End(a) # b.hdr

\* c is a chunk of the heap, and is not free.
InUse(c) ==
    /\ c \in Chunk /\ c.hdr >= 0 /\ c.size >= 2 /\ End(c) <= top
    /\ \A b \in bins : Disjoint(b, c)

\* The map as malloc finds it when it has handed out c: its entries were live before
\* that, and are spaced but for the entry of c itself, which ends in the next header.
Handed(map, c) ==
    /\ map \subseteq Entry
    /\ \A w \in map : w.size >= 2 /\ (Live(w) \/ Stale(w, c))
    /\ \A x, y \in map : x # y /\ x.address <= y.address =>
          \/ x.address + x.size <= y.address
          \/ x = Tracked(c) /\ x.address + x.size = y.address + 1

\* The rescan of the touched entries from f to l finds b.
Seen(t, b, f, l) ==
    /\ b.home \in {t, Arena}
    /\ b.hdr < l.address + l.size \/ (l.prevInUse /\ b.hdr = l.address + l.size)
    /\ End(b) > f.address \/ (PrevInUse(b) /\ End(b) = f.address)

Found(b) == [address |-> b.hdr, size |-> b.size, prevInUse |-> PrevInUse(b)]

\* The entries of S lie between f and l.
FromTo(S, f, l) ==
    f \in S /\ l \in S /\ \A x \in S : f.address <= x.address /\ x.address <= l.address

\* What the map is afterwards: live entries that do not overlap, among them one for each
\* free chunk of the arena that had one, or is what c left of one.
Rebuilt(m, map, c) ==
    /\ m \subseteq Entry /\ Spaced(m)
    /\ \A w \in m : w.size >= 2 /\ Live(w)
    /\ \A b \in bins, w \in map :
          b.home = Arena /\ (EntryOf(w, b) \/ (Front(w, c) /\ Rest(w, c, b)))
             => \E x \in m : EntryOf(x, b)

\* The heap in order: chunks of it that do not overlap, the free ones apart.
HeapOK ==
    /\ BinsOK
    /\ \A c \in owned : InUse(c)
    /\ \A a, b \in owned : a # b => Disjoint(a, b)

\* The tracker's maps against the heap, while it has not noted that the chunks of given
\* were handed out and that those of gone were freed.
InOrder(map, held, given, gone) ==
    /\ Spaced(map)
    /\ \A w \in map : w.size >= 2 /\ (Live(w) \/ \E c \in given : Stale(w, c))
    /\ \A b \in bins : b.home = Arena =>
          \/ \E w \in map : EntryOf(w, b) \/ \E c \in given : Front(w, c) /\ Rest(w, c, b)
          \/ [hdr |-> b.hdr, size |-> b.size] \in gone
    /\ \A x, y \in held : x.address = y.address => x = y
    /\ \A c \in (owned \ given) \union gone : Tracked(c) \in held
    /\ given \subseteq owned /\ gone \intersect owned = {}
    /\ \A p \in gone :
          /\ p \in Chunk /\ p.hdr >= 0 /\ p.size >= 2
          /\ p.hdr >= top \/ \E b \in bins : b.hdr = p.hdr /\ b.size = p.size
          /\ \A w \in map : w.address + w.size <= p.hdr + 1 \/ w.address > End(p)

NotCrowding == ~\E a \in bins \union bins', b \in bins' : Adjoins(a, b)

\* libc has served the call of t, which is not handled yet: it was given a chunk, or a
\* chunk of it is gone.
Done(t) == call[t] # Idle /\ call[t].done
New(t) ==
    /\ Done(t) /\ call[t].ret # Null
    /\ call[t].kind = "malloc" \/ call[t].ret # call[t].ptr
Left(t) == Done(t) /\ (call[t].kind = "free" \/ (call[t].kind = "realloc" /\ New(t)))
Given == {call[t].ret : t \in {u \in Threads : New(u)}}
Gone == {call[t].ptr : t \in {u \in Threads : Left(u)}}

\* The tracker follows every call, one of which at most waits for it.
CallsFollowed ==
    /\ \A t \in Threads : call[t] # Idle => call[t].by = 1
    /\ \A t, u \in Threads : Done(t) /\ Done(u) => t = u
    /\ \A t \in Threads :
          call[t] # Idle /\ call[t].kind # "malloc" /\ ~Left(t) => call[t].ptr \in owned
    /\ \A t, u \in Threads :
          /\ call[t] # Idle /\ call[u] # Idle /\ t # u
          /\ call[t].kind # "malloc" /\ call[u].kind # "malloc"
          => call[t].ptr # call[u].ptr
    /\ \A t \in Threads : Done(t) /\ call[t].kind = "free" => call[t].ret = Null

\* Nothing has happened that the tracker could have seen.
NothingYet ==
    /\ owned = {} /\ bins = {} /\ top = 0
    /\ \A t \in Threads : call[t] = Idle
    /\ leaked = {} /\ \A g \in Trackers : frees[g] = {} /\ allocs[g] = {}

\* The tracker's maps agree with the heap.
Agrees ==
    /\ HeapOK /\ CallsFollowed
    /\ InOrder(frees[1], allocs[1], Given, Gone)
    /\ leaked = {} /\ \A g \in Trackers \ {1} : frees[g] = {}

\* They do in a quiet session, from its first call on.
MapAgrees == Quiet => (installs = 0 => NothingYet) /\ (installs = 1 => Agrees)

\* A set of numbers has a least one.
LEMMA LeastNat ==
    ASSUME NEW S \in SUBSET Nat, S # {}
    PROVE  \E m \in S : \A x \in S : m <= x
<1> DEFINE T == {0..x : x \in S}
<1>1. T \subseteq FiniteSubsetsOf(Nat) /\ T # {}
  <2>1. ASSUME NEW x \in S PROVE 0..x \in FiniteSubsetsOf(Nat)
    <3>1. x \in Nat /\ IsFiniteSet(0..x)
      BY FS_Interval
    <3> QED BY <3>1 DEF FiniteSubsetsOf
  <2> QED BY <2>1
<1>2. \E I \in T : \A J \in T : <<J, I>> \notin StrictSubsetOrdering(Nat)
  <2>1. IsWellFoundedOn(StrictSubsetOrdering(Nat), FiniteSubsetsOf(Nat))
    BY FS_StrictSubsetOrderingWellFounded
  <2> HIDE DEF T
  <2> QED BY <1>1, <2>1, WFMin
<1>3. PICK m \in S : \A x \in S : <<0..x, 0..m>> \notin StrictSubsetOrdering(Nat)
  BY <1>2
<1>4. ASSUME NEW x \in S, x < m PROVE FALSE
  <2>1. x \in Nat /\ m \in Nat
    OBVIOUS
  <2>2. 0..x \subseteq 0..m /\ m \in 0..m /\ m \notin 0..x
    BY <1>4, <2>1
  <2>3. 0..x \in SUBSET Nat /\ 0..m \in SUBSET Nat
    BY <2>1
  <2> QED BY <1>3, <2>2, <2>3 DEF StrictSubsetOrdering
<1>5. \A x \in S : m <= x
  BY <1>4
<1> QED BY <1>5

\* The entries of a map have a first and a last.
LEMMA FirstAndLast ==
    ASSUME NEW S \in SUBSET Entry, S # {}, NEW a \in Int, NEW b \in Int,
           \A x \in S : a <= x.address /\ x.address <= b
    PROVE  \E f, l \in S : \A x \in S : f.address <= x.address /\ x.address <= l.address
<1>1. \E f \in S : \A x \in S : f.address <= x.address
  <2> DEFINE A == {x.address - a : x \in S}
  <2>1. A \in SUBSET Nat /\ A # {}
    BY DEF Entry
  <2>2. PICK m \in A : \A n \in A : m <= n
    <3> HIDE DEF A
    <3> QED BY <2>1, LeastNat
  <2>3. PICK f \in S : m = f.address - a
    OBVIOUS
  <2>4. \A x \in S : f.address - a <= x.address - a
    BY <2>2, <2>3
  <2> QED BY <2>4 DEF Entry
<1>2. \E l \in S : \A x \in S : x.address <= l.address
  <2> DEFINE A == {b - x.address : x \in S}
  <2>1. A \in SUBSET Nat /\ A # {}
    BY DEF Entry
  <2>2. PICK m \in A : \A n \in A : m <= n
    <3> HIDE DEF A
    <3> QED BY <2>1, LeastNat
  <2>3. PICK l \in S : m = b - l.address
    OBVIOUS
  <2>4. \A x \in S : b - l.address <= b - x.address
    BY <2>2, <2>3
  <2> QED BY <2>4 DEF Entry
<1> QED BY <1>1, <1>2

\* Entries have their own addresses.
LEMMA HandedDistinct ==
    ASSUME NEW map, NEW c, Handed(map, c), NEW x \in map, NEW y \in map, x.address = y.address
    PROVE  x = y
<1>1. x \in Entry /\ y \in Entry /\ x.size >= 2 /\ y.size >= 2
  BY DEF Handed
<1>2. CASE x # y
  <2>1. \/ x.address + x.size <= y.address
        \/ x = Tracked(c) /\ x.address + x.size = y.address + 1
    BY <1>1, <1>2 DEF Handed, Entry
  <2> QED BY <1>1, <2>1 DEF Entry
<1> QED BY <1>2

\* An entry that c made stale is touched by c.
LEMMA StaleIsTouched ==
    ASSUME NEW c, BinsOK, InUse(c), NEW map, Handed(map, c), NEW w \in map,
           Stale(w, c), Front(w, c) \/ ~Live(w)
    PROVE  w \in Touched(map, Tracked(c))
<1> DEFINE e == Tracked(c)
<1>1. w \in Entry /\ w.size >= 2 /\ c \in Chunk /\ c.size >= 2
  BY DEF Handed, InUse
<1>2. e.address = c.hdr + 1 /\ e.size = c.size
  BY DEF Tracked
<1>3. CASE w.address > e.address
  <2>1. End(c) = top /\ ~Live(w)
    BY <1>1, <1>2, <1>3 DEF Stale, Front, Chunk, Entry
  <2>2. w.address <= top
    BY <1>1, <2>1 DEF Live, BinsOK, Entry
  <2>3. w.address <= e.address + e.size
    BY <1>1, <1>2, <2>1, <2>2 DEF End, Chunk, Entry
  <2> QED BY <1>3, <2>3 DEF Touched
<1>4. CASE w.address <= e.address
  <2>1. w.address + w.size >= e.address
    BY <1>1, <1>2, <1>4 DEF Stale, Front, Chunk, Entry
  <2>2. ASSUME NEW y \in map, y.address <= e.address PROVE y.address <= w.address
    <3>1. y \in Entry
      BY DEF Handed
    <3>2. CASE w.address = c.hdr + 1
      BY <1>1, <1>2, <2>2, <3>1, <3>2 DEF Chunk, Entry
    <3>3. CASE w.address = c.hdr
      <4>1. CASE y # w /\ w.address <= y.address
        <5>1. w # Tracked(c)
          BY <1>1, <1>2, <3>3 DEF Chunk
        <5>2. w.address + w.size <= y.address
          BY <4>1, <5>1 DEF Handed
        <5> QED BY <1>1, <1>2, <2>2, <3>1, <3>3, <5>2 DEF Chunk, Entry
      <4> QED BY <1>1, <3>1, <4>1 DEF Entry
    <3> QED BY <1>1, <1>2, <1>4, <3>2, <3>3 DEF Stale, Front, Chunk, Entry
  <2> QED BY <1>4, <2>1, <2>2 DEF Touched
<1> QED BY <1>1, <1>2, <1>3, <1>4 DEF Chunk, Entry

\* No entry between two touched ones is left.
LEMMA TouchedIsConvex ==
    ASSUME NEW c \in Chunk, NEW map, Handed(map, c),
           NEW f \in Touched(map, Tracked(c)), NEW l \in Touched(map, Tracked(c)),
           NEW w \in map, f.address <= w.address, w.address <= l.address
    PROVE  w \in Touched(map, Tracked(c))
<1> DEFINE e == Tracked(c)
<1>1. e.address \in Int /\ e.size \in Int
  BY DEF Tracked, Chunk
<1>2. f \in map /\ l \in map
  BY DEF Touched
<1>3. f \in Entry /\ l \in Entry /\ w \in Entry
  BY <1>2 DEF Handed
<1>4. CASE w.address > e.address
  <2>1. l.address <= e.address + e.size
    BY <1>1, <1>3, <1>4 DEF Touched, Entry
  <2> QED BY <1>1, <1>3, <1>4, <2>1 DEF Touched, Entry
<1>5. CASE w.address <= e.address
  <2>1. f.address <= e.address
    BY <1>1, <1>3, <1>5 DEF Entry
  <2>2. \A y \in map : y.address <= e.address => y.address <= f.address
    BY <1>1, <1>3, <2>1 DEF Touched, Entry
  <2>3. w.address = f.address
    BY <1>3, <1>5, <2>2 DEF Entry
  <2> QED BY <1>2, <2>3, HandedDistinct
<1> QED BY <1>1, <1>3, <1>4, <1>5 DEF Entry

\* An entry that begins where a free chunk does is its entry.
LEMMA OwnEntry ==
    ASSUME NEW c, BinsOK, InUse(c), NEW map, Handed(map, c), NEW w \in map,
           NEW b \in bins, w.address \in {b.hdr, b.hdr + 1}
    PROVE  EntryOf(w, b) /\ w # Tracked(c) /\ ~Front(w, c)
<1>1. /\ w \in Entry /\ c \in Chunk /\ b \in Bin /\ top \in Int
      /\ b.hdr >= 0 /\ b.size >= 2 /\ End(b) <= top
  BY DEF Handed, InUse, BinsOK
<1>2. Disjoint(b, c) /\ c.size >= 2 /\ End(c) <= top
  BY DEF InUse
<1>3. w.address # c.hdr /\ w.address # c.hdr + 1
  BY <1>1, <1>2 DEF Disjoint, End, Chunk, Bin, Entry
<1>4. w.address <= top
  BY <1>1 DEF End, Bin, Entry
<1>5. ~(End(c) = top /\ w.address > c.hdr)
  BY <1>1, <1>2, <1>3 DEF Disjoint, End, Chunk, Bin, Entry
<1>6. Live(w)
  BY <1>3, <1>5 DEF Handed, Stale, Front
<1>7. PICK a \in bins : EntryOf(w, a)
  BY <1>1, <1>4, <1>6 DEF Live, Entry
<1>8. a = b
  <2>1. a \in Bin /\ a.size >= 2 /\ (a # b => Disjoint(a, b))
    BY DEF BinsOK
  <2> QED BY <1>1, <1>7, <2>1 DEF EntryOf, Disjoint, End, Bin, Entry
<1> QED BY <1>3, <1>7, <1>8 DEF Tracked, Front

\* The rescan covers the touched entries, from the first to the last.
LEMMA RescannedFromTo ==
    ASSUME NEW S \in SUBSET Entry, S # {}, NEW a \in Int, NEW z \in Int, NEW t,
           \A x \in S : a <= x.address /\ x.address <= z
    PROVE  \E f, l \in S :
              /\ FromTo(S, f, l)
              /\ Rescanned(t, S) = {Found(b) : b \in {b \in bins : Seen(t, b, f, l)}}
<1> DEFINE lo == Min({x.address : x \in S})
           last == CHOOSE x \in S : \A y \in S : y.address <= x.address
<1>1. PICK f \in S, k \in S : \A x \in S : f.address <= x.address /\ x.address <= k.address
  BY FirstAndLast
<1>2. last \in S /\ \A y \in S : y.address <= last.address
  BY <1>1
<1>3. lo = f.address
  <2> DEFINE A == {x.address : x \in S}
  <2>1. lo \in A /\ \A n \in A : lo <= n
    BY <1>1 DEF Min
  <2>2. f.address \in A /\ \A n \in A : f.address <= n
    BY <1>1
  <2>3. A \subseteq Int
    BY DEF Entry
  <2> HIDE DEF A, lo
  <2>4. lo <= f.address /\ f.address <= lo
    BY <2>1, <2>2
  <2>5. lo \in Int /\ f.address \in Int
    BY <2>1, <2>2, <2>3
  <2> QED BY <2>4, <2>5
<1>4. Rescanned(t, S) = {Found(b) : b \in {b \in bins : Seen(t, b, f, last)}}
  BY <1>3, Zenon DEF Rescanned, Found, Seen, End
<1> HIDE DEF lo, last
<1> QED BY <1>1, <1>2, <1>4 DEF FromTo

\* A free chunk that the rescan finds has no entry but a touched one.
LEMMA SeenIsTouched ==
    ASSUME NEW c, BinsOK, InUse(c), NEW map, Handed(map, c), NEW t, NEW f, NEW l,
           FromTo(Touched(map, Tracked(c)), f, l),
           NEW b \in bins, Seen(t, b, f, l),
           NEW w \in map, w.address \in {b.hdr, b.hdr + 1}
    PROVE  w \in Touched(map, Tracked(c))
<1> DEFINE e == Tracked(c)
<1> SUFFICES ASSUME w \notin Touched(map, e) PROVE FALSE
  OBVIOUS
<1>1. f \in map /\ l \in map
  BY DEF FromTo, Touched
<1>2. w \in Entry /\ f \in Entry /\ l \in Entry /\ b \in Bin /\ c \in Chunk /\ top \in Int
  BY <1>1 DEF Handed, BinsOK, InUse
<1>3. /\ b.hdr >= 0 /\ b.size >= 2 /\ End(b) <= top /\ Disjoint(b, c)
      /\ c.size >= 2 /\ End(c) <= top /\ c.hdr >= 0
  BY DEF BinsOK, InUse
<1>4. EntryOf(w, b) /\ w # e
  BY OwnEntry
<1>5. e.address = c.hdr + 1 /\ e.size = c.size
  BY DEF Tracked
<1>6. w.address < f.address \/ w.address > l.address
  BY <1>2, TouchedIsConvex DEF FromTo, Entry
<1>7. CASE w.address < f.address
  <2>1. w.address + w.size <= f.address
    BY <1>1, <1>2, <1>4, <1>7 DEF Handed, Entry
  <2>2. f.address = End(b) /\ w.address = b.hdr
    BY <1>2, <1>4, <2>1 DEF EntryOf, Seen, End, Entry, Bin
  <2>3. CASE Live(f)
    <3>1. f.address <= top
      BY <1>3, <2>2
    <3>2. PICK a \in bins : EntryOf(f, a)
      BY <1>2, <2>3, <3>1 DEF Live, Entry
    <3>3. a \in Bin /\ a.size >= 2 /\ End(b) # a.hdr /\ (a # b => Disjoint(a, b))
      BY DEF BinsOK
    <3> QED BY <1>2, <1>3, <2>2, <3>2, <3>3 DEF EntryOf, Disjoint, End, Bin, Entry
  <2>4. CASE Stale(f, c)
    <3>1. CASE f.address = c.hdr
      <4>1. Front(f, c)
        BY <1>2, <1>3, <2>4, <3>1 DEF Stale, Front, Chunk, Entry
      <4>2. \A a \in bins : End(a) # c.hdr
        BY <1>2, <3>1, <4>1 DEF Front, Chunk
      <4> QED BY <2>2, <3>1, <4>2
    <3>2. CASE f.address = c.hdr + 1
      BY <1>2, <1>3, <2>2, <3>2 DEF Disjoint, End, Chunk, Bin
    <3>3. CASE End(c) = top /\ f.address > c.hdr
      BY <1>2, <1>3, <2>2, <3>3 DEF Disjoint, End, Chunk, Bin, Entry
    <3> QED BY <2>4, <3>1, <3>2, <3>3 DEF Stale, Front
  <2> QED BY <1>1, <2>3, <2>4 DEF Handed
<1>8. CASE w.address > l.address
  <2>1. l = e \/ l.address + l.size <= w.address
    BY <1>1, <1>2, <1>8 DEF Handed, Entry
  <2>2. b.hdr <= l.address + l.size
    BY <1>2 DEF Seen, Bin, Entry
  <2>3. ASSUME NEW a \in bins, End(a) <= l.address + l.size, End(b) > a.hdr,
               l.address + l.size <= End(a) + 1,
               l.prevInUse => l.address + l.size = End(a), b # a
        PROVE  FALSE
    <3>1. a \in Bin /\ a.size >= 2 /\ End(a) # b.hdr /\ Disjoint(a, b)
      BY <2>3 DEF BinsOK
    <3>2. b.hdr > End(a)
      BY <1>2, <2>3, <3>1 DEF Disjoint, End, Bin
    <3>3. b.hdr < l.address + l.size \/ b.hdr = End(a)
      BY <2>3 DEF Seen
    <3> QED BY <1>2, <2>3, <3>1, <3>2, <3>3 DEF End, Bin, Entry
  <2>4. CASE Live(l)
    <3>1. l.address <= top
      BY <1>2, <1>3, <1>4, <1>8 DEF EntryOf, End, Bin, Entry
    <3>2. PICK a \in bins : EntryOf(l, a)
      BY <1>2, <2>4, <3>1 DEF Live, Entry
    <3>3. a \in Bin /\ a.size >= 2
      BY DEF BinsOK
    <3>4. l # e
      BY <1>1, <3>2, OwnEntry DEF EntryOf
    <3>5. b # a
      BY <1>2, <1>3, <1>4, <1>8, <2>1, <3>2, <3>4 DEF EntryOf, Bin, Entry
    <3>6. End(b) > a.hdr
      BY <1>2, <1>3, <1>4, <1>8, <3>2, <3>3 DEF EntryOf, End, Bin, Entry
    <3> QED BY <1>2, <2>3, <3>2, <3>3, <3>5, <3>6 DEF EntryOf, End, Bin, Entry
  <2>5. CASE Front(l, c) /\ l.size = c.size
    <3>1. w.address > e.address
      <4>1. w.address # c.hdr /\ w.address # c.hdr + 1
        BY <1>2, <1>3, <1>4 DEF EntryOf, Disjoint, End, Bin, Chunk, Entry
      <4> QED BY <1>2, <1>5, <1>8, <2>5, <4>1 DEF Front, Chunk, Entry
    <3>2. b.hdr >= End(c)
      BY <1>2, <1>3, <1>4, <1>5, <3>1 DEF EntryOf, Disjoint, End, Bin, Chunk, Entry
    <3>3. b.hdr = End(c)
      BY <1>2, <2>5, <3>2 DEF Seen, Front, End, Bin, Chunk, Entry
    <3>4. w.address <= e.address + e.size
      BY <1>2, <1>4, <1>5, <3>3 DEF EntryOf, End, Bin, Chunk, Entry
    <3> QED BY <3>1, <3>4 DEF Touched
  <2>6. ASSUME NEW r \in bins, Front(l, c), Rest(l, c, r) PROVE FALSE
    <3>1. r \in Bin /\ r.size >= 2
      BY DEF BinsOK
    <3>2. l # e
      BY <1>2, <1>5, <2>6, <3>1 DEF Rest, Chunk, Bin
    <3>3. l.address + l.size >= End(r)
      BY <1>2, <2>6, <3>1 DEF Rest, Front, End, Chunk, Bin, Entry
    <3>4. b # r
      BY <1>2, <1>3, <1>4, <2>1, <3>1, <3>2, <3>3 DEF EntryOf, End, Bin, Entry
    <3>5. End(b) > r.hdr
      BY <1>2, <1>3, <1>4, <1>8, <2>6, <3>1
         DEF EntryOf, Rest, Front, Disjoint, End, Chunk, Bin, Entry
    <3>6. /\ End(r) <= l.address + l.size /\ l.address + l.size <= End(r) + 1
          /\ l.prevInUse => l.address + l.size = End(r)
      BY <1>2, <2>6, <3>1 DEF Rest, Front, End, Chunk, Bin, Entry
    <3> QED BY <2>3, <3>4, <3>5, <3>6
  <2>7. CASE End(c) = top /\ l.address > c.hdr
    BY <1>2, <1>3, <1>4, <1>8, <2>7 DEF EntryOf, Disjoint, End, Bin, Chunk, Entry
  <2> QED BY <1>1, <2>4, <2>5, <2>6, <2>7 DEF Handed, Stale
<1> QED BY <1>6, <1>7, <1>8

\* The rescan finds each free chunk of the arena that a touched entry stood for.
LEMMA TouchedIsSeen ==
    ASSUME NEW c, BinsOK, InUse(c), NEW map, Handed(map, c), NEW t, NEW f, NEW l,
           FromTo(Touched(map, Tracked(c)), f, l),
           NEW b \in bins, b.home = Arena, NEW w \in Touched(map, Tracked(c)),
           EntryOf(w, b) \/ (Front(w, c) /\ Rest(w, c, b))
    PROVE  Seen(t, b, f, l)
<1> DEFINE e == Tracked(c)
<1>1. f \in map /\ l \in map /\ w \in map
  BY DEF FromTo, Touched
<1>2. w \in Entry /\ f \in Entry /\ l \in Entry /\ b \in Bin /\ c \in Chunk
  BY <1>1 DEF Handed, BinsOK, InUse
<1>3. b.size >= 2 /\ c.size >= 2 /\ l.size >= 2 /\ w.size >= 2
  BY <1>1 DEF BinsOK, InUse, Handed
<1>4. f.address <= w.address /\ w.address <= l.address
  BY DEF FromTo
<1>5. CASE EntryOf(w, b)
  BY <1>2, <1>3, <1>4, <1>5 DEF EntryOf, Seen, End, Entry, Bin
<1>6. CASE Front(w, c) /\ Rest(w, c, b)
  <2>1. End(b) > f.address
    BY <1>2, <1>3, <1>4, <1>6 DEF Front, Rest, End, Entry, Bin, Chunk
  <2>2. b.hdr < w.address + w.size
    BY <1>2, <1>3, <1>6 DEF Front, Rest, End, Entry, Bin, Chunk
  <2>3. w # e
    BY <1>2, <1>3, <1>6 DEF Rest, Tracked, Chunk, Bin
  <2>4. w = l \/ w.address + w.size <= l.address
    BY <1>1, <1>4, <2>3 DEF Handed
  <2>5. b.hdr < l.address + l.size
    BY <1>2, <1>3, <2>2, <2>4 DEF Entry, Bin
  <2> QED BY <2>1, <2>5 DEF Seen
<1> QED BY <1>5, <1>6

\* The entries that c does not touch are live, and spaced.
LEMMA UntouchedIsLive ==
    ASSUME NEW c, BinsOK, InUse(c), NEW map, Handed(map, c)
    PROVE  LET rest == map \ Touched(map, Tracked(c)) IN
             Spaced(rest) /\ \A w \in rest : Live(w)
<1> DEFINE e == Tracked(c)
           rest == map \ Touched(map, e)
<1>1. ASSUME NEW w \in rest PROVE Live(w)
  BY StaleIsTouched DEF Handed
<1>2. e \notin rest
  <2>1. Front(e, c) /\ Stale(e, c)
    BY DEF Front, Stale, Tracked
  <2> QED BY <2>1, StaleIsTouched
<1>3. Spaced(rest)
  BY <1>2 DEF Spaced, Handed
<1> QED BY <1>1, <1>3

\* No entry lies before the heap.
LEMMA EntryIsPositive ==
    ASSUME NEW c, BinsOK, InUse(c), NEW map, Handed(map, c), NEW w \in map
    PROVE  0 <= w.address
<1>1. w \in Entry /\ c \in Chunk /\ c.hdr >= 0 /\ c.size >= 2 /\ top \in Int /\ End(c) <= top
  BY DEF Handed, InUse, BinsOK
<1>2. CASE Stale(w, c)
  <2>1. w.address = c.hdr \/ w.address = c.hdr + 1 \/ w.address > c.hdr
    BY <1>2 DEF Stale, Front
  <2> QED BY <1>1, <2>1 DEF Chunk, Entry
<1>3. CASE w.address > top
  BY <1>1, <1>3 DEF End, Chunk, Entry
<1>4. CASE \E b \in bins : EntryOf(w, b)
  BY <1>1, <1>4 DEF EntryOf, BinsOK, Bin, Entry
<1> QED BY <1>2, <1>3, <1>4 DEF Handed, Live

\* malloc leaves the map in order: no watchpoint is lost, every entry is live, and
\* each chunk of the arena that had an entry has one.
LEMMA MallocRebuilds ==
    ASSUME NEW c, BinsOK, InUse(c), NEW map, Handed(map, c), NEW t,
           NEW g \in Trackers, NEW held, NEW lost,
           NotesMalloc(g, t, Tracked(c), map, held, lost)
    PROVE  /\ leaked' = lost
           /\ allocs' = [allocs EXCEPT ![g] = Put(held, Tracked(c))]
           /\ \E m : frees' = [frees EXCEPT ![g] = m] /\ Rebuilt(m, map, c)
<1> DEFINE e == Tracked(c)
           touched == Touched(map, e)
           rest == map \ touched
           new == IF touched = {} THEN {} ELSE Rescanned(t, touched)
           over == {x \in rest : \E y \in new : x.address = y.address}
<1>1. /\ frees' = [frees EXCEPT ![g] = (rest \ over) \union new]
      /\ allocs' = [allocs EXCEPT ![g] = Put(held, e)]
      /\ leaked' = lost \union over
  BY DEF NotesMalloc, Replaces
<1>0. \A b \in bins : PrevInUse(b)
  BY DEF BinsOK, PrevInUse, End
<1>2. /\ map \subseteq Entry /\ touched \subseteq map
      /\ c \in Chunk /\ c.hdr >= 0 /\ c.size >= 2 /\ top \in Int /\ End(c) <= top
  BY DEF Handed, InUse, BinsOK, Touched
<1>3. touched # {} =>
         \E f, l \in touched :
            /\ FromTo(touched, f, l)
            /\ new = {Found(b) : b \in {b \in bins : Seen(t, b, f, l)}}
  <2>1. ASSUME NEW x \in touched
        PROVE  0 <= x.address /\ x.address <= e.address + e.size
    <3>1. x \in map /\ x \in Entry /\ 0 <= x.address
      BY <1>2, EntryIsPositive
    <3>2. x.address <= e.address \/ x.address <= e.address + e.size
      BY DEF Touched
    <3>3. e.address \in Int /\ e.size \in Int /\ e.size >= 0
      BY <1>2 DEF Tracked, Chunk
    <3> HIDE DEF e, touched
    <3> QED BY <3>1, <3>2, <3>3 DEF Entry
  <2>2. e.address + e.size \in Int /\ 0 \in Int
    BY <1>2 DEF Tracked, Chunk
  <2>3. touched \in SUBSET Entry
    BY <1>2
  <2>4. touched # {} => new = Rescanned(t, touched)
    OBVIOUS
  <2> HIDE DEF e, touched, new
  <2>5. ASSUME touched # {}
        PROVE \E f, l \in touched :
                 /\ FromTo(touched, f, l)
                 /\ Rescanned(t, touched) = {Found(b) : b \in {b \in bins : Seen(t, b, f, l)}}
    BY <2>1, <2>2, <2>3, <2>5, RescannedFromTo
  <2> QED BY <2>4, <2>5
<1>4. /\ Spaced(rest)
      /\ \A w \in rest : Live(w) /\ w.size >= 2
  BY UntouchedIsLive DEF Handed
<1>5. ASSUME NEW n \in new
      PROVE  \E b \in bins :
                /\ n = Found(b)
                /\ \A w \in rest : w.address \notin {b.hdr, b.hdr + 1}
  <2>1. PICK f \in touched, l \in touched :
            /\ FromTo(touched, f, l)
            /\ new = {Found(b) : b \in {b \in bins : Seen(t, b, f, l)}}
    BY <1>3, <1>5
  <2>2. PICK b \in bins : n = Found(b) /\ Seen(t, b, f, l)
    BY <1>5, <2>1
  <2>3. \A w \in rest : w.address \notin {b.hdr, b.hdr + 1}
    BY <2>1, <2>2, SeenIsTouched
  <2> QED BY <2>2, <2>3
<1>6. over = {}
  BY <1>5 DEF Found
<1> DEFINE m == rest \union new
<1>7. m \subseteq Entry /\ \A w \in m : w.size >= 2 /\ Live(w)
  <2>1. ASSUME NEW n \in new PROVE n \in Entry /\ n.size >= 2 /\ Live(n)
    <3>1. PICK b \in bins : n = Found(b)
      BY <1>5
    <3>2. b \in Bin /\ b.size >= 2 /\ PrevInUse(b) \in BOOLEAN
      BY DEF BinsOK, PrevInUse
    <3>3. n \in Entry
      BY <3>1, <3>2, FoundIsEntry DEF Found, Bin
    <3>4. EntryOf(n, b)
      BY <1>0, <3>1 DEF EntryOf, Found
    <3> QED BY <3>1, <3>2, <3>3, <3>4 DEF Found, Live
  <2> QED BY <1>2, <1>4, <2>1
<1>8. Spaced(m)
  <2>1. ASSUME NEW x \in new, NEW y \in new, x # y, x.address <= y.address
        PROVE  x.address + x.size <= y.address
    <3>1. PICK a \in bins, b \in bins : x = Found(a) /\ y = Found(b)
      BY <1>5
    <3>2. a \in Bin /\ b \in Bin /\ b.size >= 2 /\ Disjoint(a, b)
      BY <2>1, <3>1 DEF BinsOK
    <3> QED BY <2>1, <3>1, <3>2 DEF Found, Disjoint, End, Bin
  <2>2. ASSUME NEW n \in new, NEW w \in rest
        PROVE  /\ n.address <= w.address => n.address + n.size <= w.address
               /\ w.address <= n.address => w.address + w.size <= n.address
    <3>1. PICK b \in bins : n = Found(b) /\ w.address \notin {b.hdr, b.hdr + 1}
      BY <1>5
    <3>2. b \in Bin /\ b.size >= 2 /\ End(b) <= top /\ w \in Entry
      BY <1>2 DEF BinsOK
    <3>3. n.address = b.hdr /\ n.size = b.size
      BY <3>1 DEF Found
    <3>4. CASE w.address > top
      BY <1>2, <3>2, <3>3, <3>4 DEF End, Bin, Entry
    <3>5. ASSUME NEW a \in bins, EntryOf(w, a)
          PROVE  /\ n.address <= w.address => n.address + n.size <= w.address
                 /\ w.address <= n.address => w.address + w.size <= n.address
      <4>1. a \in Bin /\ a.size >= 2 /\ a # b
        BY <3>1, <3>5 DEF BinsOK, EntryOf
      <4>2. Disjoint(a, b) /\ End(a) # b.hdr
        BY <4>1 DEF BinsOK
      <4> QED BY <3>2, <3>3, <3>5, <4>1, <4>2 DEF EntryOf, Disjoint, End, Bin, Entry
    <3> QED BY <1>4, <3>4, <3>5 DEF Live
  <2> QED BY <1>4, <2>1, <2>2 DEF Spaced
<1>9. ASSUME NEW b \in bins, NEW w \in map, b.home = Arena,
             EntryOf(w, b) \/ (Front(w, c) /\ Rest(w, c, b))
      PROVE  \E x \in m : EntryOf(x, b)
  <2>1. CASE w \in touched
    <3>1. PICK f \in touched, l \in touched :
              /\ FromTo(touched, f, l)
              /\ new = {Found(d) : d \in {d \in bins : Seen(t, d, f, l)}}
      BY <1>3, <2>1
    <3>2. Seen(t, b, f, l)
      BY <1>9, <2>1, <3>1, TouchedIsSeen
    <3>3. Found(b) \in new
      BY <3>1, <3>2
    <3> QED BY <1>0, <3>3 DEF EntryOf, Found
  <2>2. CASE w \notin touched
    <3>1. EntryOf(w, b)
      <4>1. ASSUME Front(w, c), Rest(w, c, b) PROVE FALSE
        <5>1. Stale(w, c)
          BY <4>1 DEF Stale
        <5> QED BY <2>2, <4>1, <5>1, StaleIsTouched
      <4> QED BY <1>9, <4>1
    <3> QED BY <2>2, <3>1
  <2> QED BY <2>1, <2>2
<1>10. Rebuilt(m, map, c)
  <2> HIDE DEF m
  <2> QED BY <1>7, <1>8, <1>9 DEF Rebuilt
<1>11. frees' = [frees EXCEPT ![g] = m] /\ leaked' = lost
  BY <1>1, <1>6
<1> HIDE DEF m
<1> QED BY <1>1, <1>10, <1>11

\* An entry of the map in order is live when nothing is handed out.
LEMMA CalmEntries ==
    ASSUME NEW map, NEW held, InOrder(map, held, {}, {})
    PROVE  /\ \A w \in map : w.size >= 2 /\ Live(w)
           /\ \A b \in bins : b.home = Arena => \E w \in map : EntryOf(w, b)
           /\ \A c \in owned : Tracked(c) \in held
  BY DEF InOrder

\* libc hands out a part of the top.
LEMMA TakesFromTop ==
    ASSUME HeapOK, NEW map \in SUBSET Entry, NEW held, InOrder(map, held, {}, {}),
           NEW n \in Sizes, FromTop(n), NEW c, c = [hdr |-> top, size |-> n],
           owned' = owned \union {c}
    PROVE  HeapOK' /\ InOrder(map, held, {c}, {})'
<1>1. n \in Int /\ n >= 2 /\ top \in Nat /\ top' = top + n /\ bins' = bins
  BY HeapAssumption DEF FromTop, HeapOK, BinsOK
<1>2. c \in Chunk /\ c.hdr = top /\ c.size = n
  BY <1>1 DEF Chunk
<1>3. BinsOK'
  BY <1>1 DEF HeapOK, BinsOK, Disjoint, End, Bin
<1>4. \A d \in owned' : InUse(d)'
  BY <1>1, <1>2 DEF HeapOK, BinsOK, InUse, Disjoint, End, Bin, Chunk
<1>5. \A a, b \in owned' : a # b => Disjoint(a, b)
  BY <1>1, <1>2 DEF HeapOK, InUse, Disjoint, End, Chunk
<1>6. ASSUME NEW w \in map
      PROVE  w.size >= 2 /\ (Live(w)' \/ Stale(w, c)')
  <2>1. w.size >= 2 /\ Live(w)
    BY CalmEntries
  <2>2. CASE w.address > top
    <3>1. End(c) = top' /\ w.address > c.hdr
      BY <1>1, <1>2, <2>2 DEF End
    <3>2. Stale(w, c)'
      BY <3>1, Zenon DEF Stale
    <3> QED BY <2>1, <3>2
  <2>3. CASE \E b \in bins : EntryOf(w, b)
    <3>1. Live(w)'
      BY <1>1, <2>3 DEF Live
    <3> QED BY <2>1, <3>1
  <2> QED BY <2>1, <2>2, <2>3 DEF Live
<1>7. c \notin owned
  BY <1>1, <1>2 DEF HeapOK, InUse, End, Chunk
<1>8. InOrder(map, held, {c}, {})'
  <2>1. \A a \in bins' : a.home = Arena =>
            \/ \E w \in map : EntryOf(w, a) \/ \E d \in {c} : (Front(w, d) /\ Rest(w, d, a))'
            \/ [hdr |-> a.hdr, size |-> a.size] \in {}
    BY <1>1, CalmEntries
  <2>2. \A d \in (owned' \ {c}) \union {} : Tracked(d) \in held
    BY CalmEntries
  <2>3. {c} \subseteq owned' /\ {} \intersect owned' = {}
    OBVIOUS
  <2> QED BY <1>6, <2>1, <2>2, <2>3 DEF InOrder
<1> QED BY <1>3, <1>4, <1>5, <1>8 DEF HeapOK

\* libc hands out a free chunk, whole or its front.
LEMMA TakesFromBin ==
    ASSUME HeapOK, NEW map \in SUBSET Entry, NEW held, InOrder(map, held, {}, {}),
           NEW t \in Threads, NEW n \in Sizes, NEW b \in bins, FromBin(t, b, n),
           owned' = owned \union {[hdr |-> b.hdr, size |-> n]}
    PROVE  HeapOK' /\ InOrder(map, held, {[hdr |-> b.hdr, size |-> n]}, {})'
<1> DEFINE c == [hdr |-> b.hdr, size |-> n]
           r == [hdr |-> b.hdr + n, size |-> b.size - n, home |-> Arena]
<1>1. /\ n \in Int /\ n >= 2 /\ top \in Nat /\ top' = top /\ b \in Bin /\ bins \subseteq Bin
      /\ b.hdr >= 0 /\ b.size >= 2 /\ End(b) <= top
      /\ \A a \in bins : (a # b => Disjoint(a, b)) /\ End(a) # b.hdr /\ End(b) # a.hdr
      /\ \A d \in owned : Disjoint(b, d) /\ d \in Chunk /\ d.size >= 2
  BY HeapAssumption DEF FromBin, HeapOK, BinsOK, InUse
<1>2. c \in Chunk /\ c.hdr = b.hdr /\ c.size = n
  BY <1>1 DEF Chunk, Bin
<1>3. c \notin owned
  BY <1>1, <1>2 DEF Disjoint, End, Chunk, Bin
<1>4. CASE b.size = n /\ bins' = bins \ {b}
  <2> HIDE DEF c
  <2>1. BinsOK'
    BY <1>1, <1>4 DEF HeapOK, BinsOK
  <2>2. \A d \in owned' : InUse(d)'
    <3>1. ASSUME NEW d \in owned PROVE InUse(d)'
      BY <1>1, <1>4 DEF HeapOK, InUse
    <3>2. InUse(c)'
      BY <1>1, <1>2, <1>4 DEF InUse, Disjoint, End, Bin
    <3> QED BY <3>1, <3>2 DEF c
  <2>3. \A a, d \in owned' : a # d => Disjoint(a, d)
    BY <1>1, <1>2, <1>4 DEF HeapOK, Disjoint, End, Chunk, Bin, c
  <2>4. ASSUME NEW w \in map PROVE w.size >= 2 /\ (Live(w)' \/ Stale(w, c)')
    <3>1. w.size >= 2 /\ Live(w)
      BY CalmEntries
    <3>2. CASE EntryOf(w, b)
      <4>1. Front(w, c)' /\ w.size = c.size
        BY <1>1, <1>2, <1>4, <3>2 DEF Front, EntryOf, End
      <4> QED BY <3>1, <4>1 DEF Stale
    <3>3. CASE w.address > top \/ \E a \in bins \ {b} : EntryOf(w, a)
      BY <1>1, <1>4, <3>1, <3>3 DEF Live
    <3> QED BY <3>1, <3>2, <3>3 DEF Live
  <2>5. InOrder(map, held, {c}, {})'
    BY <1>3, <1>4, <2>4, CalmEntries DEF InOrder, c
  <2> QED BY <2>1, <2>2, <2>3, <2>5 DEF HeapOK, c
<1>5. CASE b.home = Arena /\ b.size >= n + 2 /\ bins' = (bins \ {b}) \union {r}
  <2>1. r \in Bin /\ r.hdr = b.hdr + n /\ r.size = b.size - n /\ r.home = Arena
    BY <1>1 DEF Bin
  <2>2. /\ r.size >= 2 /\ End(r) = End(b)
        /\ \A a : Disjoint(a, b) /\ a.hdr \in Int /\ a.size \in Int => Disjoint(a, r)
    BY <1>1, <1>5, <2>1 DEF Disjoint, End, Bin
  <2> HIDE DEF c, r
  <2>3. BinsOK'
    <3>1. bins' \subseteq Bin /\ \A a \in bins' : a.hdr >= 0 /\ a.size >= 2 /\ End(a) <= top'
      BY <1>1, <1>5, <2>1, <2>2 DEF HeapOK, BinsOK, Bin
    <3>2. ASSUME NEW a \in bins \ {b} 
          PROVE  /\ Disjoint(a, r) /\ Disjoint(r, a)
                 /\ End(a) # r.hdr /\ End(r) # a.hdr /\ End(r) # r.hdr
      BY <1>1, <2>1, <2>2 DEF HeapOK, BinsOK, Disjoint, End, Bin
    <3>3. End(r) # r.hdr
      BY <2>1, <2>2 DEF End, Bin
    <3>4. \A a, d \in bins' : (a # d => Disjoint(a, d)) /\ End(a) # d.hdr
      BY <1>5, <3>2, <3>3 DEF HeapOK, BinsOK
    <3> QED BY <1>1, <3>1, <3>4 DEF BinsOK
  <2>4. \A d \in owned' : InUse(d)'
    <3>1. ASSUME NEW d \in owned PROVE InUse(d)'
      <4>1. Disjoint(r, d)
        BY <1>1, <1>5, <2>1 DEF Disjoint, End, Bin, Chunk
      <4> QED BY <1>1, <1>5, <4>1 DEF HeapOK, InUse
    <3>2. InUse(c)'
      <4>1. Disjoint(r, c)
        BY <1>1, <1>2, <2>1 DEF Disjoint, End, Bin
      <4>2. ASSUME NEW a \in bins \ {b} PROVE Disjoint(a, c)
        BY <1>1, <1>2, <1>5 DEF HeapOK, BinsOK, Disjoint, End, Bin
      <4>3. End(c) <= top
        BY <1>1, <1>2, <1>5 DEF End, Bin
      <4> QED BY <1>1, <1>2, <1>5, <4>1, <4>2, <4>3 DEF InUse
    <3> QED BY <3>1, <3>2 DEF c
  <2>5. \A a, d \in owned' : a # d => Disjoint(a, d)
    <3>1. \A d \in owned : Disjoint(c, d) /\ Disjoint(d, c)
      BY <1>1, <1>2, <1>5 DEF Disjoint, End, Bin, Chunk
    <3> QED BY <3>1 DEF HeapOK, c
  <2>6. \A w \in map : EntryOf(w, b) => Front(w, c)' /\ Rest(w, c, r)
    BY <1>1, <1>2, <1>5, <2>1, <2>2 DEF Front, Rest, EntryOf, End, Bin
  <2>7. ASSUME NEW w \in map PROVE w.size >= 2 /\ (Live(w)' \/ Stale(w, c)')
    <3>1. w.size >= 2 /\ Live(w)
      BY CalmEntries
    <3>2. CASE EntryOf(w, b)
      BY <1>5, <2>6, <3>1, <3>2 DEF Stale
    <3>3. CASE w.address > top \/ \E a \in bins \ {b} : EntryOf(w, a)
      BY <1>1, <1>5, <3>1, <3>3 DEF Live
    <3> QED BY <3>1, <3>2, <3>3 DEF Live
  <2>8. ASSUME NEW a \in bins', a.home = Arena
        PROVE  \E w \in map : EntryOf(w, a) \/ (Front(w, c)' /\ Rest(w, c, a))
    BY <1>5, <2>6, <2>8, CalmEntries
  <2>9. InOrder(map, held, {c}, {})'
    BY <1>3, <2>7, <2>8, CalmEntries DEF InOrder, c
  <2> QED BY <2>3, <2>4, <2>5, <2>9 DEF HeapOK, c
<1> QED BY <1>4, <1>5 DEF FromBin

\* A live entry keeps clear of a chunk in use that adjoins no free chunk that ends, or
\* begins, where the chunk does.
LEMMA EntriesKeepClear ==
    ASSUME BinsOK, NEW p, InUse(p), NEW w \in Entry, Live(w),
           \A b \in bins : End(p) # b.hdr
    PROVE  w.address + w.size <= p.hdr + 1 \/ w.address > End(p)
<1>1. p \in Chunk /\ p.hdr >= 0 /\ p.size >= 2 /\ End(p) <= top /\ top \in Nat
  BY DEF InUse, BinsOK
<1>2. CASE w.address > top
  BY <1>1, <1>2 DEF End, Chunk, Entry
<1>3. ASSUME NEW b \in bins, EntryOf(w, b)
      PROVE  w.address + w.size <= p.hdr + 1 \/ w.address > End(p)
  <2>1. b \in Bin /\ Disjoint(b, p) /\ End(p) # b.hdr
    BY DEF BinsOK, InUse
  <2> QED BY <1>1, <1>3, <2>1 DEF EntryOf, Disjoint, End, Bin, Chunk, Entry
<1> QED BY <1>2, <1>3 DEF Live

\* libc puts a chunk of the program's in a bin.
LEMMA PutInBin ==
    ASSUME BinsOK, NEW p, InUse(p), NEW home \in Threads \union {Arena},
           NotCrowding, top \in Nat,
           bins' = bins \union {[hdr |-> p.hdr, size |-> p.size, home |-> home]},
           top' \in Nat, top <= top'
    PROVE  /\ BinsOK'
           /\ \A d : InUse(d) /\ Disjoint(p, d) => InUse(d)'
           /\ \A b \in bins : End(p) # b.hdr
<1> DEFINE q == [hdr |-> p.hdr, size |-> p.size, home |-> home]
<1>1. /\ p \in Chunk /\ p.hdr >= 0 /\ p.size >= 2 /\ End(p) <= top
      /\ \A b \in bins : Disjoint(b, p)
  BY DEF InUse
<1>2. q \in Bin /\ q.hdr = p.hdr /\ q.size = p.size /\ bins' = bins \union {q}
  BY <1>1 DEF Bin, Chunk
<1> HIDE DEF q
<1>3. \A a, b \in bins' : End(a) # b.hdr
  BY <1>2 DEF NotCrowding, Adjoins, End
<1>4. /\ \A b \in bins : Disjoint(b, q) /\ Disjoint(q, b)
      /\ End(q) = End(p)
  BY <1>1, <1>2 DEF Disjoint, End
<1>5. BinsOK'
  <2>1. bins' \subseteq Bin /\ \A b \in bins' : b.hdr >= 0 /\ b.size >= 2 /\ End(b) <= top'
    <3>1. ASSUME NEW b \in bins'
          PROVE  b \in Bin /\ b.hdr >= 0 /\ b.size >= 2 /\ End(b) \in Int /\ End(b) <= top
      BY <1>1, <1>2, <1>4 DEF BinsOK, End, Bin
    <3> QED BY <3>1
  <2>2. \A a, b \in bins' : a # b => Disjoint(a, b)
    BY <1>2, <1>4 DEF BinsOK
  <2> QED BY <1>3, <2>1, <2>2 DEF BinsOK
<1>6. ASSUME NEW d, InUse(d), Disjoint(p, d) PROVE InUse(d)'
  <2>1. Disjoint(q, d)
    BY <1>2, <1>6 DEF Disjoint, End
  <2>2. End(d) \in Int /\ End(d) <= top
    BY <1>6 DEF InUse, End, Chunk
  <2> QED BY <1>2, <1>6, <2>1, <2>2 DEF InUse
<1>7. \A b \in bins : End(p) # b.hdr
  BY <1>2, <1>3, <1>4
<1> QED BY <1>5, <1>6, <1>7

\* libc frees a chunk: it goes to a bin, or to the top.  (In a quiet session it joins no
\* free chunk.)
LEMMA GivesBack ==
    ASSUME HeapOK, NEW map \in SUBSET Entry, NEW held, InOrder(map, held, {}, {}),
           NEW t \in Threads, NEW p \in owned, Gives(t, p), NotCrowding,
           owned' = owned \ {p}
    PROVE  HeapOK' /\ InOrder(map, held, {}, {p})'
<1>1. /\ p \in Chunk /\ p.hdr >= 0 /\ p.size >= 2 /\ End(p) <= top
      /\ InUse(p) /\ BinsOK /\ top \in Nat
      /\ \A b \in bins : Disjoint(b, p)
      /\ \A d \in owned \ {p} : Disjoint(p, d) /\ Disjoint(d, p) /\ InUse(d)
  BY DEF HeapOK, BinsOK, InUse
<1>2. ASSUME NEW home \in {t, Arena}, top' = top,
             bins' = bins \union {[hdr |-> p.hdr, size |-> p.size, home |-> home]}
      PROVE  HeapOK' /\ InOrder(map, held, {}, {p})'
  <2>1. home \in Threads \union {Arena} /\ top' \in Nat /\ top <= top'
    BY <1>1, <1>2
  <2>2. /\ BinsOK'
        /\ \A d : InUse(d) /\ Disjoint(p, d) => InUse(d)'
        /\ \A b \in bins : End(p) # b.hdr
    BY <1>1, <1>2, <2>1, PutInBin
  <2>3. HeapOK'
    BY <1>1, <2>2 DEF HeapOK
  <2>4. \A w \in map : w.size >= 2 /\ Live(w)'
    BY <1>2, CalmEntries DEF Live
  <2>5. \A w \in map : w.address + w.size <= p.hdr + 1 \/ w.address > End(p)
    BY <1>1, <2>2, CalmEntries, EntriesKeepClear
  <2>6. \A b \in bins' : b.home = Arena =>
            \/ \E w \in map : EntryOf(w, b)
            \/ [hdr |-> b.hdr, size |-> b.size] \in {p}
    <3>1. [hdr |-> p.hdr, size |-> p.size] = p
      BY <1>1 DEF Chunk
    <3> QED BY <1>2, <3>1, CalmEntries
  <2>7. \E b \in bins' : b.hdr = p.hdr /\ b.size = p.size
    <3>1. [hdr |-> p.hdr, size |-> p.size, home |-> home] \in bins'
      BY <1>2
    <3> WITNESS [hdr |-> p.hdr, size |-> p.size, home |-> home] \in bins'
    <3> QED BY <3>1
  <2> QED BY <1>1, <2>3, <2>4, <2>5, <2>6, <2>7, CalmEntries DEF InOrder
<1>3. ASSUME NEW b \in bins, b.home = Arena, b.hdr + b.size = p.hdr,
             bins' = (bins \ {b}) \union {[b EXCEPT !.size = @ + p.size]}
      PROVE  FALSE
  <2> DEFINE a == [b EXCEPT !.size = @ + p.size]
  <2>1. b \in Bin /\ a \in bins' /\ a.hdr = b.hdr /\ a.size = b.size + p.size
    BY <1>1, <1>3 DEF BinsOK, Bin
  <2>2. b.size < a.size
    BY <1>1, <2>1 DEF Bin, Chunk
  <2> HIDE DEF a
  <2> QED BY <2>1, <2>2 DEF NotCrowding, Adjoins
<1>4. ASSUME p.hdr + p.size = top, top' = p.hdr, bins' = bins
      PROVE  HeapOK' /\ InOrder(map, held, {}, {p})'
  <2>0. top' \in Nat /\ End(p) = top /\ top' < top
    BY <1>1, <1>4 DEF End, Chunk
  <2>1. ASSUME NEW d, Disjoint(d, p), d.hdr \in Int, d.size \in Int, d.size >= 2, End(d) <= top
        PROVE  End(d) <= top'
    BY <1>1, <1>4, <2>0, <2>1 DEF Disjoint, End, Chunk
  <2>2. BinsOK'
    <3>1. \A b \in bins : End(b) <= top'
      BY <1>1, <2>1 DEF BinsOK, Bin
    <3> QED BY <1>4, <2>0, <3>1 DEF HeapOK, BinsOK
  <2>3. \A d \in owned' : InUse(d)'
    BY <1>1, <1>4, <2>1 DEF InUse, Chunk
  <2>4. HeapOK'
    BY <2>2, <2>3 DEF HeapOK
  <2>5. \A b \in bins : End(p) # b.hdr
    BY <2>0 DEF HeapOK, BinsOK, End, Bin
  <2>6. \A w \in map : w.address + w.size <= p.hdr + 1 \/ w.address > End(p)
    BY <1>1, <2>5, CalmEntries, EntriesKeepClear
  <2>7. ASSUME NEW w \in map PROVE w.size >= 2 /\ Live(w)'
    <3>1. w \in Entry /\ w.size >= 2 /\ Live(w)
      BY CalmEntries
    <3>2. w.address > top => w.address > top'
      BY <1>1, <2>0, <3>1 DEF Entry
    <3> QED BY <1>4, <3>1, <3>2 DEF Live
  <2>8. p.hdr >= top'
    BY <1>1, <1>4 DEF Chunk
  <2> QED BY <1>1, <1>4, <2>4, <2>6, <2>7, <2>8, CalmEntries DEF InOrder
<1> QED BY <1>2, <1>3, <1>4 DEF Gives

\* realloc moves a chunk to the top, and its old place to a bin.
LEMMA Moves ==
    ASSUME HeapOK, NEW map \in SUBSET Entry, NEW held, InOrder(map, held, {}, {}),
           NEW t \in Threads, NEW p \in owned, NEW n \in Sizes, NEW home \in {t, Arena},
           NEW c, c = [hdr |-> top, size |-> n],
           top' = top + n, NotCrowding,
           bins' = bins \union {[hdr |-> p.hdr, size |-> p.size, home |-> home]},
           owned' = (owned \ {p}) \union {c}
    PROVE  HeapOK' /\ InOrder(map, held, {c}, {p})' /\ c \notin owned
<1>1. /\ p \in Chunk /\ p.hdr >= 0 /\ p.size >= 2 /\ End(p) <= top
      /\ InUse(p) /\ BinsOK /\ top \in Nat
      /\ \A b \in bins : Disjoint(b, p)
      /\ \A d \in owned \ {p} : Disjoint(p, d) /\ Disjoint(d, p) /\ InUse(d)
  BY DEF HeapOK, BinsOK, InUse
<1>2. /\ n \in Int /\ n >= 2 /\ c \in Chunk /\ c.hdr = top /\ c.size = n
      /\ top' \in Nat /\ top <= top' /\ End(c) = top'
  BY <1>1, HeapAssumption DEF Chunk, End
<1>3. home \in Threads \union {Arena}
  OBVIOUS
<1>4. /\ BinsOK'
      /\ \A d : InUse(d) /\ Disjoint(p, d) => InUse(d)'
      /\ \A b \in bins : End(p) # b.hdr
  BY <1>1, <1>2, <1>3, PutInBin
<1>5. \A d \in owned : Disjoint(d, c) /\ Disjoint(c, d) /\ d # c
  BY <1>2 DEF HeapOK, InUse, Disjoint, End, Chunk
<1>6. InUse(c)'
  <2>1. \A b \in bins' : End(b) <= top
    BY <1>1 DEF BinsOK, End
  <2>2. \A b \in bins' : Disjoint(b, c)
    BY <1>2, <2>1 DEF Disjoint
  <2> QED BY <1>1, <1>2, <2>2 DEF InUse
<1>7. HeapOK'
  BY <1>1, <1>4, <1>5, <1>6 DEF HeapOK
<1>8. ASSUME NEW w \in map PROVE w.size >= 2 /\ (Live(w)' \/ Stale(w, c)')
  <2>1. w.size >= 2 /\ Live(w)
    BY CalmEntries
  <2>2. CASE w.address > top
    <3>1. End(c) = top' /\ w.address > c.hdr
      BY <1>2, <2>2
    <3>2. Stale(w, c)'
      BY <3>1 DEF Stale
    <3> QED BY <2>1, <3>2
  <2>3. CASE \E b \in bins : EntryOf(w, b)
    <3>1. Live(w)'
      BY <2>3 DEF Live
    <3> QED BY <2>1, <3>1
  <2> QED BY <2>1, <2>2, <2>3 DEF Live
<1>9. \A w \in map : w.address + w.size <= p.hdr + 1 \/ w.address > End(p)
  BY <1>1, <1>4, CalmEntries, EntriesKeepClear
<1>10. \A b \in bins' : b.home = Arena =>
            \/ \E w \in map : EntryOf(w, b)
            \/ [hdr |-> b.hdr, size |-> b.size] \in {p}
  <2>1. [hdr |-> p.hdr, size |-> p.size] = p
    BY <1>1 DEF Chunk
  <2> QED BY <2>1, CalmEntries
<1>11. \E b \in bins' : b.hdr = p.hdr /\ b.size = p.size
  <2> WITNESS [hdr |-> p.hdr, size |-> p.size, home |-> home] \in bins'
  <2> QED OBVIOUS
<1>12. \A d \in (owned' \ {c}) \union {p} : Tracked(d) \in held
  BY CalmEntries
<1>13. {c} \subseteq owned' /\ {p} \intersect owned' = {}
  BY <1>5
<1>14. InOrder(map, held, {c}, {p})'
  BY <1>1, <1>8, <1>9, <1>10, <1>11, <1>12, <1>13 DEF InOrder
<1> QED BY <1>5, <1>7, <1>14

\* A map in order is as malloc expects it.
LEMMA OrderIsHanded ==
    ASSUME NEW map \in SUBSET Entry, NEW held, NEW c, NEW given, given = {c},
           InOrder(map, held, given, {})
    PROVE  Handed(map, c)
<1>1. \A w \in map : w.size >= 2 /\ (Live(w) \/ Stale(w, c))
  BY DEF InOrder
<1>2. Spaced(map)
  BY DEF InOrder
<1> QED BY <1>1, <1>2 DEF Handed, Spaced

\* The tracker knows a chunk that was freed, and no entry of the map gets in its way.
LEMMA FreeIsKnown ==
    ASSUME HeapOK, NEW map \in SUBSET Entry, NEW held \in SUBSET Entry, NEW given, NEW p,
           NEW gone, gone = {p}, InOrder(map, held, given, gone), NEW e, e = Tracked(p)
    PROVE  /\ e \in Entry /\ e.address = p.hdr + 1
           /\ \A x : x \in held /\ x.address = p.hdr + 1 <=> x = e
           /\ \A w \in map :
                 /\ w.address # e.address
                 /\ w.address <= e.address => w.address + w.size <= e.address
                 /\ e.address <= w.address => e.address + e.size <= w.address
           /\ map \union {e} \subseteq Entry
<1>1. /\ p \in Chunk /\ p.hdr >= 0 /\ p.size >= 2 /\ p \notin owned /\ e \in held
      /\ p.hdr >= top \/ \E b \in bins : b.hdr = p.hdr /\ b.size = p.size
      /\ \A w \in map : w.address + w.size <= p.hdr + 1 \/ w.address > End(p)
      /\ top \in Nat
  BY DEF InOrder, HeapOK, BinsOK
<1>2. e \in Entry /\ e.address = p.hdr + 1 /\ e.size = p.size /\ ~e.prevInUse
  BY <1>1 DEF Tracked, Chunk, Entry
<1>3. \A x : x \in held /\ x.address = p.hdr + 1 <=> x = e
  BY <1>1, <1>2 DEF InOrder
<1>4. ASSUME NEW w \in map
      PROVE  /\ w.address <= e.address => w.address + w.size <= e.address
             /\ e.address <= w.address => e.address + e.size <= w.address
             /\ w.address # e.address
  <2>1. w \in Entry /\ w.size >= 2 /\ (w.address + w.size <= p.hdr + 1 \/ w.address > End(p))
    BY <1>1 DEF InOrder
  <2> QED BY <1>1, <1>2, <2>1 DEF End, Chunk, Entry
<1> QED BY <1>2, <1>3, <1>4

\* When it has noted that, the map is in order.
LEMMA FreeIsNoted ==
    ASSUME HeapOK, NEW map \in SUBSET Entry, NEW held \in SUBSET Entry, NEW given, NEW p,
           NEW gone, gone = {p}, InOrder(map, held, given, gone), NEW e, e = Tracked(p)
    PROVE  InOrder(map \union {e}, held \ {e}, given, {})
<1>1. /\ p \in Chunk /\ p.hdr >= 0 /\ p.size >= 2 /\ p \notin owned /\ e \in held
      /\ p.hdr >= top \/ \E b \in bins : b.hdr = p.hdr /\ b.size = p.size
      /\ \A w \in map : w.address + w.size <= p.hdr + 1 \/ w.address > End(p)
      /\ top \in Nat
  BY DEF InOrder, HeapOK, BinsOK
<1>2. e \in Entry /\ e.address = p.hdr + 1 /\ e.size = p.size /\ ~e.prevInUse
  BY <1>1 DEF Tracked, Chunk, Entry
<1>3. \A w \in map :
         /\ w.address <= e.address => w.address + w.size <= e.address
         /\ e.address <= w.address => e.address + e.size <= w.address
         /\ w.address # e.address
  BY FreeIsKnown
<1>4. Spaced(map \union {e})
  BY <1>3 DEF InOrder, Spaced
<1>5. Live(e)
  <2>1. CASE p.hdr >= top
    BY <1>1, <1>2, <2>1 DEF Live, Chunk
  <2>2. CASE \E b \in bins : b.hdr = p.hdr /\ b.size = p.size
    BY <1>2, <2>2 DEF Live, EntryOf
  <2> QED BY <1>1, <2>1, <2>2
<1>6. \A w \in map \union {e} : w.size >= 2 /\ (Live(w) \/ \E c \in given : Stale(w, c))
  BY <1>1, <1>2, <1>5 DEF InOrder
<1>7. ASSUME NEW b \in bins, b.home = Arena
      PROVE  \E w \in map \union {e} :
                EntryOf(w, b) \/ \E c \in given : Front(w, c) /\ Rest(w, c, b)
  <2>1. CASE [hdr |-> b.hdr, size |-> b.size] \in {p}
    <3>1. EntryOf(e, b)
      BY <1>2, <2>1 DEF EntryOf
    <3> QED BY <3>1
  <2>2. CASE \E w \in map : EntryOf(w, b) \/ \E c \in given : Front(w, c) /\ Rest(w, c, b)
    BY <2>2
  <2> QED BY <1>7, <2>1, <2>2 DEF InOrder
<1>8. \A c \in owned \ given : Tracked(c) \in held \ {e}
  <2>1. ASSUME NEW c \in owned \ given PROVE Tracked(c) \in held \ {e}
    <3>1. c \in Chunk /\ c # p /\ Tracked(c) \in held
      BY <1>1 DEF InOrder, HeapOK, InUse
    <3>2. Tracked(c) # e
      BY <1>1, <3>1 DEF Tracked, Chunk
    <3> QED BY <3>1, <3>2
  <2> QED BY <2>1
<1> QED BY <1>4, <1>6, <1>7, <1>8 DEF InOrder

\* The tracker notes a chunk that was handed out: the map is in order again.
LEMMA MallocIsNoted ==
    ASSUME HeapOK, NEW map \in SUBSET Entry, NEW held \in SUBSET Entry, NEW c \in owned,
           Handed(map, c),
           \A b \in bins : b.home = Arena =>
              \E w \in map : EntryOf(w, b) \/ (Front(w, c) /\ Rest(w, c, b)),
           \A x, y \in held : x.address = y.address => x = y,
           \A d \in owned \ {c} : Tracked(d) \in held,
           NEW m, Rebuilt(m, map, c)
    PROVE  InOrder(m, Put(held, Tracked(c)), {}, {})
<1> DEFINE e == Tracked(c)
<1>1. Spaced(m) /\ \A w \in m : w.size >= 2 /\ Live(w)
  BY DEF Rebuilt
<1>2. \A b \in bins : b.home = Arena => \E w \in m : EntryOf(w, b)
  BY DEF Rebuilt
<1>3. \A x, y \in Put(held, e) : x.address = y.address => x = y
  BY DEF Put
<1>4. ASSUME NEW d \in owned PROVE Tracked(d) \in Put(held, e)
  <2>1. CASE d = c
    BY <2>1 DEF Put
  <2>2. CASE d # c
    <3>1. Disjoint(c, d) /\ c \in Chunk /\ d \in Chunk /\ c.size >= 2 /\ d.size >= 2
      BY <2>2 DEF HeapOK, InUse
    <3>2. Tracked(d).address # e.address
      BY <3>1 DEF Tracked, Disjoint, End, Chunk
    <3> QED BY <2>2, <3>2 DEF Put
  <2> QED BY <2>1, <2>2
<1> QED BY <1>1, <1>2, <1>3, <1>4 DEF InOrder

\* The tracker knows a chunk that realloc leaves in its place, and has no entry for it.
LEMMA KeptIsKnown ==
    ASSUME HeapOK, NEW map \in SUBSET Entry, NEW held \in SUBSET Entry, NEW p \in owned,
           NEW given, given = {}, InOrder(map, held, given, given), NEW e, e = Tracked(p)
    PROVE  /\ e \in Entry /\ e.address = p.hdr + 1
           /\ \A x : x \in held /\ x.address = p.hdr + 1 <=> x = e
           /\ \A w \in map :
                 /\ w.address # e.address
                 /\ w.address <= e.address => w.address + w.size <= e.address
                 /\ e.address <= w.address =>
                       e.address + e.size <= w.address \/ e.address + e.size = w.address + 1
           /\ map \union {e} \subseteq Entry
<1>1. /\ p \in Chunk /\ p.hdr >= 0 /\ p.size >= 2 /\ End(p) <= top /\ top \in Nat
      /\ \A b \in bins : Disjoint(b, p) /\ b \in Bin
      /\ e \in held
  BY CalmEntries DEF HeapOK, BinsOK, InUse
<1>2. e \in Entry /\ e.address = p.hdr + 1 /\ e.size = p.size
  BY <1>1 DEF Tracked, Chunk, Entry
<1>3. \A x : x \in held /\ x.address = p.hdr + 1 <=> x = e
  BY <1>1, <1>2 DEF InOrder
<1>4. ASSUME NEW w \in map
      PROVE  /\ w.address # e.address
             /\ w.address <= e.address => w.address + w.size <= e.address
             /\ e.address <= w.address =>
                   e.address + e.size <= w.address \/ e.address + e.size = w.address + 1
  <2>1. w \in Entry /\ w.size >= 2 /\ Live(w)
    BY CalmEntries
  <2>2. CASE w.address > top
    BY <1>1, <1>2, <2>1, <2>2 DEF End, Chunk, Entry
  <2>3. ASSUME NEW b \in bins, EntryOf(w, b)
        PROVE  /\ w.address # e.address
               /\ w.address <= e.address => w.address + w.size <= e.address
               /\ e.address <= w.address =>
                     e.address + e.size <= w.address \/ e.address + e.size = w.address + 1
    BY <1>1, <1>2, <2>1, <2>3 DEF EntryOf, Disjoint, End, Bin, Chunk, Entry
  <2> QED BY <2>1, <2>2, <2>3 DEF Live
<1> QED BY <1>2, <1>3, <1>4

\* realloc keeps the chunk: what its exit gives to malloc is the map with the entry of
\* the chunk, which no other entry has the address of.
LEMMA KeptIsHanded ==
    ASSUME HeapOK, NEW map \in SUBSET Entry, NEW held \in SUBSET Entry, NEW p \in owned,
           NEW given, given = {}, InOrder(map, held, given, given), NEW e, e = Tracked(p)
    PROVE  Handed(map \union {e}, p)
<1>1. /\ p \in Chunk /\ p.hdr >= 0 /\ p.size >= 2 /\ End(p) <= top /\ top \in Nat
      /\ \A b \in bins : Disjoint(b, p) /\ b \in Bin
      /\ e \in held
  BY CalmEntries DEF HeapOK, BinsOK, InUse
<1>2. e \in Entry /\ e.address = p.hdr + 1 /\ e.size = p.size
  BY <1>1 DEF Tracked, Chunk, Entry
<1>3. Front(e, p) /\ Stale(e, p)
  BY DEF Front, Stale, Tracked
<1>4. \A w \in map :
         /\ w.address # e.address
         /\ w.address <= e.address => w.address + w.size <= e.address
         /\ e.address <= w.address =>
               e.address + e.size <= w.address \/ e.address + e.size = w.address + 1
  BY KeptIsKnown
<1>5. \A w \in map \union {e} : w.size >= 2 /\ (Live(w) \/ Stale(w, p))
  BY <1>1, <1>2, <1>3, CalmEntries
<1>6. ASSUME NEW x \in map \union {e}, NEW y \in map \union {e}, x # y, x.address <= y.address
      PROVE  \/ x.address + x.size <= y.address
             \/ x = e /\ x.address + x.size = y.address + 1
  BY <1>4, <1>6 DEF InOrder, Spaced
<1> QED BY <1>2, <1>5, <1>6 DEF Handed

\* The order of the maps, when the heap is left alone.
LEMMA OrderKept ==
    ASSUME UNCHANGED <<owned, bins, top>>
    PROVE  /\ HeapOK => HeapOK'
           /\ \A map, held, given, gone :
                 InOrder(map, held, given, gone) => InOrder(map, held, given, gone)'
<1>1. HeapOK => HeapOK'
  BY DEF HeapOK, BinsOK, InUse
<1>2. ASSUME NEW map, NEW held, NEW given, NEW gone, InOrder(map, held, given, gone)
      PROVE  InOrder(map, held, given, gone)'
  BY <1>2 DEF InOrder, Live, Stale, Front
<1> QED BY <1>1, <1>2

\* The order of the maps, in the next state.
LEMMA OrderNext ==
    ASSUME NEW map, NEW held, NEW given, NEW gone, InOrder(map, held, given, gone)',
           frees'[1] = map, allocs'[1] = held, Given' = given, Gone' = gone
    PROVE  InOrder(frees[1], allocs[1], Given, Gone)'
  BY DEF InOrder

\* A session that is quiet was quiet before.
LEMMA QuietBefore ==
    ASSUME CallsOK, [Next]_vars, Quiet'
    PROVE  Quiet /\ ~overtaken' /\ ~untracked' /\ ~crowded'
<1> DEFINE Grows ==
      /\ installs \in Int /\ installs <= installs'
      /\ (overtaken => overtaken') /\ (untracked => untracked') /\ (crowded => crowded')
<1>0. installs \in Nat
  BY HeapAssumption DEF CallsOK
<1>1. ASSUME NEW t \in Threads, NEW k, NEW p, Enters(t, k, p) PROVE Grows
  BY <1>0, <1>1 DEF Enters
<1>2. ASSUME NEW t \in Threads, ReallocZeroEnter(t) \/ EnterRaises(t) PROVE Grows
  BY <1>0, <1>2 DEF ReallocZeroEnter, EnterRaises
<1>3. ASSUME NEW t \in Threads, NEW c, Returns(t, c) PROVE Grows
  <2>1. installs' = installs
    BY <1>3 DEF Returns
  <2>2. (overtaken => overtaken') /\ (untracked => untracked') /\ (crowded => crowded')
    BY <1>3, Zenon DEF Returns
  <2> QED BY <1>0, <2>1, <2>2
<1>4. ASSUME NEW t \in Threads, Ends(t), UNCHANGED untracked \/ untracked' PROVE Grows
  BY <1>0, <1>4 DEF Ends
<1>5. ASSUME NEW t \in Threads, NEW s \in Threads, OutOfScope(t, s) PROVE Grows
  BY <1>0, <1>5 DEF OutOfScope
<1>6. ASSUME Install \/ Uninstall \/ UNCHANGED vars PROVE Grows
  <2>1. installs' = installs \/ installs' = installs + 1
    BY <1>6 DEF Install, Uninstall, vars
  <2>2. (overtaken => overtaken') /\ (untracked => untracked') /\ (crowded => crowded')
    <3>1. CASE Install
      BY <3>1, Zenon DEF Install
    <3>2. CASE Uninstall \/ UNCHANGED vars
      BY <3>2 DEF Uninstall, vars, history
    <3> QED BY <1>6, <3>1, <3>2
  <2> QED BY <1>0, <2>1, <2>2
<1> HIDE DEF Grows
<1>7. ASSUME NEW t \in Threads,
             \/ MallocEnter(t) \/ FreeEnter(t) \/ ReallocEnter(t)
             \/ ReallocZeroEnter(t) \/ EnterRaises(t)
      PROVE  Grows
  BY <1>1, <1>2, <1>7, Zenon DEF MallocEnter, FreeEnter, ReallocEnter
<1>8. ASSUME NEW t \in Threads, LibcSteps(t) PROVE Grows
  BY <1>3, <1>8, Zenon DEF LibcSteps, LibcMalloc, LibcFree, LibcRealloc, LibcFails
<1>9. ASSUME NEW t \in Threads,
             \/ Unseen(t) \/ Outside(t) \/ AllocExit(t) \/ FreeExit(t)
             \/ ReallocExit(t) \/ ReallocExitRaises(t) \/ ExitRaises(t)
      PROVE  Grows
  <2>1. Ends(t) /\ (UNCHANGED untracked \/ untracked')
    BY <1>9, Zenon
       DEF Unseen, Outside, AllocExit, FreeExit, ReallocExit, ReallocExitRaises, ExitRaises
  <2> QED BY <1>4, <2>1
<1>10. Grows
  BY <1>5, <1>6, <1>7, <1>8, <1>9, Zenon DEF Next, LibcSteps
<1>11. installs' \in Int
  <2>1. CallsOK'
    BY CallsStep
  <2> QED BY <2>1 DEF CallsOK
<1> QED BY <1>10, <1>11 DEF Grows, Quiet, Regular

\* A thread that enters changes nothing that waits to be handled.
LEMMA EnterKeeps ==
    ASSUME CallsOK, CallsFollowed, NEW t \in Threads, NEW k \in Kinds, NEW p \in Chunk,
           call[t] = Idle,
           call' = [call EXCEPT ![t] = [kind |-> k, ptr |-> p, ret |-> Null, done |-> FALSE,
                                        by |-> 1]],
           1 \in 0..MaxTrackers, owned' = owned,
           k # "malloc" => p \in owned /\ ~Passed(p)
    PROVE  CallsFollowed' /\ Given' = Given /\ Gone' = Gone
<1> DEFINE r == [kind |-> k, ptr |-> p, ret |-> Null, done |-> FALSE, by |-> 1]
<1>1. /\ r \in Calling /\ r # Idle /\ ~r.done
      /\ r.kind = k /\ r.ptr = p /\ r.by = 1
  BY NewCall, CallIsCall
<1>2. call' = [call EXCEPT ![t] = r] /\ call \in [Threads -> Calling \union {Idle}]
  BY DEF CallsOK
<1> HIDE DEF r
<1>3. call'[t] = r /\ \A u \in Threads \ {t} : call'[u] = call[u]
  BY <1>2
<1>4. \A u \in Threads :
         /\ Done(u)' <=> Done(u)
         /\ New(u)' <=> New(u)
         /\ Left(u)' <=> Left(u)
         /\ Done(u) => u # t
  BY <1>1, <1>3 DEF Done, New, Left
<1>5. Given' = Given /\ Gone' = Gone
  <2>1. \A u \in Threads : (New(u) \/ Left(u)) => call'[u] = call[u]
    BY <1>3, <1>4 DEF New, Left
  <2> QED BY <1>4, <2>1 DEF Given, Gone
<1>6. CallsFollowed'
  <2>1. \A u \in Threads : call'[u] # Idle => call'[u].by = 1
    BY <1>1, <1>3 DEF CallsFollowed
  <2>2. \A u, v \in Threads : Done(u)' /\ Done(v)' => u = v
    BY <1>4 DEF CallsFollowed
  <2>3. \A u \in Threads :
           call'[u] # Idle /\ call'[u].kind # "malloc" /\ ~Left(u)' => call'[u].ptr \in owned'
    BY <1>1, <1>3, <1>4 DEF CallsFollowed
  <2>4. \A u, v \in Threads :
           /\ call'[u] # Idle /\ call'[v] # Idle /\ u # v
           /\ call'[u].kind # "malloc" /\ call'[v].kind # "malloc"
           => call'[u].ptr # call'[v].ptr
    BY <1>1, <1>3 DEF CallsFollowed, Passed
  <2>5. \A u \in Threads : Done(u)' /\ call'[u].kind = "free" => call'[u].ret = Null
    BY <1>3, <1>4 DEF CallsFollowed
  <2> QED BY <2>1, <2>2, <2>3, <2>4, <2>5 DEF CallsFollowed
<1> QED BY <1>5, <1>6

\* libc serves a call: it is the only one that waits to be handled.
LEMMA LibcServes ==
    ASSUME CallsOK, CallsFollowed, NEW t \in Threads, NEW kind, InLibc(t, kind),
           NEW c \in Chunk, Returns(t, c), ~overtaken',
           NEW p, p = call[t].ptr, owned \ {p} \subseteq owned',
           kind = "malloc" => owned \subseteq owned', kind = "free" => c = Null,
           kind = "realloc" /\ c \in {Null, p} => p \in owned'
    PROVE  /\ Given' = {d \in {c} : d # Null /\ (kind = "malloc" \/ d # p)}
           /\ Gone' = {q \in {p} : kind = "free" \/ (kind = "realloc" /\ c \notin {Null, q})}
           /\ CallsFollowed'
<1> DEFINE r == [call[t] EXCEPT !.done = TRUE, !.ret = c]
           new == c # Null /\ (kind = "malloc" \/ c # p)
           left == kind = "free" \/ (kind = "realloc" /\ new)
<1>1. call[t] \in Calling /\ call[t] # Idle /\ ~call[t].done /\ call[t].kind = kind
  BY DEF CallsOK, InLibc
<1>2. call' = [call EXCEPT ![t] = r]
  BY DEF Returns
<1>3. /\ r \in Calling /\ r.done /\ r.ret = c
      /\ r.kind = kind /\ r.ptr = p /\ r.by = call[t].by
  BY <1>1, ReturnKeeps DEF Calling
<1> HIDE DEF r
<1>4. r # Idle
  BY <1>3, CallIsCall
<1>5. call'[t] = r /\ \A u \in Threads \ {t} : call'[u] = call[u]
  BY <1>2 DEF CallsOK
<1>6. \A u \in Threads : ~Done(u)
  <2>1. \A u \in Threads \ {t} : ~(call[u] # Idle /\ call[u].done)
    BY Zenon DEF Returns
  <2> QED BY <1>1, <2>1 DEF Done
<1>7. \A u \in Threads : Done(u)' <=> u = t
  BY <1>3, <1>4, <1>5, <1>6 DEF Done
<1>8. \A u \in Threads : (New(u)' <=> u = t /\ new) /\ (Left(u)' <=> u = t /\ left)
  BY <1>3, <1>5, <1>7 DEF New, Left
<1>9. kind \in Kinds /\ (kind # "malloc" /\ ~left => p \in owned')
  BY <1>1 DEF Calling, Kinds
<1>10. /\ Given' = {d \in {c} : d # Null /\ (kind = "malloc" \/ d # p)}
       /\ Gone' = {q \in {p} : kind = "free" \/ (kind = "realloc" /\ c \notin {Null, q})}
  BY <1>3, <1>5, <1>8 DEF Given, Gone
<1>11. CallsFollowed'
  <2>1. \A u \in Threads : call'[u] # Idle => call'[u].by = 1
    BY <1>1, <1>3, <1>5 DEF CallsFollowed
  <2>2. \A u, v \in Threads : Done(u)' /\ Done(v)' => u = v
    BY <1>7
  <2>3. ASSUME NEW u \in Threads, call'[u] # Idle, call'[u].kind # "malloc", ~Left(u)'
        PROVE  call'[u].ptr \in owned'
    <3>1. CASE u = t
      BY <1>3, <1>5, <1>8, <1>9, <2>3, <3>1
    <3>2. CASE u # t
      <4>1. call'[u] = call[u] /\ ~Left(u) /\ call[u].ptr \in owned
        BY <1>5, <1>6, <2>3, <3>2 DEF CallsFollowed, Left
      <4>2. kind # "malloc" => call[u].ptr # p
        BY <1>1, <1>5, <2>3, <3>2 DEF CallsFollowed
      <4> QED BY <4>1, <4>2
    <3> QED BY <3>1, <3>2
  <2>4. \A u, v \in Threads :
           /\ call'[u] # Idle /\ call'[v] # Idle /\ u # v
           /\ call'[u].kind # "malloc" /\ call'[v].kind # "malloc"
           => call'[u].ptr # call'[v].ptr
    BY <1>1, <1>3, <1>5 DEF CallsFollowed
  <2>5. \A u \in Threads : Done(u)' /\ call'[u].kind = "free" => call'[u].ret = Null
    BY <1>3, <1>5, <1>7
  <2> QED BY <2>1, <2>2, <2>3, <2>4, <2>5 DEF CallsFollowed
<1> QED BY <1>10, <1>11

\* A call is handled: none waits.
LEMMA CallHandled ==
    ASSUME CallsOK, CallsFollowed, NEW t \in Threads, Ends(t)
    PROVE  /\ call[t] \in Calling /\ Done(t) /\ call[t].by = 1
           /\ Given = (IF New(t) THEN {call[t].ret} ELSE {})
           /\ Gone = (IF Left(t) THEN {call[t].ptr} ELSE {})
           /\ Given' = {} /\ Gone' = {}
           /\ CallsFollowed'
<1>1. /\ call[t] \in Calling /\ Done(t) /\ call[t].by = 1
      /\ call' = [call EXCEPT ![t] = Idle] /\ owned' = owned
  BY DEF Ends, Done, CallsOK, CallsFollowed, libc
<1>2. call'[t] = Idle /\ \A u \in Threads \ {t} : call'[u] = call[u]
  BY <1>1 DEF CallsOK
<1>3. \A u \in Threads : Done(u) <=> u = t
  BY <1>1 DEF CallsFollowed
<1>4. \A u \in Threads : ~Done(u)'
  BY <1>2, <1>3 DEF Done
<1>5. /\ Given = (IF New(t) THEN {call[t].ret} ELSE {})
      /\ Gone = (IF Left(t) THEN {call[t].ptr} ELSE {})
  BY <1>3 DEF Given, Gone, New, Left
<1>6. Given' = {} /\ Gone' = {}
  BY <1>4 DEF Given, Gone, New, Left
<1>7. CallsFollowed'
  <2>1. \A u \in Threads : ~Left(u)' /\ (u # t => ~Left(u))
    BY <1>3, <1>4 DEF Left
  <2> QED BY <1>1, <1>2, <1>4, <2>1 DEF CallsFollowed
<1> QED BY <1>1, <1>5, <1>6, <1>7

\* A thread enters libc.
LEMMA EnterAgrees ==
    ASSUME TypeOK, Agrees, installs = 1, NEW t \in Threads, ~untracked',
           MallocEnter(t) \/ FreeEnter(t) \/ ReallocEnter(t)
    PROVE  Agrees'
<1>1. PICK k \in Kinds, p \in Chunk :
         Enters(t, k, p) /\ (k # "malloc" => p \in owned /\ ~Passed(p))
  <2>1. owned \subseteq Chunk /\ Null \in Chunk
    BY DEF TypeOK, CallsOK, Null, Chunk
  <2> QED BY <2>1 DEF MallocEnter, FreeEnter, ReallocEnter, Kinds
<1>2. /\ call[t] = Idle /\ UNCHANGED <<owned, bins, top, frees, allocs, leaked>>
      /\ call' = [call EXCEPT ![t] = [kind |-> k, ptr |-> p, ret |-> Null, done |-> FALSE,
                                      by |-> 1]]
  <2>1. enabled /\ ~flag[installs][t]
    BY <1>1, Zenon DEF Enters
  <2>2. call' = [call EXCEPT ![t] = [kind |-> k, ptr |-> p, ret |-> Null, done |-> FALSE,
                                     by |-> installs]]
    BY <1>1, <2>1, Zenon DEF Enters
  <2> QED BY <1>1, <2>2 DEF Enters, libc, maps
<1>3. 1 \in 0..MaxTrackers /\ owned' = owned /\ CallsOK
  BY <1>2 DEF TypeOK, CallsOK
<1>4. CallsFollowed' /\ Given' = Given /\ Gone' = Gone
  BY <1>1, <1>2, <1>3, EnterKeeps DEF Agrees
<1>5. HeapOK' /\ InOrder(frees[1], allocs[1], Given, Gone)'
  <2>1. PICK map, held, given, gone :
           /\ map = frees[1] /\ held = allocs[1] /\ given = Given /\ gone = Gone
    OBVIOUS
  <2>2. InOrder(map, held, given, gone)
    BY <2>1 DEF Agrees
  <2>3. HeapOK' /\ InOrder(map, held, given, gone)'
    BY <1>2, <2>2, OrderKept DEF Agrees
  <2> QED BY <1>2, <1>4, <2>1, <2>3, OrderNext
<1> QED BY <1>2, <1>4, <1>5 DEF Agrees

\* libc serves a call.
LEMMA LibcAgrees ==
    ASSUME TypeOK, Agrees, installs = 1, NEW t \in Threads, ~overtaken', ~crowded',
           LibcSteps(t)
    PROVE  Agrees'
<1>1. CallsOK /\ MapsOK /\ CallsFollowed /\ HeapOK /\ 1 \in Trackers
  BY HeapAssumption DEF TypeOK, Agrees, CallsOK, Trackers
<1>2. PICK map, held : map = frees[1] /\ held = allocs[1]
  OBVIOUS
<1>3. map \in SUBSET Entry
  BY <1>1, <1>2 DEF MapsOK
<1>4. ASSUME NEW c \in Chunk, Returns(t, c)
      PROVE  UNCHANGED maps /\ NotCrowding
  BY <1>4 DEF Returns, NotCrowding
<1>5. PICK p : p = call[t].ptr
  OBVIOUS
<1>6. call[t] \in Calling /\ p \in Chunk
  BY <1>1, <1>5, LibcReturns, CallIsCall DEF CallsOK
<1>7. ASSUME UNCHANGED maps, NEW given, NEW gone, Given' = given, Gone' = gone,
             CallsFollowed', HeapOK', InOrder(map, held, given, gone)'
      PROVE  Agrees'
  <2>1. frees'[1] = map /\ allocs'[1] = held /\ frees' = frees /\ leaked' = leaked
    BY <1>2, <1>7 DEF maps
  <2>2. InOrder(frees[1], allocs[1], Given, Gone)'
    BY <1>7, <2>1, OrderNext
  <2> QED BY <1>7, <2>1, <2>2 DEF Agrees
<1>8. ASSUME NEW kind, InLibc(t, kind), NEW c \in Chunk, Returns(t, c) PROVE Given = {} /\ Gone = {}
  <2>1. \A u \in Threads : ~Done(u)
    <3>1. \A u \in Threads \ {t} : ~(call[u] # Idle /\ call[u].done)
      BY <1>8, Zenon DEF Returns
    <3> QED BY <1>8, <3>1 DEF Done, InLibc
  <2> QED BY <2>1 DEF Given, Gone, New, Left
<1>9. ASSUME NEW kind, InLibc(t, kind), NEW c \in Chunk, Returns(t, c)
      PROVE  InOrder(map, held, {}, {}) /\ (kind # "malloc" => p \in owned)
  <2>1. Given = {} /\ Gone = {}
    BY <1>8, <1>9
  <2>2. call[t] # Idle /\ call[t].kind = kind /\ ~Left(t)
    BY <1>9 DEF InLibc, Left, Done
  <2> QED BY <1>1, <1>2, <1>5, <2>1, <2>2 DEF Agrees, CallsFollowed
<1>10. CASE LibcMalloc(t)
  <2>1. PICK n \in Sizes, h \in 0..HeapEnd - 1, c \in Chunk :
           /\ c = [hdr |-> h, size |-> n]
           /\ Gets(t, c, n) /\ owned' = owned \union {c} /\ Returns(t, c)
    BY <1>10, HeapAssumption DEF LibcMalloc, Chunk
  <2>2. c \in Chunk /\ c # Null /\ InLibc(t, "malloc")
    BY <1>10, <2>1, HeapAssumption DEF LibcMalloc, Chunk, Null
  <2>3. InOrder(map, held, {}, {})
    BY <1>9, <2>1, <2>2
  <2>4. HeapOK' /\ InOrder(map, held, {c}, {})'
    <3>1. CASE FromTop(n) /\ c = [hdr |-> top, size |-> n]
      BY <1>1, <1>3, <2>1, <2>3, <3>1, TakesFromTop
    <3>2. ASSUME NEW b \in bins, FromBin(t, b, n), c = [hdr |-> b.hdr, size |-> n]
          PROVE  HeapOK' /\ InOrder(map, held, {c}, {})'
      BY <1>1, <1>3, <2>1, <2>3, <3>2, TakesFromBin
    <3> QED BY <2>1, <3>1, <3>2 DEF Gets
  <2>5. Given' = {c} /\ Gone' = {} /\ CallsFollowed'
    <3>1. owned \ {p} \subseteq owned' /\ owned \subseteq owned'
      BY <2>1
    <3> QED BY <1>1, <1>5, <2>1, <2>2, <3>1, LibcServes
  <2> QED BY <1>4, <1>7, <2>1, <2>2, <2>4, <2>5
<1>11. CASE LibcFree(t)
  <2>1. /\ InLibc(t, "free") /\ Gives(t, p) /\ owned' = owned \ {p} /\ Returns(t, Null)
        /\ Null \in Chunk
    BY <1>5, <1>11 DEF LibcFree, Null, Chunk
  <2>2. InOrder(map, held, {}, {}) /\ p \in owned
    BY <1>9, <2>1
  <2>3. HeapOK' /\ InOrder(map, held, {}, {p})'
    BY <1>1, <1>3, <1>4, <2>1, <2>2, GivesBack
  <2>4. Given' = {} /\ Gone' = {p} /\ CallsFollowed'
    BY <1>1, <1>5, <2>1, LibcServes
  <2> QED BY <1>4, <1>7, <2>1, <2>3, <2>4
<1>12. ASSUME NEW c \in Chunk, NEW kind \in {"malloc", "realloc"}, InLibc(t, kind), UNCHANGED libc,
              c = Null \/ (kind = "realloc" /\ c = p), Returns(t, c)
       PROVE  Agrees'
  <2>1. InOrder(map, held, {}, {}) /\ (kind # "malloc" => p \in owned)
    BY <1>9, <1>12
  <2>2. UNCHANGED <<owned, bins, top>>
    BY <1>12 DEF libc
  <2>3. HeapOK' /\ InOrder(map, held, {}, {})'
    BY <1>1, <2>1, <2>2, OrderKept
  <2>4. Given' = {} /\ Gone' = {} /\ CallsFollowed'
    BY <1>1, <1>5, <1>12, <2>1, <2>2, LibcServes
  <2> QED BY <1>4, <1>7, <1>12, <2>3, <2>4
<1>13. CASE LibcRealloc(t)
  <2>1. CASE owned' = owned /\ UNCHANGED <<bins, top>> /\ Returns(t, p)
    BY <1>6, <1>12, <1>13, <2>1 DEF LibcRealloc, libc
  <2>2. ASSUME NEW n \in Sizes, NEW home \in {t, Arena}, NEW c, c = [hdr |-> top, size |-> n],
               top' = top + n,
               bins' = bins \union {[hdr |-> p.hdr, size |-> p.size, home |-> home]},
               owned' = (owned \ {p}) \union {c}, Returns(t, c)
        PROVE  Agrees'
    <3>1. InLibc(t, "realloc") /\ c \in Chunk /\ c # Null
      BY <1>1, <1>13, <2>2, HeapAssumption DEF LibcRealloc, HeapOK, BinsOK, Chunk, Null
    <3>2. InOrder(map, held, {}, {}) /\ p \in owned
      BY <1>9, <2>2, <3>1
    <3>3. HeapOK' /\ InOrder(map, held, {c}, {p})' /\ c # p
      BY <1>1, <1>3, <1>4, <2>2, <3>1, <3>2, Moves
    <3>4. Given' = {c} /\ Gone' = {p} /\ CallsFollowed'
      BY <1>1, <1>5, <2>2, <3>1, <3>3, LibcServes
    <3> QED BY <1>4, <1>7, <2>2, <3>1, <3>3, <3>4
  <2> QED BY <1>5, <1>13, <2>1, <2>2 DEF LibcRealloc
<1>14. CASE LibcFails(t)
  <2>1. Null \in Chunk
    BY DEF Null, Chunk
  <2> QED BY <1>12, <1>14, <2>1 DEF LibcFails
<1> QED BY <1>10, <1>11, <1>13, <1>14 DEF LibcSteps

\* The tracker handles a call.
LEMMA ExitAgrees ==
    ASSUME TypeOK, Agrees, installs = 1, NEW t \in Threads,
           Unseen(t) \/ AllocExit(t) \/ FreeExit(t) \/ ReallocExit(t) \/ ReallocExitRaises(t)
    PROVE  Agrees'
<1>1. /\ CallsOK /\ MapsOK /\ CallsFollowed /\ HeapOK /\ BinsOK /\ 1 \in Trackers
      /\ leaked = {} /\ \A g \in Trackers \ {1} : frees[g] = {}
      /\ frees \in [Trackers -> SUBSET Entry] /\ allocs \in [Trackers -> SUBSET Entry]
  BY HeapAssumption DEF TypeOK, Agrees, CallsOK, MapsOK, Trackers, HeapOK
<1>2. PICK map, held : map = frees[1] /\ held = allocs[1]
  OBVIOUS
<1>3. map \in SUBSET Entry /\ held \in SUBSET Entry
  BY <1>1, <1>2
<1>4. Ends(t) /\ UNCHANGED <<owned, bins, top>>
  <2>1. Ends(t)
    BY Zenon DEF Unseen, AllocExit, FreeExit, ReallocExit, ReallocExitRaises
  <2> QED BY <2>1 DEF Ends, libc
<1>5. /\ call[t] \in Calling /\ Done(t) /\ call[t].by = 1
      /\ Given = (IF New(t) THEN {call[t].ret} ELSE {})
      /\ Gone = (IF Left(t) THEN {call[t].ptr} ELSE {})
      /\ Given' = {} /\ Gone' = {} /\ CallsFollowed' /\ HeapOK'
  BY <1>1, <1>4, CallHandled, OrderKept
<1>6. PICK p, c : p = call[t].ptr /\ c = call[t].ret
  OBVIOUS
<1>7. p \in Chunk /\ c \in Chunk /\ call[t].kind \in Kinds
  BY <1>5, <1>6 DEF Calling
<1>8. PICK given, gone : given = Given /\ gone = Gone /\ InOrder(map, held, given, gone)
  BY <1>2 DEF Agrees
<1>9. Known(1, p) = {x \in held : x.address = p.hdr + 1}
  BY <1>2 DEF Known
<1>10. ASSUME NEW m, NEW h, InOrder(m, h, {}, {}), leaked' = {},
              frees' = [frees EXCEPT ![1] = m], allocs' = [allocs EXCEPT ![1] = h]
       PROVE  Agrees'
  <2>1. InOrder(m, h, {}, {})'
    BY <1>4, <1>10, OrderKept
  <2>2. /\ frees'[1] = m /\ allocs'[1] = h
        /\ \A g \in Trackers \ {1} : frees'[g] = {}
    BY <1>1, <1>10
  <2>3. InOrder(frees[1], allocs[1], Given, Gone)'
    BY <1>5, <2>1, <2>2, OrderNext
  <2> QED BY <1>5, <1>10, <2>2, <2>3 DEF Agrees
<1>11. ASSUME InOrder(map, held, {}, {}), UNCHANGED maps PROVE Agrees'
  <2>1. frees' = [frees EXCEPT ![1] = map] /\ allocs' = [allocs EXCEPT ![1] = held]
    BY <1>1, <1>2, <1>11 DEF maps
  <2> QED BY <1>1, <1>10, <1>11, <2>1 DEF maps
<1>12. ASSUME NEW m \in SUBSET Entry, NEW h \in SUBSET Entry, given = {c}, InOrder(m, h, given, {}),
              NotesMalloc(1, t, Tracked(c), m, h, {})
       PROVE  Agrees'
  <2>1. Handed(m, c) /\ c \in owned /\ InUse(c)
    <3>1. c \in owned
      BY <1>12 DEF InOrder
    <3> QED BY <1>1, <1>12, <3>1, OrderIsHanded DEF HeapOK
  <2>2. /\ leaked' = {}
        /\ allocs' = [allocs EXCEPT ![1] = Put(h, Tracked(c))]
        /\ \E x : frees' = [frees EXCEPT ![1] = x] /\ Rebuilt(x, m, c)
    BY <1>1, <1>12, <2>1, MallocRebuilds
  <2>3. PICK x : frees' = [frees EXCEPT ![1] = x] /\ Rebuilt(x, m, c)
    BY <2>2
  <2>4. /\ \A b \in bins : b.home = Arena =>
              \E w \in m : EntryOf(w, b) \/ (Front(w, c) /\ Rest(w, c, b))
        /\ \A y, z \in h : y.address = z.address => y = z
        /\ \A d \in owned \ {c} : Tracked(d) \in h
    BY <1>12 DEF InOrder
  <2>5. InOrder(x, Put(h, Tracked(c)), {}, {})
    BY <1>1, <1>12, <2>1, <2>3, <2>4, MallocIsNoted
  <2> QED BY <1>10, <2>2, <2>3, <2>5
<1>13. CASE Unseen(t)
  BY <1>5, <1>13 DEF Unseen
<1>14. CASE ReallocExitRaises(t)
  <2>1. call[t].kind = "realloc" /\ c = Null /\ UNCHANGED maps
    BY <1>6, <1>14 DEF ReallocExitRaises
  <2>2. ~New(t) /\ ~Left(t)
    BY <1>6, <2>1 DEF New, Left
  <2> QED BY <1>5, <1>8, <1>11, <2>1, <2>2
<1>15. CASE AllocExit(t)
  <2>1. call[t].kind = "malloc" /\ ~Left(t)
    BY <1>15 DEF AllocExit, Left
  <2>2. CASE c = Null
    <3>1. UNCHANGED maps /\ ~New(t)
      BY <1>6, <1>15, <2>2 DEF AllocExit, New
    <3> QED BY <1>5, <1>8, <1>11, <2>1, <3>1
  <2>3. CASE c # Null
    <3>1. NotesMalloc(1, t, Tracked(c), map, held, {}) /\ New(t)
      BY <1>1, <1>2, <1>5, <1>6, <1>15, <2>1, <2>3 DEF AllocExit, New
    <3> QED BY <1>3, <1>5, <1>6, <1>8, <1>12, <2>1, <3>1
  <2> QED BY <2>2, <2>3
<1>16. CASE FreeExit(t)
  <2>1. call[t].kind = "free" /\ Left(t) /\ ~New(t)
    BY <1>1, <1>5, <1>16 DEF FreeExit, Left, New, CallsFollowed
  <2>2. gone = {p} /\ given = {}
    BY <1>5, <1>6, <1>8, <2>1
  <2>3. PICK e : e = Tracked(p)
    OBVIOUS
  <2>4. /\ \A x : x \in held /\ x.address = p.hdr + 1 <=> x = e
        /\ \A x \in map : x.address # e.address
        /\ InOrder(map \union {e}, held \ {e}, given, {})
    BY <1>1, <1>3, <1>8, <2>2, <2>3, FreeIsKnown, FreeIsNoted
  <2>5. NotesFree(1, p) /\ Known(1, p) = {e}
    <3>1. Known(1, p) = {e}
      BY <1>9, <2>4
    <3> QED BY <1>5, <1>6, <1>16, <3>1 DEF FreeExit
  <2>6. /\ frees' = [frees EXCEPT ![1] = Put(@, e)]
        /\ leaked' = leaked \union Replaced(frees[1], e)
        /\ allocs' = [allocs EXCEPT ![1] = @ \ {e}]
    BY <2>5 DEF NotesFree
  <2>7. Put(map, e) = map \union {e} /\ Replaced(map, e) = {}
    BY <2>4 DEF Put, Replaced
  <2>8. /\ frees' = [frees EXCEPT ![1] = map \union {e}] /\ leaked' = {}
        /\ allocs' = [allocs EXCEPT ![1] = held \ {e}]
    BY <1>1, <1>2, <2>6, <2>7
  <2>9. InOrder(map \union {e}, held \ {e}, {}, {})
    BY <2>2, <2>4
  <2> QED BY <1>10, <2>8, <2>9
<1>17. CASE ReallocExit(t)
  <2> DEFINE known == Known(1, p)
             replaced == {x \in map : \E e \in known : x.address = e.address}
  <2>1. /\ call[t].kind = "realloc" /\ c # Null
        /\ NotesMalloc(1, t, Tracked(c), (map \ replaced) \union known, held \ known,
                       {} \union replaced)
    BY <1>1, <1>2, <1>5, <1>6, <1>17 DEF ReallocExit
  <2>2. PICK e : e = Tracked(p)
    OBVIOUS
  <2>3. ASSUME \A x : x \in held /\ x.address = p.hdr + 1 <=> x = e,
               \A x \in map : x.address # e.address
        PROVE  NotesMalloc(1, t, Tracked(c), map \union {e}, held \ {e}, {})
    <3>1. known = {e}
      BY <1>9, <2>3
    <3>2. replaced = {}
      BY <2>3, <3>1
    <3>3. (map \ replaced) \union known = map \union {e} /\ {} \union replaced = {}
      BY <3>1, <3>2
    <3> HIDE DEF known, replaced
    <3> QED BY <2>1, <3>1, <3>3
  <2> HIDE DEF known, replaced
  <2>4. CASE c # p
    <3>1. New(t) /\ Left(t)
      BY <1>5, <1>6, <2>1, <2>4 DEF New, Left
    <3>2. given = {c} /\ gone = {p}
      BY <1>5, <1>6, <1>8, <3>1
    <3>3. /\ \A x : x \in held /\ x.address = p.hdr + 1 <=> x = e
          /\ \A x \in map : x.address # e.address
          /\ map \union {e} \subseteq Entry
          /\ InOrder(map \union {e}, held \ {e}, given, {})
      BY <1>1, <1>3, <1>8, <2>2, <3>2, FreeIsKnown, FreeIsNoted
    <3>4. held \ {e} \in SUBSET Entry /\ map \union {e} \in SUBSET Entry
      BY <1>3, <3>3
    <3> QED BY <1>12, <2>3, <3>2, <3>3, <3>4
  <2>5. CASE c = p
    <3>1. ~New(t) /\ ~Left(t)
      BY <1>6, <2>1, <2>5 DEF New, Left
    <3>2. given = {} /\ gone = {} /\ InOrder(map, held, {}, {}) /\ p \in owned
      BY <1>1, <1>5, <1>6, <1>8, <2>1, <3>1 DEF CallsFollowed, Done
    <3>3. /\ \A x : x \in held /\ x.address = p.hdr + 1 <=> x = e
          /\ \A x \in map : x.address # e.address
          /\ map \union {e} \subseteq Entry
          /\ Handed(map \union {e}, p)
      BY <1>1, <1>3, <1>8, <2>2, <3>2, KeptIsKnown, KeptIsHanded
    <3>4. NotesMalloc(1, t, Tracked(p), map \union {e}, held \ {e}, {}) /\ InUse(p)
      BY <1>1, <2>3, <2>5, <3>2, <3>3 DEF HeapOK
    <3>5. /\ leaked' = {}
          /\ allocs' = [allocs EXCEPT ![1] = Put(held \ {e}, Tracked(p))]
          /\ \E x : frees' = [frees EXCEPT ![1] = x] /\ Rebuilt(x, map \union {e}, p)
      BY <1>1, <3>3, <3>4, MallocRebuilds
    <3>6. PICK x : frees' = [frees EXCEPT ![1] = x] /\ Rebuilt(x, map \union {e}, p)
      BY <3>5
    <3>7. /\ \A b \in bins : b.home = Arena =>
                \E w \in map \union {e} : EntryOf(w, b) \/ (Front(w, p) /\ Rest(w, p, b))
          /\ \A y, z \in held \ {e} : y.address = z.address => y = z
      BY <3>2, CalmEntries DEF InOrder
    <3>8. \A d \in owned \ {p} : Tracked(d) \in held \ {e}
      <4>1. ASSUME NEW d \in owned \ {p} PROVE Tracked(d) \in held /\ Tracked(d) # e
        <5>1. d \in Chunk /\ d # p /\ Tracked(d) \in held
          BY <1>1, <3>2, CalmEntries DEF HeapOK, InUse
        <5> QED BY <1>7, <2>2, <5>1 DEF Tracked, Chunk
      <4> QED BY <4>1
    <3>9. held \ {e} \in SUBSET Entry /\ map \union {e} \in SUBSET Entry
      BY <1>3, <3>3
    <3>10. InOrder(x, Put(held \ {e}, Tracked(p)), {}, {})
      BY <1>1, <3>2, <3>3, <3>6, <3>7, <3>8, <3>9, MallocIsNoted
    <3> QED BY <1>10, <3>5, <3>6, <3>10
  <2> QED BY <2>4, <2>5
<1> QED BY <1>13, <1>14, <1>15, <1>16, <1>17

\* Tracking starts.
LEMMA InstallAgrees ==
    ASSUME TypeOK, NothingYet, installs = 0, Install
    PROVE  Agrees'
<1>1. /\ UNCHANGED <<owned, bins, top, call, frees, allocs, leaked>> /\ 1 \in Trackers
  BY HeapAssumption DEF Install, libc, maps, Trackers
<1>2. HeapOK'
  BY <1>1 DEF NothingYet, HeapOK, BinsOK
<1>3. \A t \in Threads : ~Done(t)' /\ call'[t] = Idle
  BY <1>1 DEF NothingYet, Done
<1>4. CallsFollowed' /\ Given' = {} /\ Gone' = {}
  BY <1>3 DEF CallsFollowed, Given, Gone, New, Left
<1>5. InOrder({}, {}, {}, {})'
  BY <1>1 DEF NothingYet, InOrder, Spaced
<1>6. InOrder(frees[1], allocs[1], Given, Gone)'
  <2>1. frees'[1] = {} /\ allocs'[1] = {}
    BY <1>1 DEF NothingYet
  <2> QED BY <1>4, <1>5, <2>1, OrderNext
<1> QED BY <1>1, <1>2, <1>4, <1>6 DEF NothingYet, Agrees

\* A quiet session keeps the maps in agreement.
LEMMA AgreesStep == TypeOK /\ MapAgrees /\ [Next]_vars => MapAgrees'
<1> SUFFICES ASSUME TypeOK, MapAgrees, [Next]_vars, Quiet'
             PROVE  (installs' = 0 => NothingYet') /\ (installs' = 1 => Agrees')
  BY DEF MapAgrees
<1> DEFINE Goal == (installs' = 0 => NothingYet') /\ (installs' = 1 => Agrees')
<1>1. CallsOK /\ Quiet /\ ~overtaken' /\ ~untracked' /\ ~crowded'
  BY QuietBefore DEF TypeOK
<1>2. /\ installs \in Nat /\ installs <= 1 /\ (enabled => installs # 0)
      /\ (installs = 0 => NothingYet) /\ (installs = 1 => Agrees)
  BY <1>1, HeapAssumption DEF MapAgrees, Quiet, Regular, CallsOK
<1>3. ASSUME NEW t \in Threads, NEW k, NEW p, Enters(t, k, p)
      PROVE  installs' = installs /\ installs = 1
  <2>1. enabled
    BY <1>1, <1>3, Zenon DEF Enters
  <2> QED BY <1>2, <1>3, <2>1 DEF Enters
<1>4. ASSUME NEW t \in Threads, MallocEnter(t) \/ FreeEnter(t) \/ ReallocEnter(t) PROVE Goal
  <2>1. installs' = installs /\ installs = 1
    BY <1>3, <1>4, Zenon DEF MallocEnter, FreeEnter, ReallocEnter
  <2> QED BY <1>1, <1>2, <1>4, <2>1, EnterAgrees
<1>5. ASSUME NEW t \in Threads, LibcSteps(t) PROVE Goal
  <2>1. installs' = installs /\ call[t] # Idle
    BY <1>1, <1>5, LibcReturns DEF Returns
  <2>2. installs = 1
    BY <1>2, <2>1 DEF NothingYet
  <2> QED BY <1>1, <1>2, <1>5, <2>1, <2>2, LibcAgrees
<1>6. ASSUME NEW t \in Threads,
             Unseen(t) \/ AllocExit(t) \/ FreeExit(t) \/ ReallocExit(t) \/ ReallocExitRaises(t)
      PROVE  Goal
  <2>1. Ends(t)
    BY <1>6, Zenon DEF Unseen, AllocExit, FreeExit, ReallocExit, ReallocExitRaises
  <2>2. installs' = installs /\ installs = 1
    BY <1>2, <2>1 DEF Ends, NothingYet
  <2> QED BY <1>2, <1>6, <2>2, ExitAgrees
<1>7. ASSUME NEW t \in Threads,
             \/ ReallocZeroEnter(t) \/ EnterRaises(t) \/ Outside(t) \/ ExitRaises(t)
             \/ \E s \in Threads : OutOfScope(t, s)
      PROVE  Goal
  BY <1>1, <1>7, Zenon DEF ReallocZeroEnter, EnterRaises, Outside, ExitRaises, OutOfScope
<1>8. ASSUME Install PROVE Goal
  <2>1. installs' = installs + 1
    BY <1>8 DEF Install
  <2>2. installs = 0
    BY <1>2, <2>1 DEF Quiet, Regular
  <2> QED BY <1>2, <1>8, <2>1, <2>2, InstallAgrees
<1>9. ASSUME Uninstall \/ UNCHANGED vars PROVE Goal
  <2>1. UNCHANGED <<owned, bins, top, call, installs, frees, allocs, leaked>>
    BY <1>9 DEF Uninstall, vars, libc, maps
  <2>2. NothingYet => NothingYet'
    BY <2>1 DEF NothingYet
  <2>3. Agrees => Agrees'
    <3> SUFFICES ASSUME Agrees PROVE Agrees'
      OBVIOUS
    <3>1. Given' = Given /\ Gone' = Gone /\ (CallsFollowed => CallsFollowed')
      BY <2>1 DEF Given, Gone, New, Left, Done, CallsFollowed
    <3>2. PICK map, held, given, gone :
             /\ map = frees[1] /\ held = allocs[1] /\ given = Given /\ gone = Gone
      OBVIOUS
    <3>3. HeapOK' /\ InOrder(map, held, given, gone)'
      BY <2>1, <3>2, OrderKept DEF Agrees
    <3>4. InOrder(frees[1], allocs[1], Given, Gone)'
      BY <2>1, <3>1, <3>2, <3>3, OrderNext
    <3> QED BY <2>1, <3>1, <3>3, <3>4 DEF Agrees
  <2> QED BY <1>2, <2>1, <2>2, <2>3
<1> HIDE DEF Goal
<1>10. ASSUME Install \/ Uninstall \/ UNCHANGED vars PROVE Goal
  BY <1>8, <1>9, <1>10
<1>11. ASSUME NEW t \in Threads,
              \/ MallocEnter(t) \/ FreeEnter(t) \/ ReallocEnter(t)
             \/ ReallocZeroEnter(t) \/ EnterRaises(t)
              \/ LibcSteps(t)
              \/ Unseen(t) \/ Outside(t) \/ AllocExit(t) \/ FreeExit(t)
              \/ ReallocExit(t) \/ ReallocExitRaises(t) \/ ExitRaises(t)
              \/ \E s \in Threads : OutOfScope(t, s)
       PROVE  Goal
  BY <1>4, <1>5, <1>6, <1>7, <1>11, Zenon
<1>12. Goal
  BY <1>10, <1>11, Zenon DEF Next, LibcSteps
<1> QED BY <1>12 DEF Goal

\* The maps agree with the heap in every quiet session.
THEOREM MapsAgree == Spec => []MapAgrees
<1>1. Init => MapAgrees
  BY DEF Init, MapAgrees, NothingYet
<1>2. TypeOK /\ MapAgrees /\ [Next]_vars => MapAgrees'
  BY AgreesStep
<1> QED BY <1>1, <1>2, TypeCorrect, PTL DEF Spec

\* What no tracker has an entry for is not watched.
LEMMA WatchedIsNoted ==
    ASSUME TypeOK, MapAgrees, Quiet
    PROVE  \/ NothingYet /\ Watched = {}
           \/ Agrees /\ Watched = frees[1] /\ frees[1] \subseteq Entry
<1>1. installs \in {0, 1} /\ MapsOK /\ (installs = 1 => 1 \in Trackers)
  BY HeapAssumption DEF Quiet, Regular, TypeOK, CallsOK, Trackers
<1>2. CASE installs = 0
  BY <1>2 DEF MapAgrees, NothingYet, Watched
<1>3. CASE installs = 1
  <2>1. Agrees /\ 1 \in Trackers
    BY <1>1, <1>3 DEF MapAgrees
  <2>2. Watched = frees[1]
    BY <2>1 DEF Watched, Agrees
  <2> QED BY <1>1, <2>1, <2>2 DEF MapsOK
<1> QED BY <1>1, <1>2, <1>3

\* No chunk that the program has settled in is watched, in a quiet session: the entries
\* of free chunks, of the top, and of a chunk about to be noted all lie outside it, but
\* for the header of a rescanned free chunk right after it.
THEOREM OwnedUnwatched == Spec => []OwnedIsUnwatched
<1>1. TypeOK /\ MapAgrees => OwnedIsUnwatched
  <2> SUFFICES ASSUME TypeOK, MapAgrees, Quiet, NEW c \in owned, Settled(c),
                      NEW w \in Watched, NEW u \in Units(w.address, w.size), u \in Payload(c),
                      ~(w.prevInUse /\ w.address = c.hdr + c.size)
               PROVE  FALSE
    BY DEF OwnedIsUnwatched, Covers, Quiet
  <2>1. Agrees /\ w \in frees[1] /\ w \in Entry
    BY WatchedIsNoted DEF NothingYet
  <2>2. /\ BinsOK /\ InUse(c) /\ c \in Chunk /\ top \in Nat /\ End(c) <= top /\ c.size >= 2
        /\ w.size >= 2 /\ (Live(w) \/ \E d \in Given : Stale(w, d) /\ d \in owned)
    BY <2>1 DEF Agrees, HeapOK, BinsOK, InUse, InOrder
  <2>3. u \in Int /\ w.address <= u /\ u < w.address + w.size /\ c.hdr < u /\ u <= End(c)
        /\ ~(w.prevInUse /\ w.address = End(c))
    BY <2>1, <2>2 DEF Units, Payload, End, Chunk, Entry
  <2>4. ASSUME NEW b \in bins, EntryOf(w, b) PROVE FALSE
    <3>1. b \in Bin /\ Disjoint(b, c)
      BY <2>2 DEF BinsOK, InUse
    <3> QED BY <2>1, <2>2, <2>3, <2>4, <3>1 DEF EntryOf, Disjoint, End, Bin, Chunk, Entry
  <2>5. CASE Live(w)
    <3>1. ~(w.address > top)
      BY <2>1, <2>2, <2>3 DEF End, Chunk, Entry
    <3> QED BY <2>4, <2>5, <3>1 DEF Live
  <2>6. ASSUME NEW d \in Given, Stale(w, d), d \in owned PROVE FALSE
    <3>1. c # d
      BY <2>6 DEF Given, New, Done, Settled
    <3>2. Disjoint(c, d) /\ InUse(d) /\ d \in Chunk /\ d.size >= 2 /\ End(d) <= top
      BY <2>1, <2>6, <3>1 DEF Agrees, HeapOK, InUse
    <3>3. CASE Front(w, d) /\ w.size = d.size
      BY <2>1, <2>2, <2>3, <3>2, <3>3 DEF Front, Disjoint, End, Chunk, Entry
    <3>4. ASSUME NEW r \in bins, Front(w, d), Rest(w, d, r) PROVE FALSE
      <4>1. r \in Bin /\ r.size >= 2 /\ Disjoint(r, c)
        BY <2>2 DEF BinsOK, InUse
      <4> QED BY <2>1, <2>2, <2>3, <3>2, <3>4, <4>1
              DEF Front, Rest, Disjoint, End, Bin, Chunk, Entry
    <3>5. CASE End(d) = top /\ w.address > d.hdr
      BY <2>1, <2>2, <2>3, <3>2, <3>5 DEF Disjoint, End, Chunk, Entry
    <3> QED BY <2>6, <3>3, <3>4, <3>5 DEF Stale
  <2> QED BY <2>2, <2>5, <2>6
<1> QED BY <1>1, TypeCorrect, MapsAgree, PTL

\* A chunk of the arena that a free left is watched, in a quiet session: it has an entry,
\* or is the rest of a chunk that has one until the malloc that split it is noted.
THEOREM FreedWatched == Spec => []FreedIsWatched
<1>1. TypeOK /\ MapAgrees => FreedIsWatched
  <2> SUFFICES ASSUME TypeOK, MapAgrees, Quiet, NEW b \in bins, b.home = Arena,
                      \A t \in Threads :
                         call[t] # Idle => call[t].ptr # [hdr |-> b.hdr, size |-> b.size]
               PROVE  \E w \in Watched : Covers(w, Units(b.hdr + 1, b.size - 1))
    BY DEF FreedIsWatched, Quiet
  <2>1. Agrees /\ Watched = frees[1] /\ frees[1] \subseteq Entry
    BY WatchedIsNoted DEF NothingYet
  <2>2. b \in Bin /\ b.size >= 2 /\ \A c \in owned : c \in Chunk /\ c.size >= 2
    BY <2>1 DEF Agrees, HeapOK, BinsOK, InUse
  <2>3. [hdr |-> b.hdr, size |-> b.size] \notin Gone
    BY DEF Gone, Left, Done
  <2>4. PICK w \in frees[1] :
           EntryOf(w, b) \/ \E c \in Given : Front(w, c) /\ Rest(w, c, b) /\ c \in owned
    BY <2>1, <2>3 DEF Agrees, InOrder
  <2>5. b.hdr + 1 \in Units(b.hdr + 1, b.size - 1)
    BY <2>2 DEF Units, Bin
  <2>6. b.hdr + 1 \in Units(w.address, w.size)
    <3>1. w \in Entry
      BY <2>1
    <3>2. CASE EntryOf(w, b)
      BY <2>2, <3>1, <3>2 DEF EntryOf, Units, Bin, Entry
    <3>3. ASSUME NEW c \in owned, Front(w, c), Rest(w, c, b)
          PROVE  b.hdr + 1 \in Units(w.address, w.size)
      BY <2>2, <3>1, <3>3 DEF Front, Rest, End, Units, Bin, Chunk, Entry
    <3> QED BY <2>4, <3>2, <3>3
  <2> QED BY <2>1, <2>4, <2>5, <2>6 DEF Covers
<1> QED BY <1>1, TypeCorrect, MapsAgree, PTL
=============================================================================
