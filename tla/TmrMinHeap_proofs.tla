-------------------------- MODULE TmrMinHeap_proofs --------------------------
(***************************************************************************)
(* Proofs about the timer heap, for every set of events, every set of due  *)
(* times and every array size.                                             *)
(***************************************************************************)
EXTENDS TmrMinHeap, WellFoundedInduction, TLAPS

(***************************************************************************)
(* The locals of the running call.                                         *)
(***************************************************************************)
CallOK ==
  /\ pc # "idle" => pTimerEvent \in Events
  /\ pc = "insert" =>
       /\ holeIndex < currSize
       /\ timerMinHeapIndex[pTimerEvent] = NW_MIN_HEAP_INDEX_INVALID
  /\ Removing =>
       /\ holeIndex <= currSize
       /\ currSize + 1 < maxSize
       /\ pHeap[currSize] = pTimerEvent
       /\ holeIndex < currSize => timerMinHeapIndex[pTimerEvent] = currSize

(***************************************************************************)
(* The heap order holds away from the hole, across the hole, and, except   *)
(* in the first loop of a removal, between the event in hand and the       *)
(* children of the hole.                                                   *)
(***************************************************************************)
OrderOK ==
  /\ \A i \in Filled :
       i > 0 /\ NW_HEAP_PARENT_INDEX(i) \in Filled =>
         Due(NW_HEAP_PARENT_INDEX(i)) <= Due(i)
  /\ pc # "idle" =>
       \A i \in Filled :
         i > 0 /\ NW_HEAP_PARENT_INDEX(i) = holeIndex =>
           /\ holeIndex > 0 => Due(NW_HEAP_PARENT_INDEX(holeIndex)) <= Due(i)
           /\ pc # "down" => tvTimeout[pTimerEvent] <= Due(i)
  /\ Removing /\ holeIndex = currSize /\ currSize > 0 =>
       Due(NW_HEAP_PARENT_INDEX(currSize)) <= tvTimeout[pTimerEvent]

IInv == TypeOK /\ CallOK /\ IndexExact /\ OrderOK

-----------------------------------------------------------------------------
(***************************************************************************)
(* Positions in a binary tree stored in an array from 0.                   *)
(***************************************************************************)
LEMMA ParentFacts ==
  /\ \A i \in Nat \ {0} :
       /\ NW_HEAP_PARENT_INDEX(i) \in Nat
       /\ NW_HEAP_PARENT_INDEX(i) < i
       /\ \/ i = 2 * NW_HEAP_PARENT_INDEX(i) + 1
          \/ i = 2 * NW_HEAP_PARENT_INDEX(i) + 2
  /\ \A h \in Nat : /\ NW_HEAP_PARENT_INDEX(2 * h + 1) = h
                    /\ NW_HEAP_PARENT_INDEX(2 * h + 2) = h
BY DEF NW_HEAP_PARENT_INDEX

LEMMA TypeFacts ==
  ASSUME TypeOK
  PROVE  /\ currSize \in Nat /\ currSize < maxSize
         /\ holeIndex \in Nat /\ holeIndex < maxSize
         /\ \A e \in Events : tvTimeout[e] \in Nat
<1>1. \A e \in Events : tvTimeout[e] \in Times
  BY Zenon DEF TypeOK
<1>2. \A e \in Events : tvTimeout[e] \in Nat
  BY <1>1, TimesAssumption, Zenon
<1>3. currSize \in Positions /\ holeIndex \in Positions
  BY Zenon DEF TypeOK
<1> QED BY <1>2, <1>3, SizeAssumption DEF Positions

(***************************************************************************)
(* The empty heap of nwGtpv2cTmrMinHeapNew satisfies the invariant.        *)
(***************************************************************************)
LEMMA InitIInv == Init => IInv
BY SizeAssumption, NullAssumption
   DEF Init, IInv, TypeOK, CallOK, IndexExact, OrderOK, Filled, Last, Hole,
       Removing, Positions, NW_MIN_HEAP_INDEX_INVALID

(***************************************************************************)
(* A shift of the parent into the hole, in either loop towards the root.   *)
(***************************************************************************)
LEMMA BubbleUpIInv ==
  ASSUME IInv, pc \in {"insert", "up"}, BubbleUp
  PROVE  IInv'
<1> DEFINE p == NW_HEAP_PARENT_INDEX(holeIndex)
<1>a. /\ holeIndex > 0 /\ holeIndex \in Nat /\ holeIndex <= currSize
      /\ currSize \in Nat
      /\ pc = "insert" => holeIndex < currSize
      /\ Due(p) > tvTimeout[pTimerEvent]
  BY SizeAssumption
     DEF IInv, TypeOK, CallOK, BubbleUp, ParentIsLater, Removing, Positions
<1>b. p \in Nat /\ p < holeIndex
  BY <1>a, ParentFacts
<1>c. p \in Filled
  BY <1>a, <1>b DEF Filled, Last, Hole
<1>d. pTimerEvent \in Events /\ pHeap[p] \in Events
  BY <1>c, Zenon DEF IInv, CallOK, IndexExact
<1>e. Due(p) \in Nat /\ tvTimeout[pTimerEvent] \in Nat
  BY <1>d, TimesAssumption, Zenon DEF IInv, TypeOK, Due
<1>f. holeIndex < currSize
  <2> SUFFICES ASSUME pc = "up", holeIndex = currSize PROVE FALSE
    BY <1>a
  <2> QED BY <1>a, <1>e DEF IInv, OrderOK, Removing
<1>1. /\ p \in Nat /\ p < holeIndex
      /\ p \in Filled
      /\ holeIndex > 0
      /\ Due(p) > tvTimeout[pTimerEvent]
      /\ holeIndex < currSize
  BY <1>a, <1>b, <1>c, <1>f, Zenon
<1>2. /\ pHeap' = [pHeap EXCEPT ![holeIndex] = pHeap[p]]
      /\ timerMinHeapIndex' =
           [timerMinHeapIndex EXCEPT ![pHeap[p]] = holeIndex]
      /\ holeIndex' = p
      /\ UNCHANGED <<currSize, tvTimeout, pc, pTimerEvent>>
  BY Zenon DEF BubbleUp, Fill
<1>3. pHeap[p] \in Events /\ timerMinHeapIndex[pHeap[p]] = p
  BY <1>1, Zenon DEF IInv, IndexExact
<1> HIDE DEF p
<1>4. TypeOK'
  BY <1>1, <1>2, <1>3, SizeAssumption DEF IInv, TypeOK, Positions
<1>5. CallOK'
  BY <1>1, <1>2, <1>3 DEF IInv, TypeOK, CallOK, Positions, Removing,
     NW_MIN_HEAP_INDEX_INVALID
<1>6. /\ Filled' = (Filled \cup {holeIndex}) \ {p}
      /\ Filled \subseteq Positions
      /\ holeIndex \notin Filled
  BY <1>1, <1>2, SizeAssumption DEF Filled, Last, Hole, IInv, TypeOK, Positions
<1>7. IndexExact'
  <2>1. ASSUME NEW i \in Filled'
        PROVE  pHeap'[i] \in Events /\ timerMinHeapIndex'[pHeap'[i]] = i
    <3>1. CASE i = holeIndex
      BY <1>2, <1>3, <3>1, Zenon DEF IInv, TypeOK
    <3>2. CASE i # holeIndex
      <4>1. i \in Filled /\ i # p
        BY <1>6, <3>2, Zenon
      <4>2. pHeap'[i] = pHeap[i] /\ pHeap[i] \in Events
            /\ timerMinHeapIndex[pHeap[i]] = i
        BY <1>2, <1>6, <3>2, <4>1, Zenon DEF IInv, TypeOK, IndexExact
      <4> QED BY <1>2, <1>3, <4>1, <4>2, Zenon DEF IInv, TypeOK
    <3> QED BY <3>1, <3>2, Zenon
  <2>2. ASSUME NEW e \in Events,
               timerMinHeapIndex'[e] # NW_MIN_HEAP_INDEX_INVALID
        PROVE  \/ /\ timerMinHeapIndex'[e] \in Filled'
                  /\ pHeap'[timerMinHeapIndex'[e]] = e
               \/ /\ Removing' /\ holeIndex' < currSize'
                  /\ e = pTimerEvent'
    <3>1. CASE e = pHeap[p]
      BY <1>1, <1>2, <1>3, <1>6, <3>1, Zenon DEF IInv, TypeOK
    <3>2. CASE e # pHeap[p]
      <4>1. timerMinHeapIndex'[e] = timerMinHeapIndex[e]
        BY <1>2, <1>3, <3>2, Zenon DEF IInv, TypeOK
      <4>2. CASE /\ timerMinHeapIndex[e] \in Filled
                 /\ pHeap[timerMinHeapIndex[e]] = e
        BY <1>2, <1>6, <3>2, <4>1, <4>2, Zenon DEF IInv, TypeOK
      <4>3. CASE Removing /\ holeIndex < currSize /\ e = pTimerEvent
        BY <1>1, <1>2, <4>3 DEF IInv, TypeOK, Removing, Positions
      <4> QED BY <2>2, <4>1, <4>2, <4>3, Zenon DEF IInv, IndexExact
    <3> QED BY <3>1, <3>2, Zenon
  <2> QED BY <2>1, <2>2, Zenon DEF IndexExact
<1>8. OrderOK'
  <2> DEFINE D(i) == tvTimeout'[pHeap'[i]]
  <2>1. /\ D(holeIndex) = Due(p)
        /\ \A i \in Filled : D(i) = Due(i) /\ Due(i) \in Nat
    BY <1>1, <1>2, <1>3, <1>6, TimesAssumption, Zenon
       DEF IInv, TypeOK, IndexExact, Due
  <2> HIDE DEF D
  <2>2. ASSUME NEW i \in Filled', i > 0, i # holeIndex
        PROVE  /\ i \in Filled /\ i \in Nat /\ i # p
               /\ NW_HEAP_PARENT_INDEX(i) \in Nat
               /\ NW_HEAP_PARENT_INDEX(i) < i
    BY <1>6, <2>2, ParentFacts DEF Positions
  <2>3. ASSUME NEW i \in Filled', i > 0, NW_HEAP_PARENT_INDEX(i) \in Filled'
        PROVE  D(NW_HEAP_PARENT_INDEX(i)) <= D(i)
    <3>1. i # holeIndex
      BY <1>6, <2>3, Zenon DEF p
    <3>2. CASE NW_HEAP_PARENT_INDEX(i) = holeIndex
      BY <1>1, <2>1, <2>2, <2>3, <3>1, <3>2, Zenon DEF IInv, OrderOK, p
    <3>3. CASE NW_HEAP_PARENT_INDEX(i) # holeIndex
      <4>1. NW_HEAP_PARENT_INDEX(i) \in Filled
        BY <1>6, <2>3, <3>3, Zenon
      <4> QED BY <2>1, <2>2, <2>3, <3>1, <4>1, Zenon DEF IInv, OrderOK
    <3> QED BY <3>2, <3>3, Zenon
  <2>4. ASSUME NEW i \in Filled', i > 0, NW_HEAP_PARENT_INDEX(i) = p
        PROVE  /\ p > 0 => D(NW_HEAP_PARENT_INDEX(p)) <= D(i)
               /\ tvTimeout[pTimerEvent] <= D(i)
    <3>1. Due(p) <= D(i) /\ D(i) \in Nat
      <4>1. CASE i = holeIndex
        BY <1>1, <2>1, <4>1
      <4>2. CASE i # holeIndex
        BY <1>1, <2>1, <2>2, <2>4, <4>2, Zenon DEF IInv, OrderOK
      <4> QED BY <4>1, <4>2, Zenon
    <3>2. ASSUME p > 0
          PROVE  /\ D(NW_HEAP_PARENT_INDEX(p)) \in Nat
                 /\ D(NW_HEAP_PARENT_INDEX(p)) <= Due(p)
      <4>1. /\ NW_HEAP_PARENT_INDEX(p) \in Nat
            /\ NW_HEAP_PARENT_INDEX(p) < p
        BY <1>1, <3>2, ParentFacts
      <4>2. NW_HEAP_PARENT_INDEX(p) \in Filled
        BY <1>1, <4>1 DEF Filled, Last, Hole, IInv, TypeOK, Positions
      <4> QED BY <1>1, <2>1, <3>2, <4>1, <4>2, Zenon DEF IInv, OrderOK
    <3>3. tvTimeout[pTimerEvent] \in Nat /\ Due(p) \in Nat
      BY <1>e, Zenon DEF p
    <3> QED BY <1>1, <3>1, <3>2, <3>3
  <2>5. holeIndex' < currSize' /\ holeIndex' \in Nat /\ currSize' \in Nat
    BY <1>1, <1>2, <1>a
  <2> QED
    BY <1>2, <2>3, <2>4, <2>5 DEF OrderOK, D, Due
<1> QED BY <1>4, <1>5, <1>7, <1>8, Zenon DEF IInv

(***************************************************************************)
(* Entering nwGtpv2cTmrMinHeapInsert opens a hole at the first free leaf.  *)
(***************************************************************************)
LEMMA InsertCallIInv ==
  ASSUME IInv, NEW e \in Events, NEW t \in Times, InsertCall(e, t)
  PROVE  IInv'
<1>1. /\ pc = "idle" /\ pc' = "insert"
      /\ timerMinHeapIndex[e] = NW_MIN_HEAP_INDEX_INVALID
      /\ currSize \in Nat /\ currSize + 1 < maxSize
      /\ tvTimeout' = [tvTimeout EXCEPT ![e] = t]
      /\ holeIndex' = currSize
      /\ currSize' = currSize + 1
      /\ pTimerEvent' = e
      /\ UNCHANGED <<pHeap, timerMinHeapIndex>>
  BY SizeAssumption DEF InsertCall, IInv, TypeOK, Positions
<1>2. TypeOK'
  BY <1>1, SizeAssumption DEF IInv, TypeOK, Positions
<1>3. CallOK'
  BY <1>1 DEF CallOK, Removing
<1>4. /\ Filled = 0 .. currSize - 1
      /\ Filled' = Filled
  BY <1>1 DEF Filled, Last, Hole
<1>5. IndexExact'
  BY <1>1, <1>4, Zenon DEF IInv, IndexExact, Removing
<1>6. OrderOK'
  <2>1. \A i \in Filled : tvTimeout'[pHeap'[i]] = Due(i)
    <3>1. \A i \in Filled : pHeap[i] \in Events /\ pHeap[i] # e
      BY <1>1, <1>4 DEF IInv, IndexExact, NW_MIN_HEAP_INDEX_INVALID
    <3> QED BY <1>1, <3>1, Zenon DEF IInv, TypeOK, Due
  <2>2. ASSUME NEW i \in Filled, i > 0
        PROVE  NW_HEAP_PARENT_INDEX(i) < currSize
    <3>1. i \in Nat \ {0} /\ i < currSize
      BY <1>1, <1>4, <2>2
    <3> QED BY <1>1, <3>1, ParentFacts
  <2>3. \A i \in Filled : i > 0 => NW_HEAP_PARENT_INDEX(i) # holeIndex'
    BY <1>1, <1>4, <2>2, ParentFacts
  <2>4. \A i \in Filled' :
          i > 0 /\ NW_HEAP_PARENT_INDEX(i) \in Filled' =>
            tvTimeout'[pHeap'[NW_HEAP_PARENT_INDEX(i)]]
              <= tvTimeout'[pHeap'[i]]
    BY <1>4, <2>1, Zenon DEF IInv, OrderOK
  <2> QED BY <1>1, <1>4, <2>3, <2>4, Zenon DEF OrderOK, Due, Removing
<1> QED BY <1>2, <1>3, <1>5, <1>6, Zenon DEF IInv

(***************************************************************************)
(* nwGtpv2cTmrMinHeapInsert fills the hole with the new event.             *)
(***************************************************************************)
LEMMA InsertReturnIInv ==
  ASSUME IInv, InsertReturn
  PROVE  IInv'
<1>1. /\ pc = "insert" /\ pc' = "idle"
      /\ ~ ParentIsLater
      /\ pHeap' = [pHeap EXCEPT ![holeIndex] = pTimerEvent]
      /\ timerMinHeapIndex' =
           [timerMinHeapIndex EXCEPT ![pTimerEvent] = holeIndex]
      /\ UNCHANGED <<currSize, tvTimeout, holeIndex, pTimerEvent>>
  BY Zenon DEF InsertReturn
<1>2. /\ pTimerEvent \in Events /\ holeIndex < currSize
      /\ timerMinHeapIndex[pTimerEvent] = NW_MIN_HEAP_INDEX_INVALID
      /\ holeIndex \in Nat /\ currSize \in Nat
      /\ tvTimeout[pTimerEvent] \in Nat
  BY <1>1, TypeFacts, Zenon DEF IInv, CallOK
<1>3. TypeOK'
  BY <1>1, <1>2, SizeAssumption, Zenon DEF IInv, TypeOK, Positions
<1>4. CallOK'
  BY <1>1, Zenon DEF CallOK, Removing
<1>5. /\ Filled' = Filled \cup {holeIndex}
      /\ holeIndex \notin Filled
      /\ Filled \subseteq Positions
  BY <1>1, <1>2, SizeAssumption DEF Filled, Last, Hole, IInv, TypeOK, Positions
<1>6. IndexExact'
  <2>1. ASSUME NEW i \in Filled
        PROVE  /\ pHeap'[i] = pHeap[i] /\ pHeap[i] \in Events
               /\ pHeap[i] # pTimerEvent
               /\ timerMinHeapIndex[pHeap[i]] = i
    BY <1>1, <1>2, <1>5
       DEF IInv, TypeOK, IndexExact, Positions, NW_MIN_HEAP_INDEX_INVALID
  <2>2. \A i \in Filled' : /\ pHeap'[i] \in Events
                           /\ timerMinHeapIndex'[pHeap'[i]] = i
    BY <1>1, <1>2, <1>5, <2>1 DEF IInv, TypeOK
  <2>3. ASSUME NEW e \in Events,
               timerMinHeapIndex'[e] # NW_MIN_HEAP_INDEX_INVALID
        PROVE  timerMinHeapIndex'[e] \in Filled'
               /\ pHeap'[timerMinHeapIndex'[e]] = e
    BY <1>1, <1>2, <1>5, <2>1, <2>3, Zenon DEF IInv, TypeOK, IndexExact, Removing
  <2> QED BY <2>2, <2>3, Zenon DEF IndexExact
<1>7. OrderOK'
  <2> DEFINE D(i) == tvTimeout'[pHeap'[i]]
  <2>1. /\ D(holeIndex) = tvTimeout[pTimerEvent]
        /\ \A i \in Filled : D(i) = Due(i) /\ Due(i) \in Nat
    BY <1>1, <1>2, <1>5, TimesAssumption, Zenon DEF IInv, TypeOK, IndexExact, Due
  <2> HIDE DEF D
  <2>2. ASSUME NEW i \in Filled', i > 0, NW_HEAP_PARENT_INDEX(i) \in Filled'
        PROVE  D(NW_HEAP_PARENT_INDEX(i)) <= D(i)
    <3>1. CASE i = holeIndex
      <4>1. NW_HEAP_PARENT_INDEX(i) \in Filled
        BY <1>2, <1>5, <2>2, <3>1, ParentFacts
      <4> QED BY <1>1, <1>2, <2>1, <2>2, <3>1, <4>1 DEF ParentIsLater
    <3>2. CASE i # holeIndex
      BY <1>1, <1>5, <2>1, <2>2, <3>2, Zenon DEF IInv, OrderOK
    <3> QED BY <3>1, <3>2, Zenon
  <2> QED BY <1>1, <2>2, Zenon DEF OrderOK, D, Due, Removing
<1> QED BY <1>3, <1>4, <1>6, <1>7, Zenon DEF IInv

(***************************************************************************)
(* Entering nwGtpv2cTmrMinHeapRemove opens a hole at the event removed.    *)
(***************************************************************************)
LEMMA RemoveCallIInv ==
  ASSUME IInv, NEW e \in Events, RemoveCall(e)
  PROVE  IInv'
<1> DEFINE h == timerMinHeapIndex[e]
<1>1. /\ pc = "idle" /\ pc' = "down"
      /\ h # NW_MIN_HEAP_INDEX_INVALID /\ h < currSize
      /\ holeIndex' = h
      /\ timerMinHeapIndex' =
           [timerMinHeapIndex EXCEPT ![pHeap[h]] = NW_MIN_HEAP_INDEX_INVALID]
      /\ currSize' = currSize - 1
      /\ pTimerEvent' = pHeap[currSize - 1]
      /\ UNCHANGED <<pHeap, tvTimeout>>
  BY Zenon DEF RemoveCall
<1>2. h \in Filled /\ pHeap[h] = e
  BY <1>1, Zenon DEF IInv, IndexExact, Removing
<1>3. /\ Filled = 0 .. currSize - 1 /\ h \in Nat
      /\ currSize \in Nat /\ currSize < maxSize /\ currSize - 1 \in Filled
  BY <1>1, <1>2, TypeFacts DEF Filled, Last, Hole, IInv
<1>4. pHeap[currSize - 1] \in Events
  BY <1>3, Zenon DEF IInv, IndexExact
<1> HIDE DEF h
<1>5. TypeOK'
  BY <1>1, <1>2, <1>3, <1>4, SizeAssumption DEF IInv, TypeOK, Positions
<1>6. CallOK'
  <2>1. h < currSize - 1 => timerMinHeapIndex'[pTimerEvent'] = currSize - 1
    BY <1>1, <1>2, <1>3, <1>4 DEF IInv, TypeOK, IndexExact, h
  <2> QED BY <1>1, <1>3, <1>4, <2>1, SizeAssumption DEF CallOK, Removing
<1>7. Filled' = Filled \ {h}
  BY <1>1, <1>3, Zenon DEF Filled, Last, Hole
<1>8. IndexExact'
  <2>1. \A i \in Filled' : /\ pHeap'[i] \in Events
                           /\ timerMinHeapIndex'[pHeap'[i]] = i
    BY <1>1, <1>2, <1>7, Zenon DEF IInv, TypeOK, IndexExact, h
  <2>2. ASSUME NEW f \in Events,
               timerMinHeapIndex'[f] # NW_MIN_HEAP_INDEX_INVALID
        PROVE  timerMinHeapIndex'[f] \in Filled'
               /\ pHeap'[timerMinHeapIndex'[f]] = f
    BY <1>1, <1>2, <1>7, <2>2, Zenon DEF IInv, TypeOK, IndexExact, Removing
  <2> QED BY <2>1, <2>2, Zenon DEF IndexExact
<1>9. OrderOK'
  <2>1. \A i \in Filled : Due(i) \in Nat /\ tvTimeout'[pHeap'[i]] = Due(i)
    BY <1>1, TypeFacts, Zenon DEF IInv, IndexExact, Due
  <2>2. \A i \in Filled : i > 0 =>
          /\ NW_HEAP_PARENT_INDEX(i) \in Filled
          /\ Due(NW_HEAP_PARENT_INDEX(i)) <= Due(i)
    <3> SUFFICES ASSUME NEW i \in Filled, i > 0
                 PROVE  NW_HEAP_PARENT_INDEX(i) \in Filled
      BY Zenon DEF IInv, OrderOK
    <3>1. i \in Nat \ {0} /\ i < currSize
      BY <1>3
    <3>2. NW_HEAP_PARENT_INDEX(i) \in Nat /\ NW_HEAP_PARENT_INDEX(i) < i
      BY <3>1, ParentFacts, Zenon
    <3> QED BY <1>3, <3>1, <3>2
  <2>3. ASSUME NEW i \in Filled, i > 0, NW_HEAP_PARENT_INDEX(i) = h, h > 0
        PROVE  Due(NW_HEAP_PARENT_INDEX(h)) <= Due(i)
    BY <1>2, <2>1, <2>2, <2>3
  <2>4. ASSUME h = currSize - 1, h > 0
        PROVE  Due(NW_HEAP_PARENT_INDEX(h)) <= tvTimeout[pTimerEvent']
    BY <1>1, <1>2, <2>2, <2>4, Zenon DEF Due
  <2> DEFINE D(i) == tvTimeout'[pHeap'[i]]
  <2>5. \A i \in Filled' :
          i > 0 /\ NW_HEAP_PARENT_INDEX(i) \in Filled' =>
            D(NW_HEAP_PARENT_INDEX(i)) <= D(i)
    BY <1>7, <2>1, <2>2, Zenon
  <2>6. \A i \in Filled' :
          i > 0 /\ NW_HEAP_PARENT_INDEX(i) = holeIndex' /\ holeIndex' > 0 =>
            D(NW_HEAP_PARENT_INDEX(holeIndex')) <= D(i)
    BY <1>1, <1>2, <1>7, <2>1, <2>2, <2>3, Zenon
  <2>7. holeIndex' = currSize' /\ currSize' > 0 =>
          D(NW_HEAP_PARENT_INDEX(currSize')) <= tvTimeout'[pTimerEvent']
    BY <1>1, <1>2, <2>1, <2>2, <2>4, Zenon
  <2> QED BY <1>1, <2>5, <2>6, <2>7, Zenon DEF OrderOK, Due
<1> QED BY <1>5, <1>6, <1>8, <1>9, Zenon DEF IInv

(***************************************************************************)
(* A shift of the earlier child into the hole.                             *)
(***************************************************************************)
LEMMA SiftDownIInv ==
  ASSUME IInv, SiftDown
  PROVE  IInv'
<1> DEFINE h == holeIndex
           c == MinChild
<1>1. /\ pc = "down" /\ 2 * h + 2 <= currSize
      /\ pHeap' = [pHeap EXCEPT ![h] = pHeap[c]]
      /\ timerMinHeapIndex' = [timerMinHeapIndex EXCEPT ![pHeap[c]] = h]
      /\ holeIndex' = c
      /\ UNCHANGED <<currSize, tvTimeout, pc, pTimerEvent>>
  BY Zenon DEF SiftDown, ChildIsNotLater, Fill
<1>2. /\ h \in Nat /\ currSize \in Nat /\ currSize < maxSize
      /\ Filled = (0 .. currSize) \ {h}
      /\ pTimerEvent \in Events /\ pHeap[currSize] = pTimerEvent
  BY <1>1, TypeFacts, Zenon DEF IInv, CallOK, Removing, Filled, Last, Hole
<1>3. /\ c = 2 * h + 1 \/ c = 2 * h + 2
      /\ c \in Nat /\ h < c /\ c <= currSize /\ c \in Filled
      /\ NW_HEAP_PARENT_INDEX(c) = h
  <2>1. c = 2 * h + 1 \/ c = 2 * h + 2
    BY Zenon DEF MinChild
  <2> HIDE DEF c
  <2> QED BY <1>1, <1>2, <2>1, ParentFacts
<1>4. \A i \in Filled : pHeap[i] \in Events /\ Due(i) \in Nat
                        /\ timerMinHeapIndex[pHeap[i]] = i
  BY TypeFacts, Zenon DEF IInv, IndexExact, Due
<1>5. \A i \in {2 * h + 1, 2 * h + 2} : Due(c) <= Due(i)
  <2>1. 2 * h + 1 \in Filled /\ 2 * h + 2 \in Filled
    BY <1>1, <1>2
  <2> QED BY <1>4, <2>1 DEF MinChild
<1> HIDE DEF c
<1>6. TypeOK'
  BY <1>1, <1>2, <1>3, <1>4, SizeAssumption DEF IInv, TypeOK, Positions
<1>7. CallOK'
  <2>1. timerMinHeapIndex[pTimerEvent] = currSize
    BY <1>1, <1>2 DEF IInv, CallOK, Removing
  <2>2. c < currSize => timerMinHeapIndex'[pTimerEvent] = currSize
    BY <1>1, <1>2, <1>3, <1>4, <2>1 DEF IInv, TypeOK
  <2>3. pHeap'[currSize] = pTimerEvent
    BY <1>1, <1>2
  <2> QED BY <1>1, <1>2, <1>3, <2>2, <2>3, Zenon DEF IInv, CallOK, Removing
<1>8. Filled' = (Filled \cup {h}) \ {c}
  BY <1>1, <1>2, <1>3 DEF Filled, Last, Hole
<1>9. IndexExact'
  <2>1. ASSUME NEW i \in Filled'
        PROVE  pHeap'[i] \in Events /\ timerMinHeapIndex'[pHeap'[i]] = i
    <3>1. CASE i = h
      BY <1>1, <1>3, <1>4, <3>1, Zenon DEF IInv, TypeOK
    <3>2. CASE i # h
      <4>1. i \in Filled /\ i # c
        BY <1>8, <3>2, Zenon
      <4>2. pHeap'[i] = pHeap[i] /\ pHeap[i] # pHeap[c]
        BY <1>1, <1>3, <1>4, <3>2, <4>1, <1>2, SizeAssumption
           DEF IInv, TypeOK, Positions
      <4> QED BY <1>1, <1>4, <4>1, <4>2, Zenon DEF IInv, TypeOK
    <3> QED BY <3>1, <3>2, Zenon
  <2>2. ASSUME NEW e \in Events,
               timerMinHeapIndex'[e] # NW_MIN_HEAP_INDEX_INVALID
        PROVE  \/ /\ timerMinHeapIndex'[e] \in Filled'
                  /\ pHeap'[timerMinHeapIndex'[e]] = e
               \/ Removing' /\ holeIndex' < currSize' /\ e = pTimerEvent'
    <3>1. CASE e = pHeap[c]
      BY <1>1, <1>3, <1>4, <1>8, <3>1, <1>2, Zenon DEF IInv, TypeOK
    <3>2. CASE e # pHeap[c]
      <4>1. timerMinHeapIndex'[e] = timerMinHeapIndex[e]
        BY <1>1, <3>2, Zenon DEF IInv, TypeOK
      <4>2. CASE /\ timerMinHeapIndex[e] \in Filled
                 /\ pHeap[timerMinHeapIndex[e]] = e
        BY <1>1, <1>2, <1>8, <3>2, <4>1, <4>2 DEF IInv, TypeOK
      <4>3. CASE Removing /\ holeIndex < currSize /\ e = pTimerEvent
        BY <1>1, <1>2, <1>3, <3>2, <4>3 DEF Removing
      <4> QED BY <2>2, <4>1, <4>2, <4>3, Zenon DEF IInv, IndexExact
    <3> QED BY <3>1, <3>2, Zenon
  <2> QED BY <2>1, <2>2, Zenon DEF IndexExact
<1>10. OrderOK'
  <2> DEFINE D(i) == tvTimeout'[pHeap'[i]]
  <2>1. /\ D(h) = Due(c)
        /\ \A i \in Filled : D(i) = Due(i)
    BY <1>1, <1>2, <1>3, SizeAssumption DEF IInv, TypeOK, Due, Positions
  <2> HIDE DEF D
  <2>2. ASSUME NEW i \in Filled', i > 0, NW_HEAP_PARENT_INDEX(i) \in Filled'
        PROVE  D(NW_HEAP_PARENT_INDEX(i)) <= D(i)
    <3>1. i \in Nat \ {0} /\ NW_HEAP_PARENT_INDEX(i) < i
      BY <1>2, <1>8, <2>2, ParentFacts
    <3>2. CASE i = h
      <4>1. Due(NW_HEAP_PARENT_INDEX(h)) <= Due(c)
        BY <1>1, <1>2, <1>3, <2>2, <3>2 DEF IInv, OrderOK
      <4>2. NW_HEAP_PARENT_INDEX(h) \in Filled
        BY <1>8, <2>2, <3>1, <3>2
      <4> QED BY <2>1, <3>2, <4>1, <4>2, Zenon
    <3>3. CASE NW_HEAP_PARENT_INDEX(i) = h
      <4>1. i = 2 * h + 1 \/ i = 2 * h + 2
        BY <3>1, <3>3, ParentFacts, Zenon
      <4>2. i \in Filled
        BY <1>8, <2>2, <3>1, <3>3
      <4> QED BY <1>5, <2>1, <3>3, <4>1, <4>2, Zenon
    <3>4. CASE i # h /\ NW_HEAP_PARENT_INDEX(i) # h
      <4>1. i \in Filled /\ NW_HEAP_PARENT_INDEX(i) \in Filled
        BY <1>8, <2>2, <3>4, Zenon
      <4> QED BY <2>1, <2>2, <4>1, Zenon DEF IInv, OrderOK
    <3> QED BY <3>2, <3>3, <3>4, Zenon
  <2>3. ASSUME NEW i \in Filled', i > 0, NW_HEAP_PARENT_INDEX(i) = c
        PROVE  D(NW_HEAP_PARENT_INDEX(c)) <= D(i)
    <3>1. i \in Nat \ {0} /\ c < i
      BY <1>2, <1>8, <2>3, ParentFacts
    <3>2. i \in Filled
      BY <1>3, <1>8, <3>1, <1>2
    <3> QED BY <1>3, <2>1, <2>3, <3>2, Zenon DEF IInv, OrderOK
  <2>4. ASSUME c = currSize
        PROVE  D(NW_HEAP_PARENT_INDEX(currSize)) <= tvTimeout[pTimerEvent]
    BY <1>2, <1>3, <1>4, <2>1, <2>4 DEF Due
  <2> QED BY <1>1, <2>2, <2>3, <2>4, Zenon DEF OrderOK, D, Due
<1> QED BY <1>6, <1>7, <1>9, <1>10, Zenon DEF IInv

(***************************************************************************)
(* The first loop of a removal ends above children that are all later than *)
(* the event in hand.                                                      *)
(***************************************************************************)
LEMMA SiftDoneIInv ==
  ASSUME IInv, SiftDone
  PROVE  IInv'
<1>1. /\ pc = "down" /\ pc' = "up" /\ ~ ChildIsNotLater
      /\ UNCHANGED <<pHeap, currSize, tvTimeout, timerMinHeapIndex, holeIndex,
                     pTimerEvent>>
  BY Zenon DEF SiftDone
<1>2. TypeOK' /\ CallOK'
  BY <1>1, Zenon DEF IInv, TypeOK, CallOK, Removing
<1>3. /\ holeIndex \in Nat /\ currSize \in Nat /\ holeIndex <= currSize
      /\ pTimerEvent \in Events /\ pHeap[currSize] = pTimerEvent
      /\ tvTimeout[pTimerEvent] \in Nat
  BY <1>1, TypeFacts, Zenon DEF IInv, CallOK, Removing
<1>4. /\ Filled = (0 .. currSize) \ {holeIndex}
      /\ Filled' = Filled \ {currSize}
  BY <1>1, <1>3 DEF Filled, Last, Hole
<1>5. IndexExact'
  <2>1. \A i \in Filled' : /\ pHeap'[i] \in Events
                           /\ timerMinHeapIndex'[pHeap'[i]] = i
    BY <1>1, <1>4, Zenon DEF IInv, IndexExact
  <2>2. ASSUME NEW e \in Events,
               timerMinHeapIndex[e] # NW_MIN_HEAP_INDEX_INVALID
        PROVE  \/ /\ timerMinHeapIndex[e] \in Filled'
                  /\ pHeap[timerMinHeapIndex[e]] = e
               \/ holeIndex < currSize /\ e = pTimerEvent
    BY <1>3, <1>4, <2>2 DEF IInv, IndexExact
  <2> QED BY <1>1, <2>1, <2>2, Zenon DEF IndexExact, Removing
<1>6. OrderOK'
  <2>1. \A i \in Filled : Due(i) \in Nat
    BY TypeFacts, Zenon DEF IInv, IndexExact, Due
  <2>2. ASSUME NEW i \in Filled', i > 0, NW_HEAP_PARENT_INDEX(i) = holeIndex
        PROVE  tvTimeout[pTimerEvent] <= Due(i)
    <3>1. i \in Nat \ {0} /\ i < currSize /\ i \in Filled
      BY <1>3, <1>4, <2>2
    <3>2. i = 2 * holeIndex + 1 \/ i = 2 * holeIndex + 2
      BY <2>2, <3>1, ParentFacts, Zenon
    <3>3. 2 * holeIndex + 2 <= currSize
      BY <1>3, <3>1, <3>2
    <3>4. 2 * holeIndex + 1 \in Filled /\ 2 * holeIndex + 2 \in Filled
      BY <1>3, <1>4, <3>3
    <3>5. tvTimeout[pTimerEvent] < Due(MinChild)
      BY <1>1, <3>3, Zenon DEF ChildIsNotLater
    <3> QED BY <1>3, <2>1, <3>2, <3>4, <3>5 DEF MinChild
  <2>3. \A i \in Filled' :
          i > 0 /\ NW_HEAP_PARENT_INDEX(i) \in Filled' =>
            Due(NW_HEAP_PARENT_INDEX(i)) <= Due(i)
    BY <1>4, Zenon DEF IInv, OrderOK
  <2>4. \A i \in Filled' :
          i > 0 /\ NW_HEAP_PARENT_INDEX(i) = holeIndex /\ holeIndex > 0 =>
            Due(NW_HEAP_PARENT_INDEX(holeIndex)) <= Due(i)
    BY <1>1, <1>4, Zenon DEF IInv, OrderOK
  <2>5. holeIndex = currSize /\ currSize > 0 =>
          Due(NW_HEAP_PARENT_INDEX(currSize)) <= tvTimeout[pTimerEvent]
    BY <1>1, Zenon DEF IInv, OrderOK, Removing
  <2> QED BY <1>1, <2>2, <2>3, <2>4, <2>5, Zenon DEF OrderOK, Due
<1> QED BY <1>2, <1>5, <1>6, Zenon DEF IInv

(***************************************************************************)
(* nwGtpv2cTmrMinHeapRemove fills the hole, unless it has reached the      *)
(* position past the end, and clears that position.                        *)
(***************************************************************************)
LEMMA RemoveReturnIInv ==
  ASSUME IInv, RemoveReturn
  PROVE  IInv'
<1> DEFINE refill == holeIndex < currSize
<1>1. /\ pc = "up" /\ pc' = "idle" /\ ~ ParentIsLater
      /\ pHeap' = [i \in Positions |->
                     IF i = currSize THEN NULL
                     ELSE IF refill /\ i = holeIndex THEN pTimerEvent
                     ELSE pHeap[i]]
      /\ timerMinHeapIndex' =
           IF refill
           THEN [timerMinHeapIndex EXCEPT ![pTimerEvent] = holeIndex]
           ELSE timerMinHeapIndex
      /\ UNCHANGED <<currSize, tvTimeout, holeIndex, pTimerEvent>>
  BY Zenon DEF RemoveReturn
<1>2. /\ holeIndex \in Nat /\ currSize \in Nat /\ holeIndex <= currSize
      /\ currSize < maxSize
      /\ pTimerEvent \in Events /\ tvTimeout[pTimerEvent] \in Nat
      /\ refill => timerMinHeapIndex[pTimerEvent] = currSize
  BY <1>1, TypeFacts, Zenon DEF IInv, CallOK, Removing
<1>3. TypeOK'
  <2>1. pHeap' \in [Positions -> Events \cup {NULL}]
    BY <1>1, <1>2, Zenon DEF IInv, TypeOK
  <2>2. timerMinHeapIndex' \in
          [Events -> Positions \cup {NW_MIN_HEAP_INDEX_INVALID}]
    BY <1>1, <1>2, Zenon DEF IInv, TypeOK
  <2> QED BY <1>1, <2>1, <2>2, Zenon DEF IInv, TypeOK
<1>4. CallOK'
  BY <1>1, Zenon DEF CallOK, Removing
<1>5. /\ Filled = (0 .. currSize - 1) \ {holeIndex}
      /\ Filled' = 0 .. currSize - 1
      /\ Filled' = IF refill THEN Filled \cup {holeIndex} ELSE Filled
  <2>1. /\ Filled = (0 .. currSize - 1) \ {holeIndex}
        /\ Filled' = 0 .. currSize - 1
    BY <1>1, Zenon DEF Filled, Last, Hole
  <2>2. CASE refill
    BY <1>2, <2>1, <2>2
  <2>3. CASE ~ refill
    <3>1. holeIndex = currSize
      BY <1>2, <2>3
    <3>2. holeIndex \notin 0 .. currSize - 1
      BY <1>2, <3>1
    <3> QED BY <2>1, <2>3, <3>2, Zenon
  <2> QED BY <2>1, <2>2, <2>3, Zenon
<1>6. ASSUME NEW i \in Filled
      PROVE  /\ pHeap'[i] = pHeap[i] /\ pHeap[i] \in Events
             /\ refill => pHeap[i] # pTimerEvent
             /\ timerMinHeapIndex[pHeap[i]] = i /\ Due(i) \in Nat
  <2>1. /\ pHeap[i] \in Events /\ timerMinHeapIndex[pHeap[i]] = i
        /\ Due(i) \in Nat /\ i \in Positions /\ i # currSize
    BY <1>2, <1>5, TypeFacts, SizeAssumption DEF IInv, IndexExact, Due, Positions
  <2> QED BY <1>1, <1>2, <1>5, <2>1, Zenon
<1>7. refill => pHeap'[holeIndex] = pTimerEvent
  BY <1>1, <1>2, SizeAssumption DEF Positions
<1>8. IndexExact'
  <2>1. ASSUME NEW i \in Filled'
        PROVE  pHeap'[i] \in Events /\ timerMinHeapIndex'[pHeap'[i]] = i
    <3>1. timerMinHeapIndex \in [Events -> Positions \cup {NW_MIN_HEAP_INDEX_INVALID}]
      BY Zenon DEF IInv, TypeOK
    <3>2. CASE i \in Filled
      <4>1. /\ pHeap'[i] = pHeap[i] /\ pHeap[i] \in Events
            /\ refill => pHeap[i] # pTimerEvent
            /\ timerMinHeapIndex[pHeap[i]] = i
        BY <1>6, <3>2, Zenon
      <4> QED BY <1>1, <3>1, <4>1, Zenon
    <3>3. CASE i \notin Filled
      <4>1. refill /\ i = holeIndex
        BY <1>5, <3>3, Zenon
      <4> QED BY <1>1, <1>2, <1>7, <3>1, <4>1, Zenon
    <3> QED BY <3>2, <3>3, Zenon
  <2>2. ASSUME NEW e \in Events,
               timerMinHeapIndex'[e] # NW_MIN_HEAP_INDEX_INVALID
        PROVE  timerMinHeapIndex'[e] \in Filled'
               /\ pHeap'[timerMinHeapIndex'[e]] = e
    <3>1. CASE refill /\ e = pTimerEvent
      BY <1>1, <1>2, <1>5, <1>7, <3>1, Zenon DEF IInv, TypeOK
    <3>2. CASE ~ (refill /\ e = pTimerEvent)
      <4>1. timerMinHeapIndex'[e] = timerMinHeapIndex[e]
        BY <1>1, <3>2, Zenon DEF IInv, TypeOK
      <4>2. timerMinHeapIndex[e] \in Filled /\ pHeap[timerMinHeapIndex[e]] = e
        BY <2>2, <3>2, <4>1, Zenon DEF IInv, IndexExact
      <4> QED BY <1>5, <1>6, <4>1, <4>2, Zenon
    <3> QED BY <3>1, <3>2, Zenon
  <2> QED BY <2>1, <2>2, Zenon DEF IndexExact
<1>9. OrderOK'
  <2> DEFINE D(i) == tvTimeout'[pHeap'[i]]
  <2>1. /\ refill => D(holeIndex) = tvTimeout[pTimerEvent]
        /\ \A i \in Filled : D(i) = Due(i)
    BY <1>1, <1>6, <1>7, Zenon DEF Due
  <2> HIDE DEF D
  <2>2. ASSUME NEW i \in Filled', i > 0, NW_HEAP_PARENT_INDEX(i) \in Filled'
        PROVE  D(NW_HEAP_PARENT_INDEX(i)) <= D(i)
    <3>1. /\ i \in Nat \ {0} /\ NW_HEAP_PARENT_INDEX(i) \in Nat
          /\ NW_HEAP_PARENT_INDEX(i) < i
      <4>1. i \in Nat \ {0}
        BY <1>2, <1>5, <2>2
      <4> QED BY <4>1, ParentFacts, Zenon
    <3>2. CASE refill /\ i = holeIndex
      <4>1. NW_HEAP_PARENT_INDEX(i) \in Filled
        BY <1>5, <2>2, <3>1, <3>2
      <4> QED BY <1>1, <1>2, <1>6, <2>1, <2>2, <3>2, <4>1, SMTT(30) DEF ParentIsLater
    <3>3. CASE refill /\ NW_HEAP_PARENT_INDEX(i) = holeIndex
      <4>1. i \in Filled
        BY <1>5, <2>2, <3>1, <3>3
      <4> QED BY <1>1, <2>1, <2>2, <3>3, <4>1, Zenon DEF IInv, OrderOK
    <3>4. CASE i \in Filled /\ NW_HEAP_PARENT_INDEX(i) \in Filled
      BY <2>1, <2>2, <3>4, Zenon DEF IInv, OrderOK
    <3> QED BY <1>5, <2>2, <3>2, <3>3, <3>4, Zenon
  <2> QED BY <1>1, <2>2, Zenon DEF OrderOK, D, Due, Removing
<1> QED BY <1>3, <1>4, <1>8, <1>9, Zenon DEF IInv

(***************************************************************************)
(* Every step of the heap keeps the invariant.                             *)
(***************************************************************************)
LEMMA NextIInv == IInv /\ [Next]_vars => IInv'
<1> SUFFICES ASSUME IInv, [Next]_vars PROVE IInv'
  BY Zenon
<1>1. ASSUME NEW e \in Events, NEW t \in Times, InsertCall(e, t) PROVE IInv'
  BY <1>1, InsertCallIInv, Zenon
<1>2. CASE InsertUp
  BY <1>2, BubbleUpIInv, Zenon DEF InsertUp
<1>3. CASE InsertReturn
  BY <1>3, InsertReturnIInv, Zenon
<1>4. ASSUME NEW e \in Events, RemoveCall(e) PROVE IInv'
  BY <1>4, RemoveCallIInv, Zenon
<1>5. CASE SiftDown
  BY <1>5, SiftDownIInv, Zenon
<1>6. CASE SiftDone
  BY <1>6, SiftDoneIInv, Zenon
<1>7. CASE RemoveUp
  BY <1>7, BubbleUpIInv, Zenon DEF RemoveUp
<1>8. CASE RemoveReturn
  BY <1>8, RemoveReturnIInv, Zenon
<1>9. CASE UNCHANGED vars
  BY <1>9, ZenonT(30)
  DEF vars, IInv, TypeOK, CallOK, IndexExact, OrderOK, Filled, Last, Hole,
     Removing, Due
<1> QED BY <1>1, <1>2, <1>3, <1>4, <1>5, <1>6, <1>7, <1>8, <1>9, Zenon DEF Next

(***************************************************************************)
(* The inductive invariant holds of every behaviour of the heap.           *)
(***************************************************************************)
THEOREM InvariantHolds == Spec => []IInv
BY InitIInv, NextIInv, PTL DEF Spec

(***************************************************************************)
(* Whatever the calls of the stack on its timer heap, every variable of    *)
(* the heap keeps its type and no position leaves the array.               *)
(***************************************************************************)
THEOREM TypeCorrect == Spec => []TypeOK
<1>1. IInv => TypeOK
  BY Zenon DEF IInv
<1> QED BY <1>1, InvariantHolds, PTL

(***************************************************************************)
(* Between calls and at every turn of their loops the positions of the     *)
(* heap hold events, and timerMinHeapIndex of an event is where it stands. *)
(***************************************************************************)
THEOREM IndexIsExact == Spec => []IndexExact
<1>1. IInv => IndexExact
  BY Zenon DEF IInv
<1> QED BY <1>1, InvariantHolds, PTL

(***************************************************************************)
(* Between calls no event is due before its parent.                        *)
(***************************************************************************)
THEOREM HeapIsOrdered == Spec => []HeapOrder
<1>1. IInv => HeapOrder
  <2> SUFFICES ASSUME IInv, pc = "idle", NEW i \in 1 .. currSize - 1
               PROVE  Due(NW_HEAP_PARENT_INDEX(i)) <= Due(i)
    BY Zenon DEF HeapOrder
  <2>1. Filled = 0 .. currSize - 1 /\ currSize \in Nat
    BY TypeFacts, Zenon DEF Filled, Last, Hole, IInv
  <2>2. /\ i \in Filled /\ i > 0 /\ i \in Nat \ {0}
        /\ NW_HEAP_PARENT_INDEX(i) \in Nat /\ NW_HEAP_PARENT_INDEX(i) < i
    <3>1. i \in Filled /\ i > 0 /\ i \in Nat \ {0}
      BY <2>1
    <3> QED BY <3>1, ParentFacts, Zenon
  <2>3. NW_HEAP_PARENT_INDEX(i) \in Filled
    BY <2>1, <2>2
  <2> QED BY <2>2, <2>3, Zenon DEF IInv, OrderOK
<1> QED BY <1>1, InvariantHolds, PTL

(***************************************************************************)
(* A non-empty set of natural numbers has a least element.                 *)
(***************************************************************************)
LEMMA LeastNat ==
  ASSUME NEW T, T \subseteq Nat, T # {}
  PROVE  \E m \in T : \A n \in T : m <= n
<1> DEFINE R == OpToRel(<, Nat)
<1>1. PICK m \in T : \A n \in T : ~ (<<n, m>> \in R)
  BY NatLessThanWellFounded, WFMin, Zenon
<1>2. \A n \in T : ~ (n < m)
  BY <1>1, Zenon DEF OpToRel
<1> HIDE DEF R
<1>3. m \in Nat /\ \A n \in T : n \in Nat
  BY Zenon
<1>4. \A n \in T : m <= n
  BY <1>2, <1>3
<1> QED BY <1>4, Zenon

(***************************************************************************)
(* Between calls nwGtpv2cTmrMinHeapPeek returns an event that is due no    *)
(* later than any other: an event due before the root would have a parent  *)
(* due before the root, so the least position of one cannot exist.         *)
(***************************************************************************)
THEOREM PeekFindsEarliest == Spec => []PeekIsEarliest
<1>1. IInv => PeekIsEarliest
  <2> SUFFICES ASSUME IInv, pc = "idle", currSize > 0
               PROVE  \A i \in 0 .. currSize - 1 : tvTimeout[Peek] <= Due(i)
    BY Zenon DEF PeekIsEarliest
  <2> DEFINE T == {i \in 0 .. currSize - 1 : Due(i) < Due(0)}
  <2>1. /\ Filled = 0 .. currSize - 1 /\ currSize \in Nat
        /\ 0 \in Filled /\ Filled \subseteq Nat
    BY TypeFacts DEF Filled, Last, Hole, IInv
  <2>2. \A i \in Filled : Due(i) \in Nat
    BY TypeFacts, Zenon DEF IInv, IndexExact, Due
  <2>3. T = {}
    <3> SUFFICES ASSUME T # {} PROVE FALSE
      BY Zenon
    <3>1. T \subseteq Nat
      BY <2>1, Zenon
    <3>2. PICK m \in T : \A n \in T : m <= n
      BY <3>1, LeastNat, Zenon
    <3>3. /\ m \in Filled /\ Due(m) < Due(0)
          /\ m \in Nat /\ m < currSize
      BY <2>1
    <3>4. m # 0
      BY <2>1, <2>2, <3>3
    <3>5. /\ NW_HEAP_PARENT_INDEX(m) \in Nat
          /\ NW_HEAP_PARENT_INDEX(m) < m
      BY <3>3, <3>4, ParentFacts, Zenon
    <3>6. NW_HEAP_PARENT_INDEX(m) \in Filled
      BY <2>1, <3>3, <3>5
    <3>7. Due(NW_HEAP_PARENT_INDEX(m)) <= Due(m)
      BY <3>3, <3>4, <3>6 DEF IInv, OrderOK
    <3>8. NW_HEAP_PARENT_INDEX(m) \in T
      BY <2>1, <2>2, <3>3, <3>6, <3>7
    <3> QED BY <3>2, <3>3, <3>5, <3>8
  <2> QED BY <2>1, <2>2, <2>3 DEF Peek, Due
<1> QED BY <1>1, InvariantHolds, PTL

-----------------------------------------------------------------------------
\* The events of the heap, told by the positions they note.
Noted == {e \in Events : \/ timerMinHeapIndex[e] # NW_MIN_HEAP_INDEX_INVALID
                         \/ pc = "insert" /\ e = pTimerEvent}

LEMMA ContentsNoted ==
  ASSUME IInv
  PROVE  Contents = Noted
<1> DEFINE P == (0 .. currSize - 1) \ Hole
<1>1. /\ currSize \in Nat /\ holeIndex \in Nat
      /\ \A i \in P : pHeap[i] \in Noted
  <2>1. currSize \in Nat /\ holeIndex \in Nat
    BY TypeFacts, Zenon DEF IInv
  <2>2. P \subseteq Filled /\ P \subseteq Nat
    BY <2>1 DEF Filled, Last
  <2> QED BY <2>1, <2>2 DEF IInv, IndexExact, Noted, NW_MIN_HEAP_INDEX_INVALID
<1>2. InHand \subseteq Noted
  <2> SUFFICES ASSUME pc # "idle", holeIndex < currSize
               PROVE  pTimerEvent \in Noted
    BY Zenon DEF InHand
  <2>1. pTimerEvent \in Events
    BY Zenon DEF IInv, CallOK
  <2>2. CASE pc = "insert"
    BY <2>1, <2>2, Zenon DEF Noted
  <2>3. CASE Removing
    BY <1>1, <2>1, <2>3 DEF Noted, IInv, CallOK, NW_MIN_HEAP_INDEX_INVALID
  <2> QED BY <2>2, <2>3, Zenon DEF IInv, TypeOK, Removing
<1>3. ASSUME NEW e \in Noted PROVE e \in Contents
  <2>1. CASE pc = "insert" /\ e = pTimerEvent
    BY <2>1, Zenon DEF Contents, InHand, IInv, CallOK
  <2>2. CASE timerMinHeapIndex[e] # NW_MIN_HEAP_INDEX_INVALID
    <3>1. CASE Removing /\ holeIndex < currSize /\ e = pTimerEvent
      BY <3>1, Zenon DEF Contents, InHand, Removing
    <3>2. CASE ~ (Removing /\ holeIndex < currSize /\ e = pTimerEvent)
      <4>1. timerMinHeapIndex[e] \in Filled /\ pHeap[timerMinHeapIndex[e]] = e
        BY <2>2, <3>2, Zenon DEF IInv, IndexExact, Noted
      <4>2. timerMinHeapIndex[e] \in P
        <5>1. CASE pc = "down"
          <6>1. holeIndex = currSize => timerMinHeapIndex[e] # currSize
            BY <4>1, <5>1, Zenon DEF Filled, Hole
          <6>2. holeIndex < currSize => timerMinHeapIndex[e] # currSize
            BY <3>2, <4>1, <5>1, Zenon DEF IInv, CallOK, Removing
          <6>3. holeIndex <= currSize
            BY <5>1, Zenon DEF IInv, CallOK, Removing
          <6> QED BY <1>1, <4>1, <5>1, <6>1, <6>2, <6>3 DEF Filled, Last
        <5>2. CASE pc # "down"
          BY <4>1, <5>2, Zenon DEF Filled, Last
        <5> QED BY <5>1, <5>2, Zenon
      <4> QED BY <4>1, <4>2, Zenon DEF Contents
    <3> QED BY <3>1, <3>2, Zenon
  <2> QED BY <2>1, <2>2, Zenon DEF Noted
<1> QED BY <1>1, <1>2, <1>3, Zenon DEF Contents

(***************************************************************************)
(* A turn of a loop moves an event that already notes a position.          *)
(***************************************************************************)
LEMMA FillKeepsNoted ==
  ASSUME IInv, NEW i \in Filled, Fill(i), UNCHANGED <<pc, pTimerEvent>>
  PROVE  Noted' = Noted
<1>1. /\ pHeap[i] \in Events /\ timerMinHeapIndex[pHeap[i]] = i
      /\ i \in Nat /\ holeIndex \in Nat
  BY TypeFacts, SMTT(30) DEF IInv, IndexExact, Filled, Last
<1>2. timerMinHeapIndex' = [timerMinHeapIndex EXCEPT ![pHeap[i]] = holeIndex]
  BY Zenon DEF Fill
<1> QED BY <1>1, <1>2 DEF Noted, IInv, TypeOK, NW_MIN_HEAP_INDEX_INVALID

LEMMA SourceOfFill ==
  ASSUME IInv
  PROVE  /\ pc \in {"insert", "up"} /\ ParentIsLater =>
              NW_HEAP_PARENT_INDEX(holeIndex) \in Filled
         /\ pc = "down" /\ ChildIsNotLater => MinChild \in Filled
<1>1. holeIndex \in Nat /\ currSize \in Nat
  BY TypeFacts, Zenon DEF IInv
<1>2. ASSUME pc \in {"insert", "up"}, ParentIsLater
      PROVE  NW_HEAP_PARENT_INDEX(holeIndex) \in Filled
  <2>1. holeIndex > 0 /\ holeIndex <= currSize
    BY <1>1, <1>2 DEF IInv, CallOK, Removing, ParentIsLater
  <2>2. /\ NW_HEAP_PARENT_INDEX(holeIndex) \in Nat
        /\ NW_HEAP_PARENT_INDEX(holeIndex) < holeIndex
    BY <1>1, <2>1, ParentFacts
  <2> QED BY <1>1, <1>2, <2>1, <2>2 DEF Filled, Last, Hole
<1>3. ASSUME pc = "down", ChildIsNotLater
      PROVE  MinChild \in Filled
  <2>1. 2 * holeIndex + 2 <= currSize
    BY <1>3, Zenon DEF ChildIsNotLater
  <2>2. MinChild \in {2 * holeIndex + 1, 2 * holeIndex + 2}
    BY Zenon DEF MinChild
  <2> QED BY <1>1, <1>3, <2>1, <2>2 DEF Filled, Last, Hole
<1> QED BY <1>2, <1>3, Zenon

(***************************************************************************)
(* Every step of the heap is a step of the queue of events, or leaves the  *)
(* queue alone.                                                            *)
(***************************************************************************)
LEMMA StepSimulation ==
  ASSUME IInv, IInv', [Next]_vars
  PROVE  [Queue!Next]_(Queue!vars)
<1>1. Contents = Noted /\ Contents' = Noted'
  <2>1. Contents = Noted
    BY ContentsNoted, Zenon
  <2>2. (Contents = Noted)'
    BY ContentsNoted, PTL
  <2> QED BY <2>1, <2>2, Zenon
<1>2. ASSUME NEW e \in Events, NEW t \in Times, InsertCall(e, t)
      PROVE  Queue!Insert(e, t)
  <2>1. /\ pc = "idle" /\ pc' = "insert" /\ pTimerEvent' = e
        /\ timerMinHeapIndex[e] = NW_MIN_HEAP_INDEX_INVALID
        /\ tvTimeout' = [tvTimeout EXCEPT ![e] = t]
        /\ UNCHANGED timerMinHeapIndex
    BY <1>2, Zenon DEF InsertCall
  <2>2. e \notin Noted /\ Noted' = Noted \cup {e}
    BY <2>1, Zenon DEF Noted
  <2> QED BY <1>1, <2>1, <2>2, Zenon DEF Queue!Insert
<1>3. ASSUME NEW e \in Events, RemoveCall(e)
      PROVE  Queue!Remove(e)
  <2>1. /\ pc = "idle" /\ pc' = "down" /\ UNCHANGED tvTimeout
        /\ timerMinHeapIndex[e] # NW_MIN_HEAP_INDEX_INVALID
        /\ timerMinHeapIndex' =
             [timerMinHeapIndex EXCEPT
                ![pHeap[timerMinHeapIndex[e]]] = NW_MIN_HEAP_INDEX_INVALID]
    BY <1>3, Zenon DEF RemoveCall
  <2>2. pHeap[timerMinHeapIndex[e]] = e
    BY <2>1, Zenon DEF IInv, IndexExact, Removing
  <2>3. e \in Noted /\ Noted' = Noted \ {e}
    BY <2>1, <2>2, Zenon DEF Noted, IInv, TypeOK
  <2> QED BY <1>1, <2>1, <2>3, Zenon DEF Queue!Remove
<1>4. CASE InsertUp \/ RemoveUp
  <2>1. Noted' = Noted /\ UNCHANGED tvTimeout
    BY <1>4, SourceOfFill, FillKeepsNoted, Zenon DEF InsertUp, RemoveUp, BubbleUp
  <2> QED BY <1>1, <2>1, Zenon DEF Queue!vars
<1>5. CASE SiftDown
  <2>1. Noted' = Noted /\ UNCHANGED tvTimeout
    BY <1>5, SourceOfFill, FillKeepsNoted, Zenon DEF SiftDown
  <2> QED BY <1>1, <2>1, Zenon DEF Queue!vars
<1>6. CASE SiftDone
  <2>1. Noted' = Noted /\ UNCHANGED tvTimeout
    BY <1>6, Zenon DEF SiftDone, Noted
  <2> QED BY <1>1, <2>1, Zenon DEF Queue!vars
<1>7. CASE InsertReturn
  <2>1. /\ pc = "insert" /\ pc' = "idle" /\ UNCHANGED tvTimeout
        /\ timerMinHeapIndex' =
             [timerMinHeapIndex EXCEPT ![pTimerEvent] = holeIndex]
        /\ pTimerEvent \in Events /\ holeIndex \in Nat
    BY <1>7, TypeFacts, Zenon DEF InsertReturn, IInv, CallOK
  <2>2. Noted' = Noted
    BY <2>1 DEF Noted, IInv, TypeOK, NW_MIN_HEAP_INDEX_INVALID
  <2> QED BY <1>1, <2>1, <2>2, Zenon DEF Queue!vars
<1>8. CASE RemoveReturn
  <2>1. /\ pc = "up" /\ pc' = "idle" /\ UNCHANGED tvTimeout
        /\ timerMinHeapIndex' =
             IF holeIndex < currSize
             THEN [timerMinHeapIndex EXCEPT ![pTimerEvent] = holeIndex]
             ELSE timerMinHeapIndex
        /\ pTimerEvent \in Events /\ holeIndex \in Nat /\ currSize \in Nat
        /\ holeIndex < currSize => timerMinHeapIndex[pTimerEvent] = currSize
    BY <1>8, TypeFacts, Zenon DEF RemoveReturn, IInv, CallOK, Removing
  <2>2. Noted' = Noted
    BY <2>1 DEF Noted, IInv, TypeOK, NW_MIN_HEAP_INDEX_INVALID
  <2> QED BY <1>1, <2>1, <2>2, Zenon DEF Queue!vars
<1>9. CASE UNCHANGED vars
  BY <1>9, Zenon DEF vars, Queue!vars, Contents, Hole, InHand
<1> QED
  BY <1>2, <1>3, <1>4, <1>5, <1>6, <1>7, <1>8, <1>9, Zenon DEF Next, Queue!Next

(***************************************************************************)
(* The heap implements the queue of timer events: no sequence of           *)
(* nwGtpv2cTmrMinHeapInsert and nwGtpv2cTmrMinHeapRemove loses, repeats    *)
(* or re-times an event other than its own.                                *)
(***************************************************************************)
THEOREM HeapImplementsQueue == Spec => ImplementsQueue
<1>1. Init => Queue!Init
  BY DEF Init, Queue!Init, Contents, InHand, Hole
<1>2. IInv /\ IInv' /\ [Next]_vars => [Queue!Next]_(Queue!vars)
  BY StepSimulation, Zenon
<1> QED BY <1>1, <1>2, InvariantHolds, PTL
        DEF Spec, ImplementsQueue, Queue!Spec
=============================================================================
