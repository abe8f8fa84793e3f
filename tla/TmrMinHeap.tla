----------------------------- MODULE TmrMinHeap -----------------------------
(***************************************************************************)
(* The binary min-heap of timer events of the GTPv2-C stack                *)
(* (nwGtpv2cTmrMinHeapInsert, nwGtpv2cTmrMinHeapRemove and                 *)
(* nwGtpv2cTmrMinHeapPeek of NwGtpv2c.c).  Each turn of a loop of the code *)
(* is one step; positions count from 0 as in the code.                     *)
(***************************************************************************)
EXTENDS Integers

CONSTANTS
  Events,    \* the nw_gtpv2c_timeout_info_t objects
  Times,     \* the absolute times at which an event may be due
  maxSize,   \* the size of the array (10000 in nwGtpv2cInitialize)
  NULL

ASSUME TimesAssumption == Times \subseteq Nat
ASSUME SizeAssumption  == maxSize \in Nat \ {0}
ASSUME NullAssumption  == NULL \notin Events

VARIABLES
  pHeap,               \* the array of events
  currSize,            \* the number of events in it
  tvTimeout,           \* tvTimeout of each event
  timerMinHeapIndex,   \* the position each event believes it is at
  pc,                  \* which loop runs: "idle", "insert", "down" or "up"
  holeIndex,           \* locals of the running call
  pTimerEvent

vars == <<pHeap, currSize, tvTimeout, timerMinHeapIndex, pc, holeIndex,
          pTimerEvent>>

Positions == 0 .. maxSize - 1

NW_MIN_HEAP_INDEX_INVALID == -1

NW_HEAP_PARENT_INDEX(child) == (child - 1) \div 2

Due(i) == tvTimeout[pHeap[i]]

(***************************************************************************)
(* nwGtpv2cTmrMinHeapNew                                                   *)
(***************************************************************************)
Init == /\ pHeap = [i \in Positions |-> NULL]
        /\ currSize = 0
        /\ tvTimeout \in [Events -> Times]
        /\ timerMinHeapIndex = [e \in Events |-> NW_MIN_HEAP_INDEX_INVALID]
        /\ pc = "idle"
        /\ holeIndex = 0
        /\ pTimerEvent = NULL

(***************************************************************************)
(* Both loops that move a hole towards the root shift the parent down      *)
(* while it is due later than the event in hand.                           *)
(***************************************************************************)
ParentIsLater == /\ holeIndex > 0
                 /\ Due(NW_HEAP_PARENT_INDEX(holeIndex))
                      > tvTimeout[pTimerEvent]

\* Mutant: the event moved does not note its new position.
FillUnnoted(i) ==
  /\ pHeap' = [pHeap EXCEPT ![holeIndex] = pHeap[i]]
  /\ holeIndex' = i
  /\ UNCHANGED timerMinHeapIndex

\* pHeap[holeIndex] = pHeap[i]; the event moved notes its new position.
Fill(i) ==
  /\ pHeap' = [pHeap EXCEPT ![holeIndex] = pHeap[i]]
  /\ timerMinHeapIndex' = [timerMinHeapIndex EXCEPT ![pHeap[i]] = holeIndex]
  /\ holeIndex' = i

BubbleUp == /\ ParentIsLater
            /\ Fill(NW_HEAP_PARENT_INDEX(holeIndex))
            /\ UNCHANGED <<currSize, tvTimeout, pc, pTimerEvent>>

(***************************************************************************)
(* nwGtpv2cTmrMinHeapInsert of an event that its caller has just taken     *)
(* from the pool and made due at t.  NW_ASSERT (currSize < maxSize) is     *)
(* evaluated after the increment: the last position is never used.         *)
(***************************************************************************)
InsertCall(e, t) ==
  /\ pc = "idle"
  /\ timerMinHeapIndex[e] = NW_MIN_HEAP_INDEX_INVALID
  /\ currSize + 1 < maxSize
  /\ tvTimeout' = [tvTimeout EXCEPT ![e] = t]
  /\ holeIndex' = currSize
  /\ currSize' = currSize + 1
  /\ pTimerEvent' = e
  /\ pc' = "insert"
  /\ UNCHANGED <<pHeap, timerMinHeapIndex>>

InsertUp == pc = "insert" /\ BubbleUp

InsertReturn ==
  /\ pc = "insert"
  /\ ~ ParentIsLater
  /\ pHeap' = [pHeap EXCEPT ![holeIndex] = pTimerEvent]
  /\ timerMinHeapIndex' = [timerMinHeapIndex EXCEPT ![pTimerEvent] = holeIndex]
  /\ pc' = "idle"
  /\ UNCHANGED <<currSize, tvTimeout, holeIndex, pTimerEvent>>

(***************************************************************************)
(* nwGtpv2cTmrMinHeapRemove of the event e, at the position e notes.       *)
(* The last event of the heap, now one past its end, refills the hole.     *)
(***************************************************************************)
RemoveCall(e) ==
  /\ pc = "idle"
  /\ timerMinHeapIndex[e] # NW_MIN_HEAP_INDEX_INVALID
  /\ timerMinHeapIndex[e] < currSize
  /\ holeIndex' = timerMinHeapIndex[e]
  /\ timerMinHeapIndex' = [timerMinHeapIndex EXCEPT
                             ![pHeap[holeIndex']] = NW_MIN_HEAP_INDEX_INVALID]
  /\ currSize' = currSize - 1
  /\ pTimerEvent' = pHeap[currSize']
  /\ pc' = "down"
  /\ UNCHANGED <<pHeap, tvTimeout>>

\* The earlier of the two children of the hole.  The right one may be the
\* position past the end, which still holds the event in hand.
MinChild ==
  IF Due(2 * holeIndex + 1) > Due(2 * holeIndex + 2)
  THEN 2 * holeIndex + 2
  ELSE 2 * holeIndex + 1

\* Mutant: the last child is not looked at.
ChildIsNotLaterShort == /\ 2 * holeIndex + 2 < currSize
                        /\ ~ (tvTimeout[pTimerEvent] < Due(MinChild))

ChildIsNotLater == /\ 2 * holeIndex + 2 <= currSize
                   /\ ~ (tvTimeout[pTimerEvent] < Due(MinChild))

SiftDown == /\ pc = "down"
            /\ ChildIsNotLater
            /\ Fill(MinChild)
            /\ UNCHANGED <<currSize, tvTimeout, pc, pTimerEvent>>

SiftDone == /\ pc = "down"
            /\ ~ ChildIsNotLater
            /\ pc' = "up"
            /\ UNCHANGED <<pHeap, currSize, tvTimeout, timerMinHeapIndex,
                           holeIndex, pTimerEvent>>

RemoveUp == pc = "up" /\ BubbleUp

\* Mutant: the last event is not put into the hole.
RemoveReturnUnfilled ==
  /\ pc = "up"
  /\ ~ ParentIsLater
  /\ pHeap' = [pHeap EXCEPT ![currSize] = NULL]
  /\ pc' = "idle"
  /\ UNCHANGED <<currSize, tvTimeout, timerMinHeapIndex, holeIndex, pTimerEvent>>

\* Mutant: the size is decremented once more on return.
RemoveReturnShrunk ==
  /\ pc = "up"
  /\ ~ ParentIsLater
  /\ pHeap' = [pHeap EXCEPT ![holeIndex] = pTimerEvent, ![currSize] = NULL]
  /\ currSize' = currSize - 1
  /\ pc' = "idle"
  /\ UNCHANGED <<tvTimeout, timerMinHeapIndex, holeIndex, pTimerEvent>>

RemoveReturn ==
  /\ pc = "up"
  /\ ~ ParentIsLater
  /\ LET refill == holeIndex < currSize
     IN  /\ pHeap' = [i \in Positions |->
                        IF i = currSize THEN NULL
                        ELSE IF refill /\ i = holeIndex THEN pTimerEvent
                        ELSE pHeap[i]]
         /\ timerMinHeapIndex' =
              IF refill
              THEN [timerMinHeapIndex EXCEPT ![pTimerEvent] = holeIndex]
              ELSE timerMinHeapIndex
  /\ pc' = "idle"
  /\ UNCHANGED <<currSize, tvTimeout, holeIndex, pTimerEvent>>

Next == \/ \E e \in Events, t \in Times : InsertCall(e, t)
        \/ InsertUp
        \/ InsertReturn
        \/ \E e \in Events : RemoveCall(e)
        \/ SiftDown
        \/ SiftDone
        \/ RemoveUp
        \/ RemoveReturn

Spec == Init /\ [][Next]_vars
-----------------------------------------------------------------------------
\* nwGtpv2cTmrMinHeapPeek, called between two of the calls above.
Peek == IF currSize > 0 THEN pHeap[0] ELSE NULL

\* The events in the heap, the one in hand included.
Hole == IF pc = "idle" THEN {} ELSE {holeIndex}

InHand == IF pc # "idle" /\ holeIndex < currSize THEN {pTimerEvent} ELSE {}

Contents == {pHeap[i] : i \in (0 .. currSize - 1) \ Hole} \cup InHand

(***************************************************************************)
(* Each variable holds a value of its C type; positions stay inside the    *)
(* array.                                                                  *)
(***************************************************************************)
TypeOK ==
  /\ pHeap \in [Positions -> Events \cup {NULL}]
  /\ currSize \in Positions
  /\ tvTimeout \in [Events -> Times]
  /\ timerMinHeapIndex \in
       [Events -> Positions \cup {NW_MIN_HEAP_INDEX_INVALID}]
  /\ pc \in {"idle", "insert", "down", "up"}
  /\ holeIndex \in Positions
  /\ pTimerEvent \in Events \cup {NULL}

Removing == pc \in {"down", "up"}

\* The positions that belong to the heap while a call runs.  In the first
\* loop of a removal the event in hand still stands past the end.
Last == IF pc = "down" THEN currSize ELSE currSize - 1

Filled == (0 .. Last) \ Hole

(***************************************************************************)
(* Between calls and at every turn of the loops the positions of the heap  *)
(* hold events, and the event at a position notes that position: this is   *)
(* how the stack stops a timer in the middle of the heap.  A position that *)
(* an event notes is the one it is at; only the event in hand of a removal *)
(* still notes the position past the end until it refills the hole.        *)
(***************************************************************************)
IndexExact ==
  /\ \A i \in Filled : /\ pHeap[i] \in Events
                       /\ timerMinHeapIndex[pHeap[i]] = i
  /\ \A e \in Events :
       timerMinHeapIndex[e] # NW_MIN_HEAP_INDEX_INVALID =>
         \/ timerMinHeapIndex[e] \in Filled /\ pHeap[timerMinHeapIndex[e]] = e
         \/ Removing /\ holeIndex < currSize /\ e = pTimerEvent

(***************************************************************************)
(* Between calls no event is due before its parent: the order that both    *)
(* loops of nwGtpv2cTmrMinHeapRemove restore after the last event is moved *)
(* into an arbitrary hole.                                                 *)
(***************************************************************************)
HeapOrder ==
  pc = "idle" => \A i \in 1 .. currSize - 1 :
                   Due(NW_HEAP_PARENT_INDEX(i)) <= Due(i)

(***************************************************************************)
(* nwGtpv2cTmrMinHeapPeek returns an event that no other pending event     *)
(* precedes, which is what nwGtpv2cProcessTimeout relies on to stop at the *)
(* first event that is not yet due.                                        *)
(***************************************************************************)
PeekIsEarliest ==
  pc = "idle" /\ currSize > 0 =>
    \A i \in 0 .. currSize - 1 : tvTimeout[Peek] <= Due(i)

(***************************************************************************)
(* The heap implements the queue of timer events: a call adds or removes   *)
(* exactly its own event, and no turn of a loop loses or repeats another.  *)
(***************************************************************************)
Queue == INSTANCE TmrQueue WITH queue <- Contents
ImplementsQueue == Queue!Spec
=============================================================================
