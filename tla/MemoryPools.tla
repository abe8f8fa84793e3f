----------------------------- MODULE MemoryPools -----------------------------
(***************************************************************************)
(* The memory pools that the messages between tasks are allocated from     *)
(* (memory_pools.c), without locks.  The free items of a pool are a ring   *)
(* of item indexes, with one slot more than items: an allocation takes the *)
(* index at the get position, a free stores it at the put position.  Any   *)
(* thread allocates, and any thread frees what was allocated, since        *)
(* messages are freed by the task that received them.  A step is one       *)
(* access to what the threads share.  The count of the fewest free items,  *)
(* which is only printed, is left out.                                     *)
(***************************************************************************)
EXTENDS Integers, Sequences, FiniteSetsExt

CONSTANTS
  Threads,      \* the threads that send or receive messages
  PoolItems,    \* per pool: pool_items_number, pools in the order of item size
  MaxLate       \* bound: operations that start once a pool was disturbed

Pools == 1 .. Len(PoolItems)

ASSUME PoolAssumption ==
  PoolItems \in Seq(Nat \ {0}) /\ Len(PoolItems) > 0 /\ MaxLate \in Nat

INVALID == -1

number_plus_one(p) == PoolItems[p] + 1
Items(p) == 0 .. (PoolItems[p] - 1)
Slots(p) == 0 .. PoolItems[p]

GetLocations == {"fetch_get", "read_index", "restore", "wrap_get", "clear"}
PutLocations == {"fetch_put", "wrap_put", "check_slot", "store"}
Locations == {"idle", "read_put", "check_status", "set_status", "set_free"}
             \cup GetLocations \cup PutLocations

\* the local variables of a thread outside of the operations
NoLocals == [pool |-> 1, put |-> 0, raw |-> 0, index |-> INVALID]

VARIABLES
  indexes,      \* per pool and slot of its ring: an item, or INVALID
  put,          \* per pool: positions.ind.put
  get,          \* per pool: positions.ind.get
  item_status,  \* per pool and item: "free" or "allocated"
  pc,           \* per thread: where it is
  local,        \* per thread: its pool, the put it read, its raw position, its item
  held,         \* per pool and item: how many messages live in it
  drained,      \* the pools with no free item in place when a get took its position
  lapped,       \* the pools where a put took the position of a slot not yet empty
  aborted,      \* "no", or the assertion that ended the process
  late          \* the operations started since a pool was disturbed

vars == <<indexes, put, get, item_status, pc, local, held, drained, lapped, aborted,
          late>>

(***************************************************************************)
(* memory_pools_create and memory_pools_add_pool.                          *)
(***************************************************************************)
Init ==
  /\ indexes = [p \in Pools |->
                  [s \in Slots(p) |-> IF s \in Items(p) THEN s ELSE INVALID]]
  /\ put = [p \in Pools |-> PoolItems[p]]
  /\ get = [p \in Pools |-> 0]
  /\ item_status = [p \in Pools |-> [i \in Items(p) |-> "free"]]
  /\ pc = [t \in Threads |-> "idle"]
  /\ local = [t \in Threads |-> NoLocals]
  /\ held = [p \in Pools |-> [i \in Items(p) |-> 0]]
  /\ drained = {} /\ lapped = {} /\ aborted = "no" /\ late = 0

\* position % number_plus_one as C computes it: negative for a negative position
Ring(position, p) ==
  IF position >= 0 THEN position % number_plus_one(p)
  ELSE -((-position) % number_plus_one(p))

Slot(t) == Ring(local[t].raw, local[t].pool)

GoTo(t, location) == pc' = [pc EXCEPT ![t] = location]

Return(t) == GoTo(t, "idle") /\ local' = [local EXCEPT ![t] = NoLocals]

\* a pool where every get found an item in place, and every put an empty slot
Undisturbed == Pools \ (drained \cup lapped)

Begin == /\ late < MaxLate
         /\ late' = IF Undisturbed = Pools THEN late ELSE late + 1
-----------------------------------------------------------------------------
(***************************************************************************)
(* memory_pools_allocate: the pools whose items are large enough are tried *)
(* in turn, the first of them is p.  items_group_get_free_item first reads *)
(* the put position.                                                       *)
(***************************************************************************)
\* Mutant: the put position is not reduced to a slot.
ReadRawPutPosition(t, p) ==
  /\ local' = [local EXCEPT ![t] = [NoLocals EXCEPT !.pool = p, !.put = put[p]]]
  /\ GoTo(t, "fetch_get")
  /\ UNCHANGED <<indexes, put, get, item_status, held, drained, lapped, aborted>>

ReadPutPosition(t, p) ==
  /\ local' = [local EXCEPT ![t] = [NoLocals EXCEPT !.pool = p,
                                                    !.put = Ring(put[p], p)]]
  /\ GoTo(t, "fetch_get")
  /\ UNCHANGED <<indexes, put, get, item_status, held, drained, lapped, aborted>>

BeginAllocate(t, p) ==
  /\ pc[t] = "idle"
  /\ Begin
  /\ ReadPutPosition(t, p)

NextPool(t) ==
  /\ pc[t] = "read_put"
  /\ ReadPutPosition(t, local[t].pool + 1)
  /\ UNCHANGED late

(***************************************************************************)
(* The get position is fetched and increased in one atomic step.  When it  *)
(* is the put position there is no free item.                              *)
(***************************************************************************)
\* Mutant: the get position is fetched and not increased.
FetchGetAlone(t) ==
  LET p == local[t].pool
      empty == Ring(get[p], p) = local[t].put
  IN
  /\ pc[t] = "fetch_get"
  /\ local' = [local EXCEPT ![t] = [NoLocals EXCEPT !.pool = p, !.raw = get[p]]]
  /\ drained' = IF empty THEN drained \cup {p} ELSE drained
  /\ GoTo(t, IF empty THEN "restore" ELSE "read_index")
  /\ UNCHANGED <<indexes, put, get, item_status, held, lapped, aborted, late>>

FetchGet(t) ==
  LET p == local[t].pool
      empty == Ring(get[p], p) = local[t].put
  IN
  /\ pc[t] = "fetch_get"
  /\ local' = [local EXCEPT ![t] = [NoLocals EXCEPT !.pool = p, !.raw = get[p]]]
  /\ get' = [get EXCEPT ![p] = @ + 1]
  /\ drained' = IF \/ empty \/ (get[p] - put[p]) % number_plus_one(p) = 0
                   \/ indexes[p][get[p] % number_plus_one(p)] = INVALID
                THEN drained \cup {p} ELSE drained
  /\ GoTo(t, IF empty THEN "restore" ELSE "read_index")
  /\ UNCHANGED <<indexes, put, item_status, held, lapped, aborted, late>>

(***************************************************************************)
(* A slot without an item is one that a free has not filled yet.  A        *)
(* negative slot is outside of the ring, where the read is undefined:      *)
(* nothing is said of the process from then on.                            *)
(***************************************************************************)
ReadOutside(t) ==
  /\ pc[t] = "read_index" /\ Slot(t) < 0
  /\ aborted' = "outside"
  /\ UNCHANGED <<indexes, put, get, item_status, pc, local, held, drained, lapped,
                 late>>

ReadIndex(t) ==
  LET p == local[t].pool
      index == indexes[p][Slot(t)]
  IN
  /\ pc[t] = "read_index" /\ Slot(t) >= 0
  /\ local' = [local EXCEPT ![t].index = index]
  /\ GoTo(t, CASE index = INVALID -> "restore"
               [] index # INVALID /\ local[t].raw = number_plus_one(p) -> "wrap_get"
               [] OTHER -> "clear")
  /\ UNCHANGED <<indexes, put, get, item_status, held, drained, lapped, aborted, late>>

(***************************************************************************)
(* The restored get position; the next pool is tried, and when there is    *)
(* none the assertion of itti_malloc ends the process.                     *)
(***************************************************************************)
\* Mutant: the position is written back, whatever it is by then.
RestoreGetRaw(t) ==
  LET p == local[t].pool IN
  /\ pc[t] = "restore"
  /\ get' = [get EXCEPT ![p] = local[t].raw]
  /\ IF p = Len(PoolItems)
     THEN aborted' = "no_memory" /\ Return(t)
     ELSE /\ GoTo(t, "read_put")
          /\ local' = [local EXCEPT ![t] = [NoLocals EXCEPT !.pool = p]]
          /\ aborted' = aborted
  /\ UNCHANGED <<indexes, put, item_status, held, drained, lapped, late>>

RestoreGet(t) ==
  LET p == local[t].pool IN
  /\ pc[t] = "restore"
  /\ get' = [get EXCEPT ![p] = @ - 1]
  /\ IF p = Len(PoolItems)
     THEN aborted' = "no_memory" /\ Return(t)
     ELSE /\ GoTo(t, "read_put")
          /\ local' = [local EXCEPT ![t] = [NoLocals EXCEPT !.pool = p]]
          /\ aborted' = aborted
  /\ UNCHANGED <<indexes, put, item_status, held, drained, lapped, late>>

\* Mutant: the get position is not taken back at the wrap.
WrapGetForgotten(t) ==
  /\ pc[t] = "wrap_get"
  /\ GoTo(t, "clear")
  /\ UNCHANGED <<indexes, put, get, item_status, local, held, drained, lapped, aborted,
                 late>>

WrapGet(t) ==
  LET p == local[t].pool IN
  /\ pc[t] = "wrap_get"
  /\ get' = [get EXCEPT ![p] = @ - number_plus_one(p)]
  /\ GoTo(t, "clear")
  /\ UNCHANGED <<indexes, put, item_status, local, held, drained, lapped, aborted,
                 late>>

\* Mutant: the index stays in the ring.
ClearForgotten(t) ==
  /\ pc[t] = "clear"
  /\ local' = [local EXCEPT ![t].raw = 0]
  /\ GoTo(t, "check_status")
  /\ UNCHANGED <<indexes, put, get, item_status, held, drained, lapped, aborted, late>>

ClearIndex(t) ==
  /\ pc[t] = "clear"
  /\ indexes' = [indexes EXCEPT ![local[t].pool][Slot(t)] = INVALID]
  /\ local' = [local EXCEPT ![t].raw = 0]
  /\ GoTo(t, "check_status")
  /\ UNCHANGED <<put, get, item_status, held, drained, lapped, aborted, late>>

(***************************************************************************)
(* The end of memory_pools_allocate: the item must be free, and becomes    *)
(* allocated.                                                              *)
(***************************************************************************)
CheckStatus(t) ==
  /\ pc[t] = "check_status"
  /\ IF item_status[local[t].pool][local[t].index] = "free"
     THEN GoTo(t, "set_status") /\ UNCHANGED <<local, aborted>>
     ELSE aborted' = "not_free" /\ Return(t)
  /\ UNCHANGED <<indexes, put, get, item_status, held, drained, lapped, late>>

SetStatus(t) ==
  LET p == local[t].pool
      i == local[t].index
  IN
  /\ pc[t] = "set_status"
  /\ item_status' = [item_status EXCEPT ![p][i] = "allocated"]
  /\ held' = [held EXCEPT ![p][i] = @ + 1]
  /\ Return(t)
  /\ UNCHANGED <<indexes, put, get, drained, lapped, aborted, late>>
-----------------------------------------------------------------------------
(***************************************************************************)
(* memory_pools_free: the item must be allocated, becomes free and is then *)
(* returned to the ring by items_group_put_free_item.                      *)
(***************************************************************************)
BeginFree(t, p, i) ==
  /\ pc[t] = "idle"
  /\ held[p][i] > 0
  /\ Begin
  /\ held' = [held EXCEPT ![p][i] = @ - 1]
  /\ local' = [local EXCEPT ![t] = [NoLocals EXCEPT !.pool = p, !.index = i]]
  /\ IF item_status[p][i] = "allocated"
     THEN GoTo(t, "set_free") /\ aborted' = aborted
     ELSE pc' = pc /\ aborted' = "not_allocated"
  /\ UNCHANGED <<indexes, put, get, item_status, drained, lapped>>

\* Mutant: the status stays allocated.
SetFreeForgotten(t) ==
  /\ pc[t] = "set_free"
  /\ GoTo(t, "fetch_put")
  /\ UNCHANGED <<indexes, put, get, item_status, local, held, drained, lapped, aborted,
                 late>>

SetFree(t) ==
  /\ pc[t] = "set_free"
  /\ item_status' = [item_status EXCEPT ![local[t].pool][local[t].index] = "free"]
  /\ GoTo(t, "fetch_put")
  /\ UNCHANGED <<indexes, put, get, local, held, drained, lapped, aborted, late>>

\* Mutant: the put position is fetched and not increased.
FetchPutAlone(t) ==
  LET p == local[t].pool IN
  /\ pc[t] = "fetch_put"
  /\ local' = [local EXCEPT ![t].raw = put[p]]
  /\ GoTo(t, "check_slot")
  /\ UNCHANGED <<indexes, put, get, item_status, held, drained, lapped, aborted, late>>

FetchPut(t) ==
  LET p == local[t].pool IN
  /\ pc[t] = "fetch_put"
  /\ local' = [local EXCEPT ![t].raw = put[p]]
  /\ put' = [put EXCEPT ![p] = @ + 1]
  /\ lapped' = IF indexes[p][Ring(put[p], p)] # INVALID
               THEN lapped \cup {p} ELSE lapped
  /\ GoTo(t, IF put[p] = number_plus_one(p) THEN "wrap_put" ELSE "check_slot")
  /\ UNCHANGED <<indexes, get, item_status, held, drained, aborted, late>>

\* Mutant: the wrap is one slot short.
WrapPutByItems(t) ==
  LET p == local[t].pool IN
  /\ pc[t] = "wrap_put"
  /\ put' = [put EXCEPT ![p] = @ - PoolItems[p]]
  /\ GoTo(t, "check_slot")
  /\ UNCHANGED <<indexes, get, item_status, local, held, drained, lapped, aborted,
                 late>>

WrapPut(t) ==
  LET p == local[t].pool IN
  /\ pc[t] = "wrap_put"
  /\ put' = [put EXCEPT ![p] = @ - number_plus_one(p)]
  /\ GoTo(t, "check_slot")
  /\ UNCHANGED <<indexes, get, item_status, local, held, drained, lapped, aborted,
                 late>>

(***************************************************************************)
(* The slot must be empty; when it is not the item is not returned to the  *)
(* ring, and the put position stays where it is.                           *)
(***************************************************************************)
CheckSlot(t) ==
  LET p == local[t].pool IN
  /\ pc[t] = "check_slot"
  /\ IF indexes[p][Slot(t)] = INVALID
     THEN GoTo(t, "store") /\ UNCHANGED local
     ELSE Return(t)
  /\ UNCHANGED <<indexes, put, get, item_status, held, drained, lapped, aborted, late>>

StoreIndex(t) ==
  /\ pc[t] = "store"
  /\ indexes' = [indexes EXCEPT ![local[t].pool][Slot(t)] = local[t].index]
  /\ Return(t)
  /\ UNCHANGED <<put, get, item_status, held, drained, lapped, aborted, late>>
-----------------------------------------------------------------------------
Allocate(t) == \/ \E p \in Pools : BeginAllocate(t, p)
               \/ NextPool(t) \/ FetchGet(t) \/ ReadOutside(t) \/ ReadIndex(t)
               \/ RestoreGet(t) \/ WrapGet(t) \/ ClearIndex(t)
               \/ CheckStatus(t) \/ SetStatus(t)

Free(t) == \/ \E p \in Pools : \E i \in Items(p) : BeginFree(t, p, i)
           \/ SetFree(t) \/ FetchPut(t) \/ WrapPut(t) \/ CheckSlot(t) \/ StoreIndex(t)

Next == aborted = "no" /\ \E t \in Threads : Allocate(t) \/ Free(t)

Spec == Init /\ [][Next]_vars
-----------------------------------------------------------------------------
\* Every index the ring, an item's status or a thread names exists: the put that a
\* get compares with is a slot of the ring (items_group_get_free_item).
TypeOK ==
  /\ \A p \in Pools : /\ indexes[p] \in [Slots(p) -> Items(p) \cup {INVALID}]
                      /\ item_status[p] \in [Items(p) -> {"free", "allocated"}]
                      /\ held[p] \in [Items(p) -> Nat]
  /\ put \in [Pools -> Nat] /\ get \in [Pools -> Int]
  /\ pc \in [Threads -> Locations]
  /\ \A t \in Threads :
       /\ local[t].pool \in Pools /\ local[t].put \in Slots(local[t].pool)
       /\ local[t].raw \in Int
       /\ local[t].index \in Items(local[t].pool) \cup {INVALID}
  /\ drained \subseteq Pools /\ lapped \subseteq Pools
  /\ aborted \in {"no", "no_memory", "not_free", "not_allocated", "outside"}
  /\ late \in 0 .. MaxLate

\* the threads that have taken item i out of the ring, or not yet put it back
Carriers(p, i) ==
  {t \in Threads :
     /\ pc[t] \in {"check_status", "set_status", "set_free"} \cup PutLocations
     /\ local[t].pool = p /\ local[t].index = i}

\* the gets on their way that have fetched the position of slot s
Getters(p, s) ==
  {t \in Threads : /\ pc[t] \in {"read_index", "wrap_get", "clear"}
                   /\ local[t].pool = p /\ Slot(t) = s}

\* Allocation is exclusive: while no get has met an empty pool and no put a full
\* slot, each item is in one slot of the ring, or in one operation, or lives as one
\* message; and no two gets on their way hold the same slot.
OnePlace ==
  \A p \in Undisturbed :
    /\ \A i \in Items(p) :
         held[p][i] + Cardinality(Carriers(p, i))
           + Cardinality({s \in Slots(p) : indexes[p][s] = i}) = 1
    /\ \A s \in Slots(p) : Cardinality(Getters(p, s)) <= 1

\* The positions, which every operation increases and only the one that meets
\* number_plus_one takes back, stay within two rounds of the ring whichever operations
\* overlap the wrap (items_group_get_free_item, items_group_put_free_item).
PositionsWrap ==
  \A p \in Undisturbed :
    {put[p], get[p]} \subseteq 0 .. (2 * number_plus_one(p))

\* The assertion of items_group_put_free_item, that the slot at the put position is
\* marked as free, holds until the slot is filled, for every put that found the slot
\* empty when it took its position.
SlotIsEmpty ==
  \A t \in Threads :
    pc[t] \in {"check_slot", "store"} /\ local[t].pool \in Undisturbed =>
      indexes[local[t].pool][Slot(t)] = INVALID

\* In a pool that was never empty, a put comes to a slot that is not free for one
\* reason only: a get that took that slot a round before has still to clear it.
LapNeedsGetter ==
  [][\A p \in lapped' \ lapped :
       p \in drained \/ Getters(p, Ring(put[p], p)) # {}]_vars

\* The checks on the status of an item (memory_pools_allocate, memory_pools_free) end
\* the process, and a get reads outside of the ring, only once a pool was disturbed.
StatusHolds ==
  aborted \in {"not_free", "not_allocated", "outside"} => drained \cup lapped # {}

\* items_group_free_items: the sum is not negative in the states CountIsExact is about,
\* where the unsigned remainder of the code is this one.
free_items(p) == (number_plus_one(p) + put[p] - get[p]) % number_plus_one(p)

\* With no operation on its way in an undisturbed pool, the count computed from the two
\* positions is the number of free items in the ring: no wrap and no overlap of
\* operations has lost an item.
CountIsExact ==
  \A p \in Undisturbed :
    (\A t \in Threads : local[t].pool = p => pc[t] = "idle") =>
      /\ number_plus_one(p) + put[p] >= get[p]
      /\ free_items(p) = Cardinality({s \in Slots(p) : indexes[p][s] # INVALID})

\* the calls that have increased the get position for an item that no message lives in
\* yet, those about to take it back included, or have still to increase the put position
Unbalanced(p) ==
  {t \in Threads : /\ local[t].pool = p
                   /\ pc[t] \in (GetLocations \ {"fetch_get"})
                               \cup {"check_status", "set_status", "set_free", "fetch_put"}}

\* The two positions never lose count, also in a pool that was drained or lapped: their
\* distance is the items that no message lives in, but for the calls on their way.  A
\* get that found no item takes back its own step only, whatever gets, puts and wraps of
\* other threads came in between (items_group_get_free_item).
PositionsBalance ==
  aborted = "no" =>
    \A p \in Pools :
      (put[p] - get[p] + Cardinality(Unbalanced(p))
         + MapThenSumSet(LAMBDA i : held[p][i], Items(p)) - PoolItems[p])
        % number_plus_one(p) = 0
=============================================================================
