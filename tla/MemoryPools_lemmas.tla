-------------------------- MODULE MemoryPools_lemmas --------------------------
(***************************************************************************)
(* The inductive invariant IInv of the memory pools, and the lemmas its    *)
(* proof in MemoryPools_proofs rests on: the arithmetic of positions and   *)
(* windows, what each step of MemoryPools changes, and the steps that      *)
(* leave the ring as it is.                                                *)
(***************************************************************************)
EXTENDS MemoryPools, TLAPS

(***************************************************************************)
(* What holds in every state: the shapes of the variables, what the        *)
(* locals are at each location, and at most one put of a pool is about to  *)
(* take the put position back, which is then large enough.                 *)
(***************************************************************************)
Frames == [pool : Pools, put : Nat, raw : Int, index : Int]

Shapes ==
  /\ TypeOK
  /\ DOMAIN indexes = Pools /\ DOMAIN item_status = Pools /\ DOMAIN held = Pools
  /\ local \in [Threads -> Frames]

CarryLocations == {"check_status", "set_status", "set_free"} \cup PutLocations

Locals ==
  \A t \in Threads :
    /\ pc[t] = "read_put" => local[t].pool # Len(PoolItems)
    /\ pc[t] \in {"wrap_get", "clear"} \cup CarryLocations =>
         local[t].index \in Items(local[t].pool)
    /\ pc[t] \in {"wrap_get", "clear", "wrap_put", "check_slot", "store"} =>
         Slot(t) \in Slots(local[t].pool)

PutWraps ==
  \A t \in Threads : pc[t] = "wrap_put" =>
    /\ number_plus_one(local[t].pool) < put[local[t].pool]
    /\ \A e \in Threads :
         pc[e] = "wrap_put" /\ local[e].pool = local[t].pool => e = t

(***************************************************************************)
(* What holds of an undisturbed pool p.  The slots from the get position   *)
(* to the put position are the window of the ring.                         *)
(***************************************************************************)
InWindow(s, g, u) == IF g <= u THEN g <= s /\ s < u ELSE g <= s \/ s < u

Inside(p, s) == InWindow(s, Ring(get[p], p), Ring(put[p], p))

\* a get, or a put, of pool p that has its position and is not done with the slot
Getting(t, p) == local[t].pool = p /\ pc[t] \in {"read_index", "wrap_get", "clear"}
Putting(t, p) == local[t].pool = p /\ pc[t] \in {"wrap_put", "check_slot", "store"}

\* a get that will take the get position back
WrapsGet(t, p) == /\ local[t].pool = p /\ pc[t] \in {"read_index", "wrap_get"}
                  /\ local[t].raw = number_plus_one(p)

Positions(p) ==
  /\ put[p] \in 0 .. (2 * number_plus_one(p))
  /\ get[p] \in 0 .. (2 * number_plus_one(p))
  /\ number_plus_one(p) < put[p] =>
       \E t \in Threads : local[t].pool = p /\ pc[t] = "wrap_put"
  /\ number_plus_one(p) < get[p] <=> \E t \in Threads : WrapsGet(t, p)

\* The slot of a get is outside of the window and still has the item, that of a put is
\* inside and has none.
GetOrPut(t, p) ==
  /\ local[t].pool = p => pc[t] \notin {"restore", "read_put"}
  /\ Getting(t, p) =>
       /\ local[t].raw \in 0 .. (2 * number_plus_one(p) - 1)
       /\ indexes[p][Slot(t)] # INVALID
       /\ ~ Inside(p, Slot(t))
       /\ pc[t] # "read_index" => local[t].index = indexes[p][Slot(t)]
       /\ pc[t] = "wrap_get" => local[t].raw = number_plus_one(p)
  /\ Putting(t, p) =>
       /\ local[t].raw \in 0 .. (2 * number_plus_one(p) - 1)
       /\ indexes[p][Slot(t)] = INVALID
       /\ Inside(p, Slot(t))
       /\ pc[t] = "wrap_put" => local[t].raw = number_plus_one(p)

SlotsApart(p) ==
  \A t, e \in Threads :
    \/ Getting(t, p) /\ Getting(e, p)
    \/ Putting(t, p) /\ Putting(e, p)
    => Slot(t) # Slot(e) \/ t = e

\* A slot outside of the window has an item only for a get, one inside has none only
\* for a put.
Filled(p) ==
  \A s \in Slots(p) :
    /\ indexes[p][s] # INVALID =>
         Inside(p, s) \/ \E t \in Threads : Getting(t, p) /\ Slot(t) = s
    /\ indexes[p][s] = INVALID =>
         ~ Inside(p, s) \/ \E t \in Threads : Putting(t, p) /\ Slot(t) = s

Carries(t, p, i) == /\ local[t].pool = p /\ pc[t] \in CarryLocations
                    /\ local[t].index = i

Place(p, i) ==
  /\ held[p][i] \in {0, 1}
  /\ \A t, e \in Threads : Carries(t, p, i) /\ Carries(e, p, i) => t = e
  /\ \A s, r \in Slots(p) : indexes[p][s] = i /\ indexes[p][r] = i => s = r
  /\ held[p][i] = 1 => /\ \A t \in Threads : ~ Carries(t, p, i)
                       /\ \A s \in Slots(p) : indexes[p][s] # i
  /\ \A t \in Threads, s \in Slots(p) : Carries(t, p, i) => indexes[p][s] # i
  /\ \/ held[p][i] = 1
     \/ \E t \in Threads : Carries(t, p, i)
     \/ \E s \in Slots(p) : indexes[p][s] = i

Status(p, i) ==
  /\ held[p][i] = 1 => item_status[p][i] = "allocated"
  /\ \A s \in Slots(p) : indexes[p][s] = i => item_status[p][i] = "free"
  /\ \A t \in Threads : Carries(t, p, i) =>
       item_status[p][i] = IF pc[t] = "set_free" THEN "allocated" ELSE "free"

RingInv(p) == /\ Positions(p) /\ SlotsApart(p) /\ Filled(p)
              /\ \A t \in Threads : GetOrPut(t, p)

ItemInv(p) == \A i \in Items(p) : Place(p, i) /\ Status(p, i)

PoolInv(p) == RingInv(p) /\ ItemInv(p)

IInv == /\ Shapes /\ Locals /\ PutWraps
        /\ \A p \in Undisturbed : PoolInv(p)
        /\ StatusHolds
-----------------------------------------------------------------------------
(***************************************************************************)
(* Positions and slots: arithmetic.                                        *)
(***************************************************************************)
LEMMA Sizes ==
  ASSUME NEW p \in Pools
  PROVE  /\ PoolItems[p] \in Nat \ {0}
         /\ number_plus_one(p) \in Nat \ {0}
         /\ number_plus_one(p) = PoolItems[p] + 1
         /\ Items(p) = 0 .. (number_plus_one(p) - 2)
         /\ Slots(p) = 0 .. (number_plus_one(p) - 1)
<1>1. PoolItems[p] \in Nat \ {0}
  BY PoolAssumption DEF Pools
<1> QED BY <1>1 DEF number_plus_one, Items, Slots

LEMMA InvalidIsNoItem ==
  ASSUME NEW p \in Pools
  PROVE  INVALID \notin Items(p) /\ INVALID \in Int /\ Items(p) \subseteq Int
BY Sizes DEF INVALID

(* What % computes within two rounds. *)
LEMMA Remainders ==
  ASSUME NEW n \in Nat \ {0}
  PROVE  /\ \A x \in 0 .. (n - 1) : x % n = x
         /\ \A x \in n .. (2 * n - 1) : x % n = x - n
         /\ (2 * n) % n = 0
         /\ \A x \in Int : x % n \in 0 .. (n - 1)
<1>1. \A x \in 0 .. (n - 1) : x % n = x
  OBVIOUS
<1>2. \A x \in n .. (2 * n - 1) : x % n = x - n
  OBVIOUS
<1>3. (2 * n) % n = 0
  OBVIOUS
<1>4. \A x \in Int : x % n \in 0 .. (n - 1)
  OBVIOUS
<1> QED BY <1>1, <1>2, <1>3, <1>4, Zenon

(* A position that is not negative, or a slot that is not, is in the ring. *)
LEMMA RingType ==
  ASSUME NEW p \in Pools, NEW x \in Int
  PROVE  /\ Ring(x, p) \in Int
         /\ x >= 0 => Ring(x, p) \in Slots(p)
         /\ Ring(x, p) >= 0 => Ring(x, p) \in Slots(p)
<1> DEFINE n == number_plus_one(p)
<1>1. n \in Nat \ {0} /\ Slots(p) = 0 .. (n - 1)
  BY Sizes, Zenon
<1>2. Ring(x, p) = IF x >= 0 THEN x % n ELSE -((-x) % n)
  BY Zenon DEF Ring
<1> HIDE DEF n
<1>3. x % n \in 0 .. (n - 1) /\ (-x) % n \in 0 .. (n - 1)
  BY <1>1, Remainders
<1> QED BY <1>1, <1>2, <1>3

LEMMA RingValue ==
  ASSUME NEW p \in Pools, NEW x \in 0 .. (2 * number_plus_one(p))
  PROVE  Ring(x, p) = IF x < number_plus_one(p) THEN x
                      ELSE IF x < 2 * number_plus_one(p) THEN x - number_plus_one(p)
                      ELSE 0
<1> DEFINE n == number_plus_one(p)
<1>1. n \in Nat \ {0} /\ x \in 0 .. (2 * n)
  BY Sizes, Zenon
<1>2. Ring(x, p) = x % n
  BY <1>1 DEF Ring
<1> HIDE DEF n
<1>3. x % n = IF x < n THEN x ELSE IF x < 2 * n THEN x - n ELSE 0
  <2>1. x < n => x \in 0 .. (n - 1)
    BY <1>1
  <2>2. ~ (x < n) /\ x < 2 * n => x \in n .. (2 * n - 1)
    BY <1>1
  <2>3. ~ (x < n) /\ ~ (x < 2 * n) => x = 2 * n
    BY <1>1
  <2> QED BY <1>1, <2>1, <2>2, <2>3, Remainders, Zenon
<1> QED BY <1>2, <1>3, Zenon DEF n

\* the next slot of a ring of n slots
After(s, n) == IF s = n - 1 THEN 0 ELSE s + 1

(* The next position is the next slot, and a round less is the same slot. *)
LEMMA RingSteps ==
  ASSUME NEW p \in Pools, NEW x \in 0 .. (2 * number_plus_one(p))
  PROVE  /\ x < 2 * number_plus_one(p) =>
              Ring(x + 1, p) = After(Ring(x, p), number_plus_one(p))
         /\ number_plus_one(p) <= x => Ring(x - number_plus_one(p), p) = Ring(x, p)
<1> DEFINE n == number_plus_one(p)
           V(y) == IF y < n THEN y ELSE IF y < 2 * n THEN y - n ELSE 0
<1>1. n \in Nat \ {0} /\ x \in 0 .. (2 * n)
  BY Sizes, Zenon
<1>2. \A y \in 0 .. (2 * n) : Ring(y, p) = V(y)
  BY RingValue, Zenon
<1> HIDE DEF n
<1>3. x < 2 * n => Ring(x + 1, p) = V(x + 1) /\ Ring(x, p) = V(x)
  BY <1>1, <1>2
<1>4. n <= x => Ring(x - n, p) = V(x - n) /\ Ring(x, p) = V(x)
  BY <1>1, <1>2
<1>5. x < 2 * n => V(x + 1) = After(V(x), n)
  BY <1>1 DEF After
<1>6. n <= x => V(x - n) = V(x)
  BY <1>1
<1> QED BY <1>3, <1>4, <1>5, <1>6 DEF n

(* Positions within two rounds that are of the same slot. *)
LEMMA RoundsApart ==
  ASSUME NEW n \in Nat \ {0}, NEW x \in 0 .. (2 * n), NEW y \in 0 .. (2 * n),
         (IF x < n THEN x ELSE IF x < 2 * n THEN x - n ELSE 0)
           = (IF y < n THEN y ELSE IF y < 2 * n THEN y - n ELSE 0)
  PROVE  (x - y) % n = 0
<1>1. \/ x - y = 0 \/ x - y = n \/ x - y = 2 * n
      \/ x - y = 0 - n \/ x - y = 0 - 2 * n
  OBVIOUS
<1>2. 0 % n = 0 /\ n % n = 0 /\ (2 * n) % n = 0
  OBVIOUS
<1>3. (0 - n) % n = 0
  OBVIOUS
<1>4. (0 - 2 * n) % n = 0
  OBVIOUS
<1> QED BY <1>1, <1>2, <1>3, <1>4, Zenon

(* Two positions of the same slot are whole rounds apart. *)
LEMMA SameSlot ==
  ASSUME NEW p \in Pools, NEW x \in 0 .. (2 * number_plus_one(p)),
         NEW y \in 0 .. (2 * number_plus_one(p)), Ring(x, p) = Ring(y, p)
  PROVE  (x - y) % number_plus_one(p) = 0
BY Sizes, RingValue, RoundsApart, ZenonT(30)

(* A get takes the first slot from the window, a put adds the next one. *)
LEMMA WindowPop ==
  ASSUME NEW n \in Nat \ {0}, NEW g \in 0 .. (n - 1), NEW u \in 0 .. (n - 1), g # u,
         NEW s \in 0 .. (n - 1)
  PROVE  /\ InWindow(s, After(g, n), u) <=> InWindow(s, g, u) /\ s # g
         /\ InWindow(g, g, u)
BY DEF InWindow, After

LEMMA WindowPush ==
  ASSUME NEW n \in Nat \ {0}, NEW g \in 0 .. (n - 1), NEW u \in 0 .. (n - 1),
         NEW s \in 0 .. (n - 1)
  PROVE  /\ After(u, n) # g =>
              (InWindow(s, g, After(u, n)) <=> InWindow(s, g, u) \/ s = u)
         /\ ~ InWindow(u, g, u)
         /\ After(u, n) = g /\ s # u => InWindow(s, g, u)
BY DEF InWindow, After
-----------------------------------------------------------------------------
(***************************************************************************)
(* The types.  A step of thread t moves it to location l, with pool a,     *)
(* position r and item i, and leaves the other threads where they are.     *)
(***************************************************************************)
View(t, l, a, r, i) ==
  /\ pc'[t] = l
  /\ local'[t].pool = a /\ local'[t].raw = r /\ local'[t].index = i
  /\ \A e \in Threads : e # t => pc'[e] = pc[e] /\ local'[e] = local[e]

ThreadShapes ==
  /\ pc \in [Threads -> Locations]
  /\ local \in [Threads -> Frames]
  /\ \A t \in Threads :
       /\ local[t].put \in Slots(local[t].pool)
       /\ local[t].index \in Items(local[t].pool) \cup {INVALID}

DataShapes ==
  /\ DOMAIN indexes = Pools /\ DOMAIN item_status = Pools /\ DOMAIN held = Pools
  /\ put \in [Pools -> Nat] /\ get \in [Pools -> Int]
  /\ \A p \in Pools : /\ indexes[p] \in [Slots(p) -> Items(p) \cup {INVALID}]
                      /\ item_status[p] \in [Items(p) -> {"free", "allocated"}]
                      /\ held[p] \in [Items(p) -> Nat]

HistoryShapes ==
  /\ drained \subseteq Pools /\ lapped \subseteq Pools
  /\ aborted \in {"no", "no_memory", "not_free", "not_allocated", "outside"}
  /\ late \in 0 .. MaxLate

LEMMA ShapesParts == Shapes <=> ThreadShapes /\ DataShapes /\ HistoryShapes
<1>1. Shapes => ThreadShapes /\ DataShapes /\ HistoryShapes
  BY Zenon DEF Shapes, TypeOK, ThreadShapes, DataShapes, HistoryShapes
<1>2. ASSUME ThreadShapes, DataShapes, HistoryShapes PROVE Shapes
  <2>1. \A t \in Threads : local[t].pool \in Pools /\ local[t].raw \in Int
    BY <1>2, Zenon DEF ThreadShapes, Frames
  <2> QED BY <1>2, <2>1, Zenon
          DEF Shapes, TypeOK, ThreadShapes, DataShapes, HistoryShapes
<1> QED BY <1>1, <1>2, Zenon

LEMMA ThreadTypes ==
  ASSUME ThreadShapes, NEW t \in Threads
  PROVE  /\ pc[t] \in Locations
         /\ local[t] \in Frames
         /\ local[t].pool \in Pools
         /\ local[t].put \in Slots(local[t].pool)
         /\ local[t].raw \in Int
         /\ local[t].index \in Items(local[t].pool) \cup {INVALID}
         /\ Slot(t) = Ring(local[t].raw, local[t].pool)
BY Zenon DEF ThreadShapes, Frames, Slot

LEMMA MoveFacts ==
  ASSUME ThreadShapes, NEW t \in Threads, NEW l \in Locations, NEW m \in Frames,
         m.put \in Slots(m.pool), m.index \in Items(m.pool) \cup {INVALID},
         GoTo(t, l), local' = [local EXCEPT ![t] = m]
  PROVE  ThreadShapes' /\ View(t, l, m.pool, m.raw, m.index)
<1>1. pc' = [pc EXCEPT ![t] = l]
  BY Zenon DEF GoTo
<1>2. pc'[t] = l /\ local'[t] = m
  BY <1>1, Zenon DEF ThreadShapes
<1>3. \A e \in Threads : e # t => pc'[e] = pc[e] /\ local'[e] = local[e]
  BY <1>1, Zenon DEF ThreadShapes
<1>4. pc' \in [Threads -> Locations] /\ local' \in [Threads -> Frames]
  BY <1>1, Zenon DEF ThreadShapes
<1>5. ASSUME NEW e \in Threads
      PROVE  /\ local'[e].put \in Slots(local'[e].pool)
             /\ local'[e].index \in Items(local'[e].pool) \cup {INVALID}
  <2>1. CASE e = t
    BY <1>2, <2>1, Zenon
  <2>2. CASE e # t
    BY <1>3, <2>2, Zenon DEF ThreadShapes
  <2> QED BY <2>1, <2>2, Zenon
<1>6. ThreadShapes'
  BY <1>4, <1>5, Zenon DEF ThreadShapes
<1> QED BY <1>2, <1>3, <1>6, Zenon DEF View

LEMMA ReturnFacts ==
  ASSUME ThreadShapes, NEW t \in Threads, Return(t)
  PROVE  ThreadShapes' /\ View(t, "idle", 1, 0, INVALID)
<1>1. 1 \in Pools /\ 0 \in Slots(1)
  <2>1. 1 \in Pools
    BY PoolAssumption DEF Pools
  <2> QED BY <2>1, Sizes
<1>2. /\ NoLocals \in Frames /\ NoLocals.pool = 1 /\ NoLocals.put = 0
      /\ NoLocals.raw = 0 /\ NoLocals.index = INVALID
  BY <1>1, InvalidIsNoItem DEF NoLocals, Frames
<1>3. "idle" \in Locations
  BY Zenon DEF Locations
<1> QED BY <1>1, <1>2, <1>3, MoveFacts, Zenon DEF Return

(* A thread starts anew in pool a. *)
LEMMA AnewFacts ==
  ASSUME ThreadShapes, NEW t \in Threads, NEW l \in Locations, NEW a \in Pools,
         NEW b \in Slots(a), NEW r \in Int, NEW i \in Items(a) \cup {INVALID},
         GoTo(t, l),
         \/ /\ local' = [local EXCEPT ![t] = [NoLocals EXCEPT !.pool = a, !.put = b]]
            /\ r = 0 /\ i = INVALID
         \/ /\ local' = [local EXCEPT ![t] = [NoLocals EXCEPT !.pool = a, !.raw = r]]
            /\ i = INVALID
         \/ /\ local' = [local EXCEPT ![t] = [NoLocals EXCEPT !.pool = a, !.index = i]]
            /\ r = 0
         \/ /\ local' = [local EXCEPT ![t] = [NoLocals EXCEPT !.pool = a]]
            /\ r = 0 /\ i = INVALID
  PROVE  ThreadShapes' /\ View(t, l, a, r, i)
<1>1. 0 \in Slots(a) /\ b \in Nat /\ i \in Int /\ INVALID \in Int
  BY Sizes, InvalidIsNoItem
<1>2. CASE /\ local' = [local EXCEPT ![t] = [NoLocals EXCEPT !.pool = a, !.put = b]]
           /\ r = 0 /\ i = INVALID
  <2> DEFINE m == [NoLocals EXCEPT !.pool = a, !.put = b]
  <2>1. m \in Frames /\ m.pool = a /\ m.put = b /\ m.raw = r /\ m.index = i
    BY <1>1, <1>2, Zenon DEF NoLocals, Frames
  <2>2. local' = [local EXCEPT ![t] = m]
    BY <1>2, Zenon
  <2> HIDE DEF m
  <2> QED BY <1>1, <2>1, <2>2, MoveFacts, Zenon
<1>3. CASE /\ local' = [local EXCEPT ![t] = [NoLocals EXCEPT !.pool = a, !.raw = r]]
           /\ i = INVALID
  <2> DEFINE m == [NoLocals EXCEPT !.pool = a, !.raw = r]
  <2>1. m \in Frames /\ m.pool = a /\ m.put = 0 /\ m.raw = r /\ m.index = i
    BY <1>1, <1>3, Zenon DEF NoLocals, Frames
  <2>2. local' = [local EXCEPT ![t] = m]
    BY <1>3, Zenon
  <2> HIDE DEF m
  <2> QED BY <1>1, <2>1, <2>2, MoveFacts, Zenon
<1>4. CASE /\ local' = [local EXCEPT ![t] = [NoLocals EXCEPT !.pool = a, !.index = i]]
           /\ r = 0
  <2> DEFINE m == [NoLocals EXCEPT !.pool = a, !.index = i]
  <2>1. m \in Frames /\ m.pool = a /\ m.put = 0 /\ m.raw = r /\ m.index = i
    BY <1>1, <1>4, Zenon DEF NoLocals, Frames
  <2>2. local' = [local EXCEPT ![t] = m]
    BY <1>4, Zenon
  <2> HIDE DEF m
  <2> QED BY <1>1, <2>1, <2>2, MoveFacts, Zenon
<1>5. CASE /\ local' = [local EXCEPT ![t] = [NoLocals EXCEPT !.pool = a]]
           /\ r = 0 /\ i = INVALID
  <2> DEFINE m == [NoLocals EXCEPT !.pool = a]
  <2>1. m \in Frames /\ m.pool = a /\ m.put = 0 /\ m.raw = r /\ m.index = i
    BY <1>1, <1>5, Zenon DEF NoLocals, Frames
  <2>2. local' = [local EXCEPT ![t] = m]
    BY <1>5, Zenon
  <2> HIDE DEF m
  <2> QED BY <1>1, <2>1, <2>2, MoveFacts, Zenon
<1> QED BY <1>2, <1>3, <1>4, <1>5, Zenon

(* A thread goes on in its pool, with the same locals or one of them new. *)
LEMMA GoOnFacts ==
  ASSUME ThreadShapes, NEW t \in Threads, NEW l \in Locations, GoTo(t, l),
         NEW r \in Int, NEW i \in Items(local[t].pool) \cup {INVALID},
         \/ local' = local /\ r = local[t].raw /\ i = local[t].index
         \/ local' = [local EXCEPT ![t].raw = r] /\ i = local[t].index
         \/ local' = [local EXCEPT ![t].index = i] /\ r = local[t].raw
  PROVE  ThreadShapes' /\ View(t, l, local[t].pool, r, i)
<1>1. /\ local[t] \in Frames
      /\ local[t].pool \in Pools /\ local[t].put \in Slots(local[t].pool)
      /\ local[t].index \in Items(local[t].pool) \cup {INVALID}
  BY ThreadTypes, Zenon
<1>2. i \in Int
  BY <1>1, InvalidIsNoItem, Zenon
<1>3. CASE local' = local /\ r = local[t].raw /\ i = local[t].index
  <2>1. local' = [local EXCEPT ![t] = local[t]]
    BY <1>3, Zenon DEF ThreadShapes
  <2> QED BY <1>1, <1>3, <2>1, MoveFacts, Zenon
<1>4. CASE local' = [local EXCEPT ![t].raw = r] /\ i = local[t].index
  <2> DEFINE m == [local[t] EXCEPT !.raw = r]
  <2>1. /\ m \in Frames /\ m.pool = local[t].pool /\ m.put = local[t].put
        /\ m.raw = r /\ m.index = i
    BY <1>1, <1>4, Zenon DEF Frames
  <2>2. local' = [local EXCEPT ![t] = m]
    BY <1>4, Zenon
  <2> HIDE DEF m
  <2> QED BY <1>1, <2>1, <2>2, MoveFacts, Zenon
<1>5. CASE local' = [local EXCEPT ![t].index = i] /\ r = local[t].raw
  <2> DEFINE m == [local[t] EXCEPT !.index = i]
  <2>1. /\ m \in Frames /\ m.pool = local[t].pool /\ m.put = local[t].put
        /\ m.raw = r /\ m.index = i
    BY <1>1, <1>2, <1>5, Zenon DEF Frames
  <2>2. local' = [local EXCEPT ![t] = m]
    BY <1>5, Zenon
  <2> HIDE DEF m
  <2> QED BY <1>1, <2>1, <2>2, MoveFacts, Zenon
<1> QED BY <1>3, <1>4, <1>5, Zenon

(* The forms of these that have fixed values. *)
LEMMA AnewInPool ==
  ASSUME ThreadShapes, NEW t \in Threads, NEW l \in Locations, NEW a \in Pools,
         GoTo(t, l), local' = [local EXCEPT ![t] = [NoLocals EXCEPT !.pool = a]]
  PROVE  ThreadShapes' /\ View(t, l, a, 0, INVALID)
<1> DEFINE z == 0
<1>1. z \in Slots(a) /\ z \in Int /\ z = 0
  BY Sizes
<1>2. INVALID \in Items(a) \cup {INVALID}
  BY Zenon
<1> HIDE DEF z
<1>3. ThreadShapes' /\ View(t, l, a, z, INVALID)
  BY <1>1, <1>2, AnewFacts, Zenon
<1> QED BY <1>1, <1>3, Zenon

LEMMA GoOnRaw ==
  ASSUME ThreadShapes, NEW t \in Threads, NEW l \in Locations, GoTo(t, l),
         NEW r \in Int, local' = [local EXCEPT ![t].raw = r]
  PROVE  ThreadShapes' /\ View(t, l, local[t].pool, r, local[t].index)
<1> DEFINE i == local[t].index
<1>1. i \in Items(local[t].pool) \cup {INVALID} /\ i = local[t].index
  BY ThreadTypes, Zenon
<1> HIDE DEF i
<1>2. ThreadShapes' /\ View(t, l, local[t].pool, r, i)
  BY <1>1, GoOnFacts, Zenon
<1> QED BY <1>1, <1>2, Zenon

(* What the locals are at each location: only the thread that moves counts. *)
LEMMA LocalsStep ==
  ASSUME Locals, NEW t \in Threads, NEW l, NEW a, NEW r, NEW i, View(t, l, a, r, i),
         l = "read_put" => a # Len(PoolItems),
         l \in {"wrap_get", "clear"} \cup CarryLocations => i \in Items(a),
         l \in {"wrap_get", "clear", "wrap_put", "check_slot", "store"} =>
           Ring(r, a) \in Slots(a)
  PROVE  Locals'
<1>1. ASSUME NEW e \in Threads
      PROVE  /\ pc'[e] = "read_put" => local'[e].pool # Len(PoolItems)
             /\ pc'[e] \in {"wrap_get", "clear"} \cup CarryLocations =>
                  local'[e].index \in Items(local'[e].pool)
             /\ pc'[e] \in {"wrap_get", "clear", "wrap_put", "check_slot", "store"} =>
                  Ring(local'[e].raw, local'[e].pool) \in Slots(local'[e].pool)
  <2>1. CASE e = t
    BY <2>1, Zenon DEF View
  <2>2. CASE e # t
    BY <2>2, Zenon DEF View, Locals, Slot
  <2> QED BY <2>1, <2>2, Zenon
<1> QED BY <1>1, Zenon DEF Locals, Slot

LEMMA PutWrapsStep ==
  ASSUME PutWraps, ThreadShapes, DataShapes, NEW t \in Threads, NEW l, NEW a, NEW r,
         NEW i, View(t, l, a, r, i), l # "wrap_put", put' \in [Pools -> Nat],
         \A p \in Pools : put[p] <= put'[p]
  PROVE  PutWraps'
<1>1. ASSUME NEW e \in Threads, pc'[e] = "wrap_put"
      PROVE  /\ e # t /\ pc[e] = "wrap_put" /\ local'[e] = local[e]
             /\ local[e].pool \in Pools
             /\ number_plus_one(local[e].pool) < put'[local[e].pool]
  <2>1. e # t /\ pc[e] = "wrap_put" /\ local'[e] = local[e]
    BY <1>1, Zenon DEF View
  <2>2. local[e].pool \in Pools
    BY ThreadTypes, Zenon
  <2>3. number_plus_one(local[e].pool) < put[local[e].pool]
    BY <2>1, Zenon DEF PutWraps
  <2>4. /\ number_plus_one(local[e].pool) \in Nat /\ put[local[e].pool] \in Nat
        /\ put'[local[e].pool] \in Nat /\ put[local[e].pool] <= put'[local[e].pool]
    BY <2>2, Sizes, Zenon DEF DataShapes
  <2> QED BY <2>1, <2>2, <2>3, <2>4
<1> QED BY <1>1, Zenon DEF PutWraps
-----------------------------------------------------------------------------
(***************************************************************************)
(* The actions one by one: where the thread goes, and that types are kept. *)
(***************************************************************************)
Global == ThreadShapes /\ DataShapes /\ Locals /\ PutWraps

\* the data of the pools
SameData(q) == /\ indexes'[q] = indexes[q] /\ put'[q] = put[q] /\ get'[q] = get[q]
               /\ item_status'[q] = item_status[q] /\ held'[q] = held[q]

LEMMA SameDataShapes ==
  ASSUME DataShapes, UNCHANGED <<indexes, put, get, item_status, held>>
  PROVE  /\ DataShapes'
         /\ put' \in [Pools -> Nat] /\ \A p \in Pools : put[p] <= put'[p]
<1>1. DataShapes'
  BY Zenon DEF DataShapes
<1>2. \A p \in Pools : put[p] \in Nat /\ put'[p] = put[p]
  BY Zenon DEF DataShapes
<1> QED BY <1>1, <1>2 DEF DataShapes

LEMMA LocationNames ==
  /\ {"idle", "read_put", "check_status", "set_status", "set_free", "fetch_get",
      "read_index", "restore", "wrap_get", "clear", "fetch_put", "wrap_put",
      "check_slot", "store"} \subseteq Locations
  /\ CarryLocations = {"check_status", "set_status", "set_free", "fetch_put",
                       "wrap_put", "check_slot", "store"}
BY Zenon DEF Locations, GetLocations, PutLocations, CarryLocations

LEMMA ReadPutPositionFacts ==
  ASSUME Global, NEW t \in Threads, NEW p \in Pools, ReadPutPosition(t, p)
  PROVE  Global' /\ View(t, "fetch_get", p, 0, INVALID)
<1>1. put[p] \in Nat /\ Ring(put[p], p) \in Slots(p)
  <2>1. put[p] \in Nat
    BY Zenon DEF Global, DataShapes
  <2> QED BY <2>1, RingType
<1>2. ThreadShapes' /\ View(t, "fetch_get", p, 0, INVALID)
  <2> DEFINE b == Ring(put[p], p)
  <2>1. /\ GoTo(t, "fetch_get")
        /\ local' = [local EXCEPT ![t] = [NoLocals EXCEPT !.pool = p, !.put = b]]
    BY Zenon DEF ReadPutPosition
  <2>2. /\ b \in Slots(p) /\ "fetch_get" \in Locations /\ 0 \in Int
        /\ INVALID \in Items(p) \cup {INVALID} /\ ThreadShapes
    BY <1>1, LocationNames DEF Global
  <2> HIDE DEF b
  <2> QED BY <2>1, <2>2, AnewFacts, Zenon
<1>3. Locals'
  BY <1>2, LocalsStep, LocationNames, Zenon DEF Global
<1>4. DataShapes' /\ put' \in [Pools -> Nat] /\ \A q \in Pools : put[q] <= put'[q]
  BY SameDataShapes, Zenon DEF ReadPutPosition, Global
<1>5. PutWraps'
  BY <1>2, <1>4, PutWrapsStep, Zenon DEF Global
<1> QED BY <1>2, <1>3, <1>4, <1>5, Zenon DEF Global

LEMMA NextPoolFacts ==
  ASSUME Global, NEW t \in Threads, NextPool(t)
  PROVE  Global' /\ local[t].pool + 1 \in Pools
         /\ View(t, "fetch_get", local[t].pool + 1, 0, INVALID)
<1>1. local[t].pool \in Pools /\ local[t].pool # Len(PoolItems)
  BY ThreadTypes, Zenon DEF Global, Locals, NextPool
<1>2. local[t].pool + 1 \in Pools
  BY <1>1, PoolAssumption, SMTT(30) DEF Pools
<1> QED BY <1>2, ReadPutPositionFacts, Zenon DEF NextPool

LEMMA FetchGetFacts ==
  ASSUME Global, NEW t \in Threads, FetchGet(t)
  PROVE  /\ Global'
         /\ \/ /\ View(t, "restore", local[t].pool, get[local[t].pool], INVALID)
               /\ local[t].pool \in drained'
            \/ View(t, "read_index", local[t].pool, get[local[t].pool], INVALID)
         /\ \A q \in Pools : q # local[t].pool => SameData(q)
         /\ get'[local[t].pool] = get[local[t].pool] + 1
<1> DEFINE p == local[t].pool
           l == IF Ring(get[p], p) = local[t].put THEN "restore" ELSE "read_index"
<1>1. p \in Pools /\ get[p] \in Int /\ 0 \in Slots(p)
  <2>1. p \in Pools
    BY ThreadTypes, Zenon DEF Global
  <2> QED BY <2>1, Sizes DEF Global, DataShapes
<1>2. /\ local' = [local EXCEPT ![t] = [NoLocals EXCEPT !.pool = p, !.raw = get[p]]]
      /\ GoTo(t, l)
      /\ get' = [get EXCEPT ![p] = @ + 1]
      /\ UNCHANGED <<indexes, put, item_status, held>>
  BY Zenon DEF FetchGet
<1>3. /\ l \in Locations /\ l \in {"restore", "read_index"}
      /\ l = "restore" => p \in drained'
  BY LocationNames, Zenon DEF FetchGet
<1> HIDE DEF p, l
<1>4. ThreadShapes' /\ View(t, l, p, get[p], INVALID)
  BY <1>1, <1>2, <1>3, AnewFacts, Zenon DEF Global
<1>5. Locals'
  BY <1>3, <1>4, LocalsStep, LocationNames, Zenon DEF Global
<1>6. /\ get' \in [Pools -> Int] /\ get'[p] = get[p] + 1
      /\ \A q \in Pools : q # p => get'[q] = get[q]
  <2>1. get[p] + 1 \in Int
    BY <1>1
  <2> QED BY <1>1, <1>2, <2>1, Zenon DEF Global, DataShapes
<1>7. /\ DataShapes' /\ put' \in [Pools -> Nat] /\ \A q \in Pools : put[q] <= put'[q]
      /\ \A q \in Pools : q # p => SameData(q)
  <2>1. DataShapes' /\ \A q \in Pools : q # p => SameData(q)
    BY <1>2, <1>6, Zenon DEF Global, DataShapes, SameData
  <2>2. \A q \in Pools : put[q] \in Nat /\ put'[q] = put[q]
    BY <1>2, Zenon DEF Global, DataShapes
  <2> QED BY <2>1, <2>2 DEF DataShapes
<1>8. PutWraps'
  BY <1>3, <1>4, <1>7, PutWrapsStep, Zenon DEF Global
<1> QED BY <1>3, <1>4, <1>5, <1>6, <1>7, <1>8, Zenon DEF Global, p

LEMMA ReadIndexFacts ==
  ASSUME Global, NEW t \in Threads, ReadIndex(t)
  PROVE  /\ Global' /\ Slot(t) \in Slots(local[t].pool)
         /\ \E l \in {"restore", "wrap_get", "clear"} :
              /\ View(t, l, local[t].pool, local[t].raw, indexes[local[t].pool][Slot(t)])
              /\ l = "restore" <=> indexes[local[t].pool][Slot(t)] = INVALID
              /\ l = "wrap_get" => local[t].raw = number_plus_one(local[t].pool)
              /\ l = "clear" => local[t].raw # number_plus_one(local[t].pool)
<1> DEFINE p == local[t].pool
           i == indexes[p][Slot(t)]
           l == CASE i = INVALID -> "restore"
                  [] i # INVALID /\ local[t].raw = number_plus_one(p) -> "wrap_get"
                  [] OTHER -> "clear"
<1>1. p \in Pools /\ local[t].raw \in Int /\ Slot(t) \in Slots(p)
  <2>1. p \in Pools /\ local[t].raw \in Int /\ Slot(t) = Ring(local[t].raw, p)
    BY ThreadTypes, Zenon DEF Global
  <2>2. Slot(t) >= 0
    BY Zenon DEF ReadIndex
  <2> QED BY <2>1, <2>2, RingType, Zenon
<1>2. i \in Items(p) \cup {INVALID}
  BY <1>1, Zenon DEF Global, DataShapes
<1>3. /\ local' = [local EXCEPT ![t].index = i]
      /\ GoTo(t, l)
      /\ UNCHANGED <<indexes, put, get, item_status, held>>
  BY Zenon DEF ReadIndex
<1>4. /\ l \in {"restore", "wrap_get", "clear"}
      /\ l = "restore" <=> i = INVALID
      /\ l = "wrap_get" => local[t].raw = number_plus_one(p)
      /\ l = "clear" => local[t].raw # number_plus_one(p)
  BY Zenon
<1>5. l \in Locations
  BY <1>4, LocationNames, Zenon
<1> HIDE DEF l, i
<1>6. ThreadShapes' /\ View(t, l, local[t].pool, local[t].raw, i)
  BY <1>1, <1>2, <1>3, <1>5, GoOnFacts, Zenon DEF Global
<1>7. Locals'
  <2>1. Ring(local[t].raw, local[t].pool) \in Slots(local[t].pool)
    BY <1>1, Zenon DEF Slot
  <2> QED BY <1>2, <1>4, <1>6, <2>1, LocalsStep, LocationNames, Zenon DEF Global
<1>8. DataShapes' /\ put' \in [Pools -> Nat] /\ \A q \in Pools : put[q] <= put'[q]
  BY <1>3, SameDataShapes, Zenon DEF Global
<1>9. PutWraps'
  BY <1>4, <1>6, <1>8, PutWrapsStep, Zenon DEF Global
<1> QED BY <1>1, <1>4, <1>6, <1>7, <1>8, <1>9, Zenon DEF Global, i

LEMMA RestoreGetFacts ==
  ASSUME Global, NEW t \in Threads, RestoreGet(t)
  PROVE  /\ Global'
         /\ \/ View(t, "idle", 1, 0, INVALID)
            \/ View(t, "read_put", local[t].pool, 0, INVALID)
         /\ \A q \in Pools : q # local[t].pool => SameData(q)
<1> DEFINE p == local[t].pool
<1>1. p \in Pools /\ get[p] \in Int /\ 0 \in Slots(p)
  <2>1. p \in Pools
    BY ThreadTypes, Zenon DEF Global
  <2> QED BY <2>1, Sizes, SMTT(30) DEF Global, DataShapes
<1>2. \/ Return(t)
      \/ /\ p # Len(PoolItems) /\ GoTo(t, "read_put")
         /\ local' = [local EXCEPT ![t] = [NoLocals EXCEPT !.pool = p]]
  BY Zenon DEF RestoreGet
<1>3. get' = [get EXCEPT ![p] = @ - 1] /\ UNCHANGED <<indexes, put, item_status, held>>
  BY Zenon DEF RestoreGet
<1> HIDE DEF p
<1>4. \/ ThreadShapes' /\ View(t, "idle", 1, 0, INVALID)
      \/ /\ ThreadShapes' /\ View(t, "read_put", p, 0, INVALID)
         /\ p # Len(PoolItems)
  <2>1. CASE Return(t)
    BY <2>1, ReturnFacts, Zenon DEF Global
  <2>2. CASE /\ p # Len(PoolItems) /\ GoTo(t, "read_put")
             /\ local' = [local EXCEPT ![t] = [NoLocals EXCEPT !.pool = p]]
    <3>1. "read_put" \in Locations /\ INVALID \in Items(p) \cup {INVALID} /\ ThreadShapes
      BY LocationNames, Zenon DEF Global
    <3> QED BY <1>1, <2>2, <3>1, AnewInPool, Zenon
  <2> QED BY <1>2, <2>1, <2>2, Zenon
<1>5. Locals'
  BY <1>4, LocalsStep, LocationNames, Zenon DEF Global
<1>6. get' \in [Pools -> Int] /\ \A q \in Pools : q # p => get'[q] = get[q]
  <2>1. get[p] - 1 \in Int
    BY <1>1
  <2> QED BY <1>3, <2>1, Zenon DEF Global, DataShapes
<1>7. /\ DataShapes' /\ put' \in [Pools -> Nat] /\ \A q \in Pools : put[q] <= put'[q]
      /\ \A q \in Pools : q # p => SameData(q)
  <2>1. DataShapes' /\ \A q \in Pools : q # p => SameData(q)
    BY <1>3, <1>6, Zenon DEF Global, DataShapes, SameData
  <2>2. \A q \in Pools : put[q] \in Nat /\ put'[q] = put[q]
    BY <1>3, Zenon DEF Global, DataShapes
  <2> QED BY <2>1, <2>2, SMTT(30) DEF DataShapes
<1>8. PutWraps'
  BY <1>4, <1>7, PutWrapsStep, Zenon DEF Global
<1> QED BY <1>4, <1>5, <1>7, <1>8, Zenon DEF Global, p

LEMMA WrapGetFacts ==
  ASSUME Global, NEW t \in Threads, WrapGet(t)
  PROVE  /\ Global'
         /\ View(t, "clear", local[t].pool, local[t].raw, local[t].index)
         /\ \A q \in Pools : q # local[t].pool => SameData(q)
         /\ get'[local[t].pool] = get[local[t].pool] - number_plus_one(local[t].pool)
<1> DEFINE p == local[t].pool
<1>1. /\ p \in Pools /\ get[p] \in Int /\ number_plus_one(p) \in Int
      /\ local[t].raw \in Int /\ local[t].index \in Items(p)
  <2>1. p \in Pools /\ local[t].raw \in Int /\ local[t].index \in Items(p)
    BY ThreadTypes, Zenon DEF Global, Locals, WrapGet
  <2> QED BY <2>1, Sizes DEF Global, DataShapes
<1>2. /\ get' = [get EXCEPT ![p] = @ - number_plus_one(p)] /\ local' = local
      /\ GoTo(t, "clear") /\ UNCHANGED <<indexes, put, item_status, held>>
  BY Zenon DEF WrapGet
<1>3. ThreadShapes' /\ View(t, "clear", local[t].pool, local[t].raw, local[t].index)
  BY <1>1, <1>2, GoOnFacts, LocationNames, Zenon DEF Global
<1>4. Locals'
  <2>1. Ring(local[t].raw, local[t].pool) \in Slots(local[t].pool)
    BY Zenon DEF Global, Locals, Slot, WrapGet
  <2> QED BY <1>1, <1>3, <2>1, LocalsStep, LocationNames DEF Global
<1> HIDE DEF p
<1>5. /\ get' \in [Pools -> Int] /\ get'[p] = get[p] - number_plus_one(p)
      /\ \A q \in Pools : q # p => get'[q] = get[q]
  <2>1. get[p] - number_plus_one(p) \in Int
    BY <1>1
  <2> QED BY <1>1, <1>2, <2>1, Zenon DEF Global, DataShapes
<1>6. /\ DataShapes' /\ put' \in [Pools -> Nat] /\ \A q \in Pools : put[q] <= put'[q]
      /\ \A q \in Pools : q # p => SameData(q)
  <2>1. DataShapes' /\ \A q \in Pools : q # p => SameData(q)
    BY <1>2, <1>5, Zenon DEF Global, DataShapes, SameData
  <2>2. \A q \in Pools : put[q] \in Nat /\ put'[q] = put[q]
    BY <1>2, Zenon DEF Global, DataShapes
  <2> QED BY <2>1, <2>2, SMTT(30) DEF DataShapes
<1>7. PutWraps'
  BY <1>3, <1>6, PutWrapsStep, Zenon DEF Global
<1> QED BY <1>3, <1>4, <1>5, <1>6, <1>7, Zenon DEF Global, p

(* A slot of a pool's ring gets a new content. *)
LEMMA NewIndex ==
  ASSUME DataShapes, NEW p \in Pools, NEW s \in Slots(p),
         NEW i \in Items(p) \cup {INVALID}, indexes' = [indexes EXCEPT ![p][s] = i],
         UNCHANGED <<put, get, item_status, held>>
  PROVE  /\ DataShapes'
         /\ put' \in [Pools -> Nat] /\ \A q \in Pools : put[q] <= put'[q]
         /\ \A q \in Pools : q # p => SameData(q)
         /\ indexes'[p][s] = i
         /\ \A r \in Slots(p) : r # s => indexes'[p][r] = indexes[p][r]
<1>1. indexes'[p] = [indexes[p] EXCEPT ![s] = i]
  BY Zenon DEF DataShapes
<1>2. \A q \in Pools : q # p => indexes'[q] = indexes[q]
  BY Zenon DEF DataShapes
<1>3. /\ indexes'[p] \in [Slots(p) -> Items(p) \cup {INVALID}] /\ indexes'[p][s] = i
      /\ \A r \in Slots(p) : r # s => indexes'[p][r] = indexes[p][r]
  BY <1>1, Zenon DEF DataShapes
<1>4. DOMAIN indexes' = Pools
  BY Zenon DEF DataShapes
<1>5. \A q \in Pools : indexes'[q] \in [Slots(q) -> Items(q) \cup {INVALID}]
  BY <1>2, <1>3, Zenon DEF DataShapes
<1>6. DataShapes'
  BY <1>4, <1>5, Zenon DEF DataShapes
<1>7. \A q \in Pools : put[q] \in Nat /\ put'[q] = put[q]
  BY Zenon DEF DataShapes
<1> QED BY <1>2, <1>3, <1>6, <1>7 DEF DataShapes, SameData

LEMMA ClearIndexFacts ==
  ASSUME Global, NEW t \in Threads, ClearIndex(t)
  PROVE  /\ Global' /\ View(t, "check_status", local[t].pool, 0, local[t].index)
         /\ \A q \in Pools : q # local[t].pool => SameData(q)
         /\ indexes'[local[t].pool][Slot(t)] = INVALID
         /\ \A s \in Slots(local[t].pool) : s # Slot(t) =>
              indexes'[local[t].pool][s] = indexes[local[t].pool][s]
<1> DEFINE p == local[t].pool
<1>1. p \in Pools /\ local[t].index \in Items(p) /\ Slot(t) \in Slots(p)
  BY ThreadTypes, Zenon DEF Global, Locals, ClearIndex
<1>2. /\ indexes' = [indexes EXCEPT ![p][Slot(t)] = INVALID]
      /\ local' = [local EXCEPT ![t].raw = 0] /\ GoTo(t, "check_status")
      /\ UNCHANGED <<put, get, item_status, held>>
  BY Zenon DEF ClearIndex
<1>3. ThreadShapes' /\ View(t, "check_status", local[t].pool, 0, local[t].index)
  <2>1. "check_status" \in Locations /\ 0 \in Int /\ ThreadShapes
    BY LocationNames DEF Global
  <2> QED BY <1>2, <2>1, GoOnRaw, Zenon
<1>4. Locals'
  BY <1>1, <1>3, LocalsStep, LocationNames DEF Global
<1> HIDE DEF p
<1>5. /\ DataShapes' /\ put' \in [Pools -> Nat] /\ \A q \in Pools : put[q] <= put'[q]
      /\ \A q \in Pools : q # p => SameData(q)
      /\ indexes'[p][Slot(t)] = INVALID
      /\ \A s \in Slots(p) : s # Slot(t) => indexes'[p][s] = indexes[p][s]
  <2>1. UNCHANGED <<put, get, item_status, held>> /\ DataShapes
    BY <1>2, Zenon DEF Global
  <2> QED BY <1>1, <1>2, <2>1, NewIndex, ZenonT(30)
<1>6. PutWraps'
  BY <1>3, <1>5, PutWrapsStep, Zenon DEF Global
<1> QED BY <1>3, <1>4, <1>5, <1>6, Zenon DEF Global, p

LEMMA CheckStatusFacts ==
  ASSUME Global, NEW t \in Threads, CheckStatus(t)
  PROVE  /\ Global'
         /\ \/ /\ item_status[local[t].pool][local[t].index] = "free"
               /\ View(t, "set_status", local[t].pool, local[t].raw, local[t].index)
               /\ aborted' = aborted
            \/ /\ item_status[local[t].pool][local[t].index] # "free"
               /\ View(t, "idle", 1, 0, INVALID)
<1>1. DataShapes' /\ put' \in [Pools -> Nat] /\ \A q \in Pools : put[q] <= put'[q]
  BY SameDataShapes, Zenon DEF CheckStatus, Global
<1>2. local[t].raw \in Int /\ local[t].index \in Items(local[t].pool)
  BY ThreadTypes, LocationNames, Zenon DEF Global, Locals, CheckStatus
<1>3. CASE /\ item_status[local[t].pool][local[t].index] = "free"
           /\ GoTo(t, "set_status") /\ local' = local /\ aborted' = aborted
  <2>1. /\ ThreadShapes'
        /\ View(t, "set_status", local[t].pool, local[t].raw, local[t].index)
    BY <1>2, <1>3, GoOnFacts, LocationNames, Zenon DEF Global
  <2>2. Locals'
    BY <1>2, <2>1, LocalsStep DEF Global
  <2>3. PutWraps'
    BY <1>1, <2>1, PutWrapsStep, Zenon DEF Global
  <2> QED BY <1>1, <1>3, <2>1, <2>2, <2>3, Zenon DEF Global
<1>4. CASE item_status[local[t].pool][local[t].index] # "free" /\ Return(t)
  <2>1. ThreadShapes' /\ View(t, "idle", 1, 0, INVALID)
    BY <1>4, ReturnFacts, Zenon DEF Global
  <2>2. Locals'
    BY <2>1, LocalsStep, LocationNames, Zenon DEF Global
  <2>3. PutWraps'
    BY <1>1, <2>1, PutWrapsStep, Zenon DEF Global
  <2> QED BY <1>1, <1>4, <2>1, <2>2, <2>3, Zenon DEF Global
<1> QED BY <1>3, <1>4, Zenon DEF CheckStatus

(* The status of an item is new, the number of its messages is, and what follows. *)
LEMMA NewStatus ==
  ASSUME DataShapes, NEW p \in Pools, NEW i \in Items(p),
         NEW w \in {"free", "allocated"},
         item_status' = [item_status EXCEPT ![p][i] = w]
  PROVE  /\ DOMAIN item_status' = Pools
         /\ \A q \in Pools : q # p => item_status'[q] = item_status[q]
         /\ item_status'[p] \in [Items(p) -> {"free", "allocated"}]
         /\ item_status'[p][i] = w
         /\ \A j \in Items(p) : j # i => item_status'[p][j] = item_status[p][j]
<1>1. item_status'[p] = [item_status[p] EXCEPT ![i] = w]
  BY Zenon DEF DataShapes
<1>2. /\ DOMAIN item_status' = Pools
      /\ \A q \in Pools : q # p => item_status'[q] = item_status[q]
  BY Zenon DEF DataShapes
<1> QED BY <1>1, <1>2, ZenonT(30) DEF DataShapes

LEMMA NewHeld ==
  ASSUME DataShapes, NEW p \in Pools, NEW i \in Items(p), NEW h \in Nat,
         held' = [held EXCEPT ![p][i] = h]
  PROVE  /\ DOMAIN held' = Pools
         /\ \A q \in Pools : q # p => held'[q] = held[q]
         /\ held'[p] \in [Items(p) -> Nat]
         /\ held'[p][i] = h
         /\ \A j \in Items(p) : j # i => held'[p][j] = held[p][j]
<1>1. held'[p] = [held[p] EXCEPT ![i] = h]
  BY Zenon DEF DataShapes
<1>2. /\ DOMAIN held' = Pools
      /\ \A q \in Pools : q # p => held'[q] = held[q]
  BY Zenon DEF DataShapes
<1> QED BY <1>1, <1>2, Zenon DEF DataShapes

LEMMA NewItemData ==
  ASSUME DataShapes, NEW p \in Pools, UNCHANGED <<indexes, put, get>>,
         DOMAIN item_status' = Pools, DOMAIN held' = Pools,
         item_status'[p] \in [Items(p) -> {"free", "allocated"}],
         held'[p] \in [Items(p) -> Nat],
         \A q \in Pools : q # p => item_status'[q] = item_status[q],
         \A q \in Pools : q # p => held'[q] = held[q]
  PROVE  /\ DataShapes'
         /\ put' \in [Pools -> Nat] /\ \A q \in Pools : put[q] <= put'[q]
         /\ \A q \in Pools : q # p => SameData(q)
<1>1. \A q \in Pools : /\ item_status'[q] \in [Items(q) -> {"free", "allocated"}]
                       /\ held'[q] \in [Items(q) -> Nat]
  BY Zenon DEF DataShapes
<1>2. DataShapes'
  BY <1>1, Zenon DEF DataShapes
<1>3. \A q \in Pools : put[q] \in Nat /\ put'[q] = put[q]
  BY Zenon DEF DataShapes
<1> QED BY <1>2, <1>3 DEF DataShapes, SameData

LEMMA SetStatusFacts ==
  ASSUME Global, NEW t \in Threads, SetStatus(t)
  PROVE  /\ Global' /\ View(t, "idle", 1, 0, INVALID)
         /\ \A q \in Pools : q # local[t].pool => SameData(q)
         /\ item_status'[local[t].pool][local[t].index] = "allocated"
         /\ held'[local[t].pool][local[t].index]
              = held[local[t].pool][local[t].index] + 1
         /\ \A j \in Items(local[t].pool) : j # local[t].index =>
              /\ item_status'[local[t].pool][j] = item_status[local[t].pool][j]
              /\ held'[local[t].pool][j] = held[local[t].pool][j]
<1> DEFINE p == local[t].pool
           i == local[t].index
           h == held[p][i] + 1
<1>1. p \in Pools /\ i \in Items(p)
  BY ThreadTypes, LocationNames, Zenon DEF Global, Locals, SetStatus
<1>2. h \in Nat
  BY <1>1 DEF Global, DataShapes
<1>3. /\ item_status' = [item_status EXCEPT ![p][i] = "allocated"]
      /\ held' = [held EXCEPT ![p][i] = h]
      /\ Return(t) /\ UNCHANGED <<indexes, put, get>>
  BY <1>1, Zenon DEF SetStatus, Global, DataShapes
<1>4. ThreadShapes' /\ View(t, "idle", 1, 0, INVALID)
  BY <1>3, ReturnFacts, Zenon DEF Global
<1>5. Locals'
  BY <1>4, LocalsStep, LocationNames, Zenon DEF Global
<1> HIDE DEF p, i, h
<1>6. /\ DataShapes' /\ put' \in [Pools -> Nat] /\ \A q \in Pools : put[q] <= put'[q]
      /\ \A q \in Pools : q # p => SameData(q)
      /\ item_status'[p][i] = "allocated" /\ held'[p][i] = h
      /\ \A j \in Items(p) : j # i => /\ item_status'[p][j] = item_status[p][j]
                                      /\ held'[p][j] = held[p][j]
  <2>1. /\ DOMAIN item_status' = Pools
        /\ \A q \in Pools : q # p => item_status'[q] = item_status[q]
        /\ item_status'[p] \in [Items(p) -> {"free", "allocated"}]
        /\ item_status'[p][i] = "allocated"
        /\ \A j \in Items(p) : j # i => item_status'[p][j] = item_status[p][j]
    BY <1>1, <1>3, NewStatus, ZenonT(30) DEF Global
  <2>2. /\ DOMAIN held' = Pools
        /\ \A q \in Pools : q # p => held'[q] = held[q]
        /\ held'[p] \in [Items(p) -> Nat] /\ held'[p][i] = h
        /\ \A j \in Items(p) : j # i => held'[p][j] = held[p][j]
    BY <1>1, <1>2, <1>3, NewHeld, ZenonT(30) DEF Global
  <2>3. UNCHANGED <<indexes, put, get>> /\ DataShapes
    BY <1>3, Zenon DEF Global
  <2> QED BY <1>1, <2>1, <2>2, <2>3, NewItemData, Zenon
<1>7. PutWraps'
  BY <1>4, <1>6, PutWrapsStep, Zenon DEF Global
<1> QED BY <1>4, <1>5, <1>6, <1>7, Zenon DEF Global, p, i, h

LEMMA BeginFreeFacts ==
  ASSUME Global, NEW t \in Threads, NEW p \in Pools, NEW i \in Items(p),
         BeginFree(t, p, i)
  PROVE  /\ Global'
         /\ \/ /\ item_status[p][i] = "allocated" /\ View(t, "set_free", p, 0, i)
               /\ aborted' = aborted
            \/ item_status[p][i] # "allocated" /\ View(t, "idle", p, 0, i)
         /\ held[p][i] > 0
         /\ \A q \in Pools : q # p => SameData(q)
         /\ item_status'[p][i] = item_status[p][i] /\ held'[p][i] = held[p][i] - 1
         /\ \A j \in Items(p) : j # i => /\ item_status'[p][j] = item_status[p][j]
                                         /\ held'[p][j] = held[p][j]
<1> DEFINE h == held[p][i] - 1
           w == item_status[p][i]
           l == IF w = "allocated" THEN "set_free" ELSE "idle"
           b == 0
<1>1. /\ h \in Nat /\ held[p][i] > 0
      /\ w \in {"free", "allocated"} /\ w = item_status[p][i]
  BY DEF Global, DataShapes, BeginFree
<1>2. /\ item_status' = item_status
      /\ held' = [held EXCEPT ![p][i] = h]
      /\ local' = [local EXCEPT ![t] = [NoLocals EXCEPT !.pool = p, !.index = i]]
      /\ UNCHANGED <<indexes, put, get>>
      /\ w = "allocated" => aborted' = aborted
  BY Zenon DEF BeginFree, Global, DataShapes
<1>3. GoTo(t, l)
  <2>1. pc[t] = "idle" => pc = [pc EXCEPT ![t] = "idle"]
    BY Zenon DEF Global, ThreadShapes
  <2> QED BY <2>1, Zenon DEF BeginFree, GoTo
<1>4. /\ l \in Locations /\ l \in {"set_free", "idle"}
      /\ l = "set_free" <=> w = "allocated"
      /\ b = 0 /\ b \in Int /\ b \in Slots(p)
  BY LocationNames, Sizes
<1> HIDE DEF h, l, w, b
<1>5. ThreadShapes' /\ View(t, l, p, b, i)
  BY <1>2, <1>3, <1>4, AnewFacts, Zenon DEF Global
<1>6. Locals'
  BY <1>4, <1>5, LocalsStep, LocationNames, Zenon DEF Global
<1>7. /\ DataShapes' /\ put' \in [Pools -> Nat] /\ \A q \in Pools : put[q] <= put'[q]
      /\ \A q \in Pools : q # p => SameData(q)
      /\ item_status'[p][i] = w /\ held'[p][i] = h
      /\ \A j \in Items(p) : j # i => /\ item_status'[p][j] = item_status[p][j]
                                      /\ held'[p][j] = held[p][j]
  <2>1. /\ DOMAIN item_status' = Pools
        /\ \A q \in Pools : item_status'[q] = item_status[q]
        /\ item_status'[p] \in [Items(p) -> {"free", "allocated"}]
    BY <1>2, Zenon DEF Global, DataShapes
  <2>2. /\ DOMAIN held' = Pools
        /\ \A q \in Pools : q # p => held'[q] = held[q]
        /\ held'[p] \in [Items(p) -> Nat] /\ held'[p][i] = h
        /\ \A j \in Items(p) : j # i => held'[p][j] = held[p][j]
    BY <1>1, <1>2, NewHeld, ZenonT(30) DEF Global
  <2>3. UNCHANGED <<indexes, put, get>> /\ DataShapes
    BY <1>2, Zenon DEF Global
  <2> QED BY <1>1, <2>1, <2>2, <2>3, NewItemData, Zenon
<1>8. PutWraps'
  BY <1>4, <1>5, <1>7, PutWrapsStep, Zenon DEF Global
<1> QED BY <1>1, <1>2, <1>4, <1>5, <1>6, <1>7, <1>8, Zenon DEF Global, w, h

LEMMA SetFreeFacts ==
  ASSUME Global, NEW t \in Threads, SetFree(t)
  PROVE  /\ Global'
         /\ View(t, "fetch_put", local[t].pool, local[t].raw, local[t].index)
         /\ \A q \in Pools : q # local[t].pool => SameData(q)
         /\ item_status'[local[t].pool][local[t].index] = "free"
         /\ \A j \in Items(local[t].pool) : j # local[t].index =>
              item_status'[local[t].pool][j] = item_status[local[t].pool][j]
<1> DEFINE p == local[t].pool
           i == local[t].index
<1>1. p \in Pools /\ i \in Items(p) /\ local[t].raw \in Int
  BY ThreadTypes, LocationNames, Zenon DEF Global, Locals, SetFree
<1>3. /\ item_status' = [item_status EXCEPT ![p][i] = "free"] /\ held' = held
      /\ GoTo(t, "fetch_put") /\ local' = local /\ UNCHANGED <<indexes, put, get>>
  BY Zenon DEF SetFree
<1>4. /\ ThreadShapes'
      /\ View(t, "fetch_put", local[t].pool, local[t].raw, local[t].index)
  BY <1>1, <1>3, GoOnFacts, LocationNames, Zenon DEF Global
<1>5. Locals'
  BY <1>1, <1>4, LocalsStep, LocationNames, SMTT(30) DEF Global
<1> HIDE DEF p, i
<1>6. /\ DataShapes' /\ put' \in [Pools -> Nat] /\ \A q \in Pools : put[q] <= put'[q]
      /\ \A q \in Pools : q # p => SameData(q)
      /\ item_status'[p][i] = "free"
      /\ \A j \in Items(p) : j # i => item_status'[p][j] = item_status[p][j]
  <2>1. /\ DOMAIN item_status' = Pools
        /\ \A q \in Pools : q # p => item_status'[q] = item_status[q]
        /\ item_status'[p] \in [Items(p) -> {"free", "allocated"}]
        /\ item_status'[p][i] = "free"
        /\ \A j \in Items(p) : j # i => item_status'[p][j] = item_status[p][j]
    BY <1>1, <1>3, NewStatus, Zenon DEF Global
  <2>2. /\ DOMAIN held' = Pools
        /\ \A q \in Pools : q # p => held'[q] = held[q]
        /\ held'[p] \in [Items(p) -> Nat]
    BY <1>1, <1>3, Zenon DEF Global, DataShapes
  <2>3. UNCHANGED <<indexes, put, get>> /\ DataShapes
    BY <1>3, Zenon DEF Global
  <2> QED BY <1>1, <2>1, <2>2, <2>3, NewItemData, Zenon
<1>7. PutWraps'
  BY <1>4, <1>6, PutWrapsStep, Zenon DEF Global
<1> QED BY <1>4, <1>5, <1>6, <1>7, Zenon DEF Global, p, i

LEMMA FetchPutFacts ==
  ASSUME Global, NEW t \in Threads, FetchPut(t)
  PROVE  /\ Global'
         /\ \E l \in {"wrap_put", "check_slot"} :
              /\ View(t, l, local[t].pool, put[local[t].pool], local[t].index)
              /\ l = "wrap_put" <=> put[local[t].pool] = number_plus_one(local[t].pool)
         /\ \A q \in Pools : q # local[t].pool => SameData(q)
         /\ put'[local[t].pool] = put[local[t].pool] + 1
<1> DEFINE p == local[t].pool
           l == IF put[p] = number_plus_one(p) THEN "wrap_put" ELSE "check_slot"
<1>1. /\ p \in Pools /\ local[t].index \in Items(p)
      /\ put[p] \in Nat /\ put[p] \in Int /\ number_plus_one(p) \in Nat
  <2>1. p \in Pools /\ local[t].index \in Items(p)
    BY ThreadTypes, LocationNames, Zenon DEF Global, Locals, FetchPut
  <2> QED BY <2>1, Sizes DEF Global, DataShapes
<1>2. /\ local' = [local EXCEPT ![t].raw = put[p]]
      /\ put' = [put EXCEPT ![p] = @ + 1]
      /\ GoTo(t, l)
      /\ UNCHANGED <<indexes, get, item_status, held>>
  BY Zenon DEF FetchPut
<1>3. /\ l \in Locations /\ l \in {"wrap_put", "check_slot"}
      /\ l = "wrap_put" <=> put[p] = number_plus_one(p)
  BY LocationNames, Zenon
<1> HIDE DEF l
<1>4. ThreadShapes' /\ View(t, l, local[t].pool, put[p], local[t].index)
  BY <1>1, <1>2, <1>3, GoOnRaw, Zenon DEF Global
<1>5. Locals'
  <2>1. Ring(put[p], p) \in Slots(p)
    BY <1>1, RingType
  <2> QED BY <1>1, <1>3, <1>4, <2>1, LocalsStep, LocationNames, Zenon DEF Global
<1> HIDE DEF p
<1>6. /\ put' \in [Pools -> Nat] /\ put'[p] = put[p] + 1
      /\ \A q \in Pools : q # p => put'[q] = put[q]
  <2>1. put[p] + 1 \in Nat
    BY <1>1
  <2> QED BY <1>1, <1>2, <2>1, Zenon DEF Global, DataShapes
<1>7. DataShapes' /\ \A q \in Pools : q # p => SameData(q)
  BY <1>2, <1>6, Zenon DEF Global, DataShapes, SameData
<1>8. PutWraps'
  <2>1. ASSUME NEW e \in Threads, pc'[e] = "wrap_put"
        PROVE  /\ number_plus_one(local'[e].pool) < put'[local'[e].pool]
               /\ e # t => /\ pc[e] = "wrap_put" /\ local'[e] = local[e]
                           /\ number_plus_one(local[e].pool) < put[local[e].pool]
               /\ e = t => put[p] = number_plus_one(p) /\ local'[e].pool = p
    <3>1. CASE e = t
      <4>1. local'[e].pool = p /\ put[p] = number_plus_one(p)
        BY <1>3, <1>4, <2>1, <3>1, Zenon DEF View, p
      <4> QED BY <1>1, <1>6, <3>1, <4>1, SMTT(30)
    <3>2. CASE e # t
      <4>1. /\ pc[e] = "wrap_put" /\ local'[e] = local[e]
            /\ number_plus_one(local[e].pool) < put[local[e].pool]
        BY <1>4, <2>1, <3>2, Zenon DEF View, Global, PutWraps
      <4>2. local[e].pool \in Pools
        BY ThreadTypes, Zenon DEF Global
      <4>3. CASE local[e].pool = p
        BY <1>1, <1>6, <3>2, <4>1, <4>3, SMTT(30)
      <4>4. CASE local[e].pool # p
        BY <1>6, <3>2, <4>1, <4>2, <4>4, Zenon
      <4> QED BY <4>3, <4>4, Zenon
    <3> QED BY <3>1, <3>2, Zenon
  <2>2. ASSUME NEW c \in Threads, NEW e \in Threads, pc'[c] = "wrap_put",
               pc'[e] = "wrap_put", local'[e].pool = local'[c].pool
        PROVE  e = c
    <3>1. CASE c = t \/ e = t
      BY <1>1, <2>1, <2>2, <3>1, SMTT(30)
    <3>2. CASE c # t /\ e # t
      BY <2>1, <2>2, <3>2, ZenonT(30) DEF Global, PutWraps
    <3> QED BY <3>1, <3>2, Zenon
  <2> QED BY <2>1, <2>2, Zenon DEF PutWraps
<1> QED BY <1>3, <1>4, <1>5, <1>6, <1>7, <1>8, Zenon DEF Global, p

LEMMA WrapPutFacts ==
  ASSUME Global, NEW t \in Threads, WrapPut(t)
  PROVE  /\ Global'
         /\ View(t, "check_slot", local[t].pool, local[t].raw, local[t].index)
         /\ \A q \in Pools : q # local[t].pool => SameData(q)
         /\ put'[local[t].pool] = put[local[t].pool] - number_plus_one(local[t].pool)
<1> DEFINE p == local[t].pool
<1>1. /\ p \in Pools /\ local[t].index \in Items(p) /\ local[t].raw \in Int
      /\ put[p] \in Nat /\ number_plus_one(p) \in Nat /\ number_plus_one(p) < put[p]
      /\ Ring(local[t].raw, p) \in Slots(p)
  <2>1. /\ p \in Pools /\ local[t].index \in Items(p) /\ local[t].raw \in Int
        /\ Ring(local[t].raw, p) \in Slots(p)
    BY ThreadTypes, LocationNames, Zenon DEF Global, Locals, WrapPut, Slot
  <2>2. number_plus_one(p) < put[p]
    BY Zenon DEF Global, PutWraps, WrapPut
  <2> QED BY <2>1, <2>2, Sizes, Zenon DEF Global, DataShapes
<1>2. /\ put' = [put EXCEPT ![p] = @ - number_plus_one(p)] /\ local' = local
      /\ GoTo(t, "check_slot")
      /\ UNCHANGED <<indexes, get, item_status, held>>
  BY Zenon DEF WrapPut
<1>3. /\ ThreadShapes'
      /\ View(t, "check_slot", local[t].pool, local[t].raw, local[t].index)
  BY <1>1, <1>2, GoOnFacts, LocationNames, Zenon DEF Global
<1>4. Locals'
  BY <1>1, <1>3, LocalsStep, LocationNames, SMTT(30) DEF Global
<1>5. ASSUME NEW e \in Threads, pc'[e] = "wrap_put"
      PROVE  /\ e # t /\ pc[e] = "wrap_put" /\ local'[e] = local[e]
             /\ local[e].pool \in Pools /\ local[e].pool # p
  BY <1>3, <1>5, ThreadTypes, Zenon DEF View, Global, PutWraps, WrapPut
<1> HIDE DEF p
<1>6. /\ put' \in [Pools -> Nat] /\ put'[p] = put[p] - number_plus_one(p)
      /\ \A q \in Pools : q # p => put'[q] = put[q]
  <2>1. put[p] - number_plus_one(p) \in Nat
    BY <1>1, SMTT(30)
  <2> QED BY <1>1, <1>2, <2>1, Zenon DEF Global, DataShapes
<1>7. DataShapes' /\ \A q \in Pools : q # p => SameData(q)
  BY <1>2, <1>6, Zenon DEF Global, DataShapes, SameData
<1>8. PutWraps'
  BY <1>5, <1>6, SMTT(30) DEF PutWraps, Global
<1> QED BY <1>3, <1>4, <1>6, <1>7, <1>8, Zenon DEF Global, p

LEMMA CheckSlotFacts ==
  ASSUME Global, NEW t \in Threads, CheckSlot(t)
  PROVE  /\ Global'
         /\ \/ View(t, "store", local[t].pool, local[t].raw, local[t].index)
            \/ /\ indexes[local[t].pool][Slot(t)] # INVALID
               /\ View(t, "idle", 1, 0, INVALID)
<1>1. DataShapes' /\ put' \in [Pools -> Nat] /\ \A q \in Pools : put[q] <= put'[q]
  BY SameDataShapes, Zenon DEF CheckSlot, Global
<1>2. /\ local[t].raw \in Int /\ local[t].index \in Items(local[t].pool)
      /\ Ring(local[t].raw, local[t].pool) \in Slots(local[t].pool)
  BY ThreadTypes, LocationNames, Zenon DEF Global, Locals, CheckSlot, Slot
<1>3. CASE GoTo(t, "store") /\ local' = local
  <2>1. /\ ThreadShapes'
        /\ View(t, "store", local[t].pool, local[t].raw, local[t].index)
    BY <1>2, <1>3, GoOnFacts, LocationNames, Zenon DEF Global
  <2>2. Locals'
    BY <1>2, <2>1, LocalsStep DEF Global
  <2>3. PutWraps'
    BY <1>1, <2>1, PutWrapsStep, Zenon DEF Global
  <2> QED BY <1>1, <2>1, <2>2, <2>3, Zenon DEF Global
<1>4. CASE indexes[local[t].pool][Slot(t)] # INVALID /\ Return(t)
  <2>1. ThreadShapes' /\ View(t, "idle", 1, 0, INVALID)
    BY <1>4, ReturnFacts, Zenon DEF Global
  <2>2. Locals'
    BY <2>1, LocalsStep, LocationNames, Zenon DEF Global
  <2>3. PutWraps'
    BY <1>1, <2>1, PutWrapsStep, Zenon DEF Global
  <2> QED BY <1>1, <1>4, <2>1, <2>2, <2>3, Zenon DEF Global
<1> QED BY <1>3, <1>4, Zenon DEF CheckSlot

LEMMA StoreIndexFacts ==
  ASSUME Global, NEW t \in Threads, StoreIndex(t)
  PROVE  /\ Global' /\ View(t, "idle", 1, 0, INVALID)
         /\ \A q \in Pools : q # local[t].pool => SameData(q)
         /\ indexes'[local[t].pool][Slot(t)] = local[t].index
         /\ \A s \in Slots(local[t].pool) : s # Slot(t) =>
              indexes'[local[t].pool][s] = indexes[local[t].pool][s]
<1> DEFINE p == local[t].pool
           i == local[t].index
<1>1. p \in Pools /\ i \in Items(p) /\ Slot(t) \in Slots(p)
  BY ThreadTypes, LocationNames, Zenon DEF Global, Locals, StoreIndex
<1>2. /\ indexes' = [indexes EXCEPT ![p][Slot(t)] = i] /\ Return(t)
      /\ UNCHANGED <<put, get, item_status, held>>
  BY Zenon DEF StoreIndex
<1>3. ThreadShapes' /\ View(t, "idle", 1, 0, INVALID)
  BY <1>2, ReturnFacts, Zenon DEF Global
<1>4. Locals'
  BY <1>3, LocalsStep, LocationNames, Zenon DEF Global
<1> HIDE DEF p, i
<1>5. /\ DataShapes' /\ put' \in [Pools -> Nat] /\ \A q \in Pools : put[q] <= put'[q]
      /\ \A q \in Pools : q # p => SameData(q)
      /\ indexes'[p][Slot(t)] = i
      /\ \A s \in Slots(p) : s # Slot(t) => indexes'[p][s] = indexes[p][s]
  <2>1. UNCHANGED <<put, get, item_status, held>> /\ DataShapes
    BY <1>2, Zenon DEF Global
  <2> QED BY <1>1, <1>2, <2>1, NewIndex, ZenonT(30)
<1>6. PutWraps'
  BY <1>3, <1>5, PutWrapsStep, Zenon DEF Global
<1> QED BY <1>3, <1>4, <1>5, <1>6, Zenon DEF Global, p, i

(* The variables of the history of the pools keep their shapes in every step. *)
LEMMA HistoryStep ==
  ASSUME Global, HistoryShapes, [Next]_vars
  PROVE  /\ HistoryShapes'
         /\ Undisturbed' \subseteq Undisturbed
         /\ drained \subseteq drained' /\ lapped \subseteq lapped'
<1>1. CASE UNCHANGED vars
  BY <1>1, Zenon DEF vars, HistoryShapes, Undisturbed
<1>2. CASE Next
  <2>1. PICK t \in Threads : Allocate(t) \/ Free(t)
    BY <1>2, Zenon DEF Next
  <2>2. local[t].pool \in Pools
    BY ThreadTypes, Zenon DEF Global
  <2>3. drained' \in {drained, drained \cup {local[t].pool}}
    BY <2>1, Zenon
    DEF Allocate, Free, BeginAllocate, ReadPutPosition, NextPool, FetchGet, ReadOutside,
        ReadIndex, RestoreGet, WrapGet, ClearIndex, CheckStatus, SetStatus, BeginFree,
        SetFree, FetchPut, WrapPut, CheckSlot, StoreIndex
  <2>4. lapped' \in {lapped, lapped \cup {local[t].pool}}
    BY <2>1, Zenon
    DEF Allocate, Free, BeginAllocate, ReadPutPosition, NextPool, FetchGet, ReadOutside,
        ReadIndex, RestoreGet, WrapGet, ClearIndex, CheckStatus, SetStatus, BeginFree,
        SetFree, FetchPut, WrapPut, CheckSlot, StoreIndex
  <2>5. aborted' \in {aborted, "no_memory", "not_free", "not_allocated", "outside"}
    BY <2>1, Zenon
    DEF Allocate, Free, BeginAllocate, ReadPutPosition, NextPool, FetchGet, ReadOutside,
        ReadIndex, RestoreGet, WrapGet, ClearIndex, CheckStatus, SetStatus, BeginFree,
        SetFree, FetchPut, WrapPut, CheckSlot, StoreIndex
  <2>6. late' = late \/ (late < MaxLate /\ late' = late + 1)
    BY <2>1, Zenon
    DEF Allocate, Free, BeginAllocate, ReadPutPosition, NextPool, FetchGet, ReadOutside,
        ReadIndex, RestoreGet, WrapGet, ClearIndex, CheckStatus, SetStatus, BeginFree,
        SetFree, FetchPut, WrapPut, CheckSlot, StoreIndex, Begin
  <2>7. late' \in 0 .. MaxLate
    BY <2>6, PoolAssumption DEF HistoryShapes
  <2> QED BY <2>2, <2>3, <2>4, <2>5, <2>7, Zenon DEF HistoryShapes, Undisturbed
<1> QED BY <1>1, <1>2, Zenon

(* What the code computes from the two positions is the size of the window. *)
LEMMA CountOfPositions ==
  ASSUME NEW n \in Nat \ {0}, NEW x \in 0 .. n, NEW y \in 0 .. n,
         NEW g \in 0 .. (n - 1), NEW u \in 0 .. (n - 1),
         (y = n /\ g = 0) \/ g = y, (x = n /\ u = 0) \/ u = x
  PROVE  (n + x - y) % n = IF g <= u THEN u - g ELSE n + u - g
<1>1. PICK d : d = IF g <= u THEN u - g ELSE n + u - g
  BY Zenon
<1>2. PICK z : z = n + x - y
  BY Zenon
<1>3. d \in 0 .. (n - 1) /\ z \in Int
  BY <1>1, <1>2
<1>4. z = d \/ z = d + n \/ (z = 2 * n /\ d = 0)
  <2>1. CASE g <= u
    <3>1. d = u - g
      BY <1>1, <2>1, Zenon
    <3> QED BY <1>2, <1>3, <2>1, <3>1
  <2>2. CASE ~ (g <= u)
    <3>1. d = n + u - g
      BY <1>1, <2>2, Zenon
    <3> QED BY <1>2, <1>3, <2>2, <3>1
  <2> QED BY <2>1, <2>2, Zenon
<1>5. z % n = d
  <2>1. CASE z = d
    BY <1>3, <2>1, Remainders, Zenon
  <2>2. CASE z = d + n
    <3>1. z \in n .. (2 * n - 1) /\ z - n = d
      BY <1>3, <2>2
    <3> QED BY <3>1, Remainders, Zenon
  <2>3. CASE z = 2 * n /\ d = 0
    BY <2>3, Remainders, Zenon
  <2> QED BY <1>4, <2>1, <2>2, <2>3, Zenon
<1> QED BY <1>1, <1>2, <1>5, Zenon
-----------------------------------------------------------------------------
(***************************************************************************)
(* The pools: a step of thread t leaves the other threads, and the pools   *)
(* that it is not operating on, as they are.                               *)
(***************************************************************************)
LEMMA OthersStay ==
  ASSUME NEW t \in Threads, NEW l, NEW a, NEW r, NEW i, View(t, l, a, r, i),
         NEW e \in Threads, e # t
  PROVE  /\ pc'[e] = pc[e] /\ local'[e] = local[e] /\ Slot(e)' = Slot(e)
         /\ \A p : /\ Getting(e, p)' <=> Getting(e, p)
                   /\ Putting(e, p)' <=> Putting(e, p)
                   /\ WrapsGet(e, p)' <=> WrapsGet(e, p)
         /\ \A p, j : Carries(e, p, j)' <=> Carries(e, p, j)
<1>1. pc'[e] = pc[e] /\ local'[e] = local[e]
  BY Zenon DEF View
<1> QED BY <1>1, Zenon DEF Slot, Getting, Putting, WrapsGet, Carries

(* What the thread itself does next. *)
LEMMA MovedThread ==
  ASSUME NEW t \in Threads, NEW l, NEW a, NEW r, NEW i, View(t, l, a, r, i)
  PROVE  /\ pc'[t] = l /\ local'[t].pool = a /\ local'[t].raw = r
         /\ local'[t].index = i /\ Slot(t)' = Ring(r, a)
         /\ \A p : /\ Getting(t, p)' <=>
                        a = p /\ l \in {"read_index", "wrap_get", "clear"}
                   /\ Putting(t, p)' <=>
                        a = p /\ l \in {"wrap_put", "check_slot", "store"}
                   /\ WrapsGet(t, p)' <=> /\ a = p /\ l \in {"read_index", "wrap_get"}
                                          /\ r = number_plus_one(p)
         /\ \A p, j : Carries(t, p, j)' <=> a = p /\ l \in CarryLocations /\ i = j
<1>1. pc'[t] = l /\ local'[t].pool = a /\ local'[t].raw = r /\ local'[t].index = i
  BY Zenon DEF View
<1> QED BY <1>1, Zenon DEF Slot, Getting, Putting, WrapsGet, Carries

\* thread t goes on with the same slot of pool q, or with none as before
SameSlotOf(t, q) ==
  /\ Getting(t, q)' <=> Getting(t, q)
  /\ Putting(t, q)' <=> Putting(t, q)
  /\ WrapsGet(t, q)' <=> WrapsGet(t, q)
  /\ local'[t].pool = q /\ pc'[t] = "wrap_put" <=>
       local[t].pool = q /\ pc[t] = "wrap_put"
  /\ Getting(t, q) \/ Putting(t, q) => Slot(t)' = Slot(t)

LEMMA SlotsKept ==
  ASSUME NEW q \in Pools, RingInv(q), NEW t \in Threads,
         NEW l, NEW a, NEW r, NEW i, View(t, l, a, r, i), indexes'[q] = indexes[q],
         Ring(put'[q], q) = Ring(put[q], q), Ring(get'[q], q) = Ring(get[q], q),
         Getting(t, q)' <=> Getting(t, q), Putting(t, q)' <=> Putting(t, q),
         Getting(t, q) \/ Putting(t, q) => Slot(t)' = Slot(t), GetOrPut(t, q)'
  PROVE  SlotsApart(q)' /\ Filled(q)' /\ \A e \in Threads : GetOrPut(e, q)'
<1>1. \A s : Inside(q, s)' <=> Inside(q, s)
  BY Zenon DEF Inside, Ring
<1>2. \A e \in Threads : /\ Getting(e, q)' <=> Getting(e, q)
                         /\ Putting(e, q)' <=> Putting(e, q)
                         /\ Getting(e, q) \/ Putting(e, q) => Slot(e)' = Slot(e)
  BY OthersStay, Zenon
<1>3. ASSUME NEW e \in Threads PROVE GetOrPut(e, q)'
  <2>1. CASE e = t
    BY <2>1, Zenon
  <2>2. CASE e # t
    <3>1. /\ pc'[e] = pc[e] /\ local'[e] = local[e] /\ Slot(e)' = Slot(e)
          /\ Getting(e, q)' <=> Getting(e, q)
          /\ Putting(e, q)' <=> Putting(e, q)
      BY <2>2, OthersStay, Zenon
    <3>2. Inside(q, Slot(e))' <=> Inside(q, Slot(e))
      BY <3>1, Zenon DEF Inside, Ring
    <3> QED BY <3>1, <3>2, Zenon DEF RingInv, GetOrPut
  <2> QED BY <2>1, <2>2, Zenon
<1>4. SlotsApart(q)'
  BY <1>2, Zenon DEF RingInv, SlotsApart
<1>5. Filled(q)'
  <2> SUFFICES ASSUME NEW s \in Slots(q)
      PROVE  /\ indexes'[q][s] # INVALID =>
                  Inside(q, s)' \/ \E e \in Threads : Getting(e, q)' /\ Slot(e)' = s
             /\ indexes'[q][s] = INVALID =>
                  ~ Inside(q, s)' \/ \E e \in Threads : Putting(e, q)' /\ Slot(e)' = s
    BY Zenon DEF Filled
  <2> QED BY <1>1, <1>2, ZenonT(30) DEF RingInv, Filled
<1> QED BY <1>3, <1>4, <1>5, Zenon

LEMMA PositionsKept ==
  ASSUME NEW q \in Pools, Positions(q), put'[q] = put[q], get'[q] = get[q],
         NEW t \in Threads, NEW l, NEW a, NEW r, NEW i, View(t, l, a, r, i),
         WrapsGet(t, q)' <=> WrapsGet(t, q),
         local'[t].pool = q /\ pc'[t] = "wrap_put" <=>
           local[t].pool = q /\ pc[t] = "wrap_put"
  PROVE  Positions(q)'
<1>1. (\E e \in Threads : local'[e].pool = q /\ pc'[e] = "wrap_put")
        <=> \E e \in Threads : local[e].pool = q /\ pc[e] = "wrap_put"
  BY OthersStay, Zenon
<1>2. (\E e \in Threads : WrapsGet(e, q)') <=> \E e \in Threads : WrapsGet(e, q)
  BY OthersStay, Zenon
<1> QED BY <1>1, <1>2, Zenon DEF Positions

LEMMA RingKept ==
  ASSUME NEW q \in Pools, RingInv(q), NEW t \in Threads,
         NEW l, NEW a, NEW r, NEW i, View(t, l, a, r, i),
         indexes'[q] = indexes[q], put'[q] = put[q], get'[q] = get[q],
         SameSlotOf(t, q), GetOrPut(t, q)'
  PROVE  RingInv(q)'
<1>1. Positions(q)'
  BY PositionsKept, Zenon DEF RingInv, SameSlotOf
<1>2. Ring(put'[q], q) = Ring(put[q], q) /\ Ring(get'[q], q) = Ring(get[q], q)
  BY Zenon
<1>3. SlotsApart(q)' /\ Filled(q)' /\ \A e \in Threads : GetOrPut(e, q)'
  BY <1>2, SlotsKept, Zenon DEF SameSlotOf
<1> QED BY <1>1, <1>3, Zenon DEF RingInv

\* nothing changes of item j of pool q in a step of thread t
SameItem(t, q, j) ==
  /\ item_status'[q][j] = item_status[q][j] /\ held'[q][j] = held[q][j]
  /\ \A s \in Slots(q) : indexes'[q][s] = j <=> indexes[q][s] = j
  /\ Carries(t, q, j)' <=> Carries(t, q, j)
  /\ Carries(t, q, j) => (pc'[t] = "set_free" <=> pc[t] = "set_free")

LEMMA ItemKept ==
  ASSUME NEW q \in Pools, NEW j \in Items(q), Place(q, j), Status(q, j),
         NEW t \in Threads, NEW l, NEW a, NEW r, NEW i, View(t, l, a, r, i),
         SameItem(t, q, j)
  PROVE  Place(q, j)' /\ Status(q, j)'
<1>1. \A e \in Threads :
        /\ Carries(e, q, j)' <=> Carries(e, q, j)
        /\ Carries(e, q, j) => (pc'[e] = "set_free" <=> pc[e] = "set_free")
  BY OthersStay, Zenon DEF SameItem
<1>2. Place(q, j)'
  BY <1>1, Zenon DEF Place, SameItem
<1>3. Status(q, j)'
  BY <1>1, Zenon DEF Status, SameItem
<1> QED BY <1>2, <1>3, Zenon

LEMMA ItemsKept ==
  ASSUME NEW q \in Pools, ItemInv(q), NEW t \in Threads,
         NEW l, NEW a, NEW r, NEW i, View(t, l, a, r, i),
         indexes'[q] = indexes[q], item_status'[q] = item_status[q],
         held'[q] = held[q],
         \A j : Carries(t, q, j)' <=> Carries(t, q, j),
         \A j : Carries(t, q, j) => (l = "set_free" <=> pc[t] = "set_free")
  PROVE  ItemInv(q)'
<1>1. \A j \in Items(q) : SameItem(t, q, j)
  BY Zenon DEF SameItem, View
<1>2. \A j \in Items(q) : Place(q, j)' /\ Status(q, j)'
  BY <1>1, ItemKept, Zenon DEF ItemInv
<1> QED BY <1>2, Zenon DEF ItemInv

LEMMA Frame ==
  ASSUME NEW q \in Pools, PoolInv(q), SameData(q), NEW t \in Threads,
         NEW l, NEW a, NEW r, NEW i, View(t, l, a, r, i),
         local[t].pool # q \/ pc[t] \in {"idle", "fetch_get"},
         a # q \/ l \in {"idle", "fetch_get"}
  PROVE  PoolInv(q)'
<1>1. /\ ~ Getting(t, q) /\ ~ Putting(t, q) /\ ~ WrapsGet(t, q)
      /\ \A j : ~ Carries(t, q, j)
      /\ ~ (local[t].pool = q /\ pc[t] \in {"wrap_put", "restore", "read_put"})
  BY LocationNames, Zenon DEF Getting, Putting, WrapsGet, Carries
<1>2. /\ ~ Getting(t, q)' /\ ~ Putting(t, q)' /\ ~ WrapsGet(t, q)'
      /\ \A j : ~ Carries(t, q, j)'
      /\ ~ (local'[t].pool = q /\ pc'[t] \in {"wrap_put", "restore", "read_put"})
  <2>1. pc'[t] = l /\ local'[t].pool = a
    BY Zenon DEF View
  <2> QED BY <2>1, LocationNames, Zenon DEF Getting, Putting, WrapsGet, Carries
<1>3. SameSlotOf(t, q)
  BY <1>1, <1>2, Zenon DEF SameSlotOf
<1>4. GetOrPut(t, q)'
  BY <1>2, Zenon DEF GetOrPut
<1>5. RingInv(q)'
  BY <1>3, <1>4, RingKept, Zenon DEF PoolInv, SameData
<1>6. ItemInv(q)'
  BY <1>1, <1>2, ItemsKept, Zenon DEF PoolInv, SameData
<1> QED BY <1>5, <1>6, Zenon DEF PoolInv

(***************************************************************************)
(* The pool p that a thread operates on, step by step.                     *)
(***************************************************************************)
LEMMA ReadIndexKeeps ==
  ASSUME Global, NEW t \in Threads, NEW p \in Pools, p = local[t].pool, PoolInv(p),
         ReadIndex(t)
  PROVE  PoolInv(p)'
<1>1. /\ Getting(t, p) /\ ~ Putting(t, p) /\ \A j : ~ Carries(t, p, j)
      /\ pc[t] = "read_index"
  BY LocationNames, Zenon DEF ReadIndex, Getting, Putting, Carries
<1>2. /\ local[t].raw \in 0 .. (2 * number_plus_one(p) - 1)
      /\ indexes[p][Slot(t)] # INVALID /\ ~ Inside(p, Slot(t))
  BY <1>1, Zenon DEF PoolInv, RingInv, GetOrPut
<1>3. PICK l \in {"restore", "wrap_get", "clear"} :
        /\ View(t, l, p, local[t].raw, indexes[p][Slot(t)])
        /\ l = "restore" <=> indexes[p][Slot(t)] = INVALID
        /\ l = "wrap_get" => local[t].raw = number_plus_one(p)
        /\ l = "clear" => local[t].raw # number_plus_one(p)
  BY ReadIndexFacts, Zenon
<1>4. SameData(p)
  BY ZenonT(30) DEF ReadIndex, SameData
<1>5. /\ pc'[t] = l /\ local'[t].pool = p /\ local'[t].raw = local[t].raw
      /\ local'[t].index = indexes[p][Slot(t)] /\ Slot(t)' = Slot(t)
      /\ Getting(t, p)' /\ ~ Putting(t, p)' /\ \A j : ~ Carries(t, p, j)'
      /\ WrapsGet(t, p)' <=> l = "wrap_get"
  BY <1>2, <1>3, MovedThread, LocationNames DEF Slot
<1>6. WrapsGet(t, p) <=> l = "wrap_get"
  BY <1>1, <1>2, <1>3, Zenon DEF WrapsGet
<1>7. SameSlotOf(t, p)
  BY <1>1, <1>3, <1>5, <1>6, Zenon DEF SameSlotOf
<1>8. Inside(p, Slot(t))' <=> Inside(p, Slot(t))
  BY <1>4, <1>5, Zenon DEF Inside, InWindow, Ring, SameData
<1>9. GetOrPut(t, p)'
  BY <1>2, <1>3, <1>4, <1>5, <1>8, Zenon DEF GetOrPut, SameData
<1>10. RingInv(p)'
  BY <1>3, <1>4, <1>7, <1>9, RingKept, Zenon DEF PoolInv, SameData
<1>11. ItemInv(p)'
  BY <1>1, <1>3, <1>4, <1>5, ItemsKept, Zenon DEF PoolInv, SameData
<1> QED BY <1>10, <1>11, Zenon DEF PoolInv

LEMMA CheckStatusKeeps ==
  ASSUME Global, NEW t \in Threads, NEW p \in Pools, p = local[t].pool, PoolInv(p),
         CheckStatus(t)
  PROVE  PoolInv(p)' /\ aborted' = aborted
<1>1. /\ ~ Getting(t, p) /\ ~ Putting(t, p) /\ ~ WrapsGet(t, p)
      /\ Carries(t, p, local[t].index) /\ pc[t] = "check_status"
      /\ local[t].index \in Items(p)
  BY LocationNames, Zenon
  DEF CheckStatus, Getting, Putting, WrapsGet, Carries, Global, Locals
<1>2. item_status[p][local[t].index] = "free"
  BY <1>1, Zenon DEF PoolInv, ItemInv, Status
<1>3. /\ View(t, "set_status", p, local[t].raw, local[t].index)
      /\ aborted' = aborted
  BY <1>2, CheckStatusFacts, Zenon
<1>4. SameData(p)
  BY Zenon DEF CheckStatus, SameData
<1>5. /\ pc'[t] = "set_status" /\ local'[t].pool = p
      /\ ~ Getting(t, p)' /\ ~ Putting(t, p)' /\ ~ WrapsGet(t, p)'
      /\ \A j : Carries(t, p, j)' <=> local[t].index = j
  BY <1>3, MovedThread, LocationNames
<1>6. SameSlotOf(t, p) /\ GetOrPut(t, p)'
  BY <1>1, <1>5, Zenon DEF SameSlotOf, GetOrPut
<1>7. RingInv(p)'
  BY <1>3, <1>4, <1>6, RingKept, Zenon DEF PoolInv, SameData
<1>8. \A j : Carries(t, p, j) <=> local[t].index = j
  BY <1>1, Zenon DEF Carries
<1>9. ItemInv(p)'
  BY <1>1, <1>3, <1>4, <1>5, <1>8, ItemsKept, ZenonT(30) DEF PoolInv, SameData
<1> QED BY <1>3, <1>7, <1>9, Zenon DEF PoolInv

LEMMA CheckSlotKeeps ==
  ASSUME Global, NEW t \in Threads, NEW p \in Pools, p = local[t].pool, PoolInv(p),
         CheckSlot(t)
  PROVE  PoolInv(p)'
<1>1. /\ ~ Getting(t, p) /\ Putting(t, p) /\ ~ WrapsGet(t, p) /\ pc[t] = "check_slot"
      /\ \A j : Carries(t, p, j) <=> local[t].index = j
  BY LocationNames, Zenon DEF CheckSlot, Getting, Putting, WrapsGet, Carries
<1>2. /\ local[t].raw \in 0 .. (2 * number_plus_one(p) - 1)
      /\ indexes[p][Slot(t)] = INVALID /\ Inside(p, Slot(t))
  BY <1>1, Zenon DEF PoolInv, RingInv, GetOrPut
<1>3. View(t, "store", p, local[t].raw, local[t].index)
  BY <1>2, CheckSlotFacts, Zenon
<1>4. SameData(p)
  BY Zenon DEF CheckSlot, SameData
<1>5. /\ pc'[t] = "store" /\ local'[t].pool = p /\ local'[t].raw = local[t].raw
      /\ Slot(t)' = Slot(t)
      /\ ~ Getting(t, p)' /\ Putting(t, p)' /\ ~ WrapsGet(t, p)'
      /\ \A j : Carries(t, p, j)' <=> local[t].index = j
  BY <1>3, MovedThread, LocationNames DEF Slot
<1>6. Inside(p, Slot(t))' <=> Inside(p, Slot(t))
  BY <1>4, <1>5, Zenon DEF Inside, InWindow, Ring, SameData
<1>7. SameSlotOf(t, p) /\ GetOrPut(t, p)'
  BY <1>1, <1>2, <1>4, <1>5, <1>6, Zenon DEF SameSlotOf, GetOrPut, SameData
<1>8. RingInv(p)'
  BY <1>3, <1>4, <1>7, RingKept, Zenon DEF PoolInv, SameData
<1>9. ItemInv(p)'
  BY <1>1, <1>3, <1>4, <1>5, ItemsKept, ZenonT(30) DEF PoolInv, SameData
<1> QED BY <1>8, <1>9, Zenon DEF PoolInv

LEMMA SetStatusKeeps ==
  ASSUME Global, NEW t \in Threads, NEW p \in Pools, p = local[t].pool, PoolInv(p),
         SetStatus(t)
  PROVE  PoolInv(p)'
<1>0. PICK i : i = local[t].index
  BY Zenon
<1>1. /\ ~ Getting(t, p) /\ ~ Putting(t, p) /\ ~ WrapsGet(t, p)
      /\ \A j : Carries(t, p, j) <=> i = j
      /\ pc[t] = "set_status" /\ i \in Items(p)
  BY <1>0, LocationNames, Zenon
  DEF SetStatus, Getting, Putting, WrapsGet, Carries, Global, Locals
<1>2. /\ View(t, "idle", 1, 0, INVALID)
      /\ item_status'[p][i] = "allocated" /\ held'[p][i] = held[p][i] + 1
      /\ \A j \in Items(p) : j # i => /\ item_status'[p][j] = item_status[p][j]
                                      /\ held'[p][j] = held[p][j]
  BY <1>0, SetStatusFacts, Zenon
<1>3. indexes'[p] = indexes[p] /\ put'[p] = put[p] /\ get'[p] = get[p]
  BY Zenon DEF SetStatus
<1>4. /\ ~ Getting(t, p)' /\ ~ Putting(t, p)' /\ ~ WrapsGet(t, p)'
      /\ \A j : ~ Carries(t, p, j)'
      /\ pc'[t] = "idle"
  BY <1>2, MovedThread, LocationNames
<1>5. SameSlotOf(t, p) /\ GetOrPut(t, p)'
  BY <1>1, <1>4, Zenon DEF SameSlotOf, GetOrPut
<1>6. RingInv(p)'
  BY <1>2, <1>3, <1>5, RingKept, Zenon DEF PoolInv
<1>7. ASSUME NEW j \in Items(p), j # i PROVE Place(p, j)' /\ Status(p, j)'
  <2>1. SameItem(t, p, j)
    BY <1>1, <1>2, <1>3, <1>4, <1>7, Zenon DEF SameItem
  <2> QED BY <1>2, <2>1, ItemKept, Zenon DEF PoolInv, ItemInv
<1>8. Place(p, i)' /\ Status(p, i)'
  <2>1. Place(p, i)
    BY <1>1, ZenonT(30) DEF PoolInv, ItemInv
  <2>2. held'[p][i] = 1 /\ \A s \in Slots(p) : indexes'[p][s] # i
    <3>1. held[p][i] \in {0, 1} /\ held[p][i] # 1 /\ \A s \in Slots(p) : indexes[p][s] # i
      BY <1>1, <2>1, Zenon DEF Place
    <3>2. held'[p][i] = 1
      BY <1>2, <3>1
    <3> QED BY <1>3, <3>1, <3>2, Zenon
  <2>3. ASSUME NEW e \in Threads PROVE ~ Carries(e, p, i)'
    <3>1. Carries(e, p, i)' => e # t /\ Carries(e, p, i)
      BY <1>2, <1>4, OthersStay, Zenon
    <3> QED BY <1>1, <2>1, <3>1, Zenon DEF Place
  <2> QED BY <1>2, <2>2, <2>3, Zenon DEF Place, Status
<1>9. ItemInv(p)'
  BY <1>7, <1>8, Zenon DEF ItemInv
<1> QED BY <1>6, <1>9, Zenon DEF PoolInv

LEMMA BeginFreeKeeps ==
  ASSUME Global, NEW t \in Threads, NEW p \in Pools, NEW i \in Items(p), PoolInv(p),
         BeginFree(t, p, i)
  PROVE  PoolInv(p)' /\ View(t, "set_free", p, 0, i) /\ aborted' = aborted
<1>1. /\ ~ Getting(t, p) /\ ~ Putting(t, p) /\ ~ WrapsGet(t, p)
      /\ \A j : ~ Carries(t, p, j)
      /\ pc[t] = "idle"
  BY LocationNames, Zenon DEF BeginFree, Getting, Putting, WrapsGet, Carries
<1>2. Place(p, i) /\ Status(p, i)
  BY Zenon DEF PoolInv, ItemInv
<1>3. /\ held[p][i] > 0
      /\ item_status'[p][i] = item_status[p][i] /\ held'[p][i] = held[p][i] - 1
      /\ \A j \in Items(p) : j # i => /\ item_status'[p][j] = item_status[p][j]
                                      /\ held'[p][j] = held[p][j]
  BY BeginFreeFacts, Zenon
<1>4. held[p][i] = 1 /\ item_status[p][i] = "allocated"
  <2>1. held[p][i] \in {0, 1} /\ (held[p][i] = 1 => item_status[p][i] = "allocated")
    BY <1>2, Zenon DEF Place, Status
  <2> QED BY <1>3, <2>1
<1>5. View(t, "set_free", p, 0, i) /\ aborted' = aborted
  BY <1>4, BeginFreeFacts, Zenon
<1>6. indexes'[p] = indexes[p] /\ put'[p] = put[p] /\ get'[p] = get[p]
  BY Zenon DEF BeginFree
<1>7. /\ ~ Getting(t, p)' /\ ~ Putting(t, p)' /\ ~ WrapsGet(t, p)'
      /\ \A j : Carries(t, p, j)' <=> i = j
      /\ pc'[t] = "set_free"
  BY <1>5, MovedThread, LocationNames
<1>8. SameSlotOf(t, p) /\ GetOrPut(t, p)'
  BY <1>1, <1>7, Zenon DEF SameSlotOf, GetOrPut
<1>9. RingInv(p)'
  BY <1>5, <1>6, <1>8, RingKept, Zenon DEF PoolInv
<1>10. ASSUME NEW j \in Items(p), j # i PROVE Place(p, j)' /\ Status(p, j)'
  <2>1. SameItem(t, p, j)
    BY <1>1, <1>3, <1>6, <1>7, <1>10, ZenonT(30) DEF SameItem
  <2> QED BY <1>5, <2>1, ItemKept, Zenon DEF PoolInv, ItemInv
<1>11. Place(p, i)' /\ Status(p, i)'
  <2>1. /\ held'[p][i] = 0 /\ held'[p][i] # 1
        /\ \A s \in Slots(p) : indexes'[p][s] # i
    <3>1. held'[p][i] = 0 /\ held'[p][i] # 1
      BY <1>3, <1>4
    <3> QED BY <1>2, <1>4, <1>6, <3>1, Zenon DEF Place
  <2>2. \A e \in Threads : Carries(e, p, i)' => e = t
    BY <1>2, <1>4, <1>5, OthersStay, Zenon DEF Place
  <2>3. Place(p, i)'
    BY <1>7, <2>1, <2>2, Zenon DEF Place
  <2> QED BY <1>3, <1>4, <1>7, <2>1, <2>2, <2>3, Zenon DEF Status
<1>12. ItemInv(p)'
  BY <1>10, <1>11, ZenonT(30) DEF ItemInv
<1> QED BY <1>5, <1>9, <1>12, Zenon DEF PoolInv

LEMMA SetFreeKeeps ==
  ASSUME Global, NEW t \in Threads, NEW p \in Pools, p = local[t].pool, PoolInv(p),
         SetFree(t)
  PROVE  PoolInv(p)'
<1>0. PICK i : i = local[t].index
  BY Zenon
<1>1. /\ ~ Getting(t, p) /\ ~ Putting(t, p) /\ ~ WrapsGet(t, p)
      /\ \A j : Carries(t, p, j) <=> i = j
      /\ pc[t] = "set_free" /\ i \in Items(p)
  BY <1>0, LocationNames, Zenon
  DEF SetFree, Getting, Putting, WrapsGet, Carries, Global, Locals
<1>2. /\ View(t, "fetch_put", p, local[t].raw, i)
      /\ item_status'[p][i] = "free"
      /\ \A j \in Items(p) : j # i => item_status'[p][j] = item_status[p][j]
  BY <1>0, SetFreeFacts, Zenon
<1>3. /\ indexes'[p] = indexes[p] /\ put'[p] = put[p] /\ get'[p] = get[p]
      /\ held'[p] = held[p]
  BY Zenon DEF SetFree
<1>4. /\ ~ Getting(t, p)' /\ ~ Putting(t, p)' /\ ~ WrapsGet(t, p)'
      /\ \A j : Carries(t, p, j)' <=> i = j
      /\ pc'[t] = "fetch_put"
  BY <1>2, MovedThread, LocationNames
<1>5. SameSlotOf(t, p) /\ GetOrPut(t, p)'
  BY <1>1, <1>4, Zenon DEF SameSlotOf, GetOrPut
<1>6. RingInv(p)'
  BY <1>2, <1>3, <1>5, RingKept, Zenon DEF PoolInv
<1>7. ASSUME NEW j \in Items(p), j # i PROVE Place(p, j)' /\ Status(p, j)'
  <2>1. SameItem(t, p, j)
    BY <1>1, <1>2, <1>3, <1>4, <1>7, ZenonT(30) DEF SameItem
  <2> QED BY <1>2, <2>1, ItemKept, Zenon DEF PoolInv, ItemInv
<1>8. Place(p, i)' /\ Status(p, i)'
  <2>1. Place(p, i)
    BY <1>1, Zenon DEF PoolInv, ItemInv
  <2>2. /\ held'[p][i] \in {0, 1} /\ held'[p][i] # 1
        /\ \A s \in Slots(p) : indexes'[p][s] # i
    BY <1>1, <1>3, <2>1, ZenonT(30) DEF Place
  <2>3. ASSUME NEW e \in Threads, Carries(e, p, i)' PROVE e = t
    <3>1. e # t => Carries(e, p, i)
      BY <1>2, <2>3, OthersStay, Zenon
    <3> QED BY <1>1, <2>1, <3>1, Zenon DEF Place
  <2>4. Place(p, i)'
    BY <1>4, <2>2, <2>3, Zenon DEF Place
  <2> QED BY <1>2, <1>4, <2>2, <2>3, <2>4, Zenon DEF Status
<1>9. ItemInv(p)'
  BY <1>7, <1>8, Zenon DEF ItemInv
<1> QED BY <1>6, <1>9, Zenon DEF PoolInv
=============================================================================
