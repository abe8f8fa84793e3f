-------------------------- MODULE MemoryPools_proofs --------------------------
(***************************************************************************)
(* The memory pools are safe for any number of threads, pools and items,   *)
(* whichever operations overlap: the proof that IInv of MemoryPools_lemmas *)
(* is inductive, and what follows from it.                                 *)
(***************************************************************************)
EXTENDS MemoryPools_lemmas
-----------------------------------------------------------------------------
(***************************************************************************)
(* The steps that move a position of the ring, or fill or clear a slot.    *)
(***************************************************************************)
LEMMA WrapPutKeeps ==
  ASSUME Global, NEW t \in Threads, NEW p \in Pools, p = local[t].pool, PoolInv(p),
         WrapPut(t)
  PROVE  PoolInv(p)'
<1> DEFINE n == number_plus_one(p)
<1>1. /\ ~ Getting(t, p) /\ Putting(t, p) /\ ~ WrapsGet(t, p) /\ pc[t] = "wrap_put"
      /\ \A j : Carries(t, p, j) <=> local[t].index = j
  BY LocationNames, Zenon DEF WrapPut, Getting, Putting, WrapsGet, Carries
<1>2. /\ local[t].raw \in 0 .. (2 * n - 1)
      /\ indexes[p][Slot(t)] = INVALID /\ Inside(p, Slot(t))
  BY <1>1, Zenon DEF PoolInv, RingInv, GetOrPut
<1>3. /\ View(t, "check_slot", p, local[t].raw, local[t].index)
      /\ put'[p] = put[p] - n
  BY WrapPutFacts, Zenon
<1>4. /\ indexes'[p] = indexes[p] /\ get'[p] = get[p]
      /\ item_status'[p] = item_status[p] /\ held'[p] = held[p]
  BY Zenon DEF WrapPut
<1>5. n \in Nat \ {0} /\ put[p] \in 0 .. (2 * n) /\ n < put[p] /\ Positions(p)
  BY <1>1, Sizes, Zenon DEF PoolInv, RingInv, Positions, Global, PutWraps
<1>6. Ring(put'[p], p) = Ring(put[p], p) /\ put'[p] \in 0 .. n
  <2>1. n <= put[p] /\ put[p] - n \in 0 .. n
    BY <1>5
  <2> QED BY <1>3, <1>5, <2>1, RingSteps, ZenonT(30)
<1>7. /\ pc'[t] = "check_slot" /\ local'[t].pool = p /\ local'[t].raw = local[t].raw
      /\ Slot(t)' = Slot(t)
      /\ ~ Getting(t, p)' /\ Putting(t, p)' /\ ~ WrapsGet(t, p)'
      /\ \A j : Carries(t, p, j)' <=> local[t].index = j
  BY <1>3, MovedThread, LocationNames DEF Slot
<1> HIDE DEF n
<1>8. Positions(p)'
  <2>1. (\E e \in Threads : WrapsGet(e, p)') <=> \E e \in Threads : WrapsGet(e, p)
    BY <1>1, <1>3, <1>7, OthersStay, Zenon
  <2>2. put'[p] \in 0 .. (2 * n) /\ ~ (n < put'[p])
    BY <1>5, <1>6
  <2> QED BY <1>4, <1>5, <2>1, <2>2, Zenon DEF Positions, n
<1>9. Inside(p, Slot(t))' <=> Inside(p, Slot(t))
  BY <1>4, <1>6, <1>7, Zenon DEF Inside, Ring
<1>10. GetOrPut(t, p)'
  BY <1>2, <1>4, <1>7, <1>9, Zenon DEF GetOrPut, n
<1>11. SlotsApart(p)' /\ Filled(p)' /\ \A e \in Threads : GetOrPut(e, p)'
  <2>1. Ring(get'[p], p) = Ring(get[p], p)
    BY <1>4, Zenon
  <2> QED BY <1>1, <1>3, <1>4, <1>6, <1>7, <1>10, <2>1, SlotsKept, Zenon DEF PoolInv
<1>12. ItemInv(p)'
  BY <1>1, <1>3, <1>4, <1>7, ItemsKept, ZenonT(30) DEF PoolInv
<1> QED BY <1>8, <1>11, <1>12, Zenon DEF PoolInv, RingInv

LEMMA WrapGetKeeps ==
  ASSUME Global, NEW t \in Threads, NEW p \in Pools, p = local[t].pool, PoolInv(p),
         WrapGet(t)
  PROVE  PoolInv(p)'
<1> DEFINE n == number_plus_one(p)
<1>1. /\ Getting(t, p) /\ ~ Putting(t, p) /\ pc[t] = "wrap_get"
      /\ \A j : ~ Carries(t, p, j)
  BY LocationNames, Zenon DEF WrapGet, Getting, Putting, Carries
<1>2. /\ local[t].raw = n /\ local[t].raw \in 0 .. (2 * n - 1)
      /\ local[t].index = indexes[p][Slot(t)]
      /\ indexes[p][Slot(t)] # INVALID /\ ~ Inside(p, Slot(t))
  BY <1>1, Zenon DEF PoolInv, RingInv, GetOrPut
<1>3. /\ View(t, "clear", p, local[t].raw, local[t].index)
      /\ get'[p] = get[p] - n
  BY WrapGetFacts, Zenon
<1>4. /\ indexes'[p] = indexes[p] /\ put'[p] = put[p]
      /\ item_status'[p] = item_status[p] /\ held'[p] = held[p]
  BY Zenon DEF WrapGet
<1>5. n \in Nat \ {0} /\ get[p] \in 0 .. (2 * n) /\ n < get[p] /\ Positions(p)
  <2>1. WrapsGet(t, p) /\ Positions(p)
    BY <1>1, <1>2, Zenon DEF WrapsGet, PoolInv, RingInv, Getting
  <2> QED BY <2>1, Sizes, Zenon DEF Positions
<1>6. Ring(get'[p], p) = Ring(get[p], p) /\ get'[p] \in 0 .. n
  <2>1. n <= get[p] /\ get[p] - n \in 0 .. n
    BY <1>5
  <2> QED BY <1>3, <1>5, <2>1, RingSteps, Zenon
<1>7. /\ pc'[t] = "clear" /\ local'[t].pool = p /\ local'[t].raw = local[t].raw
      /\ local'[t].index = local[t].index /\ Slot(t)' = Slot(t)
      /\ Getting(t, p)' /\ ~ Putting(t, p)' /\ ~ WrapsGet(t, p)'
      /\ \A j : ~ Carries(t, p, j)'
  BY <1>3, MovedThread, LocationNames DEF Slot
<1>8. ASSUME NEW e \in Threads, WrapsGet(e, p)' PROVE FALSE
  <2>1. e # t /\ WrapsGet(e, p)
    BY <1>3, <1>7, <1>8, OthersStay, Zenon
  <2>2. Getting(e, p) /\ Slot(e) = Slot(t)
    BY <1>1, <1>2, <2>1, Zenon DEF WrapsGet, Getting, Slot
  <2> QED BY <1>1, <2>1, <2>2, Zenon DEF PoolInv, RingInv, SlotsApart
<1> HIDE DEF n
<1>9. Positions(p)'
  <2>1. (\E e \in Threads : local'[e].pool = p /\ pc'[e] = "wrap_put")
          <=> \E e \in Threads : local[e].pool = p /\ pc[e] = "wrap_put"
    BY <1>1, <1>3, <1>7, OthersStay, ZenonT(30)
  <2>2. get'[p] \in 0 .. (2 * n) /\ ~ (n < get'[p])
    BY <1>5, <1>6
  <2> QED BY <1>4, <1>5, <1>8, <2>1, <2>2, Zenon DEF Positions, n
<1>10. Inside(p, Slot(t))' <=> Inside(p, Slot(t))
  BY <1>4, <1>6, <1>7, Zenon DEF Inside, Ring
<1>11. GetOrPut(t, p)'
  BY <1>2, <1>4, <1>7, <1>10, Zenon DEF GetOrPut, n
<1>12. SlotsApart(p)' /\ Filled(p)' /\ \A e \in Threads : GetOrPut(e, p)'
  <2>1. Ring(put'[p], p) = Ring(put[p], p)
    BY <1>4, Zenon
  <2> QED BY <1>1, <1>3, <1>4, <1>6, <1>7, <1>11, <2>1, SlotsKept, Zenon DEF PoolInv
<1>13. ItemInv(p)'
  BY <1>1, <1>3, <1>4, <1>7, ItemsKept, Zenon DEF PoolInv
<1> QED BY <1>9, <1>12, <1>13, Zenon DEF PoolInv, RingInv

(* The slots of the gets and puts on their way exist. *)
LEMMA SlotInRing ==
  ASSUME Global, NEW p \in Pools, RingInv(p), NEW e \in Threads,
         Getting(e, p) \/ Putting(e, p)
  PROVE  Slot(e) \in Slots(p)
<1>1. /\ local[e].raw \in Int /\ local[e].raw >= 0
      /\ Slot(e) = Ring(local[e].raw, p)
  BY ThreadTypes DEF RingInv, GetOrPut, Global, Getting, Putting, Slot
<1> QED BY <1>1, RingType, Zenon

LEMMA FetchGetKeeps ==
  ASSUME Global, NEW t \in Threads, NEW p \in Pools, p = local[t].pool, PoolInv(p),
         FetchGet(t), p \notin drained'
  PROVE  PoolInv(p)'
<1> DEFINE n == number_plus_one(p)
<1>1. PICK g : g = Ring(get[p], p)
  BY Zenon
<1>2. PICK u : u = Ring(put[p], p)
  BY Zenon
<1>3. /\ ~ Getting(t, p) /\ ~ Putting(t, p) /\ ~ WrapsGet(t, p) /\ pc[t] = "fetch_get"
      /\ \A j : ~ Carries(t, p, j)
  BY LocationNames, Zenon DEF FetchGet, Getting, Putting, WrapsGet, Carries
<1>4. /\ View(t, "read_index", p, get[p], INVALID)
      /\ get'[p] = get[p] + 1
  BY FetchGetFacts, Zenon
<1>5. /\ indexes'[p] = indexes[p] /\ put'[p] = put[p]
      /\ item_status'[p] = item_status[p] /\ held'[p] = held[p]
  BY Zenon DEF FetchGet
<1>6. /\ (get[p] - put[p]) % n # 0
      /\ indexes[p][get[p] % n] # INVALID
  BY Zenon DEF FetchGet
<1>7. /\ n \in Nat \ {0} /\ Slots(p) = 0 .. (n - 1) /\ Positions(p)
      /\ get[p] \in 0 .. (2 * n) /\ put[p] \in 0 .. (2 * n)
  BY Sizes, Zenon DEF PoolInv, RingInv, Positions
<1>8. g # u
  BY <1>1, <1>2, <1>6, <1>7, SameSlot, Zenon
<1>9. g \in 0 .. (n - 1) /\ u \in 0 .. (n - 1)
  <2>1. get[p] \in Int /\ get[p] >= 0 /\ put[p] \in Int /\ put[p] >= 0
    BY <1>7, SMTT(30)
  <2> QED BY <1>1, <1>2, <1>7, <2>1, RingType, Zenon
<1>10. indexes[p][g] # INVALID
  BY <1>1, <1>6, <1>7, SMTT(30) DEF Ring
<1> HIDE DEF n
<1>11. Inside(p, g)
  BY <1>1, <1>2, <1>7, <1>8, <1>9, WindowPop, Zenon DEF Inside
<1>12. get[p] < 2 * n
  <2>1. SUFFICES ASSUME get[p] = 2 * n PROVE FALSE
    BY <1>7
  <2>2. n < get[p]
    BY <1>7, <2>1
  <2>3. PICK e \in Threads : WrapsGet(e, p)
    BY <1>7, <2>2, Zenon DEF Positions, n
  <2>4. Getting(e, p) /\ Slot(e) = Ring(n, p)
    BY <2>3, Zenon DEF WrapsGet, Getting, Slot, n
  <2>5. Ring(n, p) = 0 /\ Ring(2 * n, p) = 0
    <3>1. n \in 0 .. (2 * n) /\ 2 * n \in 0 .. (2 * n) /\ n < 2 * n
      BY <1>7
    <3> QED BY <1>7, <3>1, RingValue DEF n
  <2> QED BY <1>1, <1>11, <2>1, <2>4, <2>5, SMTT(30) DEF PoolInv, RingInv, GetOrPut
<1>13. Ring(get'[p], p) = After(g, n) /\ Ring(put'[p], p) = u
  BY <1>1, <1>2, <1>4, <1>5, <1>7, <1>12, RingSteps, SMTT(30) DEF n
<1>14. \A s \in 0 .. (n - 1) : Inside(p, s)' <=> Inside(p, s) /\ s # g
  BY <1>1, <1>2, <1>7, <1>8, <1>9, <1>13, WindowPop, SMTT(30) DEF Inside
<1>15. /\ pc'[t] = "read_index" /\ local'[t].pool = p /\ local'[t].raw = get[p]
       /\ Slot(t)' = g
       /\ Getting(t, p)' /\ ~ Putting(t, p)'
       /\ WrapsGet(t, p)' <=> get[p] = n
       /\ \A j : ~ Carries(t, p, j)'
  BY <1>1, <1>4, MovedThread, LocationNames DEF n
<1>16. Positions(p)'
  <2>1. (\E e \in Threads : local'[e].pool = p /\ pc'[e] = "wrap_put")
          <=> \E e \in Threads : local[e].pool = p /\ pc[e] = "wrap_put"
    BY <1>3, <1>4, <1>15, OthersStay, ZenonT(30)
  <2>2. (\E e \in Threads : WrapsGet(e, p)')
          <=> get[p] = n \/ \E e \in Threads : WrapsGet(e, p)
    BY <1>3, <1>4, <1>15, OthersStay, Zenon
  <2>3. (\E e \in Threads : WrapsGet(e, p)) <=> n < get[p]
    BY <1>7, Zenon DEF Positions, n
  <2>4. get'[p] \in 0 .. (2 * n) /\ (n < get'[p] <=> get[p] = n \/ n < get[p])
    BY <1>4, <1>7, <1>12
  <2> QED BY <1>5, <1>7, <2>1, <2>2, <2>3, <2>4, Zenon DEF Positions, n
<1>17. ASSUME NEW e \in Threads PROVE GetOrPut(e, p)'
  <2>1. CASE e = t
    <3>1. ~ Inside(p, Slot(t))'
      BY <1>9, <1>13, <1>14, <1>15, Zenon DEF Inside
    <3>2. local'[t].raw \in 0 .. (2 * n - 1)
      BY <1>7, <1>12, <1>15
    <3> QED BY <1>5, <1>10, <1>15, <2>1, <3>1, <3>2, Zenon DEF GetOrPut, n
  <2>2. CASE e # t
    <3>1. /\ pc'[e] = pc[e] /\ local'[e] = local[e] /\ Slot(e)' = Slot(e)
          /\ Getting(e, p)' <=> Getting(e, p)
          /\ Putting(e, p)' <=> Putting(e, p)
      BY <1>4, <2>2, OthersStay, Zenon
    <3>2. GetOrPut(e, p)
      BY Zenon DEF PoolInv, RingInv
    <3>3. Getting(e, p) \/ Putting(e, p) => Slot(e) \in 0 .. (n - 1)
      BY <1>7, SlotInRing, Zenon DEF PoolInv
    <3>4. Getting(e, p) => ~ Inside(p, Slot(e))'
      BY <1>13, <1>14, <3>1, <3>2, <3>3, Zenon DEF GetOrPut, Inside
    <3>5. Putting(e, p) => Inside(p, Slot(e))'
      BY <1>10, <1>13, <1>14, <3>1, <3>2, <3>3, ZenonT(30) DEF GetOrPut, Inside
    <3> QED BY <1>5, <3>1, <3>2, <3>4, <3>5, Zenon DEF GetOrPut
  <2> QED BY <2>1, <2>2, Zenon
<1>18. SlotsApart(p)'
  <2>1. ASSUME NEW e \in Threads, e # t
        PROVE  /\ Slot(e)' = Slot(e)
               /\ Getting(e, p)' <=> Getting(e, p)
               /\ Putting(e, p)' <=> Putting(e, p)
               /\ Getting(e, p) => Slot(e) # g
    BY <1>4, <1>11, <2>1, OthersStay, SMTT(30) DEF PoolInv, RingInv, GetOrPut
  <2> QED BY <1>15, <2>1, ZenonT(30) DEF PoolInv, RingInv, SlotsApart
<1>19. Filled(p)'
  <2> SUFFICES ASSUME NEW s \in Slots(p)
      PROVE  /\ indexes'[p][s] # INVALID =>
                  Inside(p, s)' \/ \E e \in Threads : Getting(e, p)' /\ Slot(e)' = s
             /\ indexes'[p][s] = INVALID =>
                  ~ Inside(p, s)' \/ \E e \in Threads : Putting(e, p)' /\ Slot(e)' = s
    BY Zenon DEF Filled
  <2>1. \A e \in Threads :
          /\ Getting(e, p) => Getting(e, p)' /\ Slot(e)' = Slot(e)
          /\ Putting(e, p) => Putting(e, p)' /\ Slot(e)' = Slot(e)
    BY <1>3, <1>4, OthersStay, Zenon
  <2>2. Inside(p, s)' <=> Inside(p, s) /\ s # g
    BY <1>7, <1>14, Zenon
  <2> QED BY <1>5, <1>15, <2>1, <2>2, Zenon DEF PoolInv, RingInv, Filled
<1>20. ItemInv(p)'
  BY <1>3, <1>4, <1>5, <1>15, ItemsKept, Zenon DEF PoolInv
<1> QED BY <1>16, <1>17, <1>18, <1>19, <1>20, Zenon DEF PoolInv, RingInv

LEMMA ClearIndexKeeps ==
  ASSUME Global, NEW t \in Threads, NEW p \in Pools, p = local[t].pool, PoolInv(p),
         ClearIndex(t)
  PROVE  PoolInv(p)'
<1>1. PICK i : i = local[t].index
  BY Zenon
<1>2. PICK w : w = Slot(t)
  BY Zenon
<1>3. /\ Getting(t, p) /\ ~ Putting(t, p) /\ ~ WrapsGet(t, p) /\ pc[t] = "clear"
      /\ \A j : ~ Carries(t, p, j)
  BY LocationNames, Zenon DEF ClearIndex, Getting, Putting, WrapsGet, Carries
<1>4. i = indexes[p][w] /\ i # INVALID /\ ~ Inside(p, w) /\ i \in Items(p)
  BY <1>1, <1>2, <1>3, Zenon DEF PoolInv, RingInv, GetOrPut, Global, Locals
<1>5. w \in Slots(p)
  BY <1>2, <1>3, SlotInRing, Zenon DEF PoolInv
<1>6. /\ View(t, "check_status", p, 0, i)
      /\ indexes'[p][w] = INVALID
      /\ \A s \in Slots(p) : s # w => indexes'[p][s] = indexes[p][s]
  BY <1>1, <1>2, ClearIndexFacts, Zenon
<1>7. /\ get'[p] = get[p] /\ put'[p] = put[p]
      /\ item_status'[p] = item_status[p] /\ held'[p] = held[p]
  BY Zenon DEF ClearIndex
<1>8. /\ pc'[t] = "check_status" /\ local'[t].pool = p
      /\ ~ Getting(t, p)' /\ ~ Putting(t, p)' /\ ~ WrapsGet(t, p)'
      /\ \A j : Carries(t, p, j)' <=> i = j
  BY <1>6, MovedThread, LocationNames
<1>9. \A s : Inside(p, s)' <=> Inside(p, s)
  BY <1>7, Zenon DEF Inside
<1>10. ASSUME NEW e \in Threads, e # t
       PROVE  /\ pc'[e] = pc[e] /\ local'[e] = local[e] /\ Slot(e)' = Slot(e)
              /\ Getting(e, p)' <=> Getting(e, p)
              /\ Putting(e, p)' <=> Putting(e, p)
              /\ Inside(p, Slot(e))' <=> Inside(p, Slot(e))
              /\ Getting(e, p) \/ Putting(e, p) =>
                   Slot(e) # w /\ indexes'[p][Slot(e)] = indexes[p][Slot(e)]
  <2>1. /\ pc'[e] = pc[e] /\ local'[e] = local[e] /\ Slot(e)' = Slot(e)
        /\ Getting(e, p)' <=> Getting(e, p)
        /\ Putting(e, p)' <=> Putting(e, p)
    BY <1>6, <1>10, OthersStay, ZenonT(30)
  <2>2. Inside(p, Slot(e))' <=> Inside(p, Slot(e))
    BY <1>7, <2>1, Zenon DEF Inside
  <2>3. Getting(e, p) => Slot(e) # w
    BY <1>2, <1>3, <1>10, Zenon DEF PoolInv, RingInv, SlotsApart
  <2>4. Putting(e, p) => Slot(e) # w
    BY <1>4, Zenon DEF PoolInv, RingInv, GetOrPut
  <2>5. Getting(e, p) \/ Putting(e, p) => Slot(e) \in Slots(p)
    BY SlotInRing, Zenon DEF PoolInv
  <2> QED BY <1>6, <2>1, <2>2, <2>3, <2>4, <2>5, Zenon
<1>11. Positions(p)'
  BY <1>3, <1>6, <1>7, <1>8, PositionsKept, Zenon DEF PoolInv, RingInv
<1>12. ASSUME NEW e \in Threads PROVE GetOrPut(e, p)'
  <2>1. CASE e = t
    BY <1>8, <2>1, ZenonT(30) DEF GetOrPut
  <2>2. CASE e # t
    BY <1>10, <2>2 DEF GetOrPut, PoolInv, RingInv
  <2> QED BY <2>1, <2>2, Zenon
<1>13. SlotsApart(p)'
  BY <1>8, <1>10, Zenon DEF PoolInv, RingInv, SlotsApart
<1>14. Filled(p)'
  <2> SUFFICES ASSUME NEW s \in Slots(p)
      PROVE  /\ indexes'[p][s] # INVALID =>
                  Inside(p, s)' \/ \E e \in Threads : Getting(e, p)' /\ Slot(e)' = s
             /\ indexes'[p][s] = INVALID =>
                  ~ Inside(p, s)' \/ \E e \in Threads : Putting(e, p)' /\ Slot(e)' = s
    BY Zenon DEF Filled
  <2>1. CASE s = w
    BY <1>4, <1>6, <1>9, <2>1, ZenonT(30)
  <2>2. CASE s # w
    <3>1. indexes'[p][s] = indexes[p][s]
      BY <1>6, <2>2, Zenon
    <3>2. /\ \A e \in Threads : Getting(e, p) /\ Slot(e) = s => e # t
          /\ \A e \in Threads : Putting(e, p) => e # t
      BY <1>2, <1>3, <2>2, Zenon
    <3> QED BY <1>9, <1>10, <3>1, <3>2 DEF PoolInv, RingInv, Filled
  <2> QED BY <2>1, <2>2, Zenon
<1>15. ASSUME NEW j \in Items(p), j # i PROVE Place(p, j)' /\ Status(p, j)'
  <2>1. \A s \in Slots(p) : indexes'[p][s] = j <=> indexes[p][s] = j
    BY <1>4, <1>6, <1>15, InvalidIsNoItem, Zenon
  <2>2. SameItem(t, p, j)
    BY <1>3, <1>7, <1>8, <1>15, <2>1, ZenonT(30) DEF SameItem
  <2> QED BY <1>6, <2>2, ItemKept, Zenon DEF PoolInv, ItemInv
<1>16. Place(p, i)' /\ Status(p, i)'
  <2>1. Place(p, i) /\ Status(p, i)
    BY <1>4, Zenon DEF PoolInv, ItemInv
  <2>2. /\ held'[p][i] = 0 /\ item_status'[p][i] = "free"
        /\ \A e \in Threads : ~ Carries(e, p, i)
    BY <1>4, <1>5, <1>7, <2>1, Zenon DEF Place, Status
  <2>3. \A s \in Slots(p) : indexes'[p][s] # i
    BY <1>4, <1>5, <1>6, <2>1, ZenonT(30) DEF Place
  <2>4. \A e \in Threads : Carries(e, p, i)' <=> e = t
    BY <1>6, <1>8, <2>2, OthersStay, Zenon
  <2> QED BY <1>8, <2>2, <2>3, <2>4 DEF Place, Status
<1>17. ItemInv(p)'
  BY <1>15, <1>16, ZenonT(30) DEF ItemInv
<1> QED BY <1>11, <1>12, <1>13, <1>14, <1>17, Zenon DEF PoolInv, RingInv

LEMMA StoreIndexKeeps ==
  ASSUME Global, NEW t \in Threads, NEW p \in Pools, p = local[t].pool, PoolInv(p),
         StoreIndex(t)
  PROVE  PoolInv(p)'
<1>1. PICK i : i = local[t].index
  BY Zenon
<1>2. PICK w : w = Slot(t)
  BY Zenon
<1>3. /\ ~ Getting(t, p) /\ Putting(t, p) /\ ~ WrapsGet(t, p) /\ pc[t] = "store"
      /\ \A j : Carries(t, p, j) <=> i = j
  BY <1>1, LocationNames, Zenon DEF StoreIndex, Getting, Putting, WrapsGet, Carries
<1>4. indexes[p][w] = INVALID /\ Inside(p, w) /\ i \in Items(p)
  BY <1>1, <1>2, <1>3, LocationNames, ZenonT(30)
  DEF PoolInv, RingInv, GetOrPut, Global, Locals
<1>5. w \in Slots(p)
  BY <1>2, <1>3, SlotInRing, Zenon DEF PoolInv
<1>6. /\ View(t, "idle", 1, 0, INVALID)
      /\ indexes'[p][w] = i
      /\ \A s \in Slots(p) : s # w => indexes'[p][s] = indexes[p][s]
  BY <1>1, <1>2, StoreIndexFacts, Zenon
<1>7. /\ get'[p] = get[p] /\ put'[p] = put[p]
      /\ item_status'[p] = item_status[p] /\ held'[p] = held[p]
  BY Zenon DEF StoreIndex
<1>8. /\ pc'[t] = "idle"
      /\ ~ Getting(t, p)' /\ ~ Putting(t, p)' /\ ~ WrapsGet(t, p)'
      /\ \A j : ~ Carries(t, p, j)'
  BY <1>6, MovedThread, LocationNames, SMTT(30)
<1>9. \A s : Inside(p, s)' <=> Inside(p, s)
  BY <1>7, Zenon DEF Inside
<1>10. ASSUME NEW e \in Threads, e # t
       PROVE  /\ pc'[e] = pc[e] /\ local'[e] = local[e] /\ Slot(e)' = Slot(e)
              /\ Getting(e, p)' <=> Getting(e, p)
              /\ Putting(e, p)' <=> Putting(e, p)
              /\ Inside(p, Slot(e))' <=> Inside(p, Slot(e))
              /\ Getting(e, p) \/ Putting(e, p) =>
                   Slot(e) # w /\ indexes'[p][Slot(e)] = indexes[p][Slot(e)]
  <2>1. /\ pc'[e] = pc[e] /\ local'[e] = local[e] /\ Slot(e)' = Slot(e)
        /\ Getting(e, p)' <=> Getting(e, p)
        /\ Putting(e, p)' <=> Putting(e, p)
    BY <1>6, <1>10, OthersStay, Zenon
  <2>2. Inside(p, Slot(e))' <=> Inside(p, Slot(e))
    BY <1>7, <2>1, Zenon DEF Inside
  <2>3. Putting(e, p) => Slot(e) # w
    BY <1>2, <1>3, <1>10, Zenon DEF PoolInv, RingInv, SlotsApart
  <2>4. Getting(e, p) => Slot(e) # w
    BY <1>4, Zenon DEF PoolInv, RingInv, GetOrPut
  <2>5. Getting(e, p) \/ Putting(e, p) => Slot(e) \in Slots(p)
    BY SlotInRing, Zenon DEF PoolInv
  <2> QED BY <1>6, <2>1, <2>2, <2>3, <2>4, <2>5, Zenon
<1>11. Positions(p)'
  BY <1>3, <1>6, <1>7, <1>8, PositionsKept, ZenonT(30) DEF PoolInv, RingInv
<1>12. ASSUME NEW e \in Threads PROVE GetOrPut(e, p)'
  <2>1. CASE e = t
    BY <1>8, <2>1, ZenonT(30) DEF GetOrPut
  <2>2. CASE e # t
    BY <1>10, <2>2 DEF GetOrPut, PoolInv, RingInv
  <2> QED BY <2>1, <2>2, Zenon
<1>13. SlotsApart(p)'
  BY <1>8, <1>10, Zenon DEF PoolInv, RingInv, SlotsApart
<1>14. Filled(p)'
  <2> SUFFICES ASSUME NEW s \in Slots(p)
      PROVE  /\ indexes'[p][s] # INVALID =>
                  Inside(p, s)' \/ \E e \in Threads : Getting(e, p)' /\ Slot(e)' = s
             /\ indexes'[p][s] = INVALID =>
                  ~ Inside(p, s)' \/ \E e \in Threads : Putting(e, p)' /\ Slot(e)' = s
    BY Zenon DEF Filled
  <2>1. CASE s = w
    BY <1>4, <1>6, <1>9, <2>1, InvalidIsNoItem, ZenonT(30)
  <2>2. CASE s # w
    <3>1. indexes'[p][s] = indexes[p][s]
      BY <1>6, <2>2, Zenon
    <3>2. /\ \A e \in Threads : Putting(e, p) /\ Slot(e) = s => e # t
          /\ \A e \in Threads : Getting(e, p) => e # t
      BY <1>2, <1>3, <2>2, Zenon
    <3> QED BY <1>9, <1>10, <3>1, <3>2 DEF PoolInv, RingInv, Filled
  <2> QED BY <2>1, <2>2, Zenon
<1>15. ASSUME NEW j \in Items(p), j # i PROVE Place(p, j)' /\ Status(p, j)'
  <2>1. \A s \in Slots(p) : indexes'[p][s] = j <=> indexes[p][s] = j
    BY <1>4, <1>6, <1>15, InvalidIsNoItem, Zenon
  <2>2. SameItem(t, p, j)
    BY <1>3, <1>7, <1>8, <1>15, <2>1, ZenonT(30) DEF SameItem
  <2> QED BY <1>6, <2>2, ItemKept, Zenon DEF PoolInv, ItemInv
<1>16. Place(p, i)' /\ Status(p, i)'
  <2>1. Place(p, i) /\ Status(p, i)
    BY <1>4, Zenon DEF PoolInv, ItemInv
  <2>2. /\ held'[p][i] = 0 /\ item_status'[p][i] = "free"
        /\ \A s \in Slots(p) : indexes[p][s] # i
    BY <1>3, <1>7, <2>1, Zenon DEF Place, Status
  <2>3. \A s \in Slots(p) : indexes'[p][s] = i <=> s = w
    BY <1>6, <2>2, ZenonT(30)
  <2>4. ASSUME NEW e \in Threads PROVE ~ Carries(e, p, i)'
    <3>1. Carries(e, p, i)' => e # t /\ Carries(e, p, i)
      BY <1>6, <1>8, OthersStay, Zenon
    <3> QED BY <1>3, <2>1, <3>1, Zenon DEF Place
  <2> QED BY <1>5, <2>2, <2>3, <2>4 DEF Place, Status
<1>17. ItemInv(p)'
  BY <1>15, <1>16, Zenon DEF ItemInv
<1> QED BY <1>11, <1>12, <1>13, <1>14, <1>17, Zenon DEF PoolInv, RingInv

\* a ring has more slots than items: with one of each left out, no function from the
\* slots to the items takes each to another (SlotsExceedItems)
MoreSlots(p) ==
  \A u \in Slots(p), i \in Items(p) :
    \A f \in [Slots(p) \ {u} -> Items(p) \ {i}] :
      \E x, y \in Slots(p) \ {u} : x # y /\ f[x] = f[y]

(* The ring has a slot more than items.  A free that has its item in hand therefore   *)
(* finds room: with the window closed up behind it, each other slot would have an     *)
(* item, or a put that brings one, none of them the same and none the item in hand.   *)
LEMMA RoomForPut ==
  ASSUME Global, NEW p \in Pools, MoreSlots(p), PoolInv(p), NEW t \in Threads,
         ~ Putting(t, p), NEW i \in Items(p), Carries(t, p, i), NEW u \in Slots(p),
         NEW S, S = Slots(p) \ {u}, \A s \in S : Inside(p, s)
  PROVE  FALSE
<1> DEFINE T == Items(p) \ {i}
           Putter(s) == CHOOSE e \in Threads : Putting(e, p) /\ Slot(e) = s
           f == [s \in S |-> IF indexes[p][s] # INVALID THEN indexes[p][s]
                             ELSE local[Putter(s)].index]
<1>1. ASSUME NEW s \in S, indexes[p][s] = INVALID
      PROVE  /\ Putter(s) \in Threads /\ Putting(Putter(s), p) /\ Slot(Putter(s)) = s
             /\ Carries(Putter(s), p, local[Putter(s)].index)
             /\ local[Putter(s)].index \in Items(p)
  <2>1. \E e \in Threads : Putting(e, p) /\ Slot(e) = s
    BY <1>1, Zenon DEF PoolInv, RingInv, Filled
  <2>2. Putter(s) \in Threads /\ Putting(Putter(s), p) /\ Slot(Putter(s)) = s
    BY <2>1, Zenon
  <2> HIDE DEF Putter
  <2> QED BY <2>2, LocationNames, Zenon DEF Putting, Carries, Global, Locals
<1> HIDE DEF Putter
<1>2. \A s \in S : indexes[p][s] \in Items(p) \cup {INVALID}
  BY Zenon DEF Global, DataShapes
<1>3. f \in [S -> T]
  <2>1. ASSUME NEW s \in S, indexes[p][s] # INVALID PROVE indexes[p][s] \in T
    BY <1>2, <2>1, Zenon DEF PoolInv, ItemInv, Place
  <2>2. ASSUME NEW s \in S, indexes[p][s] = INVALID PROVE local[Putter(s)].index \in T
    <3>1. local[Putter(s)].index = i => Putter(s) = t
      BY <1>1, <2>2 DEF PoolInv, ItemInv, Place
    <3> QED BY <1>1, <2>2, <3>1, ZenonT(30)
  <2> QED BY <2>1, <2>2, Zenon
<1>4. ASSUME NEW x \in S, NEW y \in S, f[x] = f[y] PROVE x = y
  <2>1. CASE indexes[p][x] # INVALID /\ indexes[p][y] # INVALID
    BY <1>2, <1>4, <2>1, Zenon DEF PoolInv, ItemInv, Place
  <2>2. CASE indexes[p][x] # INVALID /\ indexes[p][y] = INVALID
    BY <1>1, <1>2, <1>4, <2>2, Zenon DEF PoolInv, ItemInv, Place
  <2>3. CASE indexes[p][x] = INVALID /\ indexes[p][y] # INVALID
    BY <1>1, <1>2, <1>4, <2>3, Zenon DEF PoolInv, ItemInv, Place
  <2>4. CASE indexes[p][x] = INVALID /\ indexes[p][y] = INVALID
    <3>1. local[Putter(x)].index = local[Putter(y)].index
      BY <1>4, <2>4, Zenon
    <3>2. Putter(x) = Putter(y)
      BY <1>1, <2>4, <3>1 DEF PoolInv, ItemInv, Place
    <3> QED BY <1>1, <2>4, <3>2, Zenon
  <2> QED BY <2>1, <2>2, <2>3, <2>4, Zenon
<1> HIDE DEF f
<1>5. \E x, y \in S : x # y /\ f[x] = f[y]
  BY <1>3 DEF MoreSlots
<1> QED BY <1>4, <1>5, Zenon

LEMMA FetchPutKeeps ==
  ASSUME Global, NEW t \in Threads, NEW p \in Pools, p = local[t].pool, PoolInv(p),
         MoreSlots(p), FetchPut(t), p \notin lapped'
  PROVE  PoolInv(p)'
<1> DEFINE n == number_plus_one(p)
<1>1. PICK g : g = Ring(get[p], p)
  BY Zenon
<1>2. PICK u : u = Ring(put[p], p)
  BY Zenon
<1>3. PICK i : i = local[t].index
  BY Zenon
<1>4. /\ ~ Getting(t, p) /\ ~ Putting(t, p) /\ ~ WrapsGet(t, p) /\ pc[t] = "fetch_put"
      /\ \A j : Carries(t, p, j) <=> i = j
      /\ i \in Items(p)
  BY <1>3, LocationNames, Zenon
     DEF FetchPut, Getting, Putting, WrapsGet, Carries, Global, Locals
<1>5. /\ \E l \in {"wrap_put", "check_slot"} :
           View(t, l, p, put[p], i) /\ (l = "wrap_put" <=> put[p] = n)
      /\ put'[p] = put[p] + 1
  BY <1>3, FetchPutFacts, Zenon
<1>6. PICK l \in {"wrap_put", "check_slot"} :
        View(t, l, p, put[p], i) /\ (l = "wrap_put" <=> put[p] = n)
  BY <1>5, Zenon
<1>7. /\ indexes'[p] = indexes[p] /\ get'[p] = get[p]
      /\ item_status'[p] = item_status[p] /\ held'[p] = held[p]
  BY Zenon DEF FetchPut
<1>8. indexes[p][u] = INVALID
  BY <1>2, Zenon DEF FetchPut
<1>9. /\ n \in Nat \ {0} /\ Slots(p) = 0 .. (n - 1) /\ Positions(p)
      /\ get[p] \in 0 .. (2 * n) /\ put[p] \in 0 .. (2 * n)
  BY Sizes, Zenon DEF PoolInv, RingInv, Positions
<1>10. g \in 0 .. (n - 1) /\ u \in 0 .. (n - 1)
  <2>1. get[p] \in Int /\ get[p] >= 0 /\ put[p] \in Int /\ put[p] >= 0
    BY <1>9
  <2> QED BY <1>1, <1>2, <1>9, <2>1, RingType, ZenonT(30)
<1> HIDE DEF n
<1>11. ~ Inside(p, u)
  BY <1>1, <1>2, <1>9, <1>10, WindowPush, Zenon DEF Inside
<1>12. put[p] < 2 * n
  <2>1. SUFFICES ASSUME put[p] = 2 * n PROVE FALSE
    BY <1>9
  <2>2. n < put[p]
    BY <1>9, <2>1
  <2>3. PICK e \in Threads : local[e].pool = p /\ pc[e] = "wrap_put"
    BY <1>9, <2>2, Zenon DEF Positions, n
  <2>4. Putting(e, p) /\ Inside(p, Slot(e)) /\ local[e].raw = n
    BY <2>3, Zenon DEF Putting, PoolInv, RingInv, GetOrPut, n
  <2>5. Ring(n, p) = 0 /\ Ring(2 * n, p) = 0
    <3>1. n \in 0 .. (2 * n) /\ 2 * n \in 0 .. (2 * n) /\ n < 2 * n
      BY <1>9
    <3> QED BY <1>9, <3>1, RingValue DEF n
  <2> QED BY <1>2, <1>11, <2>1, <2>3, <2>4, <2>5, ZenonT(30) DEF Slot
<1>13. After(u, n) # g
  <2> SUFFICES ASSUME After(u, n) = g PROVE FALSE
    BY Zenon
  <2> DEFINE S == Slots(p) \ {u}
  <2>1. \A s \in S : Inside(p, s)
    BY <1>1, <1>2, <1>9, <1>10, WindowPush, SMTT(30) DEF Inside
  <2>2. u \in Slots(p) /\ Carries(t, p, i)
    BY <1>4, <1>9, <1>10, Zenon
  <2> HIDE DEF S
  <2>3. S = Slots(p) \ {u}
    BY Zenon DEF S
  <2> QED BY <1>4, <2>1, <2>2, <2>3, RoomForPut, Zenon
<1>14. Ring(put'[p], p) = After(u, n) /\ Ring(get'[p], p) = g
  BY <1>1, <1>2, <1>5, <1>7, <1>9, <1>12, RingSteps, ZenonT(30) DEF n
<1>15. \A s \in 0 .. (n - 1) : Inside(p, s)' <=> Inside(p, s) \/ s = u
  BY <1>1, <1>2, <1>9, <1>10, <1>13, <1>14, WindowPush, SMTT(30) DEF Inside
<1>16. /\ pc'[t] = l /\ local'[t].pool = p /\ local'[t].raw = put[p]
       /\ Slot(t)' = u
       /\ ~ Getting(t, p)' /\ Putting(t, p)' /\ ~ WrapsGet(t, p)'
       /\ \A j : Carries(t, p, j)' <=> i = j
  BY <1>2, <1>6, MovedThread, LocationNames
<1>17. Positions(p)'
  <2>1. n < put'[p] => \E e \in Threads : local'[e].pool = p /\ pc'[e] = "wrap_put"
    <3>1. CASE put[p] = n
      BY <1>6, <1>16, <3>1, Zenon
    <3>2. CASE n < put[p]
      <4>1. PICK e \in Threads : local[e].pool = p /\ pc[e] = "wrap_put"
        BY <1>9, <3>2, Zenon DEF Positions, n
      <4> QED BY <1>4, <1>6, <4>1, OthersStay, Zenon
    <3> QED BY <1>5, <1>9, <3>1, <3>2
  <2>2. (\E e \in Threads : WrapsGet(e, p)') <=> \E e \in Threads : WrapsGet(e, p)
    BY <1>4, <1>6, <1>16, OthersStay, ZenonT(30)
  <2>3. put'[p] \in 0 .. (2 * n)
    BY <1>5, <1>9, <1>12
  <2> QED BY <1>7, <1>9, <2>1, <2>2, <2>3, ZenonT(30) DEF Positions, n
<1>18. ASSUME NEW e \in Threads PROVE GetOrPut(e, p)'
  <2>1. CASE e = t
    <3>1. Inside(p, Slot(t))'
      BY <1>10, <1>14, <1>15, <1>16, ZenonT(30) DEF Inside
    <3>2. local'[t].raw \in 0 .. (2 * n - 1)
      BY <1>9, <1>12, <1>16
    <3> QED BY <1>6, <1>7, <1>8, <1>16, <2>1, <3>1, <3>2, ZenonT(30) DEF GetOrPut, n
  <2>2. CASE e # t
    <3>1. /\ pc'[e] = pc[e] /\ local'[e] = local[e] /\ Slot(e)' = Slot(e)
          /\ Getting(e, p)' <=> Getting(e, p)
          /\ Putting(e, p)' <=> Putting(e, p)
      BY <1>6, <2>2, OthersStay, Zenon
    <3>2. GetOrPut(e, p)
      BY Zenon DEF PoolInv, RingInv
    <3>3. Getting(e, p) \/ Putting(e, p) => Slot(e) \in 0 .. (n - 1)
      BY <1>9, SlotInRing, Zenon DEF PoolInv
    <3>4. Getting(e, p) => ~ Inside(p, Slot(e))'
      BY <1>8, <1>14, <1>15, <3>1, <3>2, <3>3, ZenonT(30) DEF GetOrPut, Inside
    <3>5. Putting(e, p) => Inside(p, Slot(e))'
      BY <1>14, <1>15, <3>1, <3>2, <3>3, ZenonT(30) DEF GetOrPut, Inside
    <3> QED BY <1>7, <3>1, <3>2, <3>4, <3>5, ZenonT(30) DEF GetOrPut
  <2> QED BY <2>1, <2>2, Zenon
<1>19. SlotsApart(p)'
  <2>1. ASSUME NEW e \in Threads, e # t
        PROVE  /\ Slot(e)' = Slot(e)
               /\ Getting(e, p)' <=> Getting(e, p)
               /\ Putting(e, p)' <=> Putting(e, p)
               /\ Putting(e, p) => Slot(e) # u
    BY <1>6, <1>11, <2>1, OthersStay, ZenonT(30) DEF PoolInv, RingInv, GetOrPut
  <2> QED BY <1>16, <2>1, Zenon DEF PoolInv, RingInv, SlotsApart
<1>20. Filled(p)'
  <2> SUFFICES ASSUME NEW s \in Slots(p)
      PROVE  /\ indexes'[p][s] # INVALID =>
                  Inside(p, s)' \/ \E e \in Threads : Getting(e, p)' /\ Slot(e)' = s
             /\ indexes'[p][s] = INVALID =>
                  ~ Inside(p, s)' \/ \E e \in Threads : Putting(e, p)' /\ Slot(e)' = s
    BY Zenon DEF Filled
  <2>1. \A e \in Threads :
          /\ Getting(e, p) => Getting(e, p)' /\ Slot(e)' = Slot(e)
          /\ Putting(e, p) => Putting(e, p)' /\ Slot(e)' = Slot(e)
    BY <1>4, <1>6, OthersStay, Zenon
  <2>2. Inside(p, s)' <=> Inside(p, s) \/ s = u
    BY <1>9, <1>15, Zenon
  <2> QED BY <1>7, <1>16, <2>1, <2>2, Zenon DEF PoolInv, RingInv, Filled
<1>21. ItemInv(p)'
  <2>1. l # "set_free" /\ pc[t] # "set_free"
    BY <1>4, <1>6, Zenon
  <2> QED BY <1>4, <1>6, <1>7, <1>16, <2>1, ItemsKept, ZenonT(30) DEF PoolInv
<1> QED BY <1>17, <1>18, <1>19, <1>20, <1>21, Zenon DEF PoolInv, RingInv
-----------------------------------------------------------------------------
(***************************************************************************)
(* IInv is inductive: every action keeps the undisturbed pools, and fails  *)
(* a check only with a pool that was disturbed.                            *)
(***************************************************************************)
StatusKept == aborted' \in {aborted, "no_memory"} \/ drained \cup lapped # {}

PoolsKept == Global' /\ StatusKept /\ \A q \in Undisturbed' : PoolInv(q)'

\* what an action is met with
Before == /\ Global /\ (\A q \in Undisturbed : PoolInv(q))
          /\ Undisturbed' \subseteq Undisturbed

LEMMA PoolOfThread ==
  ASSUME Global, NEW t \in Threads
  PROVE  /\ local[t].pool \in Pools
         /\ local[t].pool \notin Undisturbed => drained \cup lapped # {}
<1>1. local[t].pool \in Pools
  BY ThreadTypes, Zenon DEF Global
<1> QED BY <1>1, Zenon DEF Undisturbed

(* A step that is not on an undisturbed pool. *)
LEMMA StepAside ==
  ASSUME Before, NEW t \in Threads, NEW q \in Undisturbed', SameData(q),
         NEW l, NEW a, NEW r, NEW i, View(t, l, a, r, i),
         local[t].pool # q \/ pc[t] \in {"idle", "fetch_get"},
         a # q \/ l \in {"idle", "fetch_get"}
  PROVE  PoolInv(q)'
<1>1. q \in Undisturbed /\ q \in Pools
  BY Zenon DEF Before, Undisturbed
<1> QED BY <1>1, Frame, Zenon DEF Before

(* A step that changes neither the threads nor the pools. *)
LEMMA PoolUnchanged ==
  ASSUME UNCHANGED <<indexes, put, get, item_status, pc, local, held>>,
         NEW p, PoolInv(p)
  PROVE  PoolInv(p)'
<1>0. /\ indexes' = indexes /\ put' = put /\ get' = get
      /\ item_status' = item_status /\ pc' = pc /\ local' = local /\ held' = held
  BY Zenon
<1>1. \A t \in Threads :
        /\ Getting(t, p)' <=> Getting(t, p)
        /\ Putting(t, p)' <=> Putting(t, p)
        /\ WrapsGet(t, p)' <=> WrapsGet(t, p)
        /\ Slot(t)' = Slot(t)
        /\ \A i : Carries(t, p, i)' <=> Carries(t, p, i)
  BY <1>0, Zenon DEF Getting, Putting, WrapsGet, Slot, Ring, Carries
<1>2. \A s : Inside(p, s)' <=> Inside(p, s)
  BY Zenon DEF Inside, Ring
<1>3. Positions(p)'
  BY <1>0, <1>1, Zenon DEF PoolInv, RingInv, Positions
<1>4. SlotsApart(p)'
  BY <1>0, <1>1, Zenon DEF PoolInv, RingInv, SlotsApart
<1>5. Filled(p)'
  BY <1>0, <1>1, <1>2, Zenon DEF PoolInv, RingInv, Filled
<1>6. ASSUME NEW t \in Threads PROVE GetOrPut(t, p)'
  <2>1. Inside(p, Slot(t))' <=> Inside(p, Slot(t))
    BY <1>0, <1>1, ZenonT(30) DEF Inside, Ring
  <2> QED BY <1>0, <1>1, <2>1, Zenon DEF PoolInv, RingInv, GetOrPut
<1>7. ItemInv(p)'
  BY <1>0, <1>1 DEF PoolInv, ItemInv, Place, Status
<1> QED BY <1>3, <1>4, <1>5, <1>6, <1>7, Zenon DEF PoolInv, RingInv

LEMMA AllocatePools ==
  ASSUME Before, NEW t \in Threads, Allocate(t)
  PROVE  PoolsKept
<1>1. Global /\ \A q \in Undisturbed' : q \in Undisturbed /\ q \in Pools /\ PoolInv(q)
  BY Zenon DEF Before, Undisturbed
<1>2. PICK p \in Pools : p = local[t].pool
  BY <1>1, PoolOfThread, Zenon
<1>3. ASSUME NEW a \in Pools, BeginAllocate(t, a) PROVE PoolsKept
  <2>1. Global' /\ View(t, "fetch_get", a, 0, INVALID)
    BY <1>1, <1>3, ReadPutPositionFacts, Zenon DEF BeginAllocate
  <2>2. (\A q : SameData(q)) /\ aborted' = aborted /\ pc[t] = "idle"
    BY <1>3, Zenon DEF BeginAllocate, ReadPutPosition, SameData
  <2>3. \A q \in Undisturbed' : PoolInv(q)'
    BY <2>1, <2>2, StepAside, Zenon
  <2> QED BY <2>1, <2>2, <2>3, Zenon DEF PoolsKept, StatusKept
<1>4. CASE NextPool(t)
  <2>1. Global' /\ View(t, "fetch_get", local[t].pool + 1, 0, INVALID)
    BY <1>1, <1>4, NextPoolFacts, Zenon
  <2>2. (\A q : SameData(q)) /\ aborted' = aborted /\ pc[t] = "read_put"
    BY <1>4, Zenon DEF NextPool, ReadPutPosition, SameData
  <2>3. \A q \in Undisturbed' : local[t].pool # q
    BY <1>1, <2>2, Zenon DEF PoolInv, RingInv, GetOrPut
  <2>4. \A q \in Undisturbed' : PoolInv(q)'
    BY <2>1, <2>2, <2>3, StepAside, Zenon
  <2> QED BY <2>1, <2>2, <2>4, Zenon DEF PoolsKept, StatusKept
<1>5. CASE FetchGet(t)
  <2>1. /\ Global' /\ \A q \in Pools : q # p => SameData(q)
        /\ \E l : View(t, l, p, get[p], INVALID)
    BY <1>1, <1>2, <1>5, FetchGetFacts, Zenon
  <2>2. aborted' = aborted
    BY <1>5, Zenon DEF FetchGet
  <2>3. ASSUME NEW q \in Undisturbed' PROVE PoolInv(q)'
    <3>1. CASE q = p
      <4>1. p \notin drained'
        BY <3>1, Zenon DEF Undisturbed
      <4> QED BY <1>1, <1>2, <1>5, <3>1, <4>1, FetchGetKeeps, Zenon
    <3>2. CASE q # p
      BY <1>1, <1>2, <2>1, <3>2, StepAside, Zenon
    <3> QED BY <3>1, <3>2, Zenon
  <2> QED BY <2>1, <2>2, <2>3, Zenon DEF PoolsKept, StatusKept
<1>6. CASE ReadOutside(t)
  <2>1. /\ UNCHANGED <<indexes, put, get, item_status, pc, local, held, drained, lapped>>
        /\ pc[t] = "read_index" /\ Slot(t) < 0
    BY <1>6, Zenon DEF ReadOutside
  <2>2. Global'
    BY <1>1, <2>1, Zenon
    DEF Global, ThreadShapes, DataShapes, Locals, PutWraps, Slot, Ring
  <2>3. p \notin Undisturbed
    <3> SUFFICES ASSUME RingInv(p) PROVE FALSE
      BY Zenon DEF Before, PoolInv
    <3>1. Slot(t) \in Slots(p)
      BY <1>1, <1>2, <2>1, SlotInRing, Zenon DEF Getting
    <3> QED BY <2>1, <3>1, Sizes
  <2>4. \A q \in Undisturbed' : PoolInv(q)'
    BY <1>1, <2>1, PoolUnchanged, Zenon
  <2> QED BY <1>1, <1>2, <2>2, <2>3, <2>4, PoolOfThread, Zenon DEF PoolsKept, StatusKept
<1>7. CASE ReadIndex(t)
  <2>1. Global' /\ \E l : View(t, l, p, local[t].raw, indexes[p][Slot(t)])
    BY <1>1, <1>2, <1>7, ReadIndexFacts, Zenon
  <2>2. (\A q : SameData(q)) /\ aborted' = aborted
    BY <1>7, Zenon DEF ReadIndex, SameData
  <2>3. ASSUME NEW q \in Undisturbed' PROVE PoolInv(q)'
    BY <1>1, <1>2, <1>7, <2>1, <2>2, ReadIndexKeeps, StepAside, ZenonT(30)
  <2> QED BY <2>1, <2>2, <2>3, Zenon DEF PoolsKept, StatusKept
<1>8. CASE RestoreGet(t)
  <2>1. /\ Global' /\ \A q \in Pools : q # p => SameData(q)
        /\ \E l, a : View(t, l, a, 0, INVALID) /\ (l = "idle" \/ a = p)
    BY <1>1, <1>2, <1>8, RestoreGetFacts, Zenon
  <2>2. aborted' \in {aborted, "no_memory"} /\ pc[t] = "restore"
    BY <1>8, Zenon DEF RestoreGet
  <2>3. \A q \in Undisturbed' : q # p
    BY <1>1, <1>2, <2>2, Zenon DEF PoolInv, RingInv, GetOrPut
  <2>4. \A q \in Undisturbed' : PoolInv(q)'
    BY <1>1, <1>2, <2>1, <2>3, StepAside, Zenon
  <2> QED BY <2>1, <2>2, <2>4, Zenon DEF PoolsKept, StatusKept
<1>9. CASE WrapGet(t)
  <2>1. /\ Global' /\ \A q \in Pools : q # p => SameData(q)
        /\ View(t, "clear", p, local[t].raw, local[t].index)
    BY <1>1, <1>2, <1>9, WrapGetFacts, Zenon
  <2>2. aborted' = aborted
    BY <1>9, Zenon DEF WrapGet
  <2>3. ASSUME NEW q \in Undisturbed' PROVE PoolInv(q)'
    BY <1>1, <1>2, <1>9, <2>1, WrapGetKeeps, StepAside, Zenon
  <2> QED BY <2>1, <2>2, <2>3, Zenon DEF PoolsKept, StatusKept
<1>10. CASE ClearIndex(t)
  <2>1. /\ Global' /\ \A q \in Pools : q # p => SameData(q)
        /\ View(t, "check_status", p, 0, local[t].index)
    BY <1>1, <1>2, <1>10, ClearIndexFacts, Zenon
  <2>2. aborted' = aborted
    BY <1>10, Zenon DEF ClearIndex
  <2>3. ASSUME NEW q \in Undisturbed' PROVE PoolInv(q)'
    BY <1>1, <1>2, <1>10, <2>1, ClearIndexKeeps, StepAside, ZenonT(30)
  <2> QED BY <2>1, <2>2, <2>3, Zenon DEF PoolsKept, StatusKept
<1>11. CASE CheckStatus(t)
  <2>1. /\ Global'
        /\ \E l, a, r, i : View(t, l, a, r, i) /\ (l = "idle" \/ a = p)
    BY <1>1, <1>2, <1>11, CheckStatusFacts, Zenon
  <2>2. \A q : SameData(q)
    BY <1>11, Zenon DEF CheckStatus, SameData
  <2>3. ASSUME NEW q \in Undisturbed' PROVE PoolInv(q)'
    BY <1>1, <1>2, <1>11, <2>1, <2>2, CheckStatusKeeps, StepAside, ZenonT(30)
  <2>4. StatusKept
    BY <1>1, <1>2, <1>11, CheckStatusKeeps, PoolOfThread, Zenon DEF StatusKept, Before
  <2> QED BY <2>1, <2>3, <2>4, Zenon DEF PoolsKept
<1>12. CASE SetStatus(t)
  <2>1. /\ Global' /\ \A q \in Pools : q # p => SameData(q)
        /\ View(t, "idle", 1, 0, INVALID)
    BY <1>1, <1>2, <1>12, SetStatusFacts, Zenon
  <2>2. aborted' = aborted
    BY <1>12, Zenon DEF SetStatus
  <2>3. ASSUME NEW q \in Undisturbed' PROVE PoolInv(q)'
    BY <1>1, <1>2, <1>12, <2>1, SetStatusKeeps, StepAside, Zenon
  <2> QED BY <2>1, <2>2, <2>3, Zenon DEF PoolsKept, StatusKept
<1> QED BY <1>3, <1>4, <1>5, <1>6, <1>7, <1>8, <1>9, <1>10, <1>11, <1>12, ZenonT(30)
        DEF Allocate

LEMMA FreePools ==
  ASSUME \A q \in Pools : MoreSlots(q), Before, NEW t \in Threads, Free(t)
  PROVE  PoolsKept
<1>1. Global /\ \A q \in Undisturbed' : q \in Undisturbed /\ q \in Pools /\ PoolInv(q)
  BY Zenon DEF Before, Undisturbed
<1>2. PICK p \in Pools : p = local[t].pool
  BY <1>1, PoolOfThread, Zenon
<1>3. ASSUME NEW a \in Pools, NEW i \in Items(a), BeginFree(t, a, i) PROVE PoolsKept
  <2>1. /\ Global' /\ \A q \in Pools : q # a => SameData(q)
        /\ \E l : View(t, l, a, 0, i)
    BY <1>1, <1>3, BeginFreeFacts, Zenon
  <2>2. pc[t] = "idle"
    BY <1>3, Zenon DEF BeginFree
  <2>3. ASSUME NEW q \in Undisturbed' PROVE PoolInv(q)'
    BY <1>1, <1>3, <2>1, <2>2, BeginFreeKeeps, StepAside, ZenonT(30)
  <2>4. StatusKept
    <3>1. CASE a \in Undisturbed
      BY <1>1, <1>3, <3>1, BeginFreeKeeps, Zenon DEF StatusKept, Before
    <3>2. CASE a \notin Undisturbed
      BY <3>2, Zenon DEF StatusKept, Undisturbed
    <3> QED BY <3>1, <3>2, Zenon
  <2> QED BY <2>1, <2>3, <2>4, Zenon DEF PoolsKept
<1>4. CASE SetFree(t)
  <2>1. /\ Global' /\ \A q \in Pools : q # p => SameData(q)
        /\ View(t, "fetch_put", p, local[t].raw, local[t].index)
    BY <1>1, <1>2, <1>4, SetFreeFacts, Zenon
  <2>2. aborted' = aborted
    BY <1>4, Zenon DEF SetFree
  <2>3. ASSUME NEW q \in Undisturbed' PROVE PoolInv(q)'
    BY <1>1, <1>2, <1>4, <2>1, SetFreeKeeps, StepAside, Zenon
  <2> QED BY <2>1, <2>2, <2>3, Zenon DEF PoolsKept, StatusKept
<1>5. CASE FetchPut(t)
  <2>1. /\ Global' /\ \A q \in Pools : q # p => SameData(q)
        /\ \E l : View(t, l, p, put[p], local[t].index)
    BY <1>1, <1>2, <1>5, FetchPutFacts, Zenon
  <2>2. aborted' = aborted
    BY <1>5, Zenon DEF FetchPut
  <2>3. ASSUME NEW q \in Undisturbed' PROVE PoolInv(q)'
    <3>1. CASE q = p
      <4>1. p \notin lapped'
        BY <3>1, Zenon DEF Undisturbed
      <4> QED BY <1>1, <1>2, <1>5, <3>1, <4>1, FetchPutKeeps, ZenonT(30)
    <3>2. CASE q # p
      BY <1>1, <1>2, <2>1, <3>2, StepAside, Zenon
    <3> QED BY <3>1, <3>2, Zenon
  <2> QED BY <2>1, <2>2, <2>3, Zenon DEF PoolsKept, StatusKept
<1>6. CASE WrapPut(t)
  <2>1. /\ Global' /\ \A q \in Pools : q # p => SameData(q)
        /\ View(t, "check_slot", p, local[t].raw, local[t].index)
    BY <1>1, <1>2, <1>6, WrapPutFacts, Zenon
  <2>2. aborted' = aborted
    BY <1>6, Zenon DEF WrapPut
  <2>3. ASSUME NEW q \in Undisturbed' PROVE PoolInv(q)'
    BY <1>1, <1>2, <1>6, <2>1, WrapPutKeeps, StepAside, ZenonT(30)
  <2> QED BY <2>1, <2>2, <2>3, Zenon DEF PoolsKept, StatusKept
<1>7. CASE CheckSlot(t)
  <2>1. /\ Global'
        /\ \E l, a, r, i : View(t, l, a, r, i) /\ (l = "idle" \/ a = p)
    BY <1>1, <1>2, <1>7, CheckSlotFacts, Zenon
  <2>2. (\A q : SameData(q)) /\ aborted' = aborted
    BY <1>7, Zenon DEF CheckSlot, SameData
  <2>3. ASSUME NEW q \in Undisturbed' PROVE PoolInv(q)'
    BY <1>1, <1>2, <1>7, <2>1, <2>2, CheckSlotKeeps, StepAside, ZenonT(30)
  <2> QED BY <2>1, <2>2, <2>3, Zenon DEF PoolsKept, StatusKept
<1>8. CASE StoreIndex(t)
  <2>1. /\ Global' /\ \A q \in Pools : q # p => SameData(q)
        /\ View(t, "idle", 1, 0, INVALID)
    BY <1>1, <1>2, <1>8, StoreIndexFacts, Zenon
  <2>2. aborted' = aborted
    BY <1>8, Zenon DEF StoreIndex
  <2>3. ASSUME NEW q \in Undisturbed' PROVE PoolInv(q)'
    BY <1>1, <1>2, <1>8, <2>1, StoreIndexKeeps, StepAside, ZenonT(30)
  <2> QED BY <2>1, <2>2, <2>3, Zenon DEF PoolsKept, StatusKept
<1> QED BY <1>3, <1>4, <1>5, <1>6, <1>7, <1>8, ZenonT(30) DEF Free

LEMMA InitHolds == Init => IInv
<1> SUFFICES ASSUME Init PROVE IInv
  BY Zenon
<1>1. 1 \in Pools /\ NoLocals \in Frames /\ NoLocals.pool = 1 /\ NoLocals.put = 0
      /\ NoLocals.index = INVALID /\ 0 \in Slots(1)
  <2>1. 1 \in Pools
    BY PoolAssumption DEF Pools
  <2> QED BY <2>1, Sizes, InvalidIsNoItem DEF NoLocals, Frames
<1>2. \A t \in Threads : pc[t] = "idle" /\ local[t] = NoLocals
  BY Zenon DEF Init
<1>3. ThreadShapes
  <2>1. pc \in [Threads -> Locations] /\ local \in [Threads -> Frames]
    BY <1>1, LocationNames, Zenon DEF Init
  <2> QED BY <1>1, <1>2, <2>1, Zenon DEF ThreadShapes
<1>4. DataShapes
  <2>1. DOMAIN indexes = Pools /\ DOMAIN item_status = Pools /\ DOMAIN held = Pools
    BY Zenon DEF Init
  <2>2. put \in [Pools -> Nat] /\ get \in [Pools -> Int]
    BY Sizes DEF Init
  <2>3. ASSUME NEW p \in Pools
        PROVE  /\ indexes[p] \in [Slots(p) -> Items(p) \cup {INVALID}]
               /\ item_status[p] \in [Items(p) -> {"free", "allocated"}]
               /\ held[p] \in [Items(p) -> Nat]
    BY Zenon DEF Init
  <2> QED BY <2>1, <2>2, <2>3, Zenon DEF DataShapes
<1>5. HistoryShapes
  BY PoolAssumption DEF Init, HistoryShapes
<1>6. Locals /\ PutWraps
  BY <1>2, LocationNames, Zenon DEF Locals, PutWraps
<1>7. ASSUME NEW p \in Pools PROVE PoolInv(p)
  <2> DEFINE n == number_plus_one(p)
  <2>1. /\ n \in Nat \ {0} /\ Slots(p) = 0 .. (n - 1) /\ Items(p) = 0 .. (n - 2)
        /\ put[p] = n - 1 /\ get[p] = 0
    BY Sizes DEF Init
  <2>2. \A s \in Slots(p) : indexes[p][s] = IF s \in Items(p) THEN s ELSE INVALID
    BY Zenon DEF Init
  <2>3. \A e \in Threads : /\ ~ Getting(e, p) /\ ~ Putting(e, p) /\ ~ WrapsGet(e, p)
                           /\ \A i : ~ Carries(e, p, i)
    BY <1>2, LocationNames, Zenon DEF Getting, Putting, WrapsGet, Carries
  <2> HIDE DEF n
  <2>4. Positions(p)
    <3>1. /\ put[p] \in 0 .. (2 * n) /\ get[p] \in 0 .. (2 * n)
          /\ ~ (n < put[p]) /\ ~ (n < get[p])
      BY <2>1
    <3> QED BY <2>3, <3>1, Zenon DEF Positions, n
  <2>5. Ring(get[p], p) = 0 /\ Ring(put[p], p) = n - 1
    <3>1. 0 \in 0 .. (2 * n) /\ n - 1 \in 0 .. (2 * n) /\ 0 < n /\ n - 1 < n
      BY <2>1
    <3> QED BY <2>1, <3>1, RingValue, Zenon DEF n
  <2>6. \A s \in Slots(p) : Inside(p, s) <=> s \in Items(p)
    BY <2>1, <2>5 DEF Inside, InWindow
  <2>7. Filled(p)
    BY <2>2, <2>6, InvalidIsNoItem, Zenon DEF Filled
  <2>8. SlotsApart(p) /\ \A e \in Threads : GetOrPut(e, p)
    BY <1>2, <2>3, Zenon DEF SlotsApart, GetOrPut
  <2>9. ASSUME NEW i \in Items(p) PROVE Place(p, i) /\ Status(p, i)
    <3>1. held[p][i] = 0 /\ item_status[p][i] = "free"
      BY Zenon DEF Init
    <3>2. i \in Slots(p) /\ \A s \in Slots(p) : indexes[p][s] = i <=> s = i
      BY <2>1, <2>2, InvalidIsNoItem
    <3> QED BY <2>3, <3>1, <3>2 DEF Place, Status
  <2> QED BY <2>4, <2>7, <2>8, <2>9, ZenonT(30) DEF PoolInv, RingInv, ItemInv
<1>8. StatusHolds
  BY Zenon DEF Init, StatusHolds
<1>9. Shapes
  BY <1>3, <1>4, <1>5, ShapesParts, Zenon
<1> QED BY <1>6, <1>7, <1>8, <1>9, Zenon DEF IInv, Undisturbed

LEMMA StepHolds ==
  ASSUME \A q \in Pools : MoreSlots(q), IInv, [Next]_vars
  PROVE  IInv'
<1>1. Global /\ HistoryShapes
  BY ShapesParts, Zenon DEF IInv, Global
<1>2. /\ HistoryShapes' /\ Undisturbed' \subseteq Undisturbed
      /\ drained \subseteq drained' /\ lapped \subseteq lapped'
  BY <1>1, HistoryStep, Zenon
<1>3. Before
  BY <1>1, <1>2, Zenon DEF Before, IInv
<1>4. PoolsKept
  <2>1. CASE Next
    <3>1. PICK t \in Threads : Allocate(t) \/ Free(t)
      BY <2>1, Zenon DEF Next
    <3> QED BY <1>3, <3>1, AllocatePools, FreePools, Zenon
  <2>2. CASE UNCHANGED vars
    <3>1. /\ UNCHANGED <<indexes, put, get, item_status, pc, local, held>>
          /\ aborted' = aborted
      BY <2>2, Zenon DEF vars
    <3>2. Global'
      BY <1>1, <3>1, Zenon
      DEF Global, ThreadShapes, DataShapes, Locals, PutWraps, Slot, Ring
    <3>3. \A q \in Undisturbed' : PoolInv(q)'
      BY <1>3, <3>1, PoolUnchanged, Zenon DEF Before
    <3> QED BY <3>1, <3>2, <3>3, Zenon DEF PoolsKept, StatusKept
  <2> QED BY <2>1, <2>2, Zenon
<1>5. Shapes'
  <2>1. (ThreadShapes /\ DataShapes /\ HistoryShapes)'
    BY <1>2, <1>4, Zenon DEF PoolsKept, Global
  <2>2. (Shapes <=> ThreadShapes /\ DataShapes /\ HistoryShapes)'
    BY ShapesParts, PTL
  <2> QED BY <2>1, <2>2, Zenon
<1>6. StatusHolds'
  BY <1>2, <1>4, Zenon DEF PoolsKept, StatusKept, StatusHolds, IInv
<1> QED BY <1>4, <1>5, <1>6, Zenon DEF IInv, PoolsKept, Global
-----------------------------------------------------------------------------
(***************************************************************************)
(* What the consistency of the pools says.  The sizes of the sets that     *)
(* OnePlace and CountIsExact speak of are assumed, and shown below.        *)
(***************************************************************************)
SizesUpToOne ==
  \A S : (\A x, y \in S : x = y) => Cardinality(S) = IF S = {} THEN 0 ELSE 1

\* the size of a window is the count that the code computes from the positions
WindowSizes ==
  \A n \in Nat \ {0} : \A g, u \in 0 .. (n - 1) :
    Cardinality({s \in 0 .. (n - 1) : InWindow(s, g, u)})
      = IF g <= u THEN u - g ELSE n + u - g

LEMMA LapsOfPools ==
  ASSUME IInv, [Next]_vars
  PROVE  [\A p \in lapped' \ lapped :
            p \in drained \/ Getters(p, Ring(put[p], p)) # {}]_vars
<1> SUFFICES ASSUME Next, NEW p \in lapped' \ lapped, p \notin drained
             PROVE  Getters(p, Ring(put[p], p)) # {}
  BY Zenon
<1>1. Global /\ HistoryShapes
  BY ShapesParts, Zenon DEF IInv, Global
<1>2. PICK t \in Threads : FetchPut(t) /\ local[t].pool = p
  <2>1. PICK t \in Threads : Allocate(t) \/ Free(t)
    BY Zenon DEF Next
  <2>2. lapped' = lapped \/ FetchPut(t)
    BY <2>1, Zenon
    DEF Allocate, Free, BeginAllocate, ReadPutPosition, NextPool, FetchGet,
                ReadOutside, ReadIndex, RestoreGet, WrapGet, ClearIndex, CheckStatus,
                SetStatus, BeginFree, SetFree, WrapPut, CheckSlot, StoreIndex
  <2> QED BY <2>2, Zenon DEF FetchPut
<1>3. p \in Pools /\ indexes[p][Ring(put[p], p)] # INVALID
  BY <1>1, <1>2, PoolOfThread, Zenon DEF FetchPut
<1>4. PoolInv(p)
  BY <1>3, Zenon DEF IInv, Undisturbed
<1> DEFINE n == number_plus_one(p)
<1>5. PICK g : g = Ring(get[p], p)
  BY Zenon
<1>6. PICK u : u = Ring(put[p], p)
  BY Zenon
<1>7. n \in Nat \ {0} /\ g \in 0 .. (n - 1) /\ u \in 0 .. (n - 1) /\ u \in Slots(p)
  <2>1. get[p] \in Int /\ get[p] >= 0 /\ put[p] \in Int /\ put[p] >= 0
    BY <1>3, <1>4, Sizes DEF PoolInv, RingInv, Positions
  <2> QED BY <1>3, <1>5, <1>6, <2>1, RingType, Sizes, ZenonT(30)
<1> HIDE DEF n
<1>8. ~ Inside(p, u)
  BY <1>5, <1>6, <1>7, WindowPush, Zenon DEF Inside
<1>9. PICK e \in Threads : Getting(e, p) /\ Slot(e) = u
  BY <1>3, <1>4, <1>6, <1>7, <1>8, ZenonT(30) DEF PoolInv, RingInv, Filled
<1> QED BY <1>6, <1>9, Zenon DEF Getters, Getting

LEMMA PlacesOfItems ==
  ASSUME SizesUpToOne, IInv
  PROVE  OnePlace
<1> SUFFICES ASSUME NEW p \in Undisturbed
             PROVE  /\ \A i \in Items(p) :
                         held[p][i] + Cardinality(Carriers(p, i))
                           + Cardinality({s \in Slots(p) : indexes[p][s] = i}) = 1
                    /\ \A s \in Slots(p) : Cardinality(Getters(p, s)) <= 1
  BY Zenon DEF OnePlace
<1>1. PoolInv(p)
  BY Zenon DEF IInv
<1>2. ASSUME NEW i \in Items(p)
      PROVE  held[p][i] + Cardinality(Carriers(p, i))
               + Cardinality({s \in Slots(p) : indexes[p][s] = i}) = 1
  <2> DEFINE C == Carriers(p, i)
             S == {s \in Slots(p) : indexes[p][s] = i}
  <2>1. Place(p, i)
    BY <1>1, Zenon DEF PoolInv, ItemInv
  <2>2. C = {t \in Threads : Carries(t, p, i)}
    BY Zenon DEF Carriers, Carries, CarryLocations
  <2>3. /\ \A x, y \in C : x = y
        /\ \A x, y \in S : x = y
        /\ held[p][i] = 1 => C = {} /\ S = {}
        /\ held[p][i] # 1 => held[p][i] = 0 /\ (C = {} <=> S # {})
    BY <2>1, <2>2, ZenonT(30) DEF Place
  <2> HIDE DEF C, S
  <2>4. /\ Cardinality(C) = IF C = {} THEN 0 ELSE 1
        /\ Cardinality(S) = IF S = {} THEN 0 ELSE 1
    BY <2>3, Zenon DEF SizesUpToOne
  <2>5. held[p][i] + Cardinality(C) + Cardinality(S) = 1
    BY <2>3, <2>4, SMTT(30)
  <2> QED BY <2>5, Zenon DEF C, S
<1>3. ASSUME NEW s \in Slots(p) PROVE Cardinality(Getters(p, s)) <= 1
  <2>1. \A x, y \in Getters(p, s) : x = y
    BY <1>1, ZenonT(30) DEF PoolInv, RingInv, SlotsApart, Getters, Getting
  <2> QED BY <2>1 DEF SizesUpToOne
<1> QED BY <1>2, <1>3, ZenonT(30)

LEMMA CountOfItems ==
  ASSUME WindowSizes, IInv
  PROVE  CountIsExact
<1> SUFFICES ASSUME NEW p \in Undisturbed,
                    \A t \in Threads : local[t].pool = p => pc[t] = "idle"
             PROVE  /\ number_plus_one(p) + put[p] >= get[p]
                    /\ free_items(p)
                         = Cardinality({s \in Slots(p) : indexes[p][s] # INVALID})
  BY Zenon DEF CountIsExact
<1> DEFINE n == number_plus_one(p)
           W == {s \in Slots(p) : indexes[p][s] # INVALID}
<1>1. p \in Pools /\ PoolInv(p)
  BY Zenon DEF IInv, Undisturbed
<1>2. n \in Nat \ {0} /\ Slots(p) = 0 .. (n - 1)
  BY <1>1, Sizes, Zenon
<1>3. put[p] \in 0 .. n /\ get[p] \in 0 .. n
  <2>1. ~ (n < put[p]) /\ ~ (n < get[p])
    BY <1>1, Zenon DEF PoolInv, RingInv, Positions, WrapsGet
  <2>2. put[p] \in 0 .. (2 * n) /\ get[p] \in 0 .. (2 * n)
    BY <1>1, ZenonT(30) DEF PoolInv, RingInv, Positions
  <2> QED BY <1>2, <2>1, <2>2, SMTT(30)
<1>4. W = {s \in Slots(p) : Inside(p, s)}
  BY <1>1, Zenon DEF PoolInv, RingInv, Filled, Getting, Putting
<1>5. free_items(p) = (n + put[p] - get[p]) % n
  BY Zenon DEF free_items
<1> HIDE DEF n, W
<1>6. PICK g : g = Ring(get[p], p)
  BY Zenon
<1>7. PICK u : u = Ring(put[p], p)
  BY Zenon
<1>8. /\ (get[p] = n /\ g = 0) \/ g = get[p]
      /\ (put[p] = n /\ u = 0) \/ u = put[p]
      /\ g \in 0 .. (n - 1) /\ u \in 0 .. (n - 1)
  <2>1. put[p] \in 0 .. (2 * n) /\ get[p] \in 0 .. (2 * n) /\ n < 2 * n
    BY <1>2, <1>3, SMTT(30)
  <2>2. /\ g = IF get[p] < n THEN get[p] ELSE IF get[p] < 2 * n THEN get[p] - n ELSE 0
        /\ u = IF put[p] < n THEN put[p] ELSE IF put[p] < 2 * n THEN put[p] - n ELSE 0
    BY <1>1, <1>6, <1>7, <2>1, RingValue, ZenonT(30) DEF n
  <2> QED BY <1>2, <1>3, <2>1, <2>2, SMTT(30)
<1>9. Cardinality(W) = IF g <= u THEN u - g ELSE n + u - g
  <2>1. W = {s \in 0 .. (n - 1) : InWindow(s, g, u)}
    BY <1>2, <1>4, <1>6, <1>7, ZenonT(30) DEF Inside
  <2> QED BY <1>2, <1>8, <2>1, Zenon DEF WindowSizes
<1>10. (n + put[p] - get[p]) % n = IF g <= u THEN u - g ELSE n + u - g
  BY <1>2, <1>3, <1>8, CountOfPositions, ZenonT(30)
<1>11. n + put[p] >= get[p]
  BY <1>2, <1>3
<1> QED BY <1>5, <1>9, <1>10, <1>11, Zenon DEF n, W
-----------------------------------------------------------------------------
(***************************************************************************)
(* The sizes of the sets, and the theorems.                                *)
(***************************************************************************)
INSTANCE FiniteSetTheorems

(* The ring of a pool has PoolItems[p] + 1 slots, for PoolItems[p] items. *)
LEMMA SlotsExceedItems ==
  ASSUME NEW p \in Pools
  PROVE  MoreSlots(p)
<1> SUFFICES ASSUME NEW u \in Slots(p), NEW i \in Items(p),
                    NEW f \in [Slots(p) \ {u} -> Items(p) \ {i}]
             PROVE  \E x, y \in Slots(p) \ {u} : x # y /\ f[x] = f[y]
  BY Zenon DEF MoreSlots
<1> DEFINE S == Slots(p) \ {u}
           T == Items(p) \ {i}
<1>1. f \in [S -> T]
  BY Zenon
<1>2. /\ IsFiniteSet(S) /\ Cardinality(S) = PoolItems[p]
      /\ IsFiniteSet(T) /\ Cardinality(T) = PoolItems[p] - 1
  <2>1. PoolItems[p] \in Nat \ {0}
    BY Sizes, Zenon
  <2>2. IsFiniteSet(Slots(p)) /\ Cardinality(Slots(p)) - 1 = PoolItems[p]
    <3>1. 0 \in Int /\ PoolItems[p] \in Int /\ ~ (0 > PoolItems[p])
      BY <2>1
    <3>2. /\ IsFiniteSet(0 .. PoolItems[p])
          /\ Cardinality(0 .. PoolItems[p]) = PoolItems[p] - 0 + 1
      BY <3>1, FS_Interval, ZenonT(30)
    <3> QED BY <2>1, <3>2, SMTT(30) DEF Slots
  <2>3. IsFiniteSet(Items(p)) /\ Cardinality(Items(p)) = PoolItems[p]
    <3> DEFINE m == PoolItems[p] - 1
    <3>1. 0 \in Int /\ m \in Int /\ ~ (0 > m) /\ m - 0 + 1 = PoolItems[p]
      BY <2>1
    <3>2. Items(p) = 0 .. m
      BY Zenon DEF Items
    <3> HIDE DEF m
    <3>3. IsFiniteSet(0 .. m) /\ Cardinality(0 .. m) = m - 0 + 1
      BY <3>1, FS_Interval, ZenonT(30)
    <3> QED BY <3>1, <3>2, <3>3, ZenonT(30)
  <2>4. IsFiniteSet(S) /\ Cardinality(S) = Cardinality(Slots(p)) - 1
    BY <2>2, FS_RemoveElement, ZenonT(30)
  <2>5. IsFiniteSet(T) /\ Cardinality(T) = Cardinality(Items(p)) - 1
    BY <2>3, FS_RemoveElement, ZenonT(30)
  <2> QED BY <2>2, <2>3, <2>4, <2>5, Zenon
<1> HIDE DEF S, T
<1>3. Cardinality(T) < Cardinality(S)
  BY <1>2, Sizes, SMTT(30)
<1>4. IsFiniteSet(S) /\ IsFiniteSet(T)
  BY <1>2, Zenon
<1>5. \E x, y \in S : x # y /\ f[x] = f[y]
  BY <1>1, <1>3, <1>4, FS_PigeonHole, SMTT(30)
<1> QED BY <1>5, Zenon DEF S

LEMMA AtMostOne == SizesUpToOne
<1> SUFFICES ASSUME NEW S, \A x, y \in S : x = y
             PROVE  Cardinality(S) = IF S = {} THEN 0 ELSE 1
  BY Zenon DEF SizesUpToOne
<1>1. CASE S = {}
  BY <1>1, FS_EmptySet, ZenonT(30)
<1>2. CASE S # {}
  <2>1. PICK x : S = {x}
    BY <1>2
  <2> QED BY <1>2, <2>1, FS_Singleton, ZenonT(30)
<1> QED BY <1>1, <1>2, Zenon

LEMMA WindowSize == WindowSizes
<1> SUFFICES ASSUME NEW n \in Nat \ {0}, NEW g \in 0 .. (n - 1), NEW u \in 0 .. (n - 1),
                    NEW W, W = {s \in 0 .. (n - 1) : InWindow(s, g, u)}
             PROVE  Cardinality(W) = IF g <= u THEN u - g ELSE n + u - g
  BY Zenon DEF WindowSizes
<1> DEFINE a == u - 1
           b == n - 1
<1>0. a \in Int /\ b \in Int /\ 0 \in Int /\ g \in Int
  OBVIOUS
<1>1. CASE g <= u
  <2>1. W = g .. a
    BY <1>1 DEF InWindow
  <2>2. IF g > a THEN u - g = 0 ELSE a - g + 1 = u - g
    BY <1>1
  <2> HIDE DEF a
  <2>3. Cardinality(g .. a) = IF g > a THEN 0 ELSE a - g + 1
    BY <1>0, FS_Interval, ZenonT(30)
  <2> QED BY <1>1, <2>1, <2>2, <2>3, ZenonT(30)
<1>2. CASE u < g
  <2>1. W = (g .. b) \cup (0 .. a) /\ (g .. b) \cap (0 .. a) = {}
    BY <1>2 DEF InWindow
  <2>2. /\ ~ (g > b) /\ b - g + 1 = n - g
        /\ IF 0 > a THEN u = 0 ELSE a - 0 + 1 = u
    BY <1>2
  <2> HIDE DEF a, b
  <2>3. IsFiniteSet(g .. b) /\ Cardinality(g .. b) = b - g + 1
    BY <1>0, <2>2, FS_Interval, ZenonT(30)
  <2>4. IsFiniteSet(0 .. a) /\ Cardinality(0 .. a) = IF 0 > a THEN 0 ELSE a - 0 + 1
    BY <1>0, FS_Interval, ZenonT(30)
  <2>5. Cardinality(0 .. a) = u
    BY <2>2, <2>4, SMTT(30)
  <2>6. Cardinality(W)
          = Cardinality(g .. b) + Cardinality(0 .. a) - Cardinality({})
    BY <2>1, <2>3, <2>4, FS_Union, ZenonT(30)
  <2>7. Cardinality({}) = 0
    BY FS_EmptySet, Zenon
  <2>8. Cardinality(W) = (n - g) + u - 0
    BY <2>2, <2>3, <2>5, <2>6, <2>7, Zenon
  <2>9. (n - g) + u - 0 = n + u - g /\ ~ (g <= u)
    BY <1>2
  <2> QED BY <2>8, <2>9, Zenon
<1> QED BY <1>1, <1>2

(* IInv holds in every state, for any threads, pools and items: the type invariant,   *)
(* and of each undisturbed pool where its items are, and which slots the operations   *)
(* of memory_pools.c that are on their way have.                                      *)
THEOREM PoolsAreConsistent == Spec => []IInv
<1>1. Init => IInv
  BY InitHolds, Zenon
<1>2. IInv /\ [Next]_vars => IInv'
  BY StepHolds, SlotsExceedItems, ZenonT(30)
<1> QED BY <1>1, <1>2, PTL DEF Spec

(* The type invariant: the indexes, positions and statuses of memory_pools.c, and     *)
(* what the threads have read of them, stay in their ranges whatever happens to a     *)
(* pool.                                                                              *)
THEOREM TypeCorrect == Spec => []TypeOK
BY PoolsAreConsistent, PTL DEF IInv, Shapes

(* Allocation is exclusive: in a pool that no get has found empty and no put full,    *)
(* each item is in one slot, or with one operation, or lives as one message, and no   *)
(* two calls of items_group_get_free_item have the same slot.                         *)
THEOREM ExclusiveItems == Spec => []OnePlace
<1>1. IInv => OnePlace
  BY PlacesOfItems, AtMostOne, Zenon
<1> QED BY <1>1, PoolsAreConsistent, PTL

(* However many calls of items_group_get_free_item and items_group_put_free_item      *)
(* overlap the wrap of a position, one of them takes it back within two rounds.       *)
THEOREM PositionsStay == Spec => []PositionsWrap
<1>1. IInv => PositionsWrap
  BY ZenonT(30) DEF IInv, PoolInv, RingInv, Positions, PositionsWrap
<1> QED BY <1>1, PoolsAreConsistent, PTL

(* The assertion of items_group_put_free_item holds in an undisturbed pool: the slot  *)
(* of a put stays empty until the put fills it.                                       *)
THEOREM SlotsStayEmpty == Spec => []SlotIsEmpty
<1>1. IInv => SlotIsEmpty
  BY Zenon DEF IInv, PoolInv, RingInv, GetOrPut, Putting, SlotIsEmpty
<1> QED BY <1>1, PoolsAreConsistent, PTL

(* The checks of the status of an item in memory_pools_allocate and memory_pools_free *)
(* fail, and a get reads outside of the ring, only once a pool was disturbed.         *)
THEOREM StatusesHold == Spec => []StatusHolds
BY PoolsAreConsistent, PTL DEF IInv

(* With no operation on its way items_group_free_items counts the items of an         *)
(* undisturbed pool exactly.                                                          *)
THEOREM CountsAreExact == Spec => []CountIsExact
<1>1. IInv => CountIsExact
  BY CountOfItems, WindowSize, Zenon
<1> QED BY <1>1, PoolsAreConsistent, PTL

(* In a pool that was never empty, a put meets a slot that is not free only for a get *)
(* that took that slot a round before and has not cleared it yet.                     *)
THEOREM LapsNeedGetters == Spec => LapNeedsGetter
<1>1. IInv /\ [Next]_vars =>
        [\A p \in lapped' \ lapped :
           p \in drained \/ Getters(p, Ring(put[p], p)) # {}]_vars
  BY LapsOfPools, Zenon
<1> QED BY <1>1, PoolsAreConsistent, PTL DEF Spec, LapNeedsGetter
==============================================================================
