--------------------------- MODULE FreeList_proofs ---------------------------
(***************************************************************************)
(* What the operations on a free list preserve, for lists of any length.   *)
(***************************************************************************)
EXTENDS FreeList, Integers, TLAPS

(* Putting an object back that the list does not hold keeps the list free  *)
(* of repetitions, and adds exactly that object.                           *)
LEMMA PushFacts ==
  ASSUME NEW S, NEW pool \in Seq(S), NEW x \in S,
         IsInjective(pool), x \notin Range(pool)
  PROVE  /\ Pushed(x, pool) \in Seq(S)
         /\ IsInjective(Pushed(x, pool))
         /\ Range(Pushed(x, pool)) = Range(pool) \cup {x}
<1> DEFINE p == <<x>> \o pool
<1>1. Pushed(x, pool) = p
  BY Zenon DEF Pushed
<1>2. /\ p \in Seq(S)
      /\ Len(p) = Len(pool) + 1
      /\ Len(pool) \in Nat
      /\ DOMAIN p = 1 .. Len(pool) + 1
      /\ DOMAIN pool = 1 .. Len(pool)
  OBVIOUS
<1>3. p[1] = x /\ \A i \in 1 .. Len(pool) : p[i + 1] = pool[i]
  OBVIOUS
<1>4. \A i \in 2 .. Len(pool) + 1 : p[i] = pool[i - 1] /\ i - 1 \in DOMAIN pool
  BY <1>2, <1>3
<1> HIDE DEF p
<1>5. IsInjective(p)
  <2> SUFFICES ASSUME NEW a \in DOMAIN p, NEW b \in DOMAIN p, p[a] = p[b]
               PROVE  a = b
    BY Zenon DEF IsInjective
  <2>1. CASE a = 1 /\ b = 1
    BY <2>1, Zenon
  <2>2. CASE a = 1 /\ b # 1
    <3>1. b \in 2 .. Len(pool) + 1
      BY <2>2, <1>2
    <3>2. pool[b - 1] = x /\ b - 1 \in DOMAIN pool
      BY <3>1, <2>2, <1>3, <1>4, Zenon
    <3> QED BY <3>2, Zenon DEF Range
  <2>3. CASE a # 1 /\ b = 1
    <3>1. a \in 2 .. Len(pool) + 1
      BY <2>3, <1>2
    <3>2. pool[a - 1] = x /\ a - 1 \in DOMAIN pool
      BY <3>1, <2>3, <1>3, <1>4, Zenon
    <3> QED BY <3>2, Zenon DEF Range
  <2>4. CASE a # 1 /\ b # 1
    <3>1. a \in 2 .. Len(pool) + 1 /\ b \in 2 .. Len(pool) + 1
      BY <2>4, <1>2
    <3>2. pool[a - 1] = pool[b - 1] /\ a - 1 \in DOMAIN pool /\ b - 1 \in DOMAIN pool
      BY <3>1, <1>4, Zenon
    <3>3. a - 1 = b - 1
      BY <3>2, Zenon DEF IsInjective
    <3> QED BY <3>1, <3>3
  <2> QED BY <2>1, <2>2, <2>3, <2>4, Zenon
<1>6. Range(p) = Range(pool) \cup {x}
  <2>1. ASSUME NEW y \in Range(p) PROVE y \in Range(pool) \cup {x}
    <3>1. PICK i \in DOMAIN p : p[i] = y
      BY Zenon DEF Range
    <3>2. i = 1 \/ i \in 2 .. Len(pool) + 1
      BY <1>2
    <3> QED BY <3>1, <3>2, <1>3, <1>4, Zenon DEF Range
  <2>2. ASSUME NEW y \in Range(pool) PROVE y \in Range(p)
    <3>1. PICK i \in 1 .. Len(pool) : pool[i] = y
      BY <1>2, Zenon DEF Range
    <3>2. i + 1 \in DOMAIN p /\ p[i + 1] = y
      BY <3>1, <1>2, <1>3
    <3> QED BY <3>2, Zenon DEF Range
  <2>3. x \in Range(p)
    <3>1. 1 \in DOMAIN p
      BY <1>2
    <3> QED BY <3>1, <1>3, Zenon DEF Range
  <2> QED BY <2>1, <2>2, <2>3, Zenon
<1> QED BY <1>1, <1>2, <1>5, <1>6, Zenon

(* Taking the head leaves a list without repetitions that holds every      *)
(* other object and not the one taken.                                     *)
LEMMA PopFacts ==
  ASSUME NEW S, NEW pool \in Seq(S), pool # <<>>, IsInjective(pool)
  PROVE  /\ Head(pool) \in S
         /\ Head(pool) \in Range(pool)
         /\ Tail(pool) \in Seq(S)
         /\ IsInjective(Tail(pool))
         /\ Range(Tail(pool)) = Range(pool) \ {Head(pool)}
<1> DEFINE q == Tail(pool)
<1>1. /\ q \in Seq(S)
      /\ Len(pool) \in Nat \ {0}
      /\ DOMAIN q = 1 .. Len(pool) - 1
      /\ DOMAIN pool = 1 .. Len(pool)
      /\ Head(pool) = pool[1]
      /\ \A i \in 1 .. Len(pool) - 1 : q[i] = pool[i + 1]
  OBVIOUS
<1>2. 1 \in DOMAIN pool
  BY <1>1
<1>3. Head(pool) \in S /\ Head(pool) \in Range(pool)
  BY <1>1, <1>2 DEF Range
<1> HIDE DEF q
<1>4. \A i \in DOMAIN q : i + 1 \in DOMAIN pool /\ i + 1 # 1 /\ q[i] = pool[i + 1]
  BY <1>1
<1>5. IsInjective(q)
  <2> SUFFICES ASSUME NEW a \in DOMAIN q, NEW b \in DOMAIN q, q[a] = q[b]
               PROVE  a = b
    BY Zenon DEF IsInjective
  <2>1. a + 1 = b + 1
    BY <1>4, Zenon DEF IsInjective
  <2> QED BY <2>1, <1>1
<1>6. Range(q) = Range(pool) \ {Head(pool)}
  <2>1. ASSUME NEW y \in Range(q) PROVE y \in Range(pool) \ {Head(pool)}
    <3>1. PICK i \in DOMAIN q : q[i] = y
      BY Zenon DEF Range
    <3>2. y = pool[i + 1] /\ i + 1 \in DOMAIN pool /\ i + 1 # 1
      BY <3>1, <1>4, Zenon
    <3>3. y # pool[1]
      BY <3>2, <1>2, Zenon DEF IsInjective
    <3> QED BY <3>2, <3>3, <1>1, Zenon DEF Range
  <2>2. ASSUME NEW y \in Range(pool), y # Head(pool) PROVE y \in Range(q)
    <3>1. PICK i \in 1 .. Len(pool) : pool[i] = y
      BY <1>1, Zenon DEF Range
    <3>2. i # 1
      BY <3>1, <2>2, <1>1, Zenon
    <3>3. i - 1 \in DOMAIN q /\ q[i - 1] = y
      BY <3>1, <3>2, <1>1
    <3> QED BY <3>3, Zenon DEF Range
  <2> QED BY <2>1, <2>2, Zenon
<1> QED BY <1>1, <1>3, <1>5, <1>6, Zenon DEF q

(* An allocation returns an object that is not in use, and the list it     *)
(* leaves is still a free list when that object is in use too.             *)
LEMMA AllocationFacts ==
  ASSUME NEW S, NEW pool \in Seq(S), NEW inUse,
         IsFreeList(pool, inUse), NEW x \in Allocated(pool, S \ inUse)
  PROVE  /\ x \in S
         /\ x \notin inUse
         /\ Popped(pool) \in Seq(S)
         /\ x \notin Range(Popped(pool))
         /\ IsFreeList(Popped(pool), inUse \cup {x})
<1>1. CASE pool # <<>>
  <2>1. x = Head(pool) /\ Popped(pool) = Tail(pool)
    BY <1>1, Zenon DEF Allocated, Popped
  <2>2. IsInjective(pool) /\ Range(pool) \cap inUse = {}
    BY Zenon DEF IsFreeList
  <2>3. /\ Head(pool) \in S
        /\ Head(pool) \in Range(pool)
        /\ Tail(pool) \in Seq(S)
        /\ IsInjective(Tail(pool))
        /\ Range(Tail(pool)) = Range(pool) \ {Head(pool)}
    BY <1>1, <2>2, PopFacts, Zenon
  <2> QED BY <2>1, <2>2, <2>3, Zenon DEF IsFreeList
<1>2. CASE pool = <<>>
  <2>1. x \in S \ inUse /\ Popped(pool) = pool
    BY <1>2, Zenon DEF Allocated, Popped
  <2>2. Range(pool) = {}
    BY <1>2 DEF Range
  <2> QED BY <2>1, <2>2, Zenon DEF IsFreeList
<1> QED BY <1>1, <1>2, Zenon

(* An object that leaves use may be put on the free list. *)
LEMMA ReleaseFacts ==
  ASSUME NEW S, NEW pool \in Seq(S), NEW inUse, NEW x \in S,
         IsFreeList(pool, inUse \cup {x})
  PROVE  /\ Pushed(x, pool) \in Seq(S)
         /\ IsFreeList(Pushed(x, pool), inUse \ {x})
<1>1. IsInjective(pool) /\ Range(pool) \cap (inUse \cup {x}) = {}
  BY Zenon DEF IsFreeList
<1>2. x \notin Range(pool)
  BY <1>1, Zenon
<1>3. /\ Pushed(x, pool) \in Seq(S)
      /\ IsInjective(Pushed(x, pool))
      /\ Range(Pushed(x, pool)) = Range(pool) \cup {x}
  BY <1>1, <1>2, PushFacts
<1> QED BY <1>1, <1>3, Zenon DEF IsFreeList
=============================================================================
