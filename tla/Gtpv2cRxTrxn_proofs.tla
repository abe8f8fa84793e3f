------------------------- MODULE Gtpv2cRxTrxn_proofs -------------------------
(***************************************************************************)
(* The ownership of transactions, messages and timers on the receiving     *)
(* side of the stack, for any number of requests and objects.  The         *)
(* properties of Gtpv2cRxTrxn are inductive together and none of them is   *)
(* alone: a timer may purge its transaction because the ULP holds no       *)
(* handle to it, the ULP may use its handle because no timer runs for it,  *)
(* and a message leaves use with its transaction because the content of    *)
(* the stored responses tells them apart.                                  *)
(***************************************************************************)
EXTENDS Gtpv2cRxTrxn, FreeList_proofs

IInv == /\ TypeOK
        /\ TrxnsOwned
        /\ HandlesLive
        /\ TimersMatch
        /\ StoredResponseIntact

map == outstandingRxSeqNumMap

(* Membership in the sets of objects in use. *)
LEMMA InUse ==
  /\ \A t : t \in Outstanding <=> t # NULL /\ \E r \in Requests : map[r] = t
  /\ \A m : m \in Stored <=> /\ m # NULL
                             /\ \E r \in Requests : map[r] # NULL /\ pMsg[map[r]] = m
<1>1. \A t : t \in Outstanding <=> t # NULL /\ \E r \in Requests : map[r] = t
  BY Zenon DEF Outstanding, map
<1>2. \A m : m \in Stored <=> m # NULL /\ \E t \in Outstanding : pMsg[t] = m
  BY Zenon DEF Stored
<1> QED BY <1>1, <1>2

(* The same in the next state. *)
LEMMA InUseNext ==
  /\ \A t : t \in Outstanding' <=> t # NULL /\ \E r \in Requests : map'[r] = t
  /\ \A m : m \in Stored' <=> /\ m # NULL
                              /\ \E r \in Requests : map'[r] # NULL /\ pMsg'[map'[r]] = m
<1>1. \A t : t \in Outstanding' <=> t # NULL /\ \E r \in Requests : map'[r] = t
  BY Zenon DEF Outstanding, map
<1>2. \A m : m \in Stored' <=> m # NULL /\ \E t \in Outstanding' : pMsg'[t] = m
  BY Zenon DEF Stored
<1> QED BY <1>1, <1>2

(* The invariant in the form the steps use. *)
LEMMA Unfolded ==
  ASSUME IInv
  PROVE  /\ map \in [Requests -> Trxns \cup {NULL}]
         /\ pMsg \in [Trxns -> Msgs \cup {NULL}]
         /\ msgBuf \in [Msgs -> Contents \cup {NULL}]
         /\ IsFreeList(trxnPool, Outstanding)
         /\ IsFreeList(msgPool, Stored)
         /\ trxnPool \in Seq(Trxns)
         /\ msgPool \in Seq(Msgs)
         /\ \A r, s \in Requests : map[r] = map[s] => r = s \/ map[r] = NULL
         /\ \A r \in Requests : map[r] # NULL /\ pMsg[map[r]] # NULL
                                  => msgBuf[pMsg[map[r]]] = Response(r)
BY Zenon DEF IInv, TypeOK, TrxnsOwned, StoredResponseIntact, map

(* Two outstanding transactions never store the same message. *)
LEMMA StoredApart ==
  ASSUME IInv, NEW r \in Requests, NEW s \in Requests,
         map[r] # NULL, map[s] # NULL,
         pMsg[map[r]] # NULL, pMsg[map[r]] = pMsg[map[s]]
  PROVE  r = s
<1>1. Response(r) = Response(s)
  BY Unfolded, Zenon
<1>2. Response(r).of = r /\ Response(s).of = s
  BY Zenon DEF Response
<1> QED BY <1>1, <1>2, Zenon

(* What an allocation of a transaction gives. *)
LEMMA NewTrxnFacts ==
  ASSUME IInv, NEW t \in NewTrxn
  PROVE  /\ t \in Trxns
         /\ t # NULL
         /\ t \notin Outstanding
         /\ \A r \in Requests : map[r] # t
         /\ Popped(trxnPool) \in Seq(Trxns)
         /\ IsFreeList(Popped(trxnPool), Outstanding \cup {t})
<1>1. /\ trxnPool \in Seq(Trxns)
      /\ IsFreeList(trxnPool, Outstanding)
      /\ t \in Allocated(trxnPool, Trxns \ Outstanding)
  BY Unfolded, Zenon DEF NewTrxn
<1>2. /\ t \in Trxns
      /\ t \notin Outstanding
      /\ Popped(trxnPool) \in Seq(Trxns)
      /\ IsFreeList(Popped(trxnPool), Outstanding \cup {t})
  BY <1>1, AllocationFacts, Zenon
<1> QED BY <1>2, InUse, NullAssumption, Zenon

(* What an allocation of a message gives. *)
LEMMA NewMsgFacts ==
  ASSUME IInv, NEW m \in NewMsg
  PROVE  /\ m \in Msgs
         /\ m # NULL
         /\ m \notin Stored
         /\ \A r \in Requests : map[r] # NULL => pMsg[map[r]] # m
         /\ Popped(msgPool) \in Seq(Msgs)
         /\ IsFreeList(Popped(msgPool), Stored \cup {m})
         /\ Pushed(m, Popped(msgPool)) \in Seq(Msgs)
         /\ IsFreeList(Pushed(m, Popped(msgPool)), Stored)
<1>1. /\ msgPool \in Seq(Msgs)
      /\ IsFreeList(msgPool, Stored)
      /\ m \in Allocated(msgPool, Msgs \ Stored)
  BY Unfolded, Zenon DEF NewMsg
<1>2. /\ m \in Msgs
      /\ m \notin Stored
      /\ Popped(msgPool) \in Seq(Msgs)
      /\ IsFreeList(Popped(msgPool), Stored \cup {m})
  BY <1>1, AllocationFacts, Zenon
<1>3. /\ Pushed(m, Popped(msgPool)) \in Seq(Msgs)
      /\ IsFreeList(Pushed(m, Popped(msgPool)), Stored \ {m})
  BY <1>2, ReleaseFacts, Zenon
<1>4. Stored \ {m} = Stored
  BY <1>2, Zenon
<1> QED BY <1>2, <1>3, <1>4, InUse, NullAssumption, Zenon

(* The content of a message. *)
LEMMA ContentTypes ==
  ASSUME NEW r \in Requests
  PROVE  Request(r) \in Contents /\ Response(r) \in Contents /\ Echo \in Contents
BY Zenon DEF Contents

(* Queueing a datagram keeps the type of the queue. *)
LEMMA SendType ==
  ASSUME IInv, NEW m \in Msgs, NEW c \in Contents, Send(m, c)
  PROVE  udpQueue' \in Seq([msg : Msgs, content : Contents])
<1>1. [msg |-> m, content |-> c] \in [msg : Msgs, content : Contents]
  BY Zenon
<1>2. udpQueue \in Seq([msg : Msgs, content : Contents])
  BY Zenon DEF IInv, TypeOK
<1> QED BY <1>1, <1>2 DEF Send

(* A new request: the transaction it takes has neither a timer nor a       *)
(* handle, and the message it borrows is nobody's stored response.         *)
LEMMA NewRequestInv ==
  ASSUME IInv, NEW r \in Requests, NewRequest(r),
         UNCHANGED <<now, answered>>,
         sent' \in [Requests -> Nat], firstSent' \in [Requests -> Nat]
  PROVE  IInv'
<1>1. PICK t \in NewTrxn, m \in NewMsg :
        /\ map' = [map EXCEPT ![r] = t]
        /\ trxnPool' = Popped(trxnPool)
        /\ pMsg' = [pMsg EXCEPT ![t] = NULL]
        /\ msgPool' = Pushed(m, Popped(msgPool))
        /\ msgBuf' = [msgBuf EXCEPT ![m] = Request(r)]
        /\ ulp' = ulp \cup {[trxn |-> t, req |-> r]}
  BY Zenon DEF NewRequest, map
<1>2. /\ map[r] = NULL
      /\ indications' = [indications EXCEPT ![r] = @ + 1]
      /\ UNCHANGED <<timers, udpQueue>>
  BY Zenon DEF NewRequest, map
<1>3. /\ t \in Trxns
      /\ t # NULL
      /\ t \notin Outstanding
      /\ \A s \in Requests : map[s] # t
      /\ Popped(trxnPool) \in Seq(Trxns)
      /\ IsFreeList(Popped(trxnPool), Outstanding \cup {t})
  BY NewTrxnFacts, Zenon
<1>4. /\ m \in Msgs
      /\ m # NULL
      /\ m \notin Stored
      /\ \A s \in Requests : map[s] # NULL => pMsg[map[s]] # m
      /\ Pushed(m, Popped(msgPool)) \in Seq(Msgs)
      /\ IsFreeList(Pushed(m, Popped(msgPool)), Stored)
  BY NewMsgFacts, Zenon
<1>5. /\ map'[r] = t
      /\ \A s \in Requests \ {r} : map'[s] = map[s]
      /\ pMsg'[t] = NULL
      /\ \A s \in Requests \ {r} : map[s] # NULL => pMsg'[map[s]] = pMsg[map[s]]
  BY <1>1, <1>3, Unfolded, Zenon
<1>6. Outstanding' = Outstanding \cup {t}
  <2>1. ASSUME NEW x \in Outstanding' PROVE x \in Outstanding \cup {t}
    BY <1>5, InUse, InUseNext
  <2>2. ASSUME NEW x \in Outstanding PROVE x \in Outstanding'
    <3>1. PICK s \in Requests : map[s] = x /\ x # NULL
      BY InUse, Zenon
    <3> QED BY <3>1, <1>2, <1>5, InUseNext, Zenon
  <2>3. t \in Outstanding'
    BY <1>3, <1>5, InUseNext, Zenon
  <2> QED BY <2>1, <2>2, <2>3, Zenon
<1>7. Stored' = Stored
  <2>1. ASSUME NEW x \in Stored' PROVE x \in Stored
    <3>1. PICK s \in Requests : map'[s] # NULL /\ pMsg'[map'[s]] = x /\ x # NULL
      BY InUseNext, Zenon
    <3>2. s # r
      BY <3>1, <1>5, Zenon
    <3> QED BY <3>1, <3>2, <1>5, InUse
  <2>2. ASSUME NEW x \in Stored PROVE x \in Stored'
    <3>1. PICK s \in Requests : map[s] # NULL /\ pMsg[map[s]] = x /\ x # NULL
      BY InUse, Zenon
    <3>2. s # r
      BY <3>1, <1>2, Zenon
    <3> QED BY <3>1, <3>2, <1>5, InUseNext, Zenon
  <2> QED BY <2>1, <2>2, Zenon
<1>8. TypeOK'
  <2>1. Request(r) \in Contents
    BY ContentTypes, Zenon
  <2>2. /\ msgBuf' \in [Msgs -> Contents \cup {NULL}]
        /\ map' \in [Requests -> Trxns \cup {NULL}]
        /\ pMsg' \in [Trxns -> Msgs \cup {NULL}]
    BY <2>1, <1>1, <1>3, <1>4, Unfolded, Zenon
  <2>3. ulp' \subseteq [trxn : Trxns, req : Requests]
    BY <1>1, <1>3 DEF IInv, TypeOK
  <2>4. indications' \in [Requests -> Nat]
    BY <1>2 DEF IInv, TypeOK
  <2> QED BY <2>2, <2>3, <2>4, <1>1, <1>2, <1>3, <1>4, Zenon DEF IInv, TypeOK, map
<1>9. TrxnsOwned'
  <2>1. IsFreeList(trxnPool', Outstanding')
    BY <1>1, <1>3, <1>6, Zenon
  <2>2. \A a, b \in Requests : map'[a] = map'[b] => a = b \/ map'[a] = NULL
    BY <1>3, <1>5, Unfolded, SMTT(30)
  <2> QED BY <2>1, <2>2, Zenon DEF TrxnsOwned, map
<1>10. HandlesLive'
  <2> SUFFICES ASSUME NEW i \in ulp' PROVE map'[i.req] = i.trxn /\ pMsg'[i.trxn] = NULL
    BY Zenon DEF HandlesLive, map
  <2>1. CASE i = [trxn |-> t, req |-> r]
    BY <2>1, <1>5, Zenon
  <2>2. CASE i \in ulp
    <3>1. i.req \in Requests /\ i.trxn \in Trxns /\ map[i.req] = i.trxn
          /\ pMsg[i.trxn] = NULL
      BY <2>2, Zenon DEF IInv, TypeOK, HandlesLive, map
    <3>2. i.req # r
      BY <3>1, <1>2, NullAssumption, Zenon
    <3> QED BY <3>1, <3>2, <1>5, NullAssumption, SMTT(30)
  <2> QED BY <2>1, <2>2, <1>1, Zenon
<1>11. TimersMatch'
  <2>1. ASSUME NEW tm \in timers
        PROVE  map'[tm.req] = tm.trxn /\ pMsg'[tm.trxn] # NULL
    <3>1. tm.req \in Requests /\ tm.trxn \in Trxns /\ map[tm.req] = tm.trxn
          /\ pMsg[tm.trxn] # NULL
      BY Zenon DEF IInv, TypeOK, TimersMatch, map
    <3>2. tm.req # r
      BY <3>1, <1>2, NullAssumption, Zenon
    <3> QED BY <3>1, <3>2, <1>5, NullAssumption, Zenon
  <2>2. ASSUME NEW s \in Requests, map'[s] # NULL, pMsg'[map'[s]] # NULL
        PROVE  \E tm \in timers : tm.trxn = map'[s]
    <3>1. s # r
      BY <2>2, <1>5, Zenon
    <3>2. map'[s] = map[s] /\ pMsg[map[s]] # NULL
      BY <3>1, <2>2, <1>5, Zenon
    <3> QED BY <3>2, <2>2, Zenon DEF IInv, TimersMatch, map
  <2>3. \A tm, tn \in timers : tm.trxn = tn.trxn => tm = tn
    BY Zenon DEF IInv, TimersMatch
  <2> QED BY <2>1, <2>2, <2>3, <1>2, Zenon DEF TimersMatch, map
<1>12. StoredResponseIntact'
  <2>1. IsFreeList(msgPool', Stored')
    BY <1>1, <1>4, <1>7, Zenon
  <2>2. ASSUME NEW s \in Requests, map'[s] # NULL, pMsg'[map'[s]] # NULL
        PROVE  msgBuf'[pMsg'[map'[s]]] = Response(s)
    <3>1. s # r
      BY <2>2, <1>5, Zenon
    <3>2. map'[s] = map[s] /\ pMsg'[map'[s]] = pMsg[map[s]] /\ map[s] \in Trxns
      BY <3>1, <2>2, <1>5, Unfolded, SMTT(30)
    <3>3. pMsg[map[s]] \in Msgs /\ pMsg[map[s]] # m
      BY <3>2, <2>2, <1>4, Unfolded, Zenon
    <3>4. msgBuf'[pMsg[map[s]]] = msgBuf[pMsg[map[s]]]
      BY <3>3, <1>1, Unfolded, Zenon
    <3> QED BY <3>2, <3>4, <2>2, Unfolded, Zenon
  <2> QED BY <2>1, <2>2, Zenon DEF StoredResponseIntact, map
<1> QED BY <1>8, <1>9, <1>10, <1>11, <1>12, Zenon DEF IInv

(* A step that leaves the map, the timers and the handles alone, stores no *)
(* other message and writes into no stored message, keeps the invariant if *)
(* it keeps the types and the free lists.                                  *)
LEMMA FrameInv ==
  ASSUME IInv, TypeOK',
         UNCHANGED <<outstandingRxSeqNumMap, timers, ulp>>,
         \A r \in Requests : map[r] # NULL => pMsg'[map[r]] = pMsg[map[r]],
         \A m \in Stored : msgBuf'[m] = msgBuf[m],
         IsFreeList(trxnPool', Outstanding), IsFreeList(msgPool', Stored)
  PROVE  IInv'
<1>1. map' = map
  BY Zenon DEF map
<1>2. Outstanding' = Outstanding
  BY Zenon DEF Outstanding
<1>3. Stored' = Stored
  <2>1. ASSUME NEW x PROVE x \in Stored' <=> x \in Stored
    BY <1>1, InUse, InUseNext, SMTT(30)
  <2> QED BY <2>1, Zenon
<1>4. \A s \in Requests : map[s] # NULL => map[s] \in Trxns
  BY Unfolded, Zenon
<1>5. TrxnsOwned'
  BY <1>1, <1>2, Unfolded, ZenonT(30) DEF TrxnsOwned, map
<1>6. HandlesLive'
  <2> SUFFICES ASSUME NEW i \in ulp PROVE map[i.req] = i.trxn /\ pMsg'[i.trxn] = NULL
    BY Zenon DEF HandlesLive, map
  <2>1. i.req \in Requests /\ i.trxn \in Trxns /\ map[i.req] = i.trxn
        /\ pMsg[i.trxn] = NULL
    BY Zenon DEF IInv, TypeOK, HandlesLive, map
  <2> QED BY <2>1, NullAssumption, Zenon
<1>7. TimersMatch'
  <2>1. ASSUME NEW tm \in timers
        PROVE  map[tm.req] = tm.trxn /\ pMsg'[tm.trxn] # NULL
    <3>1. tm.req \in Requests /\ tm.trxn \in Trxns /\ map[tm.req] = tm.trxn
          /\ pMsg[tm.trxn] # NULL
      BY Zenon DEF IInv, TypeOK, TimersMatch, map
    <3> QED BY <3>1, NullAssumption, Zenon
  <2>2. ASSUME NEW s \in Requests, map[s] # NULL, pMsg'[map[s]] # NULL
        PROVE  \E tm \in timers : tm.trxn = map[s]
    BY <2>2, Zenon DEF IInv, TimersMatch, map
  <2>3. \A tm, tn \in timers : tm.trxn = tn.trxn => tm = tn
    BY Zenon DEF IInv, TimersMatch
  <2> QED BY <2>1, <2>2, <2>3, Zenon DEF TimersMatch, map
<1>8. StoredResponseIntact'
  <2>1. ASSUME NEW s \in Requests, map[s] # NULL, pMsg'[map[s]] # NULL
        PROVE  msgBuf'[pMsg'[map[s]]] = Response(s)
    <3>1. pMsg'[map[s]] = pMsg[map[s]] /\ pMsg[map[s]] \in Stored
      BY <2>1, InUse, Zenon
    <3> QED BY <3>1, <2>1, Unfolded, Zenon
  <2> QED BY <2>1, <1>1, <1>3, Zenon DEF StoredResponseIntact, map
<1> QED BY <1>5, <1>6, <1>7, <1>8, Zenon DEF IInv

(* A duplicate request: the transaction made for it goes straight back. *)
LEMMA DuplicateRequestInv ==
  ASSUME IInv, NEW r \in Requests, DuplicateRequest(r),
         UNCHANGED <<now, answered>>,
         sent' \in [Requests -> Nat], firstSent' \in [Requests -> Nat]
  PROVE  IInv'
<1>1. PICK t \in NewTrxn : /\ trxnPool' = Pushed(t, Popped(trxnPool))
                           /\ pMsg' = [pMsg EXCEPT ![t] = NULL]
  BY Zenon DEF DuplicateRequest
<1>2. UNCHANGED <<outstandingRxSeqNumMap, timers, msgPool, msgBuf, ulp, indications>>
  BY Zenon DEF DuplicateRequest, msgVars
<1>3. /\ t \in Trxns
      /\ t # NULL
      /\ t \notin Outstanding
      /\ \A s \in Requests : map[s] # t
      /\ Popped(trxnPool) \in Seq(Trxns)
      /\ IsFreeList(Popped(trxnPool), Outstanding \cup {t})
  BY NewTrxnFacts, Zenon
<1>4. trxnPool' \in Seq(Trxns) /\ IsFreeList(trxnPool', Outstanding)
  <2>1. /\ Pushed(t, Popped(trxnPool)) \in Seq(Trxns)
        /\ IsFreeList(Pushed(t, Popped(trxnPool)), Outstanding \ {t})
    BY <1>3, ReleaseFacts, Zenon
  <2>2. Outstanding \ {t} = Outstanding
    BY <1>3, Zenon
  <2> QED BY <2>1, <2>2, <1>1, Zenon
<1>5. udpQueue' \in Seq([msg : Msgs, content : Contents])
  <2> DEFINE m == pMsg[map[r]]
  <2>1. map[r] # NULL /\ map[r] \in Trxns
    BY Unfolded, Zenon DEF DuplicateRequest, map
  <2>2. CASE m = NULL
    BY <2>2, Zenon DEF DuplicateRequest, IInv, TypeOK, map
  <2>3. CASE m # NULL
    <3>1. m \in Msgs /\ msgBuf[m] = Response(r)
      BY <2>1, <2>3, Unfolded, Zenon
    <3>2. Send(m, msgBuf[m])
      BY <2>3, Zenon DEF DuplicateRequest, map
    <3>3. msgBuf[m] \in Contents
      BY <3>1, ContentTypes, Zenon
    <3> HIDE DEF m
    <3> QED BY <3>1, <3>2, <3>3, SendType, Zenon
  <2> QED BY <2>2, <2>3, Zenon
<1>6. pMsg' \in [Trxns -> Msgs \cup {NULL}]
  BY <1>1, <1>3, Unfolded, Zenon
<1>7. TypeOK'
  BY <1>2, <1>4, <1>5, <1>6, Zenon DEF IInv, TypeOK
<1>8. \A s \in Requests : map[s] # NULL => pMsg'[map[s]] = pMsg[map[s]]
  BY <1>1, <1>3, Unfolded, Zenon
<1>9. IsFreeList(msgPool', Stored)
  BY <1>2, Unfolded, Zenon
<1> QED BY <1>2, <1>4, <1>7, <1>8, <1>9, FrameInv, Zenon

(* The response: the message becomes the stored one, and the timer that    *)
(* will purge the transaction starts once the ULP has given its handle up. *)
LEMMA UlpTriggeredRspInv ==
  ASSUME IInv, NEW i \in ulp, UlpTriggeredRsp(i)
  PROVE  IInv'
<1> DEFINE r == i.req
           t == i.trxn
           tm0 == [trxn |-> t, req |-> r, due |-> now + t3Timer * maxRetries]
<1>1. PICK m \in NewMsg :
        /\ msgPool' = Popped(msgPool)
        /\ msgBuf' = [msgBuf EXCEPT ![m] = Response(r)]
        /\ Send(m, Response(r))
        /\ pMsg' = [pMsg EXCEPT ![t] = m]
        /\ timers' = timers \cup {tm0}
        /\ ulp' = ulp \ {i}
        /\ UNCHANGED <<now, peer, outstandingRxSeqNumMap, trxnPool, indications>>
  BY Zenon DEF UlpTriggeredRsp
<1>2. /\ r \in Requests /\ t \in Trxns /\ t # NULL
      /\ i = [trxn |-> t, req |-> r]
      /\ map[r] = t /\ pMsg[t] = NULL
  BY NullAssumption, ZenonT(30) DEF IInv, TypeOK, HandlesLive, map
<1>3. /\ tm0 \in [trxn : Trxns, req : Requests, due : Nat]
      /\ tm0.trxn = t /\ tm0.req = r
  <2>1. t3Timer * maxRetries \in Nat
    BY TimesAssumption
  <2>2. now + t3Timer * maxRetries \in Nat
    BY <2>1 DEF IInv, TypeOK
  <2> HIDE DEF r, t
  <2> QED BY <1>2, <2>2, Zenon
<1> HIDE DEF r, t, tm0
<1>4. /\ m \in Msgs
      /\ m # NULL
      /\ m \notin Stored
      /\ \A s \in Requests : map[s] # NULL => pMsg[map[s]] # m
      /\ Popped(msgPool) \in Seq(Msgs)
      /\ IsFreeList(Popped(msgPool), Stored \cup {m})
  BY NewMsgFacts, Zenon
<1>5. map' = map /\ Outstanding' = Outstanding
  BY <1>1, Zenon DEF map, Outstanding
<1>6. /\ pMsg'[t] = m
      /\ \A s \in Requests \ {r} : map[s] # NULL
           => map[s] # t /\ map[s] \in Trxns /\ pMsg'[map[s]] = pMsg[map[s]]
  BY <1>1, <1>2, Unfolded, Zenon
<1>7. Stored' = Stored \cup {m}
  <2>1. ASSUME NEW x \in Stored' PROVE x \in Stored \cup {m}
    <3>1. PICK s \in Requests : map'[s] # NULL /\ pMsg'[map'[s]] = x /\ x # NULL
      BY InUseNext, Zenon
    <3> QED BY <3>1, <1>2, <1>5, <1>6, InUse, Zenon
  <2>2. ASSUME NEW x \in Stored PROVE x \in Stored'
    <3>1. PICK s \in Requests : map[s] # NULL /\ pMsg[map[s]] = x /\ x # NULL
      BY InUse, Zenon
    <3>2. s # r
      BY <3>1, <1>2, Zenon
    <3> QED BY <3>1, <3>2, <1>5, <1>6, InUseNext, Zenon
  <2>3. m \in Stored'
    BY <1>2, <1>4, <1>5, <1>6, InUseNext, Zenon
  <2> QED BY <2>1, <2>2, <2>3, Zenon
<1>8. TypeOK'
  <2>1. Response(r) \in Contents
    BY <1>2, ContentTypes, Zenon
  <2>2. udpQueue' \in Seq([msg : Msgs, content : Contents])
    BY <1>1, <1>4, <2>1, SendType, Zenon
  <2>3. /\ msgBuf' \in [Msgs -> Contents \cup {NULL}]
        /\ pMsg' \in [Trxns -> Msgs \cup {NULL}]
        /\ msgPool' \in Seq(Msgs)
    BY <2>1, <1>1, <1>2, <1>4, Unfolded, Zenon
  <2>4. timers' \subseteq [trxn : Trxns, req : Requests, due : Nat]
    BY <1>1, <1>3, Zenon DEF IInv, TypeOK
  <2> QED BY <2>2, <2>3, <2>4, <1>1, Zenon DEF IInv, TypeOK, peer
<1>9. TrxnsOwned'
  BY <1>1, <1>5, Unfolded, Zenon DEF TrxnsOwned, map
<1>10. HandlesLive'
  <2> SUFFICES ASSUME NEW j \in ulp' PROVE map'[j.req] = j.trxn /\ pMsg'[j.trxn] = NULL
    BY Zenon DEF HandlesLive, map
  <2>1. j \in ulp /\ j # i
    BY <1>1, Zenon
  <2>2. /\ j = [trxn |-> j.trxn, req |-> j.req]
        /\ j.req \in Requests /\ j.trxn \in Trxns /\ map[j.req] = j.trxn
        /\ pMsg[j.trxn] = NULL
    BY <2>1, Zenon DEF IInv, TypeOK, HandlesLive, map
  <2>3. j.req # r
    BY <2>1, <2>2, <1>2, Zenon
  <2> QED BY <2>2, <2>3, <1>5, <1>6, NullAssumption, Zenon
<1>11. TimersMatch'
  <2>1. ASSUME NEW tm \in timers
        PROVE  /\ tm.req \in Requests /\ map[tm.req] = tm.trxn
               /\ pMsg'[tm.trxn] # NULL /\ tm.trxn # t
    <3>1. tm.req \in Requests /\ tm.trxn \in Trxns /\ map[tm.req] = tm.trxn
          /\ pMsg[tm.trxn] # NULL
      BY Zenon DEF IInv, TypeOK, TimersMatch, map
    <3>2. tm.trxn # t /\ tm.req # r
      BY <3>1, <1>2, Zenon
    <3> QED BY <3>1, <3>2, <1>6, NullAssumption, Zenon
  <2>2. \A tm \in timers' : map'[tm.req] = tm.trxn /\ pMsg'[tm.trxn] # NULL
    BY <2>1, <1>1, <1>2, <1>3, <1>4, <1>5, <1>6, SMTT(30)
  <2>3. \A tm, tn \in timers' : tm.trxn = tn.trxn => tm = tn
    <3>1. \A tm, tn \in timers : tm.trxn = tn.trxn => tm = tn
      BY Zenon DEF IInv, TimersMatch
    <3> QED BY <3>1, <2>1, <1>1, <1>3, ZenonT(30)
  <2>4. ASSUME NEW s \in Requests, map'[s] # NULL, pMsg'[map'[s]] # NULL
        PROVE  \E tm \in timers' : tm.trxn = map'[s]
    <3>1. CASE s = r
      BY <3>1, <1>1, <1>2, <1>3, <1>5, Zenon
    <3>2. CASE s # r
      <4>1. pMsg[map[s]] # NULL
        BY <3>2, <2>4, <1>5, <1>6, Zenon
      <4>2. \E tm \in timers : tm.trxn = map[s]
        BY <4>1, <2>4, <1>5, Zenon DEF IInv, TimersMatch, map
      <4> QED BY <4>2, <1>1, <1>5, Zenon
    <3> QED BY <3>1, <3>2, Zenon
  <2> QED BY <2>2, <2>3, <2>4, Zenon DEF TimersMatch, map
<1>12. StoredResponseIntact'
  <2>1. IsFreeList(msgPool', Stored')
    BY <1>1, <1>4, <1>7, Zenon
  <2>2. ASSUME NEW s \in Requests, map'[s] # NULL, pMsg'[map'[s]] # NULL
        PROVE  msgBuf'[pMsg'[map'[s]]] = Response(s)
    <3>1. CASE s = r
      BY <3>1, <1>1, <1>2, <1>4, <1>5, <1>6, Unfolded, Zenon
    <3>2. CASE s # r
      <4>1. pMsg'[map'[s]] = pMsg[map[s]] /\ map[s] \in Trxns /\ map[s] # NULL
        BY <3>2, <2>2, <1>5, <1>6, Zenon
      <4>2. pMsg[map[s]] \in Msgs /\ pMsg[map[s]] # m
        BY <4>1, <2>2, <1>4, Unfolded, Zenon
      <4>3. msgBuf'[pMsg[map[s]]] = msgBuf[pMsg[map[s]]]
        BY <4>2, <1>1, Unfolded, Zenon
      <4> QED BY <4>1, <4>3, <2>2, Unfolded, Zenon
    <3> QED BY <3>1, <3>2, Zenon
  <2> QED BY <2>1, <2>2, Zenon DEF StoredResponseIntact, map
<1> QED BY <1>8, <1>9, <1>10, <1>11, <1>12, Zenon DEF IInv

(* The timeout: the transaction, its message and its timer leave use       *)
(* together, and no handle is left behind.                                 *)
LEMMA TimeoutInv ==
  ASSUME IInv, NEW tm \in timers, DuplicateRequestWaitTimeout(tm)
  PROVE  IInv'
<1> DEFINE r == tm.req
           t == tm.trxn
           m == pMsg[t]
<1>1. /\ timers' = timers \ {tm}
      /\ map' = [map EXCEPT ![r] = NULL]
      /\ trxnPool' = Pushed(t, trxnPool)
      /\ msgPool' = Pushed(m, msgPool)
      /\ UNCHANGED <<now, peer, pMsg, msgBuf, ulp, udpQueue, indications>>
  BY Zenon DEF DuplicateRequestWaitTimeout, map
<1>2. /\ r \in Requests /\ t \in Trxns /\ map[r] = t /\ m # NULL
  BY Zenon DEF IInv, TypeOK, TimersMatch, map
<1>3. m = pMsg[t]
  BY Zenon
<1> HIDE DEF r, t, m
<1>4. m \in Msgs /\ t # NULL
  BY <1>2, <1>3, NullAssumption, Unfolded, Zenon
<1>5. /\ map'[r] = NULL
      /\ \A s \in Requests \ {r} : map'[s] = map[s]
      /\ \A s \in Requests \ {r} : map[s] # t
  BY <1>1, <1>2, <1>4, Unfolded, Zenon
<1>6. Outstanding' = Outstanding \ {t}
  <2>1. ASSUME NEW x \in Outstanding' PROVE x \in Outstanding \ {t}
    <3>1. PICK s \in Requests : map'[s] = x /\ x # NULL
      BY InUseNext, Zenon
    <3>2. s # r
      BY <3>1, <1>5, Zenon
    <3> QED BY <3>1, <3>2, <1>5, InUse, SMTT(30)
  <2>2. ASSUME NEW x \in Outstanding, x # t PROVE x \in Outstanding'
    <3>1. PICK s \in Requests : map[s] = x /\ x # NULL
      BY InUse, Zenon
    <3>2. s # r
      BY <3>1, <2>2, <1>2, Zenon
    <3> QED BY <3>1, <3>2, <1>5, InUseNext, Zenon
  <2> QED BY <2>1, <2>2, Zenon
<1>7. Stored' = Stored \ {m}
  <2>1. ASSUME NEW x \in Stored' PROVE x \in Stored \ {m}
    <3>1. PICK s \in Requests : map'[s] # NULL /\ pMsg[map'[s]] = x /\ x # NULL
      BY <1>1, InUseNext, Zenon
    <3>2. s # r
      BY <3>1, <1>5, Zenon
    <3>3. map[s] # NULL /\ pMsg[map[s]] = x
      BY <3>1, <3>2, <1>5, Zenon
    <3>4. x # m
      BY <3>1, <3>2, <3>3, <1>2, <1>3, <1>4, StoredApart, Zenon
    <3> QED BY <3>1, <3>3, <3>4, InUse, Zenon
  <2>2. ASSUME NEW x \in Stored, x # m PROVE x \in Stored'
    <3>1. PICK s \in Requests : map[s] # NULL /\ pMsg[map[s]] = x /\ x # NULL
      BY InUse, Zenon
    <3>2. s # r
      BY <3>1, <2>2, <1>2, <1>3, Zenon
    <3> QED BY <3>1, <3>2, <1>1, <1>5, InUseNext, Zenon
  <2> QED BY <2>1, <2>2, Zenon
<1>8. trxnPool' \in Seq(Trxns) /\ IsFreeList(trxnPool', Outstanding')
  <2>1. Outstanding \cup {t} = Outstanding
    BY <1>2, <1>4, InUse, Zenon
  <2>2. trxnPool \in Seq(Trxns) /\ IsFreeList(trxnPool, Outstanding \cup {t})
    BY <2>1, Unfolded, Zenon
  <2>3. /\ Pushed(t, trxnPool) \in Seq(Trxns)
        /\ IsFreeList(Pushed(t, trxnPool), Outstanding \ {t})
    BY <2>2, <1>2, ReleaseFacts, Zenon
  <2> QED BY <2>3, <1>1, <1>6, Zenon
<1>9. msgPool' \in Seq(Msgs) /\ IsFreeList(msgPool', Stored')
  <2>1. Stored \cup {m} = Stored
    BY <1>2, <1>3, <1>4, InUse, Zenon
  <2>2. msgPool \in Seq(Msgs) /\ IsFreeList(msgPool, Stored \cup {m})
    BY <2>1, Unfolded, Zenon
  <2>3. /\ Pushed(m, msgPool) \in Seq(Msgs)
        /\ IsFreeList(Pushed(m, msgPool), Stored \ {m})
    BY <2>2, <1>4, ReleaseFacts, Zenon
  <2> QED BY <2>3, <1>1, <1>7, Zenon
<1>10. TypeOK'
  <2>1. map' \in [Requests -> Trxns \cup {NULL}]
    BY <1>1, <1>2, Unfolded, Zenon
  <2> QED BY <2>1, <1>1, <1>8, <1>9, Zenon DEF IInv, TypeOK, map, peer
<1>11. TrxnsOwned'
  <2>1. \A a, b \in Requests : map'[a] = map'[b] => a = b \/ map'[a] = NULL
    BY <1>5, Unfolded, Zenon
  <2> QED BY <2>1, <1>8, Zenon DEF TrxnsOwned, map
<1>12. HandlesLive'
  <2> SUFFICES ASSUME NEW i \in ulp PROVE map'[i.req] = i.trxn /\ pMsg[i.trxn] = NULL
    BY <1>1, Zenon DEF HandlesLive, map
  <2>1. i.req \in Requests /\ i.trxn \in Trxns /\ map[i.req] = i.trxn
        /\ pMsg[i.trxn] = NULL
    BY Zenon DEF IInv, TypeOK, HandlesLive, map
  <2>2. i.req # r
    BY <2>1, <1>2, <1>3, Zenon
  <2> QED BY <2>1, <2>2, <1>5, Zenon
<1>13. TimersMatch'
  <2>1. \A a, b \in timers : a.trxn = b.trxn => a = b
    BY Zenon DEF IInv, TimersMatch
  <2>2. ASSUME NEW tn \in timers'
        PROVE  map'[tn.req] = tn.trxn /\ pMsg'[tn.trxn] # NULL
    <3>1. tn \in timers /\ tn # tm
      BY <1>1, Zenon
    <3>2. tn.req \in Requests /\ map[tn.req] = tn.trxn /\ pMsg[tn.trxn] # NULL
      BY <3>1, Zenon DEF IInv, TypeOK, TimersMatch, map
    <3>3. tn.req # r
      BY <3>1, <3>2, <2>1, <1>2, Zenon DEF t
    <3> QED BY <3>2, <3>3, <1>1, <1>5, Zenon
  <2>3. ASSUME NEW s \in Requests, map'[s] # NULL, pMsg'[map'[s]] # NULL
        PROVE  \E tn \in timers' : tn.trxn = map'[s]
    <3>1. s # r
      BY <2>3, <1>5, Zenon
    <3>2. map'[s] = map[s] /\ map[s] # t /\ pMsg[map[s]] # NULL /\ map[s] # NULL
      BY <3>1, <2>3, <1>1, <1>5, Zenon
    <3>3. PICK tn \in timers : tn.trxn = map[s]
      BY <3>2, Zenon DEF IInv, TimersMatch, map
    <3>4. tn # tm
      BY <3>2, <3>3, Zenon DEF t
    <3> QED BY <3>2, <3>3, <3>4, <1>1, Zenon
  <2>4. \A a, b \in timers' : a.trxn = b.trxn => a = b
    BY <2>1, <1>1, Zenon
  <2> QED BY <2>2, <2>3, <2>4, Zenon DEF TimersMatch, map
<1>14. StoredResponseIntact'
  <2>1. ASSUME NEW s \in Requests, map'[s] # NULL, pMsg'[map'[s]] # NULL
        PROVE  msgBuf'[pMsg'[map'[s]]] = Response(s)
    <3>1. s # r
      BY <2>1, <1>5, Zenon
    <3> QED BY <3>1, <2>1, <1>1, <1>5, Unfolded, Zenon
  <2> QED BY <2>1, <1>9, Zenon DEF StoredResponseIntact, map
<1> QED BY <1>10, <1>11, <1>12, <1>13, <1>14, Zenon DEF IInv

(* Every step keeps the invariant. *)
LEMMA StepInv ==
  ASSUME IInv, [Next]_vars
  PROVE  IInv'
<1>1. ASSUME NEW r \in Requests, PeerSend(r)
      PROVE  IInv'
  <2>1. /\ UNCHANGED <<now, answered>>
        /\ sent' \in [Requests -> Nat]
        /\ firstSent' \in [Requests -> Nat]
    BY <1>1, SMTT(30) DEF PeerSend, IInv, TypeOK
  <2>2. CASE NewRequest(r)
    BY <2>1, <2>2, NewRequestInv, Zenon
  <2>3. CASE DuplicateRequest(r)
    BY <2>1, <2>3, DuplicateRequestInv, Zenon
  <2>4. CASE UNCHANGED <<trxnVars, msgVars, ulp, udpQueue, indications>>
    <3>1. UNCHANGED <<outstandingRxSeqNumMap, trxnPool, pMsg, timers, msgPool,
                      msgBuf, ulp, udpQueue, indications>>
      BY <2>4, Zenon DEF trxnVars, msgVars
    <3>2. TypeOK'
      BY <2>1, <3>1, Zenon DEF IInv, TypeOK
    <3>3. IsFreeList(trxnPool', Outstanding) /\ IsFreeList(msgPool', Stored)
      BY <3>1, Unfolded, Zenon
    <3> QED BY <3>1, <3>2, <3>3, FrameInv, Zenon
  <2> QED BY <1>1, <2>2, <2>3, <2>4, Zenon DEF PeerSend
<1>2. CASE EchoReq
  <2>1. PICK m \in NewMsg : /\ msgPool' = Pushed(m, Popped(msgPool))
                            /\ msgBuf' = [msgBuf EXCEPT ![m] = Echo]
                            /\ Send(m, Echo)
    BY <1>2, Zenon DEF EchoReq
  <2>2. UNCHANGED <<now, sent, firstSent, answered, outstandingRxSeqNumMap,
                    trxnPool, pMsg, timers, ulp, indications>>
    BY <1>2, Zenon DEF EchoReq, peer, trxnVars
  <2>3. /\ m \in Msgs
        /\ m \notin Stored
        /\ Pushed(m, Popped(msgPool)) \in Seq(Msgs)
        /\ IsFreeList(Pushed(m, Popped(msgPool)), Stored)
    BY NewMsgFacts, Zenon
  <2>4. Echo \in Contents
    BY Zenon DEF Contents
  <2>5. udpQueue' \in Seq([msg : Msgs, content : Contents])
    BY <2>1, <2>3, <2>4, SendType, Zenon
  <2>6. msgBuf' \in [Msgs -> Contents \cup {NULL}]
    BY <2>1, <2>3, <2>4, Unfolded, Zenon
  <2>7. TypeOK'
    BY <2>1, <2>2, <2>3, <2>5, <2>6, Zenon DEF IInv, TypeOK
  <2>8. \A x \in Stored : msgBuf'[x] = msgBuf[x]
    <3>1. \A x \in Stored : x \in Msgs
      BY InUse, Unfolded, SMTT(30)
    <3> QED BY <3>1, <2>1, <2>3, Unfolded, Zenon
  <2>9. IsFreeList(trxnPool', Outstanding) /\ IsFreeList(msgPool', Stored)
    BY <2>1, <2>2, <2>3, Unfolded, Zenon
  <2> QED BY <2>2, <2>7, <2>8, <2>9, FrameInv, Zenon
<1>3. CASE UdpDataReq
  <2>1. UNCHANGED <<now, sent, firstSent, outstandingRxSeqNumMap, trxnPool, pMsg,
                    timers, msgPool, msgBuf, ulp, indications>>
    BY <1>3, Zenon DEF UdpDataReq, trxnVars, msgVars
  <2>2. udpQueue \in Seq([msg : Msgs, content : Contents]) /\ udpQueue # <<>>
    BY <1>3, Zenon DEF UdpDataReq, IInv, TypeOK
  <2>3. udpQueue' \in Seq([msg : Msgs, content : Contents])
    <3>1. udpQueue' = Tail(udpQueue)
      BY <1>3, Zenon DEF UdpDataReq
    <3> QED BY <2>2, <3>1, SMTT(30)
  <2>4. answered' \subseteq Requests
    BY <1>3, Zenon DEF UdpDataReq, IInv, TypeOK
  <2>5. TypeOK'
    BY <2>1, <2>3, <2>4, Zenon DEF IInv, TypeOK
  <2>6. IsFreeList(trxnPool', Outstanding) /\ IsFreeList(msgPool', Stored)
    BY <2>1, Unfolded, Zenon
  <2> QED BY <2>1, <2>5, <2>6, FrameInv, Zenon
<1>4. CASE Tick
  <2>1. UNCHANGED <<sent, firstSent, answered, outstandingRxSeqNumMap, trxnPool,
                    pMsg, timers, msgPool, msgBuf, ulp, udpQueue, indications>>
    BY <1>4, Zenon DEF Tick, peer, trxnVars, msgVars
  <2>2. now' \in Nat
    BY <1>4, SMTT(30) DEF Tick, IInv, TypeOK
  <2>3. TypeOK'
    BY <2>1, <2>2, Zenon DEF IInv, TypeOK
  <2>4. IsFreeList(trxnPool', Outstanding) /\ IsFreeList(msgPool', Stored)
    BY <2>1, Unfolded, Zenon
  <2> QED BY <2>1, <2>3, <2>4, FrameInv, Zenon
<1>5. CASE UNCHANGED vars
  <2>1. TypeOK'
    BY <1>5, Zenon DEF vars, IInv, TypeOK
  <2>2. IsFreeList(trxnPool', Outstanding) /\ IsFreeList(msgPool', Stored)
    BY <1>5, Unfolded, Zenon DEF vars
  <2> QED BY <1>5, <2>1, <2>2, FrameInv, Zenon DEF vars
<1> QED BY <1>1, <1>2, <1>3, <1>4, <1>5, UlpTriggeredRspInv, TimeoutInv, Zenon DEF Next

(* The invariant holds in every state the stack reaches. *)
THEOREM InvariantHolds == Spec => []IInv
<1>1. Init => IInv
  <2> SUFFICES ASSUME Init PROVE IInv
    BY Zenon
  <2>1. \A r \in Requests : map[r] = NULL
    BY Zenon DEF Init, map
  <2>2. /\ Range(trxnPool) = {} /\ IsInjective(trxnPool)
        /\ Range(msgPool) = {} /\ IsInjective(msgPool)
    BY DEF Init, Range, IsInjective
  <2>3. TypeOK
    BY DEF Init, TypeOK
  <2>4. TrxnsOwned /\ StoredResponseIntact
    BY <2>1, <2>2, Zenon DEF TrxnsOwned, StoredResponseIntact, IsFreeList, map
  <2>5. HandlesLive /\ TimersMatch
    BY <2>1, Zenon DEF Init, HandlesLive, TimersMatch, map
  <2> QED BY <2>3, <2>4, <2>5, Zenon DEF IInv
<1>2. IInv /\ [Next]_vars => IInv'
  BY StepInv, Zenon
<1> QED BY <1>1, <1>2, PTL DEF Spec

(* Every variable of the receiving side keeps its type. *)
THEOREM TypeCorrect == Spec => []TypeOK
<1>1. IInv => TypeOK
  BY Zenon DEF IInv
<1> QED BY <1>1, InvariantHolds, PTL

(* nwGtpv2cTrxnDelete never frees a transaction twice, nor one that the    *)
(* map of outstanding transactions still reaches.                          *)
THEOREM TrxnsAreOwned == Spec => []TrxnsOwned
<1>1. IInv => TrxnsOwned
  BY Zenon DEF IInv
<1> QED BY <1>1, InvariantHolds, PTL

(* The transaction pointer that travels to TASK_MCE_APP and back in a      *)
(* session request and its response is live when it returns.               *)
THEOREM HandlesAreLive == Spec => []HandlesLive
<1>1. IInv => HandlesLive
  BY Zenon DEF IInv
<1> QED BY <1>1, InvariantHolds, PTL

(* A duplicate request wait timer runs exactly for the answered            *)
(* transactions, one for each.                                             *)
THEOREM TimersDoMatch == Spec => []TimersMatch
<1>1. IInv => TimersMatch
  BY Zenon DEF IInv
<1> QED BY <1>1, InvariantHolds, PTL

(* A duplicate of an answered request always finds the response to this    *)
(* request in the buffer its transaction stores.                           *)
THEOREM StoredResponsesIntact == Spec => []StoredResponseIntact
<1>1. IInv => StoredResponseIntact
  BY Zenon DEF IInv
<1> QED BY <1>1, InvariantHolds, PTL
=============================================================================
