-------------------------- MODULE SmSession_proofs --------------------------
(***************************************************************************)
(* The hash table of the session manager and the tunnel map of the stack   *)
(* agree, for any number of tunnels, peers, TEIDs and requests.            *)
(***************************************************************************)
EXTENDS SmSession, FreeList_proofs

(* TEIDs of tunnels come from the generator, which never goes back: this   *)
(* is why the tunnel of an accepted session cannot collide with one that   *)
(* an ended session left behind.                                           *)
TeidsFresh ==
  /\ generator >= 1
  /\ \A u \in tunnelMap : key[u] # NULL
  /\ \A u \in tunnelMap : key[u].teid < generator

IInv == /\ TypeOK
        /\ HandlesMatchTunnels
        /\ TunnelsOwned
        /\ TeidsFresh
        /\ AcceptedIsAnswered

(* The parameter NULL is no key. *)
LEMMA HandleFacts ==
  ASSUME IInv, NEW teid \in Teids \cup {INVALID_TEID}, Handle(teid) # NULL
  PROVE  /\ teid \in Teids
         /\ Handle(teid) = sm_mce_teid_2_gtv2c_teid_handle[teid]
         /\ Handle(teid) \in tunnelMap
         /\ Handle(teid) \in Tunnels
         /\ key[Handle(teid)].teid = teid
<1>1. teid \in Teids /\ Handle(teid) = sm_mce_teid_2_gtv2c_teid_handle[teid]
  BY Zenon DEF Handle, INVALID_TEID
<1> QED BY <1>1, Zenon DEF IInv, TypeOK, HandlesMatchTunnels

(* DeleteTunnel keeps the invariant: the tunnel leaves the map, the hash   *)
(* table and use together.                                                 *)
LEMMA DeleteTunnelInv ==
  ASSUME IInv, NEW teid \in Teids \cup {INVALID_TEID}, Handle(teid) # NULL,
         DeleteTunnel(teid), UNCHANGED <<key, generator>>
  PROVE  /\ tunnelPool' \in Seq(Tunnels)
         /\ tunnelMap' \subseteq Tunnels
         /\ sm_mce_teid_2_gtv2c_teid_handle' \in [Teids -> Tunnels \cup {NULL}]
         /\ HandlesMatchTunnels'
         /\ TunnelsOwned'
         /\ TeidsFresh'
<1> DEFINE u == Handle(teid)
<1>1. /\ teid \in Teids
      /\ u = sm_mce_teid_2_gtv2c_teid_handle[teid]
      /\ u \in tunnelMap
      /\ u \in Tunnels
      /\ key[u].teid = teid
  BY HandleFacts, Zenon
<1>2. /\ tunnelPool' = Pushed(u, tunnelPool)
      /\ tunnelMap' = tunnelMap \ {u}
      /\ sm_mce_teid_2_gtv2c_teid_handle' =
           [sm_mce_teid_2_gtv2c_teid_handle EXCEPT ![teid] = NULL]
  BY Zenon DEF DeleteTunnel
<1> HIDE DEF u
<1>3. tunnelPool' \in Seq(Tunnels) /\ TunnelsOwned'
  <2>1. tunnelPool \in Seq(Tunnels) /\ IsFreeList(tunnelPool, tunnelMap)
    BY Zenon DEF IInv, TypeOK, TunnelsOwned
  <2>2. tunnelMap \cup {u} = tunnelMap
    BY <1>1, Zenon
  <2>3. IsFreeList(tunnelPool, tunnelMap \cup {u})
    BY <2>1, <2>2, Zenon
  <2>4. /\ Pushed(u, tunnelPool) \in Seq(Tunnels)
        /\ IsFreeList(Pushed(u, tunnelPool), tunnelMap \ {u})
    BY <2>1, <2>3, <1>1, ReleaseFacts, Zenon
  <2> QED BY <2>4, <1>2, Zenon DEF TunnelsOwned
<1>4. HandlesMatchTunnels'
  <2>1. ASSUME NEW t \in Teids, sm_mce_teid_2_gtv2c_teid_handle'[t] # NULL
        PROVE  /\ sm_mce_teid_2_gtv2c_teid_handle'[t] \in tunnelMap'
               /\ key'[sm_mce_teid_2_gtv2c_teid_handle'[t]].teid = t
    BY <2>1, <1>1, <1>2, Zenon DEF IInv, TypeOK, HandlesMatchTunnels
  <2>2. ASSUME NEW v \in tunnelMap'
        PROVE  sm_mce_teid_2_gtv2c_teid_handle'[key'[v].teid] = v
    <3>1. v \in tunnelMap /\ v # u /\ sm_mce_teid_2_gtv2c_teid_handle[key[v].teid] = v
      BY <2>2, <1>2, Zenon DEF IInv, HandlesMatchTunnels
    <3>2. key[v].teid # teid
      BY <3>1, <1>1, Zenon
    <3>3. key[v].teid \in Teids
      BY <3>1, NullAssumption, Zenon DEF IInv, TypeOK, TeidsFresh
    <3> QED BY <3>1, <3>2, <3>3, <1>2, Zenon DEF IInv, TypeOK
  <2> QED BY <2>1, <2>2, Zenon DEF HandlesMatchTunnels
<1>5. TeidsFresh'
  BY <1>2, Zenon DEF IInv, TeidsFresh
<1> QED BY <1>2, <1>3, <1>4, <1>5, <1>1, Zenon DEF IInv, TypeOK

(* What a request record looks like. *)
LEMMA PendingType ==
  ASSUME IInv, NEW q \in pending
  PROVE  /\ q \in Request
         /\ q.teid \in Teids \cup {INVALID_TEID}
         /\ q.peer \in Peers
         /\ [req |-> q, accepted |-> FALSE] \in [req : Request, accepted : BOOLEAN]
BY Zenon DEF IInv, TypeOK, Request

(* Respond records a request without a response as one not accepted. *)
LEMMA RespondInv ==
  ASSUME IInv, NEW q \in pending, Respond(q)
  PROVE  /\ pending' \subseteq Request
         /\ unanswered' \subseteq [req : Request, accepted : BOOLEAN]
         /\ AcceptedIsAnswered'
<1>1. [req |-> q, accepted |-> FALSE] \in [req : Request, accepted : BOOLEAN]
  BY PendingType, Zenon
<1>2. /\ pending \subseteq Request
      /\ unanswered \subseteq [req : Request, accepted : BOOLEAN]
      /\ \A x \in unanswered : ~x.accepted
  BY Zenon DEF IInv, TypeOK, AcceptedIsAnswered
<1>3. unanswered' \subseteq unanswered \cup {[req |-> q, accepted |-> FALSE]}
  BY Zenon DEF Respond
<1> QED BY <1>1, <1>2, <1>3, Zenon DEF Respond, AcceptedIsAnswered

(* An accepted start creates the tunnel of a fresh TEID. *)
LEMMA StartAcceptedInv ==
  ASSUME IInv, NEW q \in pending, StartAccepted(q)
  PROVE  IInv'
<1>1. /\ generator \in Teids
      /\ generator' = generator + 1
      /\ pending' = pending \ {q}
      /\ UNCHANGED <<requests, stopped>>
  BY Zenon DEF StartAccepted, GenerateTeid
<1>2. q.peer \in Peers
  BY PendingType, Zenon
<1>3. PICK u \in TunnelNew :
       /\ key' = [key EXCEPT ![u] = [teid |-> generator, peer |-> q.peer]]
       /\ Found(generator, q.peer) = {} =>
            /\ tunnelMap' = tunnelMap \cup {u}
            /\ tunnelPool' = Popped(tunnelPool)
            /\ sm_mce_teid_2_gtv2c_teid_handle' =
                 [sm_mce_teid_2_gtv2c_teid_handle EXCEPT ![generator] = u]
  BY Zenon DEF StartAccepted, CreateLocalTunnel
<1>4. generator \in Nat /\ \A v \in tunnelMap : key[v].teid < generator
  BY Zenon DEF IInv, TypeOK, TeidsFresh
<1>5. Found(generator, q.peer) = {}
  <2> SUFFICES ASSUME NEW v \in tunnelMap,
                      key[v] = [teid |-> generator, peer |-> q.peer]
               PROVE  FALSE
    BY Zenon DEF Found
  <2>1. key[v].teid = generator
    OBVIOUS
  <2> QED BY <2>1, <1>4
<1>6. /\ tunnelMap' = tunnelMap \cup {u}
      /\ tunnelPool' = Popped(tunnelPool)
      /\ sm_mce_teid_2_gtv2c_teid_handle' =
           [sm_mce_teid_2_gtv2c_teid_handle EXCEPT ![generator] = u]
      /\ unanswered' = unanswered
  BY <1>3, <1>5, Zenon DEF StartAccepted
<1>7. /\ u \in Tunnels
      /\ u \notin tunnelMap
      /\ tunnelPool' \in Seq(Tunnels)
      /\ TunnelsOwned'
  <2>1. tunnelPool \in Seq(Tunnels) /\ IsFreeList(tunnelPool, tunnelMap)
    BY Zenon DEF IInv, TypeOK, TunnelsOwned
  <2>2. u \in Allocated(tunnelPool, Tunnels \ tunnelMap)
    BY <1>3, Zenon DEF TunnelNew
  <2>3. /\ u \in Tunnels
        /\ u \notin tunnelMap
        /\ Popped(tunnelPool) \in Seq(Tunnels)
        /\ IsFreeList(Popped(tunnelPool), tunnelMap \cup {u})
    BY <2>1, <2>2, AllocationFacts, Zenon
  <2> QED BY <2>3, <1>6, Zenon DEF TunnelsOwned
<1> DEFINE k == [teid |-> generator, peer |-> q.peer]
<1>8. k \in [teid : Teids, peer : Peers] /\ k.teid = generator
  BY <1>1, <1>2, Zenon
<1> HIDE DEF k
<1>9. /\ key' = [key EXCEPT ![u] = k]
      /\ key \in [Tunnels -> [teid : Teids, peer : Peers] \cup {NULL}]
      /\ tunnelMap \subseteq Tunnels
  BY <1>3, Zenon DEF k, IInv, TypeOK
<1>10. /\ key'[u] = k
       /\ \A v \in tunnelMap : key'[v] = key[v]
  BY <1>7, <1>9, Zenon
<1>11. TypeOK'
  <2>1. generator' \in Nat
    BY <1>1, <1>4
  <2>2. key' \in [Tunnels -> [teid : Teids, peer : Peers] \cup {NULL}]
    BY <1>7, <1>8, <1>9, Zenon
  <2>3. sm_mce_teid_2_gtv2c_teid_handle' \in [Teids -> Tunnels \cup {NULL}]
    BY <1>1, <1>6, <1>7, Zenon DEF IInv, TypeOK
  <2> QED BY <2>1, <2>2, <2>3, <1>1, <1>6, <1>7, <1>9, Zenon DEF IInv, TypeOK
<1>12. HandlesMatchTunnels'
  <2>1. sm_mce_teid_2_gtv2c_teid_handle \in [Teids -> Tunnels \cup {NULL}]
    BY Zenon DEF IInv, TypeOK
  <2>2. sm_mce_teid_2_gtv2c_teid_handle'[generator] = u
    BY <2>1, <1>1, <1>6, Zenon
  <2>3. ASSUME NEW t \in Teids, sm_mce_teid_2_gtv2c_teid_handle'[t] # NULL
        PROVE  /\ sm_mce_teid_2_gtv2c_teid_handle'[t] \in tunnelMap'
               /\ key'[sm_mce_teid_2_gtv2c_teid_handle'[t]].teid = t
    <3>1. CASE t = generator
      BY <3>1, <2>2, <1>6, <1>8, <1>10, Zenon
    <3>2. CASE t # generator
      <4>1. sm_mce_teid_2_gtv2c_teid_handle'[t] = sm_mce_teid_2_gtv2c_teid_handle[t]
        BY <3>2, <2>1, <1>6, Zenon
      <4> QED BY <4>1, <2>3, <1>6, <1>10 DEF IInv, HandlesMatchTunnels
    <3> QED BY <3>1, <3>2, Zenon
  <2>4. ASSUME NEW v \in tunnelMap'
        PROVE  sm_mce_teid_2_gtv2c_teid_handle'[key'[v].teid] = v
    <3>1. CASE v = u
      BY <3>1, <2>2, <1>8, <1>10, Zenon
    <3>2. CASE v # u
      <4>1. v \in tunnelMap /\ key'[v] = key[v] /\ key[v].teid < generator
        BY <3>2, <1>4, <1>6, <1>10, Zenon
      <4>2. key[v].teid \in Teids /\ key[v].teid # generator
        BY <4>1, <1>4, <1>9 DEF IInv, TeidsFresh
      <4> QED BY <4>1, <4>2, <2>1, <1>6, Zenon DEF IInv, HandlesMatchTunnels
    <3> QED BY <3>1, <3>2, Zenon
  <2> QED BY <2>3, <2>4, Zenon DEF HandlesMatchTunnels
<1>13. TeidsFresh'
  <2>1. k # NULL
    BY <1>8, NullAssumption, Zenon
  <2>2. \A v \in tunnelMap' : key'[v] # NULL
    BY <2>1, <1>6, <1>10, Zenon DEF IInv, TeidsFresh
  <2>3. ASSUME NEW v \in tunnelMap' PROVE key'[v].teid < generator'
    <3>1. CASE v = u
      BY <3>1, <1>1, <1>4, <1>8, <1>10
    <3>2. CASE v # u
      <4>1. v \in tunnelMap /\ key'[v] = key[v] /\ key[v].teid < generator
        BY <3>2, <1>4, <1>6, <1>10, Zenon
      <4>2. key[v].teid \in Nat
        BY <4>1, <1>9 DEF IInv, TeidsFresh, Teids
      <4> QED BY <4>1, <4>2, <1>1, <1>4
    <3> QED BY <3>1, <3>2, Zenon
  <2> QED BY <2>2, <2>3, <1>1, <1>4 DEF IInv, TeidsFresh
<1>14. AcceptedIsAnswered'
  BY <1>6, Zenon DEF IInv, AcceptedIsAnswered
<1> QED BY <1>7, <1>11, <1>12, <1>13, <1>14, Zenon DEF IInv

(* Every step keeps the invariant. *)
LEMMA StepInv ==
  ASSUME IInv, [Next]_vars
  PROVE  IInv'
<1>1. ASSUME NEW kind \in Kinds, NEW teid \in Teids \cup {INVALID_TEID},
             NEW peer \in Peers, SessionRequest(kind, teid, peer)
      PROVE  IInv'
  <2> DEFINE q == [trxn |-> requests, kind |-> kind, teid |-> teid, peer |-> peer]
  <2>1. /\ requests' = requests + 1
        /\ \/ pending' = pending \cup {q} /\ UNCHANGED unanswered
           \/ /\ unanswered' = unanswered \cup {[req |-> q, accepted |-> FALSE]}
              /\ UNCHANGED pending
        /\ UNCHANGED <<generator, tunnelPool, tunnelMap, key,
                       sm_mce_teid_2_gtv2c_teid_handle, stopped>>
    BY <1>1, Zenon DEF SessionRequest
  <2>2. q \in Request
    BY Zenon DEF IInv, TypeOK, Request
  <2> HIDE DEF q
  <2>3. TypeOK'
    <3>1. [req |-> q, accepted |-> FALSE] \in [req : Request, accepted : BOOLEAN]
      BY <2>2, Zenon
    <3>2. /\ pending' \subseteq Request
          /\ unanswered' \subseteq [req : Request, accepted : BOOLEAN]
      BY <2>1, <2>2, <3>1, Zenon DEF IInv, TypeOK
    <3> QED BY <2>1, <3>2 DEF IInv, TypeOK
  <2>4. AcceptedIsAnswered'
    BY <2>1 DEF IInv, AcceptedIsAnswered
  <2> QED BY <2>1, <2>3, <2>4, Zenon
          DEF IInv, HandlesMatchTunnels, TunnelsOwned, TeidsFresh
<1>2. ASSUME NEW q \in pending, StartRejected(q)
      PROVE  IInv'
  BY <1>2, Zenon DEF StartRejected, IInv, TypeOK, HandlesMatchTunnels, TunnelsOwned,
              TeidsFresh, AcceptedIsAnswered
<1>3. ASSUME NEW q \in pending, UpdateResponse(q)
      PROVE  IInv'
  <2>1. /\ pending' \subseteq Request
        /\ unanswered' \subseteq [req : Request, accepted : BOOLEAN]
        /\ AcceptedIsAnswered'
    BY <1>3, RespondInv, Zenon DEF UpdateResponse
  <2> QED BY <1>3, <2>1, Zenon DEF UpdateResponse, IInv, TypeOK, HandlesMatchTunnels,
                            TunnelsOwned, TeidsFresh
<1>4. ASSUME NEW q \in pending, NEW gwTeid \in Teids \cup {INVALID_TEID},
             StopResponse(q, gwTeid)
      PROVE  IInv'
  <2>1. /\ pending' \subseteq Request
        /\ unanswered' \subseteq [req : Request, accepted : BOOLEAN]
        /\ AcceptedIsAnswered'
    BY <1>4, RespondInv, Zenon DEF StopResponse
  <2>2. UNCHANGED <<requests, generator, key>>
    BY <1>4, Zenon DEF StopResponse
  <2>3. stopped' \subseteq Teids
    <3>1. stopped \subseteq Teids
      BY Zenon DEF IInv, TypeOK
    <3>2. CASE Handle(q.teid) # NULL
      <4>1. q.teid \in Teids
        BY <3>2, PendingType, HandleFacts, Zenon
      <4>2. stopped' \subseteq stopped \cup {q.teid}
        BY <1>4, <3>2, Zenon DEF StopResponse
      <4> QED BY <3>1, <4>1, <4>2, Zenon
    <3>3. CASE Handle(q.teid) = NULL
      BY <1>4, <3>1, <3>3, Zenon DEF StopResponse
    <3> QED BY <3>2, <3>3, Zenon
  <2>4. CASE Handle(gwTeid) # NULL /\ DeleteTunnel(gwTeid)
    <3>1. /\ tunnelPool' \in Seq(Tunnels)
          /\ tunnelMap' \subseteq Tunnels
          /\ sm_mce_teid_2_gtv2c_teid_handle' \in [Teids -> Tunnels \cup {NULL}]
          /\ HandlesMatchTunnels'
          /\ TunnelsOwned'
          /\ TeidsFresh'
      BY <2>2, <2>4, DeleteTunnelInv, Zenon
    <3> QED BY <2>1, <2>2, <2>3, <3>1, Zenon DEF IInv, TypeOK
  <2>5. CASE UNCHANGED <<tunnelPool, tunnelMap, sm_mce_teid_2_gtv2c_teid_handle>>
    BY <2>1, <2>2, <2>3, <2>5, Zenon
       DEF IInv, TypeOK, HandlesMatchTunnels, TunnelsOwned, TeidsFresh
  <2> QED BY <1>4, <2>4, <2>5, Zenon DEF StopResponse
<1>5. ASSUME NEW teid \in Teids, RemoveTunnel(teid)
      PROVE  IInv'
  <2>1. /\ tunnelPool' \in Seq(Tunnels)
        /\ tunnelMap' \subseteq Tunnels
        /\ sm_mce_teid_2_gtv2c_teid_handle' \in [Teids -> Tunnels \cup {NULL}]
        /\ HandlesMatchTunnels'
        /\ TunnelsOwned'
        /\ TeidsFresh'
    BY <1>5, DeleteTunnelInv, Zenon DEF RemoveTunnel
  <2> QED BY <1>5, <2>1, Zenon DEF RemoveTunnel, IInv, TypeOK, AcceptedIsAnswered
<1>6. CASE UNCHANGED vars
  BY <1>6, Zenon DEF vars, IInv, TypeOK, HandlesMatchTunnels, TunnelsOwned, TeidsFresh,
              AcceptedIsAnswered
<1>7. ASSUME NEW teid \in Teids \cup {INVALID_TEID}, NEW peer \in Peers,
             \/ StartRequest(teid, peer)
             \/ UpdateRequest(teid, peer)
             \/ StopRequest(teid, peer)
      PROVE  IInv'
  BY <1>1, <1>7, Zenon DEF StartRequest, UpdateRequest, StopRequest, Kinds
<1> QED BY <1>2, <1>3, <1>4, <1>5, <1>6, <1>7, StartAcceptedInv, Zenon DEF Next

(* The invariant holds in every state the session manager reaches. *)
THEOREM InvariantHolds == Spec => []IInv
<1>1. Init => IInv
  <2> SUFFICES ASSUME Init PROVE IInv
    BY Zenon
  <2>1. Range(tunnelPool) = {} /\ IsInjective(tunnelPool)
    BY DEF Init, Range, IsInjective
  <2>2. TunnelsOwned
    BY <2>1, Zenon DEF TunnelsOwned, IsFreeList
  <2> QED BY <2>2 DEF Init, IInv, TypeOK, HandlesMatchTunnels, TeidsFresh,
                      AcceptedIsAnswered
<1>2. IInv /\ [Next]_vars => IInv'
  BY StepInv, Zenon
<1> QED BY <1>1, <1>2, PTL DEF Spec

(* Every variable of the session manager keeps its type. *)
THEOREM TypeCorrect == Spec => []TypeOK
<1>1. IInv => TypeOK
  BY Zenon DEF IInv
<1> QED BY <1>1, InvariantHolds, PTL

(* The hash table of sm_mce_session_manager.c and the tunnel map of the    *)
(* stack agree after any sequence of starts, stops and removals, so the    *)
(* assertion of nwGtpv2cDeleteLocalTunnel never fails.                     *)
THEOREM HandlesAgree == Spec => []HandlesMatchTunnels
<1>1. IInv => HandlesMatchTunnels
  BY Zenon DEF IInv
<1> QED BY <1>1, InvariantHolds, PTL

(* No tunnel object is in use and free at once, or free twice. *)
THEOREM TunnelsAreOwned == Spec => []TunnelsOwned
<1>1. IInv => TunnelsOwned
  BY Zenon DEF IInv
<1> QED BY <1>1, InvariantHolds, PTL

(* A session that TASK_MCE_APP accepted is always answered to the MBMS-GW: *)
(* nwGtpv2cHandleUlpCreateLocalTunnel finds no collision.                  *)
THEOREM AcceptedAreAnswered == Spec => []AcceptedIsAnswered
<1>1. IInv => AcceptedIsAnswered
  BY Zenon DEF IInv
<1> QED BY <1>1, InvariantHolds, PTL
=============================================================================
