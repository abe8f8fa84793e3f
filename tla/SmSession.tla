----------------------------- MODULE SmSession -----------------------------
(***************************************************************************)
(* The Sm session manager (sm_mce_session_manager.c) and the tunnels of    *)
(* the GTPv2-C stack it drives (NwGtpv2cTunnel.c).  TASK_SM hands a        *)
(* request of the MBMS-GW to TASK_MCE_APP and later gets a response to     *)
(* send, or an order to remove a tunnel.  It keeps the tunnel handle of    *)
(* every local TEID in a hash table of its own, next to the tunnel map of  *)
(* the stack; both must stay in step.                                      *)
(*                                                                         *)
(* TASK_MCE_APP is any client that answers a request at most once, quotes  *)
(* the TEID of the request and takes the TEID of an accepted session from  *)
(* its generator.  The MBMS-GW chooses its own TEIDs, independently.       *)
(***************************************************************************)
EXTENDS Naturals, FreeList

CONSTANTS
  Tunnels,      \* nw_gtpv2c_tunnel_t objects
  Peers,        \* addresses of MBMS-GWs
  MaxTeid,      \* bound: TEIDs of either side
  MaxRequests,  \* bound: requests received
  NULL

ASSUME BoundAssumption == MaxTeid \in Nat

INVALID_TEID == 0

Teids == 1 .. MaxTeid

ASSUME NullAssumption == /\ NULL \notin Tunnels
                         /\ NULL \notin [teid : Teids, peer : Peers]

Kinds == {"start", "update", "stop"}

VARIABLES
  requests,    \* how many requests were received
  pending,     \* requests handed to TASK_MCE_APP, not yet answered
  unanswered,  \* requests a handler gave up without a response
  generator,   \* mce_app_mme_sm_teid_generator
  tunnelPool,  \* gpGtpv2cTunnelPool, last in first out
  tunnelMap,   \* the tunnels in the stack's map
  key,         \* per tunnel: its TEID and peer, the key of the map
  sm_mce_teid_2_gtv2c_teid_handle,  \* per TEID: the tunnel, or NULL
  stopped      \* TEIDs whose stop request was answered

vars == <<requests, pending, unanswered, generator, tunnelPool, tunnelMap, key,
          sm_mce_teid_2_gtv2c_teid_handle, stopped>>

Handle(teid) == IF teid = INVALID_TEID THEN NULL
                ELSE sm_mce_teid_2_gtv2c_teid_handle[teid]

Init == /\ requests = 0
        /\ pending = {}
        /\ unanswered = {}
        /\ generator = 1
        /\ tunnelPool = <<>>
        /\ tunnelMap = {}
        /\ key = [u \in Tunnels |-> NULL]
        /\ sm_mce_teid_2_gtv2c_teid_handle = [teid \in Teids |-> NULL]
        /\ stopped = {}
-----------------------------------------------------------------------------
(***************************************************************************)
(* RB_FIND on the tunnel map.                                              *)
(***************************************************************************)
Found(teid, peer) == {u \in tunnelMap : key[u] = [teid |-> teid, peer |-> peer]}

(***************************************************************************)
(* nwGtpv2cTunnelNew takes the tunnel it puts back last, or a new one.     *)
(***************************************************************************)
TunnelNew == Allocated(tunnelPool, Tunnels \ tunnelMap)

(***************************************************************************)
(* nwGtpv2cHandleUlpCreateLocalTunnel, and the insertion into the hash     *)
(* table that follows it: a tunnel that collides goes back to the pool.    *)
(***************************************************************************)
CreateLocalTunnel(teid, peer) ==
  \E u \in TunnelNew :
    /\ key' = [key EXCEPT ![u] = [teid |-> teid, peer |-> peer]]
    /\ IF Found(teid, peer) # {}
       THEN /\ tunnelPool' = Pushed(u, Popped(tunnelPool))
            /\ UNCHANGED <<tunnelMap, sm_mce_teid_2_gtv2c_teid_handle>>
       ELSE /\ tunnelMap' = tunnelMap \cup {u}
            /\ tunnelPool' = Popped(tunnelPool)
            /\ sm_mce_teid_2_gtv2c_teid_handle' =
                 [sm_mce_teid_2_gtv2c_teid_handle EXCEPT ![teid] = u]

(***************************************************************************)
(* nwGtpv2cDeleteLocalTunnel, and the removal from the hash table that     *)
(* follows both of its calls.                                              *)
(***************************************************************************)
DeleteTunnelKeepsHandle(teid) ==
  /\ tunnelPool' = Pushed(Handle(teid), tunnelPool)
  /\ tunnelMap' = tunnelMap \ {Handle(teid)}
  /\ UNCHANGED sm_mce_teid_2_gtv2c_teid_handle

DeleteTunnelKeepsTunnel(teid) ==
  /\ tunnelPool' = Pushed(Handle(teid), tunnelPool)
  /\ sm_mce_teid_2_gtv2c_teid_handle' =
       [sm_mce_teid_2_gtv2c_teid_handle EXCEPT ![teid] = NULL]
  /\ UNCHANGED tunnelMap

DeleteTunnel(teid) ==
  /\ tunnelPool' = Pushed(Handle(teid), tunnelPool)
  /\ tunnelMap' = tunnelMap \ {Handle(teid)}
  /\ sm_mce_teid_2_gtv2c_teid_handle' =
       [sm_mce_teid_2_gtv2c_teid_handle EXCEPT ![teid] = NULL]

(***************************************************************************)
(* nwGtpv2cHandleInitialReq discards a request on a TEID without a tunnel; *)
(* the handler of the session manager, one for each kind of request, then  *)
(* decodes the request, hands it to TASK_MCE_APP or, when the parser       *)
(* refuses it, gives up without a response.                                *)
(***************************************************************************)
SessionRequest(kind, teid, peer) ==
  /\ requests < MaxRequests
  /\ teid # INVALID_TEID => Found(teid, peer) # {}
  /\ requests' = requests + 1
  /\ LET q == [trxn |-> requests, kind |-> kind, teid |-> teid, peer |-> peer]
     IN  \/ pending' = pending \cup {q} /\ UNCHANGED unanswered
         \/ /\ unanswered' = unanswered \cup {[req |-> q, accepted |-> FALSE]}
            /\ UNCHANGED pending
  /\ UNCHANGED <<generator, tunnelPool, tunnelMap, key,
                 sm_mce_teid_2_gtv2c_teid_handle, stopped>>

StartRequest(teid, peer) == SessionRequest("start", teid, peer)

UpdateRequest(teid, peer) == SessionRequest("update", teid, peer)

StopRequest(teid, peer) == SessionRequest("stop", teid, peer)

(***************************************************************************)
(* mme_sm_teid of an accepted session.                                     *)
(***************************************************************************)
GenerateTeidKept ==
  UNCHANGED generator

GenerateTeid ==
  generator' = generator + 1

(***************************************************************************)
(* sm_mce_mbms_session_start_response, cause REQUEST_ACCEPTED: no response *)
(* is sent when the stack refuses the tunnel.                              *)
(***************************************************************************)
StartAccepted(q) ==
  /\ q.kind = "start"
  /\ generator \in Teids
  /\ GenerateTeid
  /\ CreateLocalTunnel(generator, q.peer)
  /\ pending' = pending \ {q}
  /\ unanswered' = IF Found(generator, q.peer) # {}
                   THEN unanswered \cup {[req |-> q, accepted |-> TRUE]}
                   ELSE unanswered
  /\ UNCHANGED <<requests, stopped>>

StartRejected(q) ==
  /\ q.kind = "start"
  /\ pending' = pending \ {q}
  /\ UNCHANGED <<requests, unanswered, generator, tunnelPool, tunnelMap, key,
                 sm_mce_teid_2_gtv2c_teid_handle, stopped>>

(***************************************************************************)
(* The first half of sm_mce_mbms_session_update_response and of            *)
(* sm_mce_mbms_session_stop_response: no response is sent when the hash    *)
(* table does not have the TEID of the session any more.                   *)
(***************************************************************************)
Respond(q) ==
  /\ pending' = pending \ {q}
  /\ unanswered' = IF Handle(q.teid) = NULL
                   THEN unanswered \cup {[req |-> q, accepted |-> FALSE]}
                   ELSE unanswered

UpdateResponse(q) ==
  /\ q.kind = "update"
  /\ Respond(q)
  /\ UNCHANGED <<requests, generator, tunnelPool, tunnelMap, key,
                 sm_mce_teid_2_gtv2c_teid_handle, stopped>>

(***************************************************************************)
(* sm_mce_mbms_session_stop_response.  The tunnel it deletes is the one of *)
(* its field teid, which is the TEID of the MBMS-GW.  The start handler of *)
(* TASK_MCE_APP also answers with this message.                            *)
(***************************************************************************)
StopResponse(q, gwTeid) ==
  /\ q.kind \in {"start", "stop"}
  /\ Respond(q)
  /\ IF Handle(q.teid) # NULL
     THEN /\ stopped' = stopped \cup (IF q.kind = "stop" THEN {q.teid} ELSE {})
          /\ IF Handle(gwTeid) # NULL
             THEN DeleteTunnel(gwTeid)
             ELSE UNCHANGED <<tunnelPool, tunnelMap,
                              sm_mce_teid_2_gtv2c_teid_handle>>
     ELSE UNCHANGED <<stopped, tunnelPool, tunnelMap,
                      sm_mce_teid_2_gtv2c_teid_handle>>
  /\ UNCHANGED <<requests, generator, key>>

(***************************************************************************)
(* sm_mce_remove_tunnel: a session that TASK_MCE_APP ends on its own.  A   *)
(* TEID the hash table does not have is only reported.                     *)
(***************************************************************************)
RemoveTunnelUnchecked(teid) ==
  /\ DeleteTunnel(teid)
  /\ UNCHANGED <<requests, pending, unanswered, generator, key, stopped>>

RemoveTunnel(teid) ==
  /\ Handle(teid) # NULL
  /\ DeleteTunnel(teid)
  /\ UNCHANGED <<requests, pending, unanswered, generator, key, stopped>>
-----------------------------------------------------------------------------
Next == \/ \E teid \in Teids \cup {INVALID_TEID}, peer \in Peers :
             \/ StartRequest(teid, peer)
             \/ UpdateRequest(teid, peer)
             \/ StopRequest(teid, peer)
        \/ \E q \in pending : \/ StartAccepted(q)
                              \/ StartRejected(q)
                              \/ UpdateResponse(q)
                              \/ \E gwTeid \in Teids \cup {INVALID_TEID} :
                                   StopResponse(q, gwTeid)
        \/ \E teid \in Teids : RemoveTunnel(teid)

Spec == Init /\ [][Next]_vars
-----------------------------------------------------------------------------
(***************************************************************************)
(* Properties                                                              *)
(***************************************************************************)
Request == [trxn : Nat, kind : Kinds, teid : Teids \cup {INVALID_TEID},
            peer : Peers]

(* Every variable has its type. *)
TypeOK ==
  /\ requests \in Nat
  /\ pending \subseteq Request
  /\ unanswered \subseteq [req : Request, accepted : BOOLEAN]
  /\ generator \in Nat
  /\ tunnelPool \in Seq(Tunnels)
  /\ tunnelMap \subseteq Tunnels
  /\ key \in [Tunnels -> [teid : Teids, peer : Peers] \cup {NULL}]
  /\ sm_mce_teid_2_gtv2c_teid_handle \in [Teids -> Tunnels \cup {NULL}]
  /\ stopped \subseteq Teids

(* The hash table of the session manager and the tunnel map of the stack   *)
(* agree: every handle is a tunnel of the map with that TEID, and every    *)
(* tunnel of the map has its handle.  So the assertion of                  *)
(* nwGtpv2cDeleteLocalTunnel holds (RB_REMOVE finds the handle it is       *)
(* given), whatever the order of stops and removals.                       *)
HandlesMatchTunnels ==
  /\ \A teid \in Teids :
       LET u == sm_mce_teid_2_gtv2c_teid_handle[teid]
       IN  u # NULL => u \in tunnelMap /\ key[u].teid = teid
  /\ \A u \in tunnelMap : sm_mce_teid_2_gtv2c_teid_handle[key[u].teid] = u

(* A tunnel object is in the map or on the free list, never both, and is   *)
(* on the free list once: the object a new session gets is not in use.     *)
TunnelsOwned == IsFreeList(tunnelPool, tunnelMap)

(* The MBMS-GW gets the response to a session that TASK_MCE_APP accepted:  *)
(* the stack never refuses the tunnel of a TEID fresh from the generator,  *)
(* even though tunnels of ended sessions may still be in its map.          *)
AcceptedIsAnswered == \A x \in unanswered : ~x.accepted

(* sm_mce_mbms_session_stop_response deletes the local Sm tunnel of the    *)
(* session it stops.                                                       *)
StopDeletesTunnel ==
  \A teid \in stopped : sm_mce_teid_2_gtv2c_teid_handle[teid] = NULL
=============================================================================
