---------------------------- MODULE Gtpv2cRxTrxn ----------------------------
(***************************************************************************)
(* The transactions the GTPv2-C stack keeps for the requests it receives   *)
(* (NwGtpv2cTrxn.c, nwGtpv2cHandleInitialReq and                           *)
(* nwGtpv2cHandleUlpTriggeredRsp of NwGtpv2c.c), the message buffers they  *)
(* share with TASK_UDP (NwGtpv2cMsg.c, sm_mce_send_udp_msg), and the peer, *)
(* which retransmits a request until it gets the response.                 *)
(*                                                                         *)
(* A request stands for its key in the map of outstanding transactions:    *)
(* sequence number, address and port of the peer.  The ULP answers an      *)
(* indication at any later time, at most once, or never; it frees the      *)
(* message of the request before it returns, as the handlers of            *)
(* sm_mce_session_manager.c do.  It never sets pt_trx.  A request that the *)
(* network loses, or that the stack drops for its length or for a TEID     *)
(* without a tunnel, is one the peer has sent and the stack has not seen.  *)
(***************************************************************************)
EXTENDS Naturals, FreeList

CONSTANTS
  Requests,
  Trxns,       \* nw_gtpv2c_trxn_t objects
  Msgs,        \* nw_gtpv2c_msg_t objects
  t3Timer,     \* the time between two transmissions of a request
  maxRetries,  \* how often a request is retransmitted
  MaxQueue,    \* bound: the queue of TASK_UDP
  Horizon,     \* bound: where the clock stops
  NULL

ASSUME TimesAssumption == t3Timer \in Nat /\ maxRetries \in Nat
ASSUME NullAssumption == NULL \notin Requests \cup Trxns \cup Msgs

VARIABLES
  now,
  sent,                    \* per request: how often the peer has sent it
  firstSent,               \* per request: when it did so first
  answered,                \* the requests whose response the peer has
  outstandingRxSeqNumMap,  \* per request: its transaction, or NULL
  trxnPool,                \* gpGtpv2cTrxnPool, last in first out
  pMsg,                    \* per transaction: the stored response, or NULL
  timers,                  \* running duplicate request wait timers
  msgPool,                 \* gpGtpv2cMsgPool, last in first out
  msgBuf,                  \* what each message buffer holds
  ulp,                     \* indications the ULP has not answered
  udpQueue,                \* UDP_DATA_REQ messages: the buffer to send, and
                           \* what it held when it was queued
  indications              \* per request: how often it was indicated

peer == <<sent, firstSent, answered>>
trxnVars == <<outstandingRxSeqNumMap, trxnPool, pMsg, timers>>
msgVars == <<msgPool, msgBuf>>

vars == <<now, sent, firstSent, answered, outstandingRxSeqNumMap, trxnPool,
          pMsg, timers, msgPool, msgBuf, ulp, udpQueue, indications>>

Request(r)  == [kind |-> "request", of |-> r]
Response(r) == [kind |-> "response", of |-> r]
Echo        == [kind |-> "echo", of |-> NULL]

Contents == {Request(r) : r \in Requests} \cup {Response(r) : r \in Requests}
              \cup {Echo}

Init == /\ now = 0
        /\ sent = [r \in Requests |-> 0]
        /\ firstSent = [r \in Requests |-> 0]
        /\ answered = {}
        /\ outstandingRxSeqNumMap = [r \in Requests |-> NULL]
        /\ trxnPool = <<>>
        /\ pMsg = [t \in Trxns |-> NULL]
        /\ timers = {}
        /\ msgPool = <<>>
        /\ msgBuf = [m \in Msgs |-> NULL]
        /\ ulp = {}
        /\ udpQueue = <<>>
        /\ indications = [r \in Requests |-> 0]
-----------------------------------------------------------------------------
(***************************************************************************)
(* The transactions the map reaches and the messages they store; every     *)
(* other object is on a free list or has never been allocated.             *)
(***************************************************************************)
Outstanding == {outstandingRxSeqNumMap[r] : r \in Requests} \ {NULL}

Stored == {pMsg[t] : t \in Outstanding} \ {NULL}

NewTrxn == Allocated(trxnPool, Trxns \ Outstanding)

NewMsg == Allocated(msgPool, Msgs \ Stored)

(***************************************************************************)
(* nwGtpv2cCreateAndSendMsg: TASK_UDP is given the buffer, not a copy.     *)
(***************************************************************************)
Send(m, content) ==
  /\ Len(udpQueue) < MaxQueue
  /\ udpQueue' = Append(udpQueue, [msg |-> m, content |-> content])

(***************************************************************************)
(* nwGtpv2cHandleInitialReq of a request with no outstanding transaction.  *)
(* The ULP callback runs within it: the message of the request is taken    *)
(* from the pool, filled, decoded by the ULP and put back.                 *)
(***************************************************************************)
NewRequest(r) ==
  /\ outstandingRxSeqNumMap[r] = NULL
  /\ \E t \in NewTrxn, m \in NewMsg :
       /\ outstandingRxSeqNumMap' = [outstandingRxSeqNumMap EXCEPT ![r] = t]
       /\ trxnPool' = Popped(trxnPool)
       /\ pMsg' = [pMsg EXCEPT ![t] = NULL]
       /\ msgPool' = Pushed(m, Popped(msgPool))
       /\ msgBuf' = [msgBuf EXCEPT ![m] = Request(r)]
       /\ ulp' = ulp \cup {[trxn |-> t, req |-> r]}
  /\ indications' = [indications EXCEPT ![r] = @ + 1]
  /\ UNCHANGED <<timers, udpQueue>>

(***************************************************************************)
(* The other outcome of nwGtpv2cTrxnOutstandingRxNew: the transaction it   *)
(* makes collides with the outstanding one and goes back to the pool.  The *)
(* stored response is sent again, if there is one.                         *)
(***************************************************************************)
DuplicateRequestPurges(r) ==
  /\ outstandingRxSeqNumMap[r] # NULL
  /\ \E t \in NewTrxn :
       /\ trxnPool' = Pushed(outstandingRxSeqNumMap[r], Popped(trxnPool))
       /\ pMsg' = [pMsg EXCEPT ![t] = NULL]
       /\ outstandingRxSeqNumMap' = [outstandingRxSeqNumMap EXCEPT ![r] = t]
  /\ UNCHANGED <<udpQueue, timers, msgVars, ulp, indications>>

DuplicateRequest(r) ==
  /\ outstandingRxSeqNumMap[r] # NULL
  /\ \E t \in NewTrxn :
       /\ trxnPool' = Pushed(t, Popped(trxnPool))
       /\ pMsg' = [pMsg EXCEPT ![t] = NULL]
  /\ LET m == pMsg[outstandingRxSeqNumMap[r]]
     IN  IF m # NULL THEN Send(m, msgBuf[m]) ELSE UNCHANGED udpQueue
  /\ UNCHANGED <<outstandingRxSeqNumMap, timers, msgVars, ulp, indications>>

(***************************************************************************)
(* nwGtpv2cHandleUlpTriggeredRsp: the ULP answers an indication.  It made  *)
(* the message of the response with nwGtpv2cMsgNew in the same turn of     *)
(* TASK_SM; the transaction keeps it for retransmission and is purged when *)
(* the duplicate request wait timer expires.                               *)
(***************************************************************************)
UlpTriggeredRspUntimed(i) ==
  \E m \in NewMsg :
    /\ msgPool' = Popped(msgPool)
    /\ msgBuf' = [msgBuf EXCEPT ![m] = Response(i.req)]
    /\ Send(m, Response(i.req))
    /\ pMsg' = [pMsg EXCEPT ![i.trxn] = m]
    /\ ulp' = ulp \ {i}
    /\ UNCHANGED <<timers, now, peer, outstandingRxSeqNumMap, trxnPool,
                   indications>>

UlpTriggeredRspUnstored(i) ==
  \E m \in NewMsg :
    /\ msgPool' = Popped(msgPool)
    /\ msgBuf' = [msgBuf EXCEPT ![m] = Response(i.req)]
    /\ Send(m, Response(i.req))
    /\ timers' = timers \cup
         {[trxn |-> i.trxn, req |-> i.req, due |-> now + t3Timer * maxRetries]}
    /\ ulp' = ulp \ {i}
    /\ UNCHANGED <<now, peer, outstandingRxSeqNumMap, trxnPool, pMsg,
                   indications>>

UlpTriggeredRspFreed(i) ==
  \E m \in NewMsg :
    /\ msgPool' = Pushed(m, Popped(msgPool))
    /\ msgBuf' = [msgBuf EXCEPT ![m] = Response(i.req)]
    /\ Send(m, Response(i.req))
    /\ pMsg' = [pMsg EXCEPT ![i.trxn] = m]
    /\ timers' = timers \cup
         {[trxn |-> i.trxn, req |-> i.req, due |-> now + t3Timer * maxRetries]}
    /\ ulp' = ulp \ {i}
    /\ UNCHANGED <<now, peer, outstandingRxSeqNumMap, trxnPool, indications>>

UlpTriggeredRsp(i) ==
  \E m \in NewMsg :
    /\ msgPool' = Popped(msgPool)
    /\ msgBuf' = [msgBuf EXCEPT ![m] = Response(i.req)]
    /\ Send(m, Response(i.req))
    /\ pMsg' = [pMsg EXCEPT ![i.trxn] = m]
    /\ timers' = timers \cup
         {[trxn |-> i.trxn, req |-> i.req, due |-> now + t3Timer * maxRetries]}
    /\ ulp' = ulp \ {i}
    /\ UNCHANGED <<now, peer, outstandingRxSeqNumMap, trxnPool, indications>>

(***************************************************************************)
(* nwGtpv2cTrxnDuplicateRequestWaitTimeout, with nwGtpv2cTrxnDelete.       *)
(***************************************************************************)
DuplicateRequestWaitTimeoutMapped(tm) ==
  /\ tm.due <= now
  /\ timers' = timers \ {tm}
  /\ trxnPool' = Pushed(tm.trxn, trxnPool)
  /\ msgPool' = Pushed(pMsg[tm.trxn], msgPool)
  /\ UNCHANGED <<now, peer, pMsg, msgBuf, outstandingRxSeqNumMap, ulp,
                 udpQueue, indications>>

DuplicateRequestWaitTimeout(tm) ==
  /\ tm.due <= now
  /\ timers' = timers \ {tm}
  /\ outstandingRxSeqNumMap' = [outstandingRxSeqNumMap EXCEPT ![tm.req] = NULL]
  /\ trxnPool' = Pushed(tm.trxn, trxnPool)
  /\ msgPool' = Pushed(pMsg[tm.trxn], msgPool)
  /\ UNCHANGED <<now, peer, pMsg, msgBuf, ulp, udpQueue, indications>>

(***************************************************************************)
(* nwGtpv2cHandleEchoReq (nwGtpv2cSendVersionNotSupportedInd has the same  *)
(* shape): the message goes back to the pool once it is queued.            *)
(***************************************************************************)
EchoReq ==
  /\ \E m \in NewMsg :
       /\ msgPool' = Pushed(m, Popped(msgPool))
       /\ msgBuf' = [msgBuf EXCEPT ![m] = Echo]
       /\ Send(m, Echo)
  /\ UNCHANGED <<now, peer, trxnVars, ulp, indications>>

(***************************************************************************)
(* TASK_UDP sends what the buffer of the first UDP_DATA_REQ holds by then. *)
(***************************************************************************)
UdpDataReq ==
  /\ udpQueue # <<>>
  /\ udpQueue' = Tail(udpQueue)
  /\ \/ \E r \in Requests : /\ msgBuf[Head(udpQueue).msg] = Response(r)
                             /\ answered' = answered \cup {r}
     \/ UNCHANGED answered
  /\ UNCHANGED <<now, sent, firstSent, trxnVars, msgVars, ulp, indications>>

(***************************************************************************)
(* The peer follows the procedure this stack has for its own requests: it  *)
(* sends a request and repeats it every t3Timer, at most maxRetries times, *)
(* until it has the response.                                              *)
(***************************************************************************)
MaySend(r) ==
  /\ r \notin answered
  /\ \/ sent[r] = 0
     \/ sent[r] \in 1 .. maxRetries /\ now = firstSent[r] + t3Timer * sent[r]

PeerSend(r) ==
  /\ MaySend(r)
  /\ sent' = [sent EXCEPT ![r] = @ + 1]
  /\ firstSent' = IF sent[r] = 0 THEN [firstSent EXCEPT ![r] = now]
                                 ELSE firstSent
  /\ \/ NewRequest(r)
     \/ DuplicateRequest(r)
     \/ UNCHANGED <<trxnVars, msgVars, ulp, udpQueue, indications>>
  /\ UNCHANGED <<now, answered>>

Tick ==
  /\ now < Horizon
  /\ \A r \in Requests : sent[r] > 0 => ~MaySend(r)
  /\ now' = now + 1
  /\ UNCHANGED <<peer, trxnVars, msgVars, ulp, udpQueue, indications>>
-----------------------------------------------------------------------------
Next == \/ \E r \in Requests : PeerSend(r)
        \/ \E i \in ulp : UlpTriggeredRsp(i)
        \/ \E tm \in timers : DuplicateRequestWaitTimeout(tm)
        \/ EchoReq
        \/ UdpDataReq
        \/ Tick

Spec == Init /\ [][Next]_vars
-----------------------------------------------------------------------------
(***************************************************************************)
(* Properties                                                              *)
(***************************************************************************)
(* Every variable has its type. *)
TypeOK ==
  /\ now \in Nat
  /\ sent \in [Requests -> Nat]
  /\ firstSent \in [Requests -> Nat]
  /\ answered \subseteq Requests
  /\ outstandingRxSeqNumMap \in [Requests -> Trxns \cup {NULL}]
  /\ trxnPool \in Seq(Trxns)
  /\ pMsg \in [Trxns -> Msgs \cup {NULL}]
  /\ timers \subseteq [trxn : Trxns, req : Requests, due : Nat]
  /\ msgPool \in Seq(Msgs)
  /\ msgBuf \in [Msgs -> Contents \cup {NULL}]
  /\ ulp \subseteq [trxn : Trxns, req : Requests]
  /\ udpQueue \in Seq([msg : Msgs, content : Contents])
  /\ indications \in [Requests -> Nat]

(* A transaction object is free or outstanding, never both, and is on the  *)
(* free list once: nwGtpv2cTrxnDelete never frees a transaction that the   *)
(* map of outstanding transactions still reaches, nor frees one twice.     *)
TrxnsOwned ==
  /\ IsFreeList(trxnPool, Outstanding)
  /\ \A r, s \in Requests :
       outstandingRxSeqNumMap[r] = outstandingRxSeqNumMap[s]
         => r = s \/ outstandingRxSeqNumMap[r] = NULL

(* The handle the ULP carries from an indication to its response (through  *)
(* MCE_APP and back, as a bare pointer) still is the transaction of the    *)
(* request it was indicated for: no timer can purge and recycle it first.  *)
HandlesLive ==
  \A i \in ulp : /\ outstandingRxSeqNumMap[i.req] = i.trxn
                 /\ pMsg[i.trxn] = NULL

(* The timers and the stored responses agree: an outstanding transaction   *)
(* has its one duplicate request wait timer exactly when it stores a       *)
(* response, so none that was answered stays for ever and no timeout finds *)
(* a transaction that is gone.                                             *)
TimersMatch ==
  /\ \A tm \in timers : /\ outstandingRxSeqNumMap[tm.req] = tm.trxn
                        /\ pMsg[tm.trxn] # NULL
  /\ \A tm, tn \in timers : tm.trxn = tn.trxn => tm = tn
  /\ \A r \in Requests :
       LET t == outstandingRxSeqNumMap[r]
       IN  t # NULL /\ pMsg[t] # NULL => \E tm \in timers : tm.trxn = t

(* The buffer a transaction keeps for retransmission is its own: it is not *)
(* on the free list, no other transaction stores it, and it still holds    *)
(* the response to this request when a duplicate asks for it again.        *)
StoredResponseIntact ==
  /\ IsFreeList(msgPool, Stored)
  /\ \A r \in Requests :
       LET t == outstandingRxSeqNumMap[r]
       IN  t # NULL /\ pMsg[t] # NULL => msgBuf[pMsg[t]] = Response(r)

(* The outstanding transactions detect duplicated requests: the ULP gets   *)
(* one indication of a request, however often the peer sends it            *)
(* (NwGtpv2cTrxn.c, comment of nwGtpv2cTrxnOutstandingRxNew).              *)
IndicatedOnce == \A r \in Requests : indications[r] <= 1

(* What TASK_UDP sends is what the stack queued: nwGtpv2cHandleEchoReq     *)
(* sends an Echo Response.                                                 *)
QueuedIsSent ==
  \A i \in 1 .. Len(udpQueue) : msgBuf[udpQueue[i].msg] = udpQueue[i].content
=============================================================================
