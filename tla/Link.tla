-------------------------------- MODULE Link --------------------------------
(***************************************************************************)
(* A link between an initiator I and a responder R, as its two ends keep   *)
(* it (Link.cpp; register_link(), activate_link() and the link pass of     *)
(* jobs() in Transport.cpp): request and proof, the packet that reports    *)
(* the round trip time, identification, requests and responses, packets of *)
(* the application and their proofs, teardown.                             *)
(*                                                                         *)
(* Packets travel on a queue to each end.  They may be lost, a proof also  *)
(* garbled, and one may overtake the one before it.                        *)
(* Copies are refused by the packet filter.  A request or response that    *)
(* does not fit in a packet travels as a resource: by what Transfer        *)
(* promises it arrives whole or not at all, though it may arrive twice;    *)
(* the queue holds it as one element, of kind BREQ or BRSP.                *)
(* There is no watchdog (start_watchdog() is empty): no timeout closes a   *)
(* link.                                                                   *)
(*                                                                         *)
(* told, served, knew, expired, faults and breaks are history variables.   *)
(***************************************************************************)
EXTENDS Naturals, Sequences, FiniteSets, SequencesExt

CONSTANTS
    Req,              \* the requests the initiator may make
    Kind,             \* [Req -> [big, bigResponse: BOOLEAN, allow: Allow]]
    Mtu,              \* link MTUs; a relay may lower the one that is asked for
    DefaultMtu,       \* Reticulum::MTU
    HwMtu,            \* what the responder's interface may have as HW_MTU
    Strategy,         \* proof_strategy of the responder's destination
    MaxFaults,        \* bound on lost, garbled, overtaking and repeated packets
    MaxTeardowns      \* bound on teardowns, failing callbacks and packets of
                      \* the applications, taken together

Allow == {"ALLOW_NONE", "ALLOW_LIST", "ALLOW_ALL"}
End == {"I", "R"}
Other(e) == IF e = "I" THEN "R" ELSE "I"

ASSUME KindAssumption ==
    Kind \in [Req -> [big: BOOLEAN, bigResponse: BOOLEAN, allow: Allow]]
ASSUME MtuAssumption ==
    /\ Mtu \subseteq Nat \ {0} /\ DefaultMtu \in Mtu
    /\ HwMtu \subseteq Mtu \union {0}
ASSUME StrategyAssumption == Strategy \in {"PROVE_NONE", "PROVE_APP", "PROVE_ALL"}
ASSUME BoundAssumption ==
    MaxFaults \in Nat /\ MaxTeardowns \in Nat

VARIABLES
    status,      \* _status of the link at each end
    listed,      \* in _pending_links or _active_links of each end's Transport
    owned,       \* in _links of the responder's destination
    reason,      \* _teardown_reason
    mtu,         \* _mtu
    remote,      \* __remote_identity is known at the responder
    receipt,     \* the initiator's RequestReceipts
    data,        \* a packet of each end's application: how far it has got
    air,         \* packets on their way to each end
    told,        \* how often the established and closed callbacks ran; one failed
    served,      \* how often the response generator ran
    knew,        \* the request was made after the initiator identified itself
    expired,     \* the path was expired because of a pending link
    faults, breaks

vars == <<status, listed, owned, reason, mtu, remote, receipt, data, air, told, served, knew, expired, faults, breaks>>

Status == {"NONE", "PENDING", "HANDSHAKE", "ACTIVE", "CLOSED"}
Packet ==
    [t: {"LR", "PROOF"}, mtu: Mtu]
        \union [t: {"BADMODE", "BADSIG", "RTT", "ID", "CLOSE", "DATA", "DPROOF"}]
        \union [t: {"REQ", "BREQ", "RSP", "BRSP"}, r: Req]

P(t) == [t |-> t]

\* Packet::send(): nothing leaves on a closed link.
Send(e, x) == [air EXCEPT ![Other(e)] = Append(@, x)]

Faulty == faults < MaxFaults /\ faults' = faults + 1
Spent == breaks + Cardinality({ e \in End : data[e] # "none" })
Interrupts == Spent < MaxTeardowns /\ breaks' = breaks + 1

\* What the exchanges after the establishment leave alone.
estab == <<status, listed, owned, reason, mtu, told, expired>>
exchange == <<remote, receipt, data, served, knew>>

-----------------------------------------------------------------------------
(* Establishment. *)

\* A link request and its proof, with the signalling bytes that carry the MTU.
LinkRequest(m) == [t |-> "LR", mtu |-> m]
Proof(m) == [t |-> "PROOF", mtu |-> m]

\* register_link(): an initiator's link is pending, a responder's active.
register_link(e) ==
    listed' = [listed EXCEPT ![e] = IF e = "I" THEN "pending" ELSE "active"]

\* activate_link(): what was pending is active.
activate_link == listed' = [listed EXCEPT !["I"] = "active"]

\* Link(): the initiator's link is registered as pending and asked for.
Open ==
    /\ status["I"] = "NONE"
    /\ status' = [status EXCEPT !["I"] = "PENDING"]
    /\ register_link("I")
    /\ \E m \in Mtu :
          /\ mtu' = [mtu EXCEPT !["I"] = m]
          /\ air' = Send("I", LinkRequest(m))
    /\ UNCHANGED <<owned, reason, exchange, told, expired, faults,
                   breaks>>

\* A relay lowers the MTU of a link request to that of its next hop.
Clamp ==
    \E i \in DOMAIN air["R"] : \E m \in Mtu :
        /\ air["R"][i].t = "LR" /\ m < air["R"][i].mtu
        /\ air' = [air EXCEPT !["R"][i].mtu = m]
        /\ UNCHANGED <<estab, exchange, faults, breaks>>

\* inbound() lowers it to what the interface the request came in on takes; if
\* that is not known the request loses its MTU, and the default holds.
ClampedTo(h, m) == IF h = 0 THEN DefaultMtu ELSE IF h < m THEN h ELSE m

\* validate_request(): handshake, proof, registration.
validate_request(m) ==
    /\ status["R"] = "NONE"
    /\ status' = [status EXCEPT !["R"] = "HANDSHAKE"]
    /\ register_link("R")
    /\ owned' = TRUE
    /\ mtu' = [mtu EXCEPT !["R"] = m]
    /\ air' = [I |-> Append(air["I"], Proof(m)),
               R |-> Tail(air["R"])]

\* Where a packet is taken from a queue: its head, unless it is overtaken.
Takes(e, i) ==
    \/ i = 1 /\ UNCHANGED faults
    \/ i = 2 /\ Faulty

Taken(e, i) == [air EXCEPT ![e] = RemoveAt(@, i)]

ReceiveRequest ==
    \E i \in DOMAIN air["R"] :
        /\ air["R"][i].t = "LR"
        /\ i = 1 /\ UNCHANGED faults
        /\ \E h \in HwMtu : validate_request(ClampedTo(h, air["R"][i].mtu))
        /\ UNCHANGED <<reason, exchange, told, expired, breaks>>

Established(e) == [told EXCEPT ![e].established = @ + 1]

\* A plausible slip: the initiator keeps the MTU it had asked for.
KeepMtu(x) == mtu["I"]

\* The MTU the proof confirms.
ConfirmedMtu(x) == x.mtu

\* validate_proof(): only while pending.  A proof with another mode closes
\* the link without a word to anybody; one whose signature is wrong leaves it
\* in HANDSHAKE, where no later proof is looked at; an established callback
\* that throws closes it without a word to anybody.
validate_proof(x) ==
    \/ /\ x.t = "PROOF"
       /\ activate_link
       /\ mtu' = [mtu EXCEPT !["I"] = ConfirmedMtu(x)]
       /\ \/ /\ status' = [status EXCEPT !["I"] = "ACTIVE"]
             /\ told' = Established("I")
             /\ UNCHANGED breaks
          \/ /\ status' = [status EXCEPT !["I"] = "CLOSED"]
             /\ told' = [Established("I") EXCEPT !["I"].failed = TRUE]
             /\ Interrupts
    \/ /\ x.t = "BADSIG"
       /\ status' = [status EXCEPT !["I"] = "HANDSHAKE"]
       /\ UNCHANGED <<listed, mtu, told, breaks>>
    \/ /\ x.t = "BADMODE"
       /\ status' = [status EXCEPT !["I"] = "CLOSED"]
       /\ UNCHANGED <<listed, mtu, told, breaks>>

\* A plausible slip: any listed link takes its proof, a closed one too.
AwaitsProofListed == listed["I"] = "pending"

\* Transport finds the link in _pending_links, and validate_proof() goes on
\* only in PENDING.
AwaitsProof == listed["I"] = "pending" /\ status["I"] = "PENDING"

ReceiveProof ==
    \E i \in DOMAIN air["I"] :
        LET x == air["I"][i] IN
        /\ x.t \in {"PROOF", "BADMODE", "BADSIG"}
        /\ Takes("I", i)
        /\ IF AwaitsProof
           THEN /\ validate_proof(x)
                /\ air' = IF x.t = "PROOF"
                          THEN [Taken("I", i) EXCEPT !["R"] = Append(@, P("RTT"))]
                          ELSE Taken("I", i)
           ELSE /\ air' = Taken("I", i)
                /\ UNCHANGED <<status, listed, mtu, told, breaks>>
        /\ UNCHANGED <<owned, reason, exchange, expired>>

-----------------------------------------------------------------------------
(* Traffic. *)

\* Transport finds the link in _active_links, and receive() goes on unless
\* it is closed.
Hears(e) == listed[e] = "active" /\ status[e] # "CLOSED"

\* identify(): the initiator proves its identity over the link.
identify ==
    /\ status["I"] = "ACTIVE"
    /\ \A i \in DOMAIN air["R"] : air["R"][i].t # "ID"   \* once at a time
    /\ ~remote
    /\ air' = Send("I", P("ID"))
    /\ UNCHANGED <<estab, exchange, faults, breaks>>

Identifying == remote \/ \E i \in DOMAIN air["R"] : air["R"][i].t = "ID"

\* request(): in a packet or as a resource.  On a closed link a packet gets no
\* receipt, and a resource waits for ever.
request(r) ==
    /\ status["I"] \in {"ACTIVE", "CLOSED"} /\ told["I"].established > 0
    /\ receipt[r] = "none"
    /\ status["I"] = "CLOSED" => Kind[r].big
    /\ receipt' = [receipt EXCEPT ![r] = "sent"]
    /\ knew' = [knew EXCEPT ![r] = Identifying]
    /\ air' = IF status["I"] = "CLOSED" THEN air
              ELSE Send("I", [t |-> IF Kind[r].big THEN "BREQ" ELSE "REQ",
                              r |-> r])
    /\ UNCHANGED <<estab, remote, data, served, faults, breaks>>

\* The application of e sends a packet on the link.
SendData(e) ==
    /\ status[e] = "ACTIVE" /\ data[e] = "none"
    /\ Spent < MaxTeardowns
    /\ data' = [data EXCEPT ![e] = "sent"]
    /\ air' = Send(e, P("DATA"))
    /\ UNCHANGED <<estab, remote, receipt, served, knew, faults, breaks>>

\* prove_packet(), as the strategy of the link's destination says: always, or
\* if the application wants it.  The destination of an initiator has none.
Proves(e) ==
    CASE e = "I" \/ Strategy = "PROVE_NONE" -> {FALSE}
      [] Strategy = "PROVE_APP" -> BOOLEAN
      [] Strategy = "PROVE_ALL" -> {TRUE}

\* A packet without context: the callback has it, and it may be proved.
ReceiveData(e, x, i) ==
    /\ x.t = "DATA"
    /\ data' = [data EXCEPT ![Other(e)] = "got"]
    /\ \E proves \in Proves(e) :
          air' = IF proves THEN [Taken(e, i) EXCEPT ![Other(e)] = Append(@, P("DPROOF"))]
                 ELSE Taken(e, i)

\* A plausible slip: nobody looks whether the listed peer identified itself.
AllowUnidentified(r) == Kind[r].allow # "ALLOW_NONE"

\* May the peer use the handler?  An ALLOW_LIST has the initiator's identity.
Allowed(r) ==
    \/ Kind[r].allow = "ALLOW_ALL"
    \/ Kind[r].allow = "ALLOW_LIST" /\ remote

\* A plausible slip: the status is compared with that of an initiator.
HandleHandshake(r) == status["R"] = "HANDSHAKE" /\ Allowed(r)

\* handle_request() runs the response generator.
handle_request(r) == status["R"] = "ACTIVE" /\ Allowed(r)

Response(r) == [t |-> IF Kind[r].bigResponse THEN "BRSP" ELSE "RSP", r |-> r]

\* teardown_packet() and teardown() end in link_closed(): resources are
\* cancelled, keys purged, the destination forgets the link, the callback is
\* called.
link_closed(e, why) ==
    /\ status' = [status EXCEPT ![e] = "CLOSED"]
    /\ reason' = [reason EXCEPT ![e] = why]
    /\ owned' = (owned /\ e # "R")
    /\ told' = [told EXCEPT ![e].closed = @ + 1]

Quiet == UNCHANGED <<status, told, owned, reason>>

\* rtt_packet(): the responder's link is active, whatever it was before.
rtt_packet(x) ==
    /\ x.t = "RTT"
    /\ status' = [status EXCEPT !["R"] = "ACTIVE"]
    /\ told' = Established("R")
    /\ UNCHANGED <<owned, reason, remote, served>>

\* LINKIDENTIFY: the signature covers the link id and the public key.
ReceiveIdentify(x) ==
    /\ x.t = "ID"
    /\ remote' = TRUE
    /\ Quiet /\ UNCHANGED served

\* A request is served, and its response sent, or dropped without a word.
Serve(x, i) ==
    /\ IF handle_request(x.r)
       THEN /\ served' = [served EXCEPT ![x.r] = @ + 1]
            /\ air' = [Taken("R", i) EXCEPT !["I"] = Append(@, Response(x.r))]
       ELSE air' = Taken("R", i) /\ UNCHANGED served
    /\ Quiet /\ UNCHANGED remote

\* REQUEST, in one packet.
ReceiveRequestPacket(x, i) == x.t = "REQ" /\ Serve(x, i)

\* request_resource_concluded(): the resource of a request is complete.
request_resource_concluded(x, i) == x.t = "BREQ" /\ Serve(x, i)

\* teardown_packet(): the other end has closed the link.
teardown_packet(e, x) ==
    /\ x.t = "CLOSE"
    /\ link_closed(e, IF e = "R" THEN "INITIATOR_CLOSED"
                                 ELSE "DESTINATION_CLOSED")

\* receive() at the responder.
ResponderReceives ==
    \E i \in DOMAIN air["R"] :
        LET x == air["R"][i] IN
        /\ x.t # "LR"
        /\ Takes("R", i)
        /\ \/ /\ ~Hears("R")
              /\ air' = Taken("R", i)
              /\ Quiet /\ UNCHANGED <<remote, served, data>>
           \/ /\ Hears("R")
              /\ ReceiveRequestPacket(x, i) \/ request_resource_concluded(x, i)
              /\ UNCHANGED data
           \/ /\ Hears("R")
              /\ ReceiveData("R", x, i)
              /\ Quiet /\ UNCHANGED <<remote, served>>
           \/ /\ Hears("R")
              /\ \/ rtt_packet(x)
                 \/ ReceiveIdentify(x)
                 \/ teardown_packet("R", x) /\ UNCHANGED <<remote, served>>
              /\ air' = Taken("R", i)
              /\ UNCHANGED data
        /\ UNCHANGED <<listed, mtu, receipt, knew, expired, breaks>>

\* handle_response(): the link is active and the receipt pending.
handle_response(r) == status["I"] = "ACTIVE" /\ receipt[r] = "sent"

\* response_received() concludes the receipt, which is pending no longer; a
\* response nobody waits for is dropped.
response_received(r) ==
    /\ receipt' = IF handle_response(r) THEN [receipt EXCEPT ![r] = "ready"]
                                        ELSE receipt
    /\ Quiet

\* RESPONSE, in one packet.
ReceiveResponse(x) == x.t = "RSP" /\ response_received(x.r)

\* response_resource_concluded(): the resource of a response is complete.
response_resource_concluded(x) == x.t = "BRSP" /\ response_received(x.r)

\* receive() at the initiator.  The proof of a packet finds no receipt it
\* validates: the branch for proofs on links is switched off.
InitiatorReceives ==
    \E i \in DOMAIN air["I"] :
        LET x == air["I"][i] IN
        /\ x.t \in {"RSP", "BRSP", "CLOSE", "DATA", "DPROOF"}
        /\ Takes("I", i)
        /\ \/ /\ ~Hears("I") \/ x.t = "DPROOF"
              /\ air' = Taken("I", i)
              /\ Quiet /\ UNCHANGED <<receipt, data>>
           \/ /\ Hears("I")
              /\ ReceiveData("I", x, i)
              /\ Quiet /\ UNCHANGED receipt
           \/ /\ Hears("I")
              /\ \/ ReceiveResponse(x)
                 \/ response_resource_concluded(x)
                 \/ teardown_packet("I", x) /\ UNCHANGED receipt
              /\ air' = Taken("I", i)
              /\ UNCHANGED data
        /\ UNCHANGED <<listed, mtu, remote, served, knew, expired,
                       breaks>>

-----------------------------------------------------------------------------
(* Teardown. *)

\* A plausible slip: the peer is told after the status is set to CLOSED, and
\* nothing leaves on a closed link.
TeardownUnsaid(e) ==
    /\ Interrupts
    /\ status[e] # "NONE"
    /\ link_closed(e, IF e = "I" THEN "INITIATOR_CLOSED"
                                 ELSE "DESTINATION_CLOSED")
    /\ UNCHANGED <<listed, mtu, exchange, air, expired, faults>>

\* teardown(): the peer is told unless the link is pending or closed.
teardown(e) ==
    /\ Interrupts
    /\ status[e] # "NONE"
    /\ link_closed(e, IF e = "I" THEN "INITIATOR_CLOSED"
                                 ELSE "DESTINATION_CLOSED")
    /\ air' = IF status[e] \in {"PENDING", "CLOSED"} THEN air
              ELSE Send(e, P("CLOSE"))
    /\ UNCHANGED <<listed, mtu, exchange, expired, faults>>

\* The link pass of jobs(): closed links leave the lists; a pending one has
\* its path expired and asked for again (not at a transport node).
Cull(e) ==
    /\ status[e] = "CLOSED" /\ listed[e] # "no"
    /\ listed' = [listed EXCEPT ![e] = "no"]
    /\ expired' = (expired \/ listed[e] = "pending")

jobs ==
    \E e \in End :
        /\ Cull(e)
        /\ UNCHANGED <<status, owned, reason, mtu, exchange, air, told,
                       faults, breaks>>

-----------------------------------------------------------------------------
(* The carriers. *)

Lose ==
    /\ Faulty
    /\ \E e \in End : \E i \in DOMAIN air[e] : air' = Taken(e, i)
    /\ UNCHANGED <<estab, exchange, breaks>>

Garble ==
    /\ Faulty
    /\ \E i \in DOMAIN air["I"], t \in {"BADMODE", "BADSIG"} :
          /\ air["I"][i].t = "PROOF"
          /\ air' = [air EXCEPT !["I"][i] = P(t)]
    /\ UNCHANGED <<estab, exchange, breaks>>

\* A resource arrives a second time, as one may that was advertised twice.
Repeat ==
    /\ Faulty
    /\ \E e \in End : \E i \in DOMAIN air[e] :
          /\ air[e][i].t \in {"BREQ", "BRSP"}
          /\ air' = [air EXCEPT ![e] = Append(@, air[e][i])]
    /\ UNCHANGED <<estab, exchange, breaks>>

-----------------------------------------------------------------------------

Init ==
    /\ status = [e \in End |-> "NONE"]
    /\ listed = [e \in End |-> "no"]
    /\ owned = FALSE
    /\ reason = [e \in End |-> "none"]
    /\ mtu = [e \in End |-> DefaultMtu]
    /\ remote = FALSE
    /\ receipt = [r \in Req |-> "none"]
    /\ data = [e \in End |-> "none"]
    /\ air = [e \in End |-> <<>>]
    /\ told = [e \in End |-> [established |-> 0, closed |-> 0, failed |-> FALSE]]
    /\ served = [r \in Req |-> 0]
    /\ knew = [r \in Req |-> FALSE]
    /\ expired = FALSE
    /\ faults = 0 /\ breaks = 0

ReceiveAt(e) ==
    \/ e = "R" /\ (ReceiveRequest \/ ResponderReceives)
    \/ e = "I" /\ (ReceiveProof \/ InitiatorReceives)

Next ==
    \/ Open \/ Clamp \/ identify
    \/ \E r \in Req : request(r)
    \/ \E e \in End : ReceiveAt(e) \/ SendData(e) \/ teardown(e)
    \/ jobs
    \/ Lose \/ Garble \/ Repeat

Spec == Init /\ [][Next]_vars

\* What is sent and not lost arrives, and jobs() runs, at each end.
FairSpec == Spec /\ WF_vars(ReceiveAt("I")) /\ WF_vars(ReceiveAt("R")) /\ WF_vars(jobs)

-----------------------------------------------------------------------------
(* Properties. *)

\* Type invariant.
TypeOK ==
    /\ status \in [End -> Status]
    /\ listed \in [End -> {"no", "pending", "active"}]
    /\ owned \in BOOLEAN
    /\ reason \in [End -> {"none", "INITIATOR_CLOSED", "DESTINATION_CLOSED"}]
    /\ mtu \in [End -> Mtu]
    /\ remote \in BOOLEAN
    /\ receipt \in [Req -> {"none", "sent", "ready"}]
    /\ data \in [End -> {"none", "sent", "got"}]
    /\ air \in [End -> Seq(Packet)]
    /\ told \in [End -> [established: Nat, closed: Nat, failed: BOOLEAN]]
    /\ served \in [Req -> Nat] /\ knew \in [Req -> BOOLEAN]
    /\ expired \in BOOLEAN
    /\ faults \in 0 .. MaxFaults /\ breaks \in 0 .. MaxTeardowns

\* The two ends of a link agree: what the initiator takes for established the
\* responder has accepted, with the same MTU; what the responder takes for
\* established was established at the initiator; the responder's destination
\* keeps exactly the links that are not closed.
Agreement ==
    /\ status["I"] = "ACTIVE" => status["R"] # "NONE" /\ mtu["I"] = mtu["R"]
    /\ status["R"] = "ACTIVE" => told["I"].established > 0
    /\ owned = (status["R"] \in {"HANDSHAKE", "ACTIVE"})

\* A response that reached the application was made for this request, by a
\* handler the initiator was allowed to use.
AnsweredIsServed ==
    \A r \in Req : receipt[r] = "ready" =>
        /\ served[r] > 0
        /\ Kind[r].allow # "ALLOW_NONE"
        /\ Kind[r].allow = "ALLOW_LIST" => remote

\* An end that says the other one closed the link is right.
ReasonAgrees ==
    /\ reason["I"] = "DESTINATION_CLOSED" => reason["R"] # "none"
    /\ reason["R"] = "INITIATOR_CLOSED" => reason["I"] # "none"

\* The path is given up only for a link that never became active.
ExpiresOnlyUnused == expired => told["I"].established = 0

\* What the two ends believe of the link is consistent: they agree on what is
\* established and with which MTU, on who closed it, and only a link that
\* never became active costs its path.
Consistent == TypeOK /\ Agreement /\ ReasonAgrees /\ ExpiresOnlyUnused

\* A closed link stays closed, although rtt_packet() sets ACTIVE whatever the
\* status was.
ClosedForGood ==
    [][\A e \in End : status[e] = "CLOSED" => status'[e] = "CLOSED"]_vars

\* When one end closes an established link, so does the other, if no packet
\* is lost or overtakes another and no callback fails.
CloseReaches ==
    \A e \in End :
        (/\ status[e] = "CLOSED" /\ told[e].closed > 0
         /\ told[e].established > 0 /\ ~told[e].failed)
        ~> (status[Other(e)] = "CLOSED" \/ faults > 0)

\* A request made on an active link is answered, if its handler allows it,
\* and a packet of an application handed to the other's, though the responder
\* may not know yet that the link is established; if no packet is lost or
\* overtakes another and the link is not closed.
Answered ==
    /\ \A r \in Req :
          (/\ receipt[r] = "sent"
           /\ \/ Kind[r].allow = "ALLOW_ALL"
              \/ Kind[r].allow = "ALLOW_LIST" /\ knew[r])
          ~> (receipt[r] = "ready" \/ faults > 0 \/ breaks > 0)
    /\ \A e \in End :
          data[e] = "sent" ~> (data[e] = "got" \/ faults > 0 \/ breaks > 0)

=============================================================================
