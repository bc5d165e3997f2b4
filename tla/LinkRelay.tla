----------------------------- MODULE LinkRelay -----------------------------
(***************************************************************************)
(* How transport nodes carry a link (Transport.cpp): the link request that *)
(* follows the path tables and leaves an entry in each link table, its     *)
(* proof, the traffic that follows the entries, and a message and its      *)
(* proof, which follow the reverse tables; the packet filter in front of   *)
(* it all, and the culls behind it.                                        *)
(*                                                                         *)
(* Interfaces are broadcast media, such as LoRa channels: what a node      *)
(* sends on one is heard by those in reach, the node it came from among    *)
(* them.  air holds the receptions that have not been handled: they are    *)
(* handled in any order, and one that is lost never is.  One link is       *)
(* requested and one message sent, by A to a destination of D; a packet    *)
(* stands for its hash.                                                    *)
(*   LR    link request            LRP   its proof (LRPROOF)               *)
(*   RTT   first packet of A on the link (LRRTT); DAT: a packet of D       *)
(*   KEEP  keepalive of A          ACK   its answer: both are exempt from  *)
(*                                       the filter                        *)
(*   MSG   a single packet         PRF   its proof                         *)
(*                                                                         *)
(* sent and again are history variables; A only looks at sent so as to     *)
(* send its message and its keepalive once.                                *)
(***************************************************************************)
EXTENDS Naturals, FiniteSets

CONSTANTS
    Relay, A, D,          \* the transport nodes, the initiator, the responder
    Medium,
    Hears,                \* <<m, x, y>>: what x sends on m is heard by y
    Routes,               \* the path table entries for D a node may come by
    Plans,                \* what A may send: subsets of {"LR", "KEEP", "MSG"}
    Patient,              \* no timeout is shorter than what it waits for
    MaxChanges,           \* bound on the changes of path table entries
    MaxHops,              \* bound: receptions with more hops are not handled
    PATHFINDER_M,
    None                  \* no path, no entry, no transport id

Node == Relay \union {A, D}

Route == [next: Node, hops: Nat \ {0}, via: Medium]

ASSUME NodeAssumption == A \notin Relay /\ D \notin Relay /\ A # D
ASSUME RouteAssumption ==
    /\ Routes \in [Relay \union {A} -> SUBSET Route]
    /\ None \notin Route \union Node \union Medium
ASSUME HearsAssumption == Hears \subseteq Medium \X Node \X Node
ASSUME BoundAssumption ==
    /\ MaxChanges \in Nat /\ MaxHops \in 1 .. 255 /\ PATHFINDER_M \in Nat
    /\ Patient \in BOOLEAN
    /\ Plans \subseteq SUBSET {"LR", "KEEP", "MSG"}

VARIABLES
    path,      \* _new_path_table: the entry for D
    pstate,    \* _path_states: D's path is marked unresponsive
    link,      \* _link_table: the entry for the link
    reverse,   \* _reverse_table: the entry for MSG
    seen,      \* _packet_hashlist
    air,       \* receptions to come
    plan,      \* what A sends in this behaviour
    astate,    \* status of the link at A
    dstate,    \* status of the link at D
    aface,     \* _attached_interface of the link at A
    dface,     \* _attached_interface of the link at D
    changes,   \* changes of path table entries so far
    sent,      \* history: <<x, p>>: node x has transmitted p
    again      \* history: ... more than once

vars == <<path, pstate, link, reverse, seen, air, plan, astate, dstate, aface,
          dface, changes, sent, again>>

ends == <<plan, astate, dstate, aface, dface>>

-----------------------------------------------------------------------------

Packet == {"LR", "LRP", "RTT", "DAT", "KEEP", "ACK", "MSG", "PRF"}

\* Contexts exempt from filtering.
Exempt == {"KEEP", "ACK"}

\* Packets whose destination hash is the link id, after the link proof.
LinkTraffic == {"RTT", "DAT"} \union Exempt

Reception ==
    [to: Node, on: Medium, pkt: Packet, hops: 0 .. 255, tid: Node \union {None}]

LinkEntry ==
    [next_hop: Node, outbound: Medium, remaining_hops: Nat,
     receiving: Medium, hops: Nat, validated: BOOLEAN]

ReverseEntry == [receiving: Medium, outbound: Medium]

\* transmit(): x sends p on m, with the hop count and the transport id t.
Transmit(x, m, p, h, t) ==
    {[to |-> y, on |-> m, pkt |-> p, hops |-> h, tid |-> t] :
        y \in {z \in Node : <<m, x, z>> \in Hears}}

\* packet.hops(packet.hops() + 1)
Hops(x) == (x.hops + 1) % 256

\* packet_filter(): not for another transport instance, and either exempt
\* or not seen before.
packet_filter(r, x) ==
    /\ x.tid \in {None, r}
    /\ x.pkt \in Exempt \/ x.pkt \notin seen[r]

\* A plausible slip: the hash is not held back.
RememberAtOnce(r, x) == TRUE

\* The hash list has the packet at once, unless it belongs to a link in the
\* link table or is a link proof.
remember_packet_hash(r, x) ==
    /\ x.pkt \in LinkTraffic => link[r] = None
    /\ x.pkt # "LRP"

Sent(x, p) ==
    /\ sent' = sent \union {<<x, p>>}
    /\ again' = IF <<x, p>> \in sent THEN again \union {<<x, p>>} ELSE again

NotSent == UNCHANGED <<sent, again>>

\* A reception of r is at hand.
Received(r, x) == x \in air /\ x.to = r /\ x.hops < MaxHops

-----------------------------------------------------------------------------

Init ==
    /\ path \in {f \in [Relay \union {A} -> UNION {Routes[x] : x \in Relay \union {A}}] :
                    \A x \in Relay \union {A} : f[x] \in Routes[x]}
    /\ pstate = [x \in Relay |-> FALSE]
    /\ link = [r \in Relay |-> None]
    /\ reverse = [r \in Relay |-> None]
    /\ seen = [x \in Node |-> {}]
    /\ air = {}
    /\ plan \in Plans
    /\ astate = "none" /\ dstate = "none"
    /\ aface = None /\ dface = None
    /\ changes = 0
    /\ sent = {} /\ again = {}

-----------------------------------------------------------------------------
(* The relays: inbound().                                                  *)

\* What inbound() does to the filter, and what it transmits.
Handle(r, x, out, remember) ==
    /\ air' = (air \ {x}) \union out
    /\ seen' = IF remember THEN [seen EXCEPT ![r] = @ \union {x.pkt}] ELSE seen

Filtered(r, x) ==
    /\ Received(r, x)
    /\ ~ packet_filter(r, x)
    /\ air' = air \ {x}
    /\ NotSent
    /\ UNCHANGED <<path, pstate, link, reverse, seen, ends, changes>>

\* The packet is in transport, and r is its next hop.
InTransport(r, x) ==
    /\ Received(r, x)
    /\ packet_filter(r, x)
    /\ x.pkt \in {"LR", "MSG"} /\ x.tid = r /\ path[r] # None

\* To the next hop, or with the transport header stripped when D is it.
Forward(r, x) ==
    Transmit(r, path[r].via, x.pkt, Hops(x),
             IF path[r].hops > 1 THEN path[r].next ELSE None)

NewLinkEntry(r, x) ==
    [next_hop |-> path[r].next, outbound |-> path[r].via,
     remaining_hops |-> path[r].hops,
     receiving |-> x.on, hops |-> Hops(x), validated |-> FALSE]

\* A plausible slip: the hop count recorded is the one on the wire.
RelayRequestWireHops(r, x) ==
    /\ InTransport(r, x) /\ x.pkt = "LR"
    /\ link' = [link EXCEPT ![r] =
                  IF @ = None THEN [NewLinkEntry(r, x) EXCEPT !.hops = x.hops] ELSE @]
    /\ Handle(r, x, Forward(r, x), remember_packet_hash(r, x))
    /\ Sent(r, x.pkt)
    /\ UNCHANGED <<path, pstate, reverse, ends, changes>>

RelayRequest(r, x) ==
    /\ InTransport(r, x) /\ x.pkt = "LR"
    /\ link' = [link EXCEPT ![r] = IF @ = None THEN NewLinkEntry(r, x) ELSE @]
    /\ Handle(r, x, Forward(r, x), remember_packet_hash(r, x))
    /\ Sent(r, x.pkt)
    /\ UNCHANGED <<path, pstate, reverse, ends, changes>>

\* A plausible slip: the interfaces of the reverse entry are swapped.
RelayMessageSwapped(r, x) ==
    /\ InTransport(r, x) /\ x.pkt = "MSG"
    /\ reverse' = [reverse EXCEPT ![r] =
                     IF @ = None THEN [receiving |-> path[r].via, outbound |-> x.on] ELSE @]
    /\ Handle(r, x, Forward(r, x), remember_packet_hash(r, x))
    /\ Sent(r, x.pkt)
    /\ UNCHANGED <<path, pstate, link, ends, changes>>

RelayMessage(r, x) ==
    /\ InTransport(r, x) /\ x.pkt = "MSG"
    /\ reverse' = [reverse EXCEPT ![r] =
                     IF @ = None THEN [receiving |-> x.on, outbound |-> path[r].via] ELSE @]
    /\ Handle(r, x, Forward(r, x), remember_packet_hash(r, x))
    /\ Sent(r, x.pkt)
    /\ UNCHANGED <<path, pstate, link, ends, changes>>

\* The media link traffic is passed on to: the opposite one, if the packet
\* has taken the hops that are expected on its side.
Onward(e, x) ==
    IF e.outbound = e.receiving
      THEN {m \in {e.outbound} : Hops(x) \in {e.remaining_hops, e.hops}}
      ELSE {m \in {e.receiving} : x.on = e.outbound /\ Hops(x) = e.remaining_hops}
             \union {m \in {e.outbound} : x.on = e.receiving /\ Hops(x) = e.hops}

IsTraffic(r, x) ==
    x.pkt \in LinkTraffic /\ link[r] # None /\ Onward(link[r], x) # {}

\* A link proof, from the interface the request went out on.
IsLinkProof(r, x) ==
    x.pkt = "LRP" /\ link[r] # None /\ x.on = link[r].outbound

\* The proof of MSG, from the interface MSG went out on.
IsProof(r, x) ==
    x.pkt = "PRF" /\ reverse[r] # None /\ x.on = reverse[r].outbound

\* A plausible slip: the deferred insertion into the hash list is forgotten.
RelayTrafficUnseen(r, x) ==
    /\ Received(r, x) /\ packet_filter(r, x)
    /\ IsTraffic(r, x)
    /\ \E m \in Onward(link[r], x) :
          Handle(r, x, Transmit(r, m, x.pkt, Hops(x), None), FALSE)
    /\ Sent(r, x.pkt)
    /\ UNCHANGED <<path, pstate, link, reverse, ends, changes>>

RelayTraffic(r, x) ==
    /\ Received(r, x) /\ packet_filter(r, x)
    /\ IsTraffic(r, x)
    /\ \E m \in Onward(link[r], x) :
          Handle(r, x, Transmit(r, m, x.pkt, Hops(x), None), TRUE)
    /\ Sent(r, x.pkt)
    /\ UNCHANGED <<path, pstate, link, reverse, ends, changes>>

\* A plausible slip: the entry is not marked validated.
RelayLinkProofUnmarked(r, x) ==
    /\ Received(r, x) /\ packet_filter(r, x)
    /\ IsLinkProof(r, x)
    /\ Handle(r, x, Transmit(r, link[r].receiving, "LRP", Hops(x), None),
              remember_packet_hash(r, x))
    /\ Sent(r, x.pkt)
    /\ UNCHANGED <<path, pstate, link, reverse, ends, changes>>

RelayLinkProof(r, x) ==
    /\ Received(r, x) /\ packet_filter(r, x)
    /\ IsLinkProof(r, x)
    /\ link' = [link EXCEPT ![r].validated = TRUE]
    /\ Handle(r, x, Transmit(r, link[r].receiving, "LRP", Hops(x), None),
              remember_packet_hash(r, x))
    /\ Sent(r, x.pkt)
    /\ UNCHANGED <<path, pstate, reverse, ends, changes>>

RelayProof(r, x) ==
    /\ Received(r, x) /\ packet_filter(r, x)
    /\ IsProof(r, x)
    /\ Handle(r, x, Transmit(r, reverse[r].receiving, "PRF", Hops(x), None),
              remember_packet_hash(r, x))
    /\ Sent(r, x.pkt)
    /\ UNCHANGED <<path, pstate, link, reverse, ends, changes>>

\* The packet passes the filter, and none of the above applies: no path, no
\* entry, the wrong interface or hop count, or not in transport.
NotTransported(r, x) ==
    /\ Received(r, x) /\ packet_filter(r, x)
    /\ ~ InTransport(r, x)
    /\ ~ IsTraffic(r, x) /\ ~ IsLinkProof(r, x) /\ ~ IsProof(r, x)
    /\ Handle(r, x, {}, remember_packet_hash(r, x))
    /\ NotSent
    /\ UNCHANGED <<path, pstate, link, reverse, ends, changes>>

-----------------------------------------------------------------------------
(* The relays: jobs() and the path table.                                  *)

\* A timeout passes.  The patient ones wait until nothing is on its way.
TimedOut == Patient => \A x \in air : x.hops >= MaxHops

\* The verdict a link without a proof brings on the path to D that is in the
\* table now: D or the initiator is one hop away (and no path was requested
\* of late, nor did the request come from a boundary interface: throttled).
Blames(r) ==
    path[r] # None /\ (path[r].hops = 1 \/ link[r].hops = 1)

CullUnproven(r) ==
    /\ link[r] # None /\ ~ link[r].validated
    /\ TimedOut
    /\ \E throttled \in BOOLEAN :
          pstate' = IF Blames(r) /\ ~ throttled THEN [pstate EXCEPT ![r] = TRUE] ELSE pstate
    /\ link' = [link EXCEPT ![r] = None]
    /\ NotSent
    /\ UNCHANGED <<path, reverse, seen, air, ends, changes>>

\* LINK_TIMEOUT without traffic.
CullLink(r) ==
    /\ TimedOut
    /\ link[r] # None /\ link[r].validated
    /\ link' = [link EXCEPT ![r] = None]
    /\ NotSent
    /\ UNCHANGED <<path, pstate, reverse, seen, air, ends, changes>>

\* REVERSE_TIMEOUT
CullReverse(r) ==
    /\ TimedOut
    /\ reverse[r] # None
    /\ reverse' = [reverse EXCEPT ![r] = None]
    /\ NotSent
    /\ UNCHANGED <<path, pstate, link, seen, air, ends, changes>>

\* An announce replaces the path, or the path is lost: see PathTable.
PathChanges(r, p) ==
    /\ changes < MaxChanges
    /\ p # path[r]
    /\ path' = [path EXCEPT ![r] = p]
    /\ pstate' = [pstate EXCEPT ![r] = FALSE]
    /\ changes' = changes + 1
    /\ NotSent
    /\ UNCHANGED <<link, reverse, seen, air, ends>>

-----------------------------------------------------------------------------
(* The two ends of the link.                                               *)

\* outbound() of a packet for D, along A's path.
Outbound(p) ==
    Transmit(A, path[A].via, p, 0, IF path[A].hops > 1 THEN path[A].next ELSE None)

RequestLink ==
    /\ "LR" \in plan /\ astate = "none"
    /\ astate' = "pending"
    /\ air' = air \union Outbound("LR")
    /\ Sent(A, "LR")
    /\ UNCHANGED <<path, pstate, link, reverse, seen, plan, dstate, aface, dface, changes>>

SendMessage ==
    /\ "MSG" \in plan /\ <<A, "MSG">> \notin sent
    /\ air' = air \union Outbound("MSG")
    /\ Sent(A, "MSG")
    /\ UNCHANGED <<path, pstate, link, reverse, seen, ends, changes>>

\* outbound() of everything else, on the interface of the link or of the
\* packet it answers: the sender remembers the hash.
SendKeepalive ==
    /\ "KEEP" \in plan /\ astate = "active" /\ <<A, "KEEP">> \notin sent
    /\ air' = air \union Transmit(A, aface, "KEEP", 0, None)
    /\ seen' = [seen EXCEPT ![A] = @ \union {"KEEP"}]
    /\ Sent(A, "KEEP")
    /\ UNCHANGED <<path, pstate, link, reverse, ends, changes>>

\* n takes in x and sends p on the interface it came from.
Answer(n, x, p) ==
    /\ Received(n, x) /\ packet_filter(n, x)
    /\ air' = (air \ {x}) \union Transmit(n, x.on, p, 0, None)
    /\ seen' = [seen EXCEPT ![n] = @ \union {p} \union ({x.pkt} \ {"LRP"})]
    /\ Sent(n, p)
    /\ UNCHANGED <<path, pstate, link, reverse, changes>>

\* What D answers: validate_request() and prove(), the first packet on the
\* link, upon which its application has one to send, keepalives, and MSG.
RespondLinkRequest(x) ==
    /\ x.pkt = "LR"
    /\ Answer(D, x, "LRP")
    /\ dstate' = "handshake" /\ dface' = x.on
    /\ UNCHANGED <<plan, astate, aface>>

ReceiveRTT(x) ==
    /\ x.pkt = "RTT" /\ dstate # "none" /\ x.on = dface
    /\ Answer(D, x, "DAT")
    /\ dstate' = "active"
    /\ UNCHANGED <<plan, astate, aface, dface>>

AnswerKeepalive(x) ==
    /\ x.pkt = "KEEP" /\ dstate # "none" /\ x.on = dface
    /\ Answer(D, x, "ACK")
    /\ UNCHANGED ends

ProveMessage(x) ==
    /\ x.pkt = "MSG"
    /\ Answer(D, x, "PRF")
    /\ UNCHANGED ends

\* A plausible slip: the link is not attached to the interface of its proof.
ReceiveLinkProofUnattached(x) ==
    /\ x.pkt = "LRP" /\ astate = "pending"
    /\ Answer(A, x, "RTT")
    /\ astate' = "active"
    /\ UNCHANGED <<plan, dstate, aface, dface>>

\* Link::validate_proof()
ReceiveLinkProof(x) ==
    /\ x.pkt = "LRP" /\ astate = "pending"
    /\ Answer(A, x, "RTT")
    /\ astate' = "active" /\ aface' = x.on
    /\ UNCHANGED <<plan, dstate, dface>>

Attached(n) == IF n = A THEN aface ELSE dface

\* A packet of the link from another interface than the link's.
OffLink(n, x) ==
    x.pkt \in LinkTraffic /\ Attached(n) # None /\ x.on # Attached(n)

\* It is forgotten, so that it is taken in when it comes from the link's.
EndForgets(n, x) ==
    /\ Received(n, x) /\ packet_filter(n, x)
    /\ OffLink(n, x)
    /\ air' = air \ {x}
    /\ seen' = [seen EXCEPT ![n] = @ \ {x.pkt}]
    /\ NotSent
    /\ UNCHANGED <<path, pstate, link, reverse, ends, changes>>

\* Everything else an end hears: its own packets come back, duplicates, and
\* what it takes in without an answer.
EndHears(n, x) ==
    /\ Received(n, x)
    /\ packet_filter(n, x) =>
          /\ n = D =>
                x.pkt \notin {"LR", "MSG"} /\ (x.pkt \in {"RTT", "KEEP"} => dstate = "none")
          /\ n = A /\ x.pkt = "LRP" => astate # "pending"
          /\ ~ OffLink(n, x)
    /\ Handle(n, x, {}, packet_filter(n, x) /\ x.pkt # "LRP")
    /\ NotSent
    /\ UNCHANGED <<path, pstate, link, reverse, ends, changes>>

-----------------------------------------------------------------------------

Inbound(x) ==
    \/ \E r \in Relay :
          \/ Filtered(r, x) \/ RelayRequest(r, x) \/ RelayMessage(r, x)
          \/ RelayTraffic(r, x) \/ RelayLinkProof(r, x) \/ RelayProof(r, x)
          \/ NotTransported(r, x)
    \/ RespondLinkRequest(x) \/ ReceiveRTT(x) \/ AnswerKeepalive(x)
    \/ ProveMessage(x) \/ ReceiveLinkProof(x)
    \/ \E n \in {A, D} : EndForgets(n, x) \/ EndHears(n, x)

Next ==
    \/ \E x \in air : Inbound(x)
    \/ \E r \in Relay :
          \/ CullUnproven(r) \/ CullLink(r) \/ CullReverse(r)
          \/ \E p \in Routes[r] \union {None} : PathChanges(r, p)
    \/ RequestLink \/ SendMessage \/ SendKeepalive

Spec == Init /\ [][Next]_vars

\* What is heard is handled: interfaces deliver to inbound() as they receive.
FairSpec == Spec /\ WF_vars(\E x \in air : Inbound(x))

-----------------------------------------------------------------------------

\* Type invariant.  A link is attached to an interface when it is up.
TypeOK ==
    /\ path \in [Relay \union {A} -> Route \union {None}]
    /\ path[A] # None
    /\ pstate \in [Relay -> BOOLEAN]
    /\ link \in [Relay -> LinkEntry \union {None}]
    /\ reverse \in [Relay -> ReverseEntry \union {None}]
    /\ seen \in [Node -> SUBSET Packet]
    /\ air \subseteq Reception
    /\ plan \in Plans
    /\ astate \in {"none", "pending", "active"}
    /\ dstate \in {"none", "handshake", "active"}
    /\ aface \in Medium \union {None}
    /\ dface \in Medium \union {None}
    /\ astate = "active" => aface # None
    /\ changes \in 0 .. MaxChanges
    /\ sent \subseteq Node \X Packet
    /\ again \subseteq sent

\* No echoes.  A relay transmits a request, a message, a proof or a packet
\* of a link at most once, though it hears its own transmissions passed on
\* by its neighbours on the same medium, and though the hash of a link's
\* packet is only remembered once it was transmitted.  Link proofs and
\* keepalives are not filtered.
RelayedOnce ==
    \A r \in Relay, p \in Packet \ ({"LRP"} \union Exempt) : <<r, p>> \notin again

\* "Premature hash insertion would cause the correct arrival to be filtered
\* as a duplicate": a packet of a link that a relay filters is one it has
\* transmitted.  Copies it heard from the wrong side, or too early on their
\* way, do not make it deaf to the right one.
FilteredIsRelayed ==
    \A r \in Relay, p \in LinkTraffic :
        link[r] # None /\ p \in seen[r] => <<r, p>> \in sent

\* A relay that carries the traffic of a link does not cull the link as one
\* whose proof never came, and does not blame its path.
CarriedIsValidated ==
    \A r \in Relay, p \in LinkTraffic :
        link[r] # None /\ <<r, p>> \in sent => link[r].validated

\* The networks for which it does so: the nodes stand in an order in which the
\* routes lead forward, D is the last, and what a node sends is heard backward
\* no further than by those just before it; forward it may be heard anywhere.
LayeredBy(pos) ==
    /\ \A r \in Relay \union {A} : \A p \in Routes[r] : pos[r] < pos[p.next]
    /\ \A r \in Relay : pos[r] < pos[D]
    /\ \A h \in Hears : pos[h[2]] <= pos[h[3]] + 1

\* Where nothing is lost and the path tables agree, a link that is requested
\* comes up at both ends and carries packets both ways: the hop counts that
\* the relays recorded at the request fit the traffic that follows.
LinkComesUp ==
    astate = "pending" ~>
        astate = "active" /\ dstate = "active" /\ "DAT" \in seen[A]

\* Likewise a message that is sent is proven to its sender: the proof finds
\* its way back through the reverse tables.
MessageProven == <<A, "MSG">> \in sent ~> "PRF" \in seen[A]

\* "Maximum amount of hops that Reticulum will transport a packet": no packet
\* is transmitted that has taken more than PATHFINDER_M hops.
TransportLimit == \A x \in air : x.hops <= PATHFINDER_M
=============================================================================
