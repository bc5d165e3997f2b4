-------------------------- MODULE LinkRelayProofs --------------------------
(***************************************************************************)
(* Proofs about LinkRelay, for any relays, media, reach and routes; the    *)
(* last theorem is about networks in order.                                *)
(***************************************************************************)
EXTENDS LinkRelay, TLAPS

\* What is transmitted is well formed.
LEMMA TransmitType ==
    ASSUME NEW x \in Node, NEW m \in Medium, NEW p \in Packet,
           NEW h \in 0 .. 255, NEW t \in Node \union {None}
    PROVE  Transmit(x, m, p, h, t) \in SUBSET Reception
  <1> SUFFICES ASSUME NEW z \in Transmit(x, m, p, h, t)
               PROVE  z \in Reception
      OBVIOUS
  <1>1. PICK y \in Node : z = [to |-> y, on |-> m, pkt |-> p, hops |-> h, tid |-> t]
      BY DEF Transmit
  <1> QED BY <1>1 DEF Reception

\* The hop count stays a byte.
LEMMA HopsType ==
    ASSUME NEW x \in Reception
    PROVE  Hops(x) \in 0 .. 255
  <1>1. x.hops \in 0 .. 255
      BY DEF Reception
  <1> QED BY <1>1 DEF Hops

\* The fields of a reception.
LEMMA ReceptionType ==
    ASSUME NEW x \in Reception
    PROVE  /\ x.to \in Node /\ x.on \in Medium /\ x.pkt \in Packet
           /\ x.tid \in Node \union {None}
  BY DEF Reception

\* Handling a reception keeps the hash lists and the air well formed.
LEMMA HandleType ==
    ASSUME seen \in [Node -> SUBSET Packet], air \subseteq Reception,
           NEW n \in Node, NEW x \in air, NEW out \in SUBSET Reception,
           air' = (air \ {x}) \union out,
           seen' = [seen EXCEPT ![n] = @ \union {x.pkt}] \/ seen' = seen
    PROVE  seen' \in [Node -> SUBSET Packet] /\ air' \subseteq Reception
  <1>1. air' \subseteq Reception
      OBVIOUS
  <1>2. x.pkt \in Packet
      BY ReceptionType
  <1> QED BY <1>1, <1>2

\* The histories of what was transmitted keep their types.
LEMMA SentType ==
    ASSUME sent \subseteq Node \X Packet, again \subseteq sent,
           NEW n \in Node, NEW p \in Packet, Sent(n, p)
    PROVE  sent' \subseteq Node \X Packet /\ again' \subseteq sent'
  BY DEF Sent
-----------------------------------------------------------------------------
(* Type correctness.                                                       *)

\* The network starts well typed.
LEMMA InitType == Init => TypeOK
  <1> SUFFICES ASSUME Init PROVE TypeOK
      OBVIOUS
  <1>1. path \in [Relay \union {A} -> Route \union {None}]
      BY RouteAssumption DEF Init
  <1>2. path[A] # None
      BY RouteAssumption DEF Init
  <1> QED BY <1>1, <1>2, BoundAssumption DEF Init, TypeOK, Node

\* A route of the path table is well formed.
LEMMA ForwardType ==
    ASSUME TypeOK, NEW r \in Relay, NEW x \in air, path[r] # None
    PROVE  /\ Forward(r, x) \in SUBSET Reception
           /\ path[r].via \in Medium /\ path[r].next \in Node /\ path[r].hops \in Nat
  <1>1. path[r] \in Route
      BY DEF TypeOK
  <1>2. path[r].via \in Medium /\ path[r].next \in Node /\ path[r].hops \in Nat
      BY <1>1 DEF Route
  <1>3. x \in Reception /\ x.pkt \in Packet /\ Hops(x) \in 0 .. 255
      BY ReceptionType, HopsType DEF TypeOK
  <1>4. r \in Node
      BY DEF Node
  <1> QED BY <1>2, <1>3, <1>4, TransmitType DEF Forward

\* The relays keep the types.
LEMMA RelayType ==
    ASSUME TypeOK, NEW r \in Relay, NEW x \in air,
           \/ Filtered(r, x) \/ RelayRequest(r, x) \/ RelayMessage(r, x)
           \/ RelayTraffic(r, x) \/ RelayLinkProof(r, x) \/ RelayProof(r, x)
           \/ NotTransported(r, x)
    PROVE  TypeOK'
  <1>0. /\ r \in Node /\ x \in Reception /\ x.pkt \in Packet /\ x.on \in Medium
        /\ Hops(x) \in 0 .. 255 /\ Hops(x) \in Nat
        /\ None \in Node \union {None}
      BY ReceptionType, HopsType DEF TypeOK, Node
  <1>1. CASE Filtered(r, x)
      BY <1>1 DEF Filtered, NotSent, ends, TypeOK
  <1>2. CASE RelayRequest(r, x)
      <2>1. path[r] # None
          BY <1>2 DEF RelayRequest, InTransport
      <2>2. NewLinkEntry(r, x) \in LinkEntry
          BY <1>0, <2>1, ForwardType DEF NewLinkEntry, LinkEntry
      <2>3. link' \in [Relay -> LinkEntry \union {None}]
          BY <1>2, <2>2 DEF RelayRequest, TypeOK
      <2>4. seen' \in [Node -> SUBSET Packet] /\ air' \subseteq Reception
          BY <1>0, <1>2, <2>1, ForwardType, HandleType DEF RelayRequest, Handle, TypeOK
      <2>5. sent' \subseteq Node \X Packet /\ again' \subseteq sent'
          BY <1>0, <1>2, SentType DEF RelayRequest, TypeOK
      <2> QED BY <1>2, <2>3, <2>4, <2>5 DEF RelayRequest, ends, TypeOK
  <1>3. CASE RelayMessage(r, x)
      <2>1. path[r] # None
          BY <1>3 DEF RelayMessage, InTransport
      <2>2. [receiving |-> x.on, outbound |-> path[r].via] \in ReverseEntry
          BY <1>0, <2>1, ForwardType DEF ReverseEntry
      <2>3. reverse' \in [Relay -> ReverseEntry \union {None}]
          BY <1>3, <2>2 DEF RelayMessage, TypeOK
      <2>4. seen' \in [Node -> SUBSET Packet] /\ air' \subseteq Reception
          BY <1>0, <1>3, <2>1, ForwardType, HandleType DEF RelayMessage, Handle, TypeOK
      <2>5. sent' \subseteq Node \X Packet /\ again' \subseteq sent'
          BY <1>0, <1>3, SentType DEF RelayMessage, TypeOK
      <2> QED BY <1>3, <2>3, <2>4, <2>5 DEF RelayMessage, ends, TypeOK
  <1>4. CASE RelayTraffic(r, x)
      <2>1. link[r] \in LinkEntry
          BY <1>4 DEF RelayTraffic, IsTraffic, TypeOK
      <2>2. PICK m \in Onward(link[r], x) :
              Handle(r, x, Transmit(r, m, x.pkt, Hops(x), None), TRUE)
          BY <1>4 DEF RelayTraffic
      <2>3. m \in Medium
          BY <2>1 DEF Onward, LinkEntry
      <2>4. Transmit(r, m, x.pkt, Hops(x), None) \in SUBSET Reception
          BY <1>0, <2>3, TransmitType
      <2>5. seen' \in [Node -> SUBSET Packet] /\ air' \subseteq Reception
          BY <1>0, <2>2, <2>4, HandleType DEF Handle, TypeOK
      <2>6. sent' \subseteq Node \X Packet /\ again' \subseteq sent'
          BY <1>0, <1>4, SentType DEF RelayTraffic, TypeOK
      <2> QED BY <1>4, <2>5, <2>6 DEF RelayTraffic, ends, TypeOK
  <1>5. CASE RelayLinkProof(r, x)
      <2>1. link[r] \in LinkEntry
          BY <1>5 DEF RelayLinkProof, IsLinkProof, TypeOK
      <2>2. /\ link[r].receiving \in Medium
            /\ [link[r] EXCEPT !.validated = TRUE] \in LinkEntry
          BY <2>1 DEF LinkEntry
      <2>3. link' \in [Relay -> LinkEntry \union {None}]
          BY <1>5, <2>2 DEF RelayLinkProof, TypeOK
      <2>4. Transmit(r, link[r].receiving, "LRP", Hops(x), None) \in SUBSET Reception
          BY <1>0, <2>2, TransmitType, ZenonT(30) DEF Packet
      <2>5. seen' \in [Node -> SUBSET Packet] /\ air' \subseteq Reception
          BY <1>0, <1>5, <2>4, HandleType DEF RelayLinkProof, Handle, TypeOK
      <2>6. sent' \subseteq Node \X Packet /\ again' \subseteq sent'
          BY <1>0, <1>5, SentType DEF RelayLinkProof, TypeOK
      <2> QED BY <1>5, <2>3, <2>5, <2>6 DEF RelayLinkProof, ends, TypeOK
  <1>6. CASE RelayProof(r, x)
      <2>1. reverse[r] \in ReverseEntry
          BY <1>6 DEF RelayProof, IsProof, TypeOK
      <2>2. reverse[r].receiving \in Medium
          BY <2>1 DEF ReverseEntry
      <2>3. Transmit(r, reverse[r].receiving, "PRF", Hops(x), None) \in SUBSET Reception
          BY <1>0, <2>2, TransmitType, ZenonT(30) DEF Packet
      <2>4. seen' \in [Node -> SUBSET Packet] /\ air' \subseteq Reception
          BY <1>0, <1>6, <2>3, HandleType DEF RelayProof, Handle, TypeOK
      <2>5. sent' \subseteq Node \X Packet /\ again' \subseteq sent'
          BY <1>0, <1>6, SentType DEF RelayProof, TypeOK
      <2> QED BY <1>6, <2>4, <2>5 DEF RelayProof, ends, TypeOK
  <1>7. CASE NotTransported(r, x)
      <2>1. seen' \in [Node -> SUBSET Packet] /\ air' \subseteq Reception
          BY <1>0, <1>7, HandleType DEF NotTransported, Handle, TypeOK
      <2> QED BY <1>7, <2>1 DEF NotTransported, NotSent, ends, TypeOK
  <1> QED BY <1>1, <1>2, <1>3, <1>4, <1>5, <1>6, <1>7

\* So do jobs() and the path table.
LEMMA JobsType ==
    ASSUME TypeOK, NEW r \in Relay,
           \/ CullUnproven(r) \/ CullLink(r) \/ CullReverse(r)
           \/ \E p \in Routes[r] \union {None} : PathChanges(r, p)
    PROVE  TypeOK'
  <1>1. CASE CullUnproven(r)
      <2>1. pstate' \in [Relay -> BOOLEAN] /\ link' \in [Relay -> LinkEntry \union {None}]
          BY <1>1 DEF CullUnproven, TypeOK
      <2> QED BY <1>1, <2>1 DEF CullUnproven, NotSent, ends, TypeOK
  <1>2. CASE CullLink(r)
      <2>1. link' \in [Relay -> LinkEntry \union {None}]
          BY <1>2 DEF CullLink, TypeOK
      <2> QED BY <1>2, <2>1 DEF CullLink, NotSent, ends, TypeOK
  <1>3. CASE CullReverse(r)
      <2>1. reverse' \in [Relay -> ReverseEntry \union {None}]
          BY <1>3 DEF CullReverse, TypeOK
      <2> QED BY <1>3, <2>1 DEF CullReverse, NotSent, ends, TypeOK
  <1>4. ASSUME NEW p \in Routes[r] \union {None}, PathChanges(r, p) PROVE TypeOK'
      <2>1. p \in Route \union {None}
          BY RouteAssumption
      <2>2. /\ path' \in [Relay \union {A} -> Route \union {None}]
            /\ path'[A] # None
            /\ pstate' \in [Relay -> BOOLEAN]
            /\ changes' \in 0 .. MaxChanges
          BY <1>4, <2>1, BoundAssumption, NodeAssumption DEF PathChanges, TypeOK
      <2> QED BY <1>4, <2>2 DEF PathChanges, NotSent, ends, TypeOK
  <1> QED BY <1>1, <1>2, <1>3, <1>4

\* What A sends along its path is well formed.
LEMMA OutboundType ==
    ASSUME TypeOK, NEW p \in Packet
    PROVE  Outbound(p) \in SUBSET Reception
  <1>1. A \in Node /\ path[A] \in Route
      BY DEF Node, TypeOK
  <1>2. path[A].via \in Medium /\ path[A].next \in Node
      BY <1>1 DEF Route
  <1> QED BY <1>1, <1>2, TransmitType DEF Outbound

\* So do the two ends, when they send
LEMMA SendType ==
    ASSUME TypeOK, RequestLink \/ SendMessage \/ SendKeepalive
    PROVE  TypeOK'
  <1>0. A \in Node /\ path[A] \in Route \union {None}
      BY DEF Node, TypeOK
  <1>1. CASE SendKeepalive
      <2>1. aface \in Medium
          BY <1>1 DEF SendKeepalive, TypeOK
      <2>2. Transmit(A, aface, "KEEP", 0, None) \in SUBSET Reception
          BY <1>0, <2>1, TransmitType DEF Packet
      <2>3. air' \subseteq Reception /\ seen' \in [Node -> SUBSET Packet]
          BY <1>1, <2>2 DEF SendKeepalive, Packet, TypeOK
      <2>4. sent' \subseteq Node \X Packet /\ again' \subseteq sent'
          BY <1>0, <1>1, SentType DEF SendKeepalive, Packet, TypeOK
      <2> QED BY <1>1, <2>3, <2>4 DEF SendKeepalive, ends, TypeOK
  <1>2. CASE RequestLink
      <2>1. air' \subseteq Reception
          BY <1>2, OutboundType DEF RequestLink, Packet, TypeOK
      <2>2. sent' \subseteq Node \X Packet /\ again' \subseteq sent'
          BY <1>0, <1>2, SentType DEF RequestLink, Packet, TypeOK
      <2> QED BY <1>2, <2>1, <2>2 DEF RequestLink, TypeOK
  <1>3. CASE SendMessage
      <2>1. air' \subseteq Reception
          BY <1>3, OutboundType DEF SendMessage, Packet, TypeOK
      <2>2. sent' \subseteq Node \X Packet /\ again' \subseteq sent'
          BY <1>0, <1>3, SentType DEF SendMessage, Packet, TypeOK
      <2> QED BY <1>3, <2>1, <2>2 DEF SendMessage, ends, TypeOK
  <1> QED BY <1>1, <1>2, <1>3

\* and when they receive.
LEMMA AnswerType ==
    ASSUME TypeOK, NEW n \in Node, NEW x \in air, NEW p \in Packet, Answer(n, x, p)
    PROVE  /\ seen' \in [Node -> SUBSET Packet] /\ air' \subseteq Reception
           /\ sent' \subseteq Node \X Packet /\ again' \subseteq sent'
           /\ path' = path /\ pstate' = pstate /\ link' = link
           /\ reverse' = reverse /\ changes' = changes
  <1>1. x.pkt \in Packet /\ x.on \in Medium
      BY ReceptionType DEF TypeOK
  <1>2. Transmit(n, x.on, p, 0, None) \in SUBSET Reception
      BY <1>1, TransmitType
  <1>3. air' \subseteq Reception
      BY <1>2 DEF Answer, TypeOK
  <1>4. seen' \in [Node -> SUBSET Packet]
      BY <1>1 DEF Answer, TypeOK
  <1>5. sent' \subseteq Node \X Packet /\ again' \subseteq sent'
      BY SentType DEF Answer, TypeOK
  <1> QED BY <1>3, <1>4, <1>5 DEF Answer

\* What the two ends do with a packet they hear keeps the types.
LEMMA EndType ==
    ASSUME TypeOK, NEW x \in air,
           \/ RespondLinkRequest(x) \/ ReceiveRTT(x) \/ AnswerKeepalive(x)
           \/ ProveMessage(x) \/ ReceiveLinkProof(x)
           \/ \E n \in {A, D} : EndForgets(n, x) \/ EndHears(n, x)
    PROVE  TypeOK'
  <1>0. /\ A \in Node /\ D \in Node /\ x.on \in Medium /\ x.on # None /\ x.pkt \in Packet
        /\ {"LRP", "DAT", "ACK", "PRF", "RTT"} \subseteq Packet
      BY ReceptionType, RouteAssumption DEF TypeOK, Node, Packet, Exempt
  <1>1. CASE RespondLinkRequest(x)
      <2>1. Answer(D, x, "LRP")
          BY <1>1 DEF RespondLinkRequest
      <2> QED BY <1>0, <1>1, <2>1, AnswerType DEF RespondLinkRequest, TypeOK
  <1>2. CASE ReceiveRTT(x)
      <2>1. Answer(D, x, "DAT")
          BY <1>2 DEF ReceiveRTT
      <2> QED BY <1>0, <1>2, <2>1, AnswerType DEF ReceiveRTT, TypeOK
  <1>3. CASE ProveMessage(x)
      <2>1. Answer(D, x, "PRF")
          BY <1>3 DEF ProveMessage
      <2> QED BY <1>0, <1>3, <2>1, AnswerType DEF ProveMessage, ends, TypeOK
  <1>4. CASE ReceiveLinkProof(x)
      <2>1. Answer(A, x, "RTT")
          BY <1>4 DEF ReceiveLinkProof
      <2> QED BY <1>0, <1>4, <2>1, AnswerType DEF ReceiveLinkProof, TypeOK
  <1>5. CASE AnswerKeepalive(x)
      <2>1. Answer(D, x, "ACK")
          BY <1>5 DEF AnswerKeepalive
      <2> QED BY <1>0, <1>5, <2>1, AnswerType DEF AnswerKeepalive, ends, TypeOK
  <1>6. ASSUME NEW n \in {A, D}, EndForgets(n, x) \/ EndHears(n, x) PROVE TypeOK'
      <2>1. n \in Node
          BY <1>0
      <2>2. air' \subseteq Reception
          BY <1>6 DEF EndForgets, EndHears, Handle, TypeOK
      <2>3. \/ seen' = [seen EXCEPT ![n] = @ \union {x.pkt}] \/ seen' = seen
            \/ seen' = [seen EXCEPT ![n] = @ \ {x.pkt}]
          BY <1>6 DEF EndForgets, EndHears, Handle
      <2>4. seen' \in [Node -> SUBSET Packet]
          BY <1>0, <2>1, <2>3 DEF TypeOK
      <2> QED BY <1>6, <2>2, <2>4 DEF EndForgets, EndHears, NotSent, ends, TypeOK
  <1> QED BY <1>1, <1>2, <1>3, <1>4, <1>5, <1>6

\* LinkRelay keeps its types: link tables, reverse tables, hash lists and
\* everything on the air are well formed, and an active link is attached.
THEOREM TypeCorrect == Spec => []TypeOK
  <1>1. TypeOK /\ [Next]_vars => TypeOK'
      <2> SUFFICES ASSUME TypeOK, [Next]_vars PROVE TypeOK'
          OBVIOUS
      <2>1. CASE \E x \in air : Inbound(x)
          BY <2>1, RelayType, EndType DEF Inbound
      <2>2. CASE \E r \in Relay :
                   \/ CullUnproven(r) \/ CullLink(r) \/ CullReverse(r)
                   \/ \E p \in Routes[r] \union {None} : PathChanges(r, p)
          BY <2>2, JobsType
      <2>3. CASE RequestLink \/ SendMessage \/ SendKeepalive
          BY <2>3, SendType
      <2>4. CASE UNCHANGED vars
          BY <2>4 DEF vars, TypeOK
      <2> QED BY <2>1, <2>2, <2>3, <2>4 DEF Next
  <1> QED BY <1>1, InitType, PTL DEF Spec

-----------------------------------------------------------------------------
(* RelayedOnce.                                                            *)

Filterable == Packet \ ({"LRP"} \union Exempt)

\* What a relay has transmitted is in its hash list, so that it does not
\* pass the filter again.
SentIsSeen ==
    \A r \in Relay, p \in Filterable : <<r, p>> \in sent => p \in seen[r]

OnceInv == SentIsSeen /\ RelayedOnce

\* A relay that transmits a packet that passes the filter, and remembers it,
\* keeps the invariant.
LEMMA OnceStep ==
    ASSUME TypeOK, OnceInv, NEW r \in Relay, NEW x \in air,
           packet_filter(r, x), Sent(r, x.pkt),
           x.pkt \in Filterable => seen' = [seen EXCEPT ![r] = @ \union {x.pkt}],
           x.pkt \notin Filterable => seen' = [seen EXCEPT ![r] = @ \union {x.pkt}] \/ seen' = seen
    PROVE  OnceInv'
  <1>0. r \in Node /\ x.pkt \in Packet /\ seen \in [Node -> SUBSET Packet]
      BY ReceptionType DEF TypeOK, Node
  <1>1. x.pkt \in Filterable => <<r, x.pkt>> \notin sent
      BY DEF OnceInv, SentIsSeen, packet_filter, Filterable
  <1>2. \A s \in Node : seen[s] \subseteq seen'[s]
      BY <1>0
  <1>3. x.pkt \in Filterable => x.pkt \in seen'[r]
      BY <1>0
  <1>4. SentIsSeen'
      BY <1>0, <1>2, <1>3 DEF OnceInv, SentIsSeen, Sent, Node
  <1>5. RelayedOnce'
      BY <1>1 DEF OnceInv, RelayedOnce, Sent, Filterable
  <1> QED BY <1>4, <1>5 DEF OnceInv

\* A step in which no relay transmits keeps it, as nothing is forgotten.
LEMMA OnceQuiet ==
    ASSUME OnceInv,
           \A r \in Relay : seen[r] \subseteq seen'[r],
           \A r \in Relay, p \in Packet : <<r, p>> \in sent' => <<r, p>> \in sent,
           \A r \in Relay, p \in Packet : <<r, p>> \in again' => <<r, p>> \in again
    PROVE  OnceInv'
  BY DEF OnceInv, SentIsSeen, RelayedOnce, Filterable

\* Every step keeps it.
LEMMA OnceInductive == TypeOK /\ OnceInv /\ [Next]_vars => OnceInv'
  <1> SUFFICES ASSUME TypeOK, OnceInv, [Next]_vars PROVE OnceInv'
      OBVIOUS
  <1>1. ASSUME NEW x \in air, NEW r \in Relay,
               \/ RelayRequest(r, x) \/ RelayMessage(r, x) \/ RelayTraffic(r, x)
               \/ RelayLinkProof(r, x) \/ RelayProof(r, x)
        PROVE  OnceInv'
      <2>1. packet_filter(r, x) /\ Sent(r, x.pkt)
          BY <1>1 DEF RelayRequest, RelayMessage, RelayTraffic, RelayLinkProof,
                      RelayProof, InTransport
      <2>2. seen' = [seen EXCEPT ![r] = @ \union {x.pkt}] \/ seen' = seen
          BY <1>1 DEF RelayRequest, RelayMessage, RelayTraffic, RelayLinkProof,
                      RelayProof, Handle
      <2>3. x.pkt \in Filterable => seen' = [seen EXCEPT ![r] = @ \union {x.pkt}]
          <3>1. CASE RelayTraffic(r, x)
              BY <3>1 DEF RelayTraffic, Handle
          <3>2. CASE ~ RelayTraffic(r, x)
              BY <1>1, <3>2 DEF RelayRequest, RelayMessage, RelayLinkProof, RelayProof,
                   IsLinkProof, IsProof, Handle, remember_packet_hash, Filterable, Exempt, LinkTraffic
          <3> QED BY <3>1, <3>2
      <2> QED BY <2>1, <2>2, <2>3, OnceStep
  <1>2. ASSUME NEW x \in air, NEW r \in Relay, Filtered(r, x) \/ NotTransported(r, x)
        PROVE  OnceInv'
      <2>1. \A s \in Relay : seen[s] \subseteq seen'[s]
          BY <1>2 DEF Filtered, NotTransported, Handle, TypeOK, Node
      <2> QED BY <1>2, <2>1, OnceQuiet DEF Filtered, NotTransported, NotSent
  <1>3. ASSUME NEW x \in air,
               \/ RespondLinkRequest(x) \/ ReceiveRTT(x) \/ AnswerKeepalive(x)
               \/ ProveMessage(x) \/ ReceiveLinkProof(x)
        PROVE  OnceInv'
      <2>1. PICK n \in {A, D}, p \in Packet : Answer(n, x, p)
          BY <1>3 DEF RespondLinkRequest, ReceiveRTT, AnswerKeepalive, ProveMessage,
                      ReceiveLinkProof, Packet
      <2>2. \A s \in Relay : seen'[s] = seen[s]
          BY <2>1, NodeAssumption DEF Answer, TypeOK, Node
      <2> QED BY <2>1, <2>2, OnceQuiet, NodeAssumption DEF Answer, Sent
  <1>4. ASSUME NEW x \in air, NEW n \in {A, D}, EndForgets(n, x) \/ EndHears(n, x)
        PROVE  OnceInv'
      <2>1. \A s \in Relay : seen'[s] = seen[s]
          BY <1>4, NodeAssumption DEF EndForgets, EndHears, Handle, TypeOK, Node
      <2> QED BY <1>4, <2>1, OnceQuiet DEF EndForgets, EndHears, NotSent
  <1>5. CASE RequestLink \/ SendMessage \/ SendKeepalive
      <2>1. \A s \in Relay : seen'[s] = seen[s]
          BY <1>5, NodeAssumption DEF RequestLink, SendMessage, SendKeepalive, TypeOK, Node
      <2>2. PICK p \in Packet : Sent(A, p)
          BY <1>5 DEF RequestLink, SendMessage, SendKeepalive, Packet
      <2> QED BY <2>1, <2>2, OnceQuiet, NodeAssumption DEF Sent
  <1>6. ASSUME NEW r \in Relay,
               \/ CullUnproven(r) \/ CullLink(r) \/ CullReverse(r)
               \/ \E p \in Routes[r] \union {None} : PathChanges(r, p)
        PROVE  OnceInv'
      <2>1. seen' = seen /\ sent' = sent /\ again' = again
          BY <1>6 DEF CullUnproven, CullLink, CullReverse, PathChanges, NotSent
      <2> QED BY <2>1, OnceQuiet
  <1>7. CASE UNCHANGED vars
      BY <1>7, OnceQuiet DEF vars
  <1> QED BY <1>1, <1>2, <1>3, <1>4, <1>5, <1>6, <1>7 DEF Next, Inbound

\* No relay transmits a request, a message, a proof or a packet of a link
\* twice, whoever hears whom and in whatever order receptions are handled.
THEOREM RelayedOnceHolds == Spec => []RelayedOnce
  <1>1. Init => OnceInv
      BY DEF Init, OnceInv, SentIsSeen, RelayedOnce
  <1>2. OnceInv => RelayedOnce
      BY DEF OnceInv
  <1> QED BY <1>1, <1>2, OnceInductive, TypeCorrect, PTL DEF Spec

-----------------------------------------------------------------------------
(* FilteredIsRelayed.  The invariant is not inductive: a relay that comes   *)
(* by a link table entry after it heard packets of the link, which it       *)
(* remembered for want of an entry, would be deaf to them.  That it never   *)
(* happens takes the whole journey of the request: it is in the hands of    *)
(* one relay at a time, and no packet of the link is sent before the        *)
(* request has left the last of them.                                       *)

\* Nothing of the link but the request was transmitted or heard.
Quiet ==
    /\ \A x \in air : x.pkt \in {"LR", "MSG", "PRF"}
    /\ \A r \in Relay : seen[r] \cap LinkTraffic = {}

\* The request is on its way to r, which has not seen it.
Live(r) ==
    /\ "LR" \notin seen[r]
    /\ \E x \in air : x.pkt = "LR" /\ x.tid = r

\* The copies on the air of a request that is on its way to r: they are for
\* r, or for a relay that filters them.
OnlyFor(r) ==
    \A x \in air :
        x.pkt = "LR" => x.tid = r \/ (x.tid \in Relay /\ "LR" \in seen[x.tid])

HandoverInv ==
    /\ astate = "none" => Quiet /\ \A x \in air : x.pkt # "LR"
    /\ \A r \in Relay : Live(r) => astate = "pending" /\ Quiet /\ OnlyFor(r)

RelayInv == HandoverInv /\ FilteredIsRelayed

\* A step that transmits no request keeps HandoverInv, if it transmits none
\* of the link's packets as long as all is quiet.
LEMMA HandoverKept ==
    ASSUME HandoverInv,
           \A r \in Relay : "LR" \in seen[r] => "LR" \in seen'[r],
           \A x \in air' : x.pkt = "LR" => x \in air,
           Quiet => Quiet' /\ astate' = astate,
           astate' = "none" => astate = "none"
    PROVE  HandoverInv'
  <1>1. ASSUME NEW r \in Relay, Live(r)' PROVE Live(r) /\ OnlyFor(r)'
      <2>1. Live(r)
          BY <1>1 DEF Live
      <2>2. OnlyFor(r)
          BY <2>1 DEF HandoverInv
      <2> QED BY <2>1, <2>2 DEF OnlyFor
  <1> QED BY <1>1 DEF HandoverInv

\* As long as all is quiet, a step that neither hears nor transmits a packet
\* of the link keeps it so.
LEMMA QuietKept ==
    ASSUME NEW P \in SUBSET {"LR", "MSG", "PRF"},
           \A x \in air' : x \in air \/ x.pkt \in P,
           \A r \in Relay : seen'[r] \cap LinkTraffic \subseteq seen[r]
    PROVE  Quiet => Quiet'
  BY DEF Quiet

\* What a transmission consists of.
LEMMA TransmitPacket ==
    ASSUME NEW x, NEW m, NEW p, NEW h, NEW t, NEW z \in Transmit(x, m, p, h, t)
    PROVE  z.pkt = p /\ z.tid = t
  <1>1. PICK y \in Node : z = [to |-> y, on |-> m, pkt |-> p, hops |-> h, tid |-> t]
      BY DEF Transmit
  <1> QED BY <1>1

\* The request is handed on: only the relay it was for may do so.
LEMMA HandoverRequest ==
    ASSUME TypeOK, RelayInv, NEW r \in Relay, NEW x \in air, RelayRequest(r, x)
    PROVE  RelayInv'
  <1>1. /\ x.pkt = "LR" /\ x.tid = r /\ "LR" \notin seen[r]
        /\ r \in Node /\ Relay \subseteq Node
      BY DEF RelayRequest, InTransport, packet_filter, Exempt, Node
  <1>2. Live(r)
      BY <1>1 DEF Live
  <1>3. astate = "pending" /\ Quiet /\ OnlyFor(r)
      BY <1>2 DEF RelayInv, HandoverInv
  <1>4. /\ astate' = "pending"
        /\ seen' = [seen EXCEPT ![r] = @ \union {"LR"}]
        /\ air' = (air \ {x}) \union Forward(r, x)
      <2>1. remember_packet_hash(r, x)
          BY <1>1 DEF remember_packet_hash, LinkTraffic, Exempt
      <2> QED BY <1>1, <1>3, <2>1 DEF RelayRequest, Handle, ends
  <1>5. PICK t : \A z \in Forward(r, x) : z.pkt = "LR" /\ z.tid = t
      <2>1. PICK u : u = IF path[r].hops > 1 THEN path[r].next ELSE None
          OBVIOUS
      <2> QED BY <1>1, <2>1, TransmitPacket DEF Forward
  <1>6. seen \in [Node -> SUBSET Packet]
      BY DEF TypeOK
  <1>7. \A s \in Relay : seen'[s] = IF s = r THEN seen[s] \union {"LR"} ELSE seen[s]
      BY <1>1, <1>4, <1>6
  <1>8. \A s \in Relay : seen'[s] \cap LinkTraffic = seen[s] \cap LinkTraffic
      BY <1>7 DEF LinkTraffic, Exempt
  <1>9. Quiet'
      BY <1>3, <1>4, <1>5, <1>8 DEF Quiet
  <1>10. ASSUME NEW s \in Relay, Live(s)' PROVE OnlyFor(s)'
      <2>1. "LR" \notin seen[s] /\ s # r
          BY <1>7, <1>10 DEF Live
      <2>2. \A z \in air : z.pkt = "LR" => z.tid # s
          BY <1>3, <2>1 DEF OnlyFor
      <2>3. s = t
          BY <1>4, <1>5, <1>10, <2>2 DEF Live
      <2>4. ASSUME NEW z \in air, z.pkt = "LR" PROVE z.tid \in Relay /\ "LR" \in seen'[z.tid]
          BY <1>3, <1>7, <2>4 DEF OnlyFor
      <2> QED BY <1>4, <1>5, <2>3, <2>4 DEF OnlyFor
  <1>11. HandoverInv'
      BY <1>4, <1>9, <1>10 DEF HandoverInv
  <1>12. \A s \in Relay : seen'[s] \cap LinkTraffic = {}
      BY <1>9 DEF Quiet
  <1>13. FilteredIsRelayed'
      BY <1>12 DEF FilteredIsRelayed
  <1> QED BY <1>11, <1>13 DEF RelayInv

\* The request is sent.
LEMMA HandoverFirst ==
    ASSUME TypeOK, RelayInv, RequestLink
    PROVE  RelayInv'
  <1>1. /\ Quiet /\ \A x \in air : x.pkt # "LR"
        /\ astate' = "pending" /\ seen' = seen /\ link' = link
        /\ air' = air \union Outbound("LR")
      BY DEF RequestLink, RelayInv, HandoverInv
  <1>2. PICK t : \A z \in Outbound("LR") : z.pkt = "LR" /\ z.tid = t
      <2>1. PICK u : u = IF path[A].hops > 1 THEN path[A].next ELSE None
          OBVIOUS
      <2> QED BY <2>1, TransmitPacket DEF Outbound
  <1>3. Quiet'
      BY <1>1, <1>2 DEF Quiet
  <1>4. ASSUME NEW s \in Relay, Live(s)' PROVE OnlyFor(s)'
      <2>1. s = t
          BY <1>1, <1>2, <1>4 DEF Live
      <2> QED BY <1>1, <1>2, <2>1 DEF OnlyFor
  <1>5. HandoverInv'
      BY <1>1, <1>3, <1>4 DEF HandoverInv
  <1>6. FilteredIsRelayed'
      BY <1>1 DEF RelayInv, Quiet, FilteredIsRelayed
  <1> QED BY <1>5, <1>6 DEF RelayInv

\* A step in which no relay comes by an entry, remembers a packet of the
\* link without transmitting it while it has an entry, or forgets what it
\* transmitted, keeps FilteredIsRelayed.
LEMMA FilteredKept ==
    ASSUME FilteredIsRelayed,
           \A r \in Relay : link'[r] # None => link[r] # None,
           \A r \in Relay, p \in LinkTraffic :
               link[r] # None /\ p \in seen'[r] => p \in seen[r] \/ <<r, p>> \in sent',
           sent \subseteq sent'
    PROVE  FilteredIsRelayed'
  BY DEF FilteredIsRelayed

\* The other steps of a relay.
LEMMA RelayKept ==
    ASSUME TypeOK, RelayInv, NEW r \in Relay, NEW x \in air,
           \/ Filtered(r, x) \/ RelayMessage(r, x) \/ RelayTraffic(r, x)
           \/ RelayLinkProof(r, x) \/ RelayProof(r, x) \/ NotTransported(r, x)
    PROVE  RelayInv'
  <1>0. /\ r \in Node /\ x \in Reception /\ x.pkt \in Packet /\ Relay \subseteq Node
        /\ seen \in [Node -> SUBSET Packet]
        /\ link \in [Relay -> LinkEntry \union {None}]
      BY ReceptionType DEF TypeOK, Node
  <1>1. astate' = astate /\ sent \subseteq sent'
      BY DEF Filtered, RelayMessage, RelayTraffic, RelayLinkProof, RelayProof,
             NotTransported, ends, Sent, NotSent
  <1>2. CASE Filtered(r, x)
      <2>1. air' \subseteq air /\ seen' = seen /\ link' = link
          BY <1>2 DEF Filtered
      <2>2. HandoverInv'
          BY <1>1, <2>1, QuietKept, HandoverKept DEF RelayInv
      <2> QED BY <1>1, <2>1, <2>2, FilteredKept DEF RelayInv
  <1>3. CASE RelayMessage(r, x) \/ RelayProof(r, x)
      <2>1. /\ x.pkt \in {"MSG", "PRF"} /\ link' = link
            /\ seen' = [seen EXCEPT ![r] = @ \union {x.pkt}] \/ seen' = seen
            /\ \A z \in air' : z \in air \/ z.pkt = x.pkt
          BY <1>3, TransmitPacket
          DEF RelayMessage, RelayProof, IsProof, Handle, Forward
      <2>2. \A s \in Relay, p \in Packet \ {"MSG", "PRF"} : p \in seen'[s] <=> p \in seen[s]
          BY <1>0, <2>1
      <2>3. LinkTraffic \subseteq Packet \ {"MSG", "PRF"} /\ "LR" \in Packet \ {"MSG", "PRF"}
          BY DEF LinkTraffic, Exempt, Packet
      <2>4. \A s \in Relay, p \in LinkTraffic : p \in seen'[s] <=> p \in seen[s]
          BY <2>2, <2>3
      <2>5. Quiet => Quiet'
          BY <2>1, <2>4 DEF Quiet
      <2>6. HandoverInv'
          BY <1>1, <2>1, <2>2, <2>3, <2>5, HandoverKept DEF RelayInv
      <2> QED BY <1>1, <2>1, <2>4, <2>6, FilteredKept DEF RelayInv
  <1>4. CASE RelayTraffic(r, x)
      <2>1. /\ x.pkt \in LinkTraffic /\ link' = link
            /\ seen' = [seen EXCEPT ![r] = @ \union {x.pkt}]
            /\ sent' = sent \union {<<r, x.pkt>>}
            /\ \A z \in air' : z \in air \/ z.pkt = x.pkt
          BY <1>4, TransmitPacket DEF RelayTraffic, IsTraffic, Handle, Sent
      <2>2. x.pkt \notin {"LR", "MSG", "PRF"}
          BY <2>1 DEF LinkTraffic, Exempt
      <2>3. ~ Quiet
          BY <2>2 DEF Quiet
      <2>4. \A s \in Relay : "LR" \in seen'[s] <=> "LR" \in seen[s]
          BY <1>0, <2>1, <2>2
      <2>5. HandoverInv'
          BY <1>1, <2>1, <2>2, <2>3, <2>4, HandoverKept DEF RelayInv
      <2>6. \A s \in Relay, p \in LinkTraffic :
               p \in seen'[s] => p \in seen[s] \/ <<s, p>> \in sent'
          BY <1>0, <2>1
      <2> QED BY <1>1, <2>1, <2>5, <2>6, FilteredKept DEF RelayInv
  <1>5. CASE RelayLinkProof(r, x)
      <2>1. x.pkt = "LRP" /\ link[r] # None
          BY <1>5 DEF RelayLinkProof, IsLinkProof
      <2>2. seen' = seen /\ \A z \in air' : z \in air \/ z.pkt = "LRP"
          BY <1>5, <2>1, TransmitPacket DEF RelayLinkProof, Handle, remember_packet_hash
      <2>3. ~ Quiet
          BY <2>1 DEF Quiet
      <2>4. HandoverInv'
          BY <1>1, <2>2, <2>3, HandoverKept DEF RelayInv
      <2>5. \A s \in Relay : link'[s] # None => link[s] # None
          BY <1>0, <1>5, <2>1 DEF RelayLinkProof
      <2> QED BY <1>1, <2>2, <2>4, <2>5, FilteredKept DEF RelayInv
  <1>6. CASE NotTransported(r, x)
      <2>1. /\ air' \subseteq air /\ link' = link
            /\ seen' = IF remember_packet_hash(r, x)
                         THEN [seen EXCEPT ![r] = @ \union {x.pkt}] ELSE seen
          BY <1>6 DEF NotTransported, Handle
      <2>2. \A s \in Relay, p \in LinkTraffic : link[s] # None => (p \in seen'[s] <=> p \in seen[s])
          BY <1>0, <2>1 DEF remember_packet_hash
      <2>3. Quiet => Quiet'
          <3> SUFFICES ASSUME Quiet PROVE Quiet'
              OBVIOUS
          <3>1. x.pkt \notin LinkTraffic
              BY DEF Quiet, LinkTraffic, Exempt
          <3>2. \A s \in Relay : seen'[s] \cap LinkTraffic = seen[s] \cap LinkTraffic
              BY <1>0, <2>1, <3>1
          <3> QED BY <2>1, <3>2 DEF Quiet
      <2>4. HandoverInv'
          <3>1. \A s \in Relay : "LR" \in seen[s] => "LR" \in seen'[s]
              BY <1>0, <2>1
          <3> QED BY <1>1, <2>1, <2>3, <3>1, HandoverKept DEF RelayInv
      <2> QED BY <1>1, <2>1, <2>2, <2>4, FilteredKept DEF RelayInv
  <1> QED BY <1>2, <1>3, <1>4, <1>5, <1>6

\* The two ends, when they receive: D answers the request only once it has
\* left the last relay.
LEMMA EndKept ==
    ASSUME TypeOK, RelayInv, NEW x \in air,
           \/ RespondLinkRequest(x) \/ ReceiveRTT(x) \/ AnswerKeepalive(x)
           \/ ProveMessage(x) \/ ReceiveLinkProof(x)
           \/ \E n \in {A, D} : EndForgets(n, x) \/ EndHears(n, x)
    PROVE  RelayInv'
  <1>0. seen \in [Node -> SUBSET Packet] /\ A \in Node /\ D \in Node /\ Relay \subseteq Node
      BY DEF TypeOK, Node
  <1>1. \A s \in Relay : seen'[s] = seen[s]
      BY <1>0, NodeAssumption
      DEF RespondLinkRequest, ReceiveRTT, AnswerKeepalive, ProveMessage,
          ReceiveLinkProof, Answer, EndForgets, EndHears, Handle
  <1>2. link' = link /\ sent \subseteq sent'
      BY DEF RespondLinkRequest, ReceiveRTT, AnswerKeepalive, ProveMessage,
             ReceiveLinkProof, Answer, EndForgets, EndHears, Sent, NotSent
  <1>3. FilteredIsRelayed'
      BY <1>1, <1>2, FilteredKept DEF RelayInv
  <1>4. CASE RespondLinkRequest(x)
      <2>1. /\ x.pkt = "LR" /\ x.tid \in {None, D} /\ astate' = astate
            /\ \A z \in air' : z \in air \/ z.pkt = "LRP"
          BY <1>4, TransmitPacket DEF RespondLinkRequest, Answer, packet_filter
      <2>2. x.tid \notin Relay
          BY <2>1, NodeAssumption, RouteAssumption DEF Node
      <2>3. \A s \in Relay : ~ Live(s)
          BY <2>1, <2>2 DEF RelayInv, HandoverInv, OnlyFor
      <2>4. \A s \in Relay : ~ Live(s)'
          BY <1>1, <2>1, <2>3 DEF Live
      <2>5. astate' # "none"
          BY <2>1 DEF RelayInv, HandoverInv
      <2> QED BY <1>3, <2>4, <2>5 DEF RelayInv, HandoverInv
  <1>5. CASE ReceiveRTT(x) \/ AnswerKeepalive(x) \/ ReceiveLinkProof(x)
      <2>1. /\ x.pkt \in {"RTT", "KEEP", "LRP"}
            /\ astate' = "none" => astate = "none"
            /\ \A z \in air' : z \in air \/ z.pkt \in {"DAT", "ACK", "RTT"}
          BY <1>5, TransmitPacket
          DEF ReceiveRTT, AnswerKeepalive, ReceiveLinkProof, Answer, ends
      <2>2. ~ Quiet
          BY <2>1 DEF Quiet
      <2>3. HandoverInv'
          BY <1>1, <2>1, <2>2, HandoverKept DEF RelayInv
      <2> QED BY <1>3, <2>3 DEF RelayInv
  <1>6. CASE ProveMessage(x) \/ \E n \in {A, D} : EndForgets(n, x) \/ EndHears(n, x)
      <2>1. astate' = astate /\ \A z \in air' : z \in air \/ z.pkt = "PRF"
          BY <1>6, TransmitPacket DEF ProveMessage, Answer, EndForgets, EndHears, Handle, ends
      <2>2. Quiet => Quiet'
          BY <1>1, <2>1 DEF Quiet
      <2>3. HandoverInv'
          BY <1>1, <2>1, <2>2, HandoverKept DEF RelayInv
      <2> QED BY <1>3, <2>3 DEF RelayInv
  <1> QED BY <1>4, <1>5, <1>6

\* Every step keeps the invariant.
LEMMA RelayInductive == TypeOK /\ RelayInv /\ [Next]_vars => RelayInv'
  <1> SUFFICES ASSUME TypeOK, RelayInv, [Next]_vars PROVE RelayInv'
      OBVIOUS
  <1>1. CASE \E x \in air : Inbound(x)
      BY <1>1, RelayKept, HandoverRequest, EndKept DEF Inbound
  <1>2. ASSUME NEW r \in Relay,
               \/ CullUnproven(r) \/ CullLink(r) \/ CullReverse(r)
               \/ \E p \in Routes[r] \union {None} : PathChanges(r, p)
        PROVE  RelayInv'
      <2>1. seen' = seen /\ sent' = sent /\ air' = air /\ astate' = astate
          BY <1>2 DEF CullUnproven, CullLink, CullReverse, PathChanges, NotSent, ends
      <2>2. link' = link \/ link' = [link EXCEPT ![r] = None]
          BY <1>2 DEF CullUnproven, CullLink, CullReverse, PathChanges
      <2>3. \A s \in Relay : link'[s] # None => link[s] # None
          BY <2>2 DEF TypeOK
      <2>4. Quiet => Quiet'
          BY <2>1 DEF Quiet
      <2>5. HandoverInv'
          BY <2>1, <2>4, HandoverKept DEF RelayInv
      <2> QED BY <2>1, <2>3, <2>5, FilteredKept DEF RelayInv
  <1>3. CASE RequestLink
      BY <1>3, HandoverFirst
  <1>4. CASE SendMessage
      <2>1. /\ seen' = seen /\ link' = link /\ astate' = astate /\ sent \subseteq sent'
            /\ \A z \in air' : z \in air \/ z.pkt = "MSG"
          BY <1>4, TransmitPacket DEF SendMessage, Outbound, Sent, ends
      <2>2. Quiet => Quiet'
          BY <2>1 DEF Quiet
      <2>3. HandoverInv'
          BY <2>1, <2>2, HandoverKept DEF RelayInv
      <2> QED BY <2>1, <2>3, FilteredKept DEF RelayInv
  <1>5. CASE SendKeepalive
      <2>1. /\ astate = "active" /\ link' = link /\ astate' = astate /\ sent \subseteq sent'
            /\ \A z \in air' : z \in air \/ z.pkt = "KEEP"
          BY <1>5, TransmitPacket DEF SendKeepalive, Sent, ends
      <2>2. \A s \in Relay : seen'[s] = seen[s]
          BY <1>5, NodeAssumption DEF SendKeepalive, TypeOK, Node
      <2>3. \A s \in Relay : ~ Live(s)
          BY <2>1 DEF RelayInv, HandoverInv
      <2>4. \A s \in Relay : ~ Live(s)'
          BY <2>1, <2>2, <2>3 DEF Live
      <2>5. HandoverInv'
          BY <2>1, <2>4 DEF HandoverInv
      <2> QED BY <2>1, <2>2, <2>5, FilteredKept DEF RelayInv
  <1>6. CASE UNCHANGED vars
      BY <1>6 DEF vars, RelayInv, HandoverInv, Quiet, Live, OnlyFor, FilteredIsRelayed
  <1> QED BY <1>1, <1>2, <1>3, <1>4, <1>5, <1>6 DEF Next

\* A packet of a link that a relay with a link table entry filters is one it
\* has transmitted, whoever hears whom, whatever the routes and however late
\* the copies arrive: no copy that comes from the wrong side, or ahead of
\* the request, makes the relay deaf to the right one.
THEOREM FilteredIsRelayedHolds == Spec => []FilteredIsRelayed
  <1>1. Init => RelayInv
      BY DEF Init, RelayInv, HandoverInv, Quiet, Live, FilteredIsRelayed, Node
  <1>2. RelayInv => FilteredIsRelayed
      BY DEF RelayInv
  <1> QED BY <1>1, <1>2, RelayInductive, TypeCorrect, PTL DEF Spec

-----------------------------------------------------------------------------
(* CarriedIsValidated, on networks in order (LayeredBy).  The request moves  *)
(* forward, so that no two entries have the same place in the order; the    *)
(* link proof goes back one place at a time, so that behind it every entry  *)
(* is validated; and nothing of the link is sent before it arrived at A.    *)

\* The path table has one of the routes a relay may come by.
OnRoute == \A r \in Relay \union {A} : path[r] \in Routes[r] \union {None}

\* The request moves forward, and who has an entry has remembered it.
Ahead(pos) ==
    /\ \A r \in Relay : link[r] # None => pos[A] < pos[r] /\ "LR" \in seen[r]
    /\ \A r, s \in Relay :
          link[r] # None /\ link[s] # None /\ pos[r] = pos[s] => r = s
    /\ \A r \in Relay : Live(r) =>
          pos[A] < pos[r] /\ \A s \in Relay : link[s] # None => pos[s] < pos[r]
    /\ astate = "none" => \A r \in Relay : link[r] = None

\* Behind a link proof every entry is validated.
Behind(pos) ==
    \A x \in air : x.pkt = "LRP" =>
        \A r \in Relay : link[r] # None /\ pos[x.to] < pos[r] => link[r].validated

\* Traffic is sent only on a link that is active at A, and then every entry is
\* validated.
ActiveFirst ==
    /\ astate = "active" => \A r \in Relay : link[r] # None => link[r].validated
    /\ \A x \in air : x.pkt \in LinkTraffic => astate = "active"
    /\ \A r \in Relay, p \in LinkTraffic : <<r, p>> \in sent => astate = "active"

OrderInv(pos) == OnRoute /\ Ahead(pos) /\ Behind(pos) /\ ActiveFirst

\* A step in which no relay comes by an entry, and that sends neither a request
\* nor a link proof, keeps the invariant, if what it sends of the link's traffic
\* is sent on an active link.
LEMMA OrderKept ==
    ASSUME NEW pos, OrderInv(pos), OnRoute',
           \A r \in Relay : link'[r] # None =>
               link[r] # None /\ (link[r].validated => link'[r].validated),
           \A r \in Relay : "LR" \in seen[r] => "LR" \in seen'[r],
           \A x \in air' : x.pkt \in {"LR", "LRP"} => x \in air,
           \A x \in air' : x.pkt \in LinkTraffic => astate = "active",
           \A r \in Relay, p \in LinkTraffic :
               <<r, p>> \in sent' => <<r, p>> \in sent \/ astate = "active",
           astate' = astate
    PROVE  OrderInv(pos)'
  <1>1. \A r \in Relay : Live(r)' => Live(r)
      BY DEF Live
  <1>2. Ahead(pos)'
      BY <1>1 DEF OrderInv, Ahead
  <1>3. Behind(pos)'
      BY DEF OrderInv, Behind
  <1>4. ActiveFirst'
      BY DEF OrderInv, ActiveFirst
  <1> QED BY <1>2, <1>3, <1>4 DEF OrderInv

\* Who hears what is transmitted.
LEMMA TransmitHeard ==
    ASSUME NEW x, NEW m, NEW p, NEW h, NEW t, NEW z \in Transmit(x, m, p, h, t)
    PROVE  z.to \in Node /\ <<m, x, z.to>> \in Hears
  <1>1. PICK y \in {w \in Node : <<m, x, w>> \in Hears} :
            z = [to |-> y, on |-> m, pkt |-> p, hops |-> h, tid |-> t]
      BY DEF Transmit
  <1> QED BY <1>1

\* It is heard no further back than just before the sender.
LEMMA HeardNear ==
    ASSUME NEW pos \in [Node -> Nat], LayeredBy(pos),
           NEW x \in Node, NEW m, NEW p, NEW h, NEW t, NEW z \in Transmit(x, m, p, h, t)
    PROVE  pos[z.to] \in Nat /\ pos[x] <= pos[z.to] + 1
  <1>1. z.to \in Node /\ <<m, x, z.to>> \in Hears
      BY TransmitHeard
  <1>2. pos[<<m, x, z.to>>[2]] <= pos[<<m, x, z.to>>[3]] + 1
      BY <1>1 DEF LayeredBy
  <1> QED BY <1>1, <1>2

\* The request is handed on to a relay further ahead.
LEMMA OrderRequest ==
    ASSUME NEW pos \in [Node -> Nat], LayeredBy(pos), TypeOK, RelayInv, OrderInv(pos),
           NEW r \in Relay, NEW x \in air, RelayRequest(r, x)
    PROVE  OrderInv(pos)'
  <1>1. /\ x.pkt = "LR" /\ x.tid = r /\ "LR" \notin seen[r] /\ path[r] # None
        /\ r \in Node /\ Relay \subseteq Node
      BY DEF RelayRequest, InTransport, packet_filter, Exempt, Node
  <1>2. Live(r)
      BY <1>1 DEF Live
  <1>3. astate = "pending" /\ Quiet /\ OnlyFor(r)
      BY <1>2 DEF RelayInv, HandoverInv
  <1>4. /\ astate' = "pending" /\ path' = path
        /\ seen' = [seen EXCEPT ![r] = @ \union {"LR"}]
        /\ air' = (air \ {x}) \union Forward(r, x)
        /\ sent' = sent \union {<<r, "LR">>}
      <2>1. remember_packet_hash(r, x)
          BY <1>1 DEF remember_packet_hash, LinkTraffic, Exempt
      <2> QED BY <1>1, <1>3, <2>1 DEF RelayRequest, Handle, Sent, ends
  <1>5. \A s \in Relay : seen'[s] = IF s = r THEN seen[s] \union {"LR"} ELSE seen[s]
      BY <1>1, <1>4 DEF TypeOK
  <1>6. link[r] = None /\ \A s \in Relay : s # r => link'[s] = link[s]
      BY <1>1 DEF OrderInv, Ahead, RelayRequest, TypeOK
  <1>7. PICK u : u = IF path[r].hops > 1 THEN path[r].next ELSE None
      OBVIOUS
  <1>8. \A z \in Forward(r, x) : z.pkt = "LR" /\ z.tid = u
      BY <1>1, <1>7, TransmitPacket DEF Forward
  <1>9. u \in Relay => pos[r] < pos[u]
      <2>1. path[r] \in Routes[r] /\ None \notin Relay
          BY <1>1, RouteAssumption DEF OrderInv, OnRoute, Node
      <2> QED BY <1>7, <2>1 DEF LayeredBy
  <1>10. /\ pos[A] < pos[r]
         /\ \A s \in Relay : link[s] # None => pos[s] < pos[r]
      BY <1>2 DEF OrderInv, Ahead
  <1>11. ASSUME NEW s \in Relay, Live(s)' PROVE s = u
      <2>1. "LR" \notin seen[s] /\ s # r
          BY <1>5, <1>11 DEF Live
      <2>2. \A z \in air : z.pkt = "LR" => z.tid # s
          BY <1>3, <2>1 DEF OnlyFor
      <2> QED BY <1>4, <1>8, <1>11, <2>2 DEF Live
  <1>12. /\ \A s \in Node : pos[s] \in Nat
         /\ A \in Node
      BY DEF Node
  <1>13. Ahead(pos)'
      <2>1. \A s \in Relay : link'[s] # None =>
                /\ pos[A] < pos[s] /\ "LR" \in seen'[s]
                /\ s = r \/ pos[s] < pos[r]
          BY <1>5, <1>6, <1>10 DEF OrderInv, Ahead
      <2>2. ASSUME NEW s \in Relay, NEW q \in Relay,
                   link'[s] # None, link'[q] # None, pos[s] = pos[q]
            PROVE  s = q
          <3>1. CASE s = r \/ q = r
              BY <1>1, <1>12, <2>1, <2>2, <3>1
          <3>2. CASE s # r /\ q # r
              BY <1>6, <2>2, <3>2 DEF OrderInv, Ahead
          <3> QED BY <3>1, <3>2
      <2>3. ASSUME NEW s \in Relay, Live(s)'
            PROVE  pos[A] < pos[s] /\ \A q \in Relay : link'[q] # None => pos[q] < pos[s]
          <3>1. s = u /\ pos[r] < pos[s]
              BY <1>9, <1>11, <2>3
          <3>2. \A q \in Relay : link'[q] # None => pos[q] <= pos[r]
              BY <1>1, <1>12, <2>1
          <3> QED BY <1>1, <1>10, <1>12, <3>1, <3>2
      <2> QED BY <1>4, <2>1, <2>2, <2>3 DEF Ahead
  <1>14. Behind(pos)'
      BY <1>3, <1>4, <1>8 DEF Quiet, Behind
  <1>15. ActiveFirst'
      <2>1. \A z \in air' : z.pkt \notin LinkTraffic
          BY <1>3, <1>4, <1>8 DEF Quiet, LinkTraffic, Exempt
      <2>2. \A s \in Relay, p \in LinkTraffic : <<s, p>> \notin sent
          BY <1>3 DEF OrderInv, ActiveFirst
      <2>3. \A s \in Relay, p \in LinkTraffic : <<s, p>> \notin sent'
          BY <1>4, <2>2 DEF LinkTraffic, Exempt
      <2> QED BY <1>4, <2>1, <2>3 DEF ActiveFirst
  <1>16. OnRoute'
      BY <1>4 DEF OrderInv, OnRoute
  <1> QED BY <1>13, <1>14, <1>15, <1>16 DEF OrderInv

\* The request is sent: no relay has an entry yet.
LEMMA OrderFirst ==
    ASSUME NEW pos \in [Node -> Nat], LayeredBy(pos), TypeOK, RelayInv, OrderInv(pos),
           RequestLink
    PROVE  OrderInv(pos)'
  <1>1. /\ astate = "none" /\ Quiet /\ \A x \in air : x.pkt # "LR"
        /\ astate' = "pending" /\ seen' = seen /\ link' = link /\ path' = path
        /\ air' = air \union Outbound("LR")
        /\ sent' = sent \union {<<A, "LR">>}
      BY DEF RequestLink, RelayInv, HandoverInv, Sent
  <1>2. PICK u : u = IF path[A].hops > 1 THEN path[A].next ELSE None
      OBVIOUS
  <1>3. \A z \in Outbound("LR") : z.pkt = "LR" /\ z.tid = u
      BY <1>2, TransmitPacket DEF Outbound
  <1>4. u \in Relay => pos[A] < pos[u]
      <2>1. path[A] \in Routes[A] /\ None \notin Relay
          BY RouteAssumption DEF TypeOK, OrderInv, OnRoute, Node
      <2> QED BY <1>2, <2>1 DEF LayeredBy
  <1>5. \A r \in Relay : link'[r] = None
      BY <1>1 DEF OrderInv, Ahead
  <1>6. Ahead(pos)'
      <2>1. ASSUME NEW s \in Relay, Live(s)' PROVE s = u
          BY <1>1, <1>3, <2>1 DEF Live
      <2> QED BY <1>4, <1>5, <2>1 DEF Ahead
  <1>7. Behind(pos)'
      BY <1>5 DEF Behind
  <1>8. ActiveFirst'
      <2>1. \A z \in air' : z.pkt \notin LinkTraffic
          BY <1>1, <1>3 DEF Quiet, LinkTraffic, Exempt
      <2>2. \A s \in Relay, p \in LinkTraffic : <<s, p>> \notin sent'
          BY <1>1 DEF OrderInv, ActiveFirst, LinkTraffic, Exempt
      <2> QED BY <1>1, <2>1, <2>2 DEF ActiveFirst
  <1>9. OnRoute'
      BY <1>1 DEF OrderInv, OnRoute
  <1> QED BY <1>6, <1>7, <1>8, <1>9 DEF OrderInv

\* While a link proof is on its way no request is.
LEMMA ProofIsLater ==
    ASSUME RelayInv, NEW x \in air, x.pkt \notin {"LR", "MSG", "PRF"}
    PROVE  \A r \in Relay : ~ Live(r)
  BY DEF RelayInv, HandoverInv, Quiet

\* The link proof goes back by one place: the relay that passes it on has
\* marked its entry, and those behind the relay are marked.
LEMMA OrderProof ==
    ASSUME NEW pos \in [Node -> Nat], LayeredBy(pos), TypeOK, RelayInv, OrderInv(pos),
           NEW r \in Relay, NEW x \in air, RelayLinkProof(r, x)
    PROVE  OrderInv(pos)'
  <1>1. /\ x.pkt = "LRP" /\ x.to = r /\ link[r] # None
        /\ link' = [link EXCEPT ![r].validated = TRUE]
        /\ seen' = seen /\ path' = path /\ astate' = astate
        /\ air' = (air \ {x}) \union Transmit(r, link[r].receiving, "LRP", Hops(x), None)
        /\ sent' = sent \union {<<r, "LRP">>}
      BY DEF RelayLinkProof, IsLinkProof, Received, Handle, remember_packet_hash, Sent, ends
  <1>2. /\ \A s \in Relay : link'[s] # None => link[s] # None
        /\ \A s \in Relay : s # r => link'[s] = link[s]
        /\ link'[r].validated
      <2>1. link[r] \in LinkEntry /\ link \in [Relay -> LinkEntry \union {None}]
          BY <1>1 DEF TypeOK
      <2>2. link'[r] = [link[r] EXCEPT !.validated = TRUE]
          BY <1>1, <2>1
      <2>3. link'[r].validated
          BY <2>1, <2>2 DEF LinkEntry
      <2> QED BY <1>1, <2>1, <2>3
  <1>3. \A s \in Node : pos[s] \in Nat
      OBVIOUS
  <1>4. \A s \in Relay : ~ Live(s)'
      <2>1. \A z \in air' : z.pkt = "LR" => z \in air
          BY <1>1, TransmitPacket
      <2>2. \A s \in Relay : ~ Live(s)
          BY <1>1, ProofIsLater
      <2> QED BY <1>1, <2>1, <2>2 DEF Live
  <1>5. Ahead(pos)'
      BY <1>1, <1>2, <1>4 DEF OrderInv, Ahead
  <1>6. Behind(pos)'
      <2>1. ASSUME NEW z \in air', z.pkt = "LRP", NEW s \in Relay,
                   link'[s] # None, pos[z.to] < pos[s]
            PROVE  link'[s].validated
          <3>1. CASE s = r
              BY <1>2, <3>1
          <3>2. CASE s # r /\ z \in air
              BY <1>2, <2>1, <3>2 DEF OrderInv, Behind
          <3>3. CASE s # r /\ z \notin air
              <4>1. z.to \in Node /\ pos[r] <= pos[z.to] + 1
                  BY <1>1, <3>3, HeardNear, TransmitHeard DEF Node
              <4>2. link[s] # None /\ pos[s] # pos[r]
                  BY <1>1, <1>2, <2>1, <3>3 DEF OrderInv, Ahead
              <4>3. pos[r] < pos[s]
                  BY <1>3, <2>1, <4>1, <4>2 DEF Node
              <4> QED BY <1>1, <1>2, <3>3, <4>2, <4>3 DEF OrderInv, Behind
          <3> QED BY <3>1, <3>2, <3>3
      <2> QED BY <2>1 DEF Behind
  <1>7. ActiveFirst'
      <2>1. \A z \in air' : z.pkt \in LinkTraffic => z \in air
          BY <1>1, TransmitPacket DEF LinkTraffic, Exempt
      <2>2. \A s \in Relay, p \in LinkTraffic : <<s, p>> \in sent' => <<s, p>> \in sent
          BY <1>1 DEF LinkTraffic, Exempt
      <2>3. astate = "active" => \A s \in Relay : link'[s] # None => link'[s].validated
          BY <1>2 DEF OrderInv, ActiveFirst
      <2> QED BY <1>1, <2>1, <2>2, <2>3 DEF OrderInv, ActiveFirst
  <1>8. OnRoute'
      BY <1>1 DEF OrderInv, OnRoute
  <1> QED BY <1>5, <1>6, <1>7, <1>8 DEF OrderInv

\* D answers the request: its proof is heard by no node that is more than one
\* place before D, where no relay is behind it.
LEMMA OrderAnswer ==
    ASSUME NEW pos \in [Node -> Nat], LayeredBy(pos), TypeOK, RelayInv, OrderInv(pos),
           NEW x \in air, RespondLinkRequest(x)
    PROVE  OrderInv(pos)'
  <1>1. /\ x.pkt = "LR" /\ x.tid \in {None, D}
        /\ link' = link /\ path' = path /\ astate' = astate
        /\ air' = (air \ {x}) \union Transmit(D, x.on, "LRP", 0, None)
        /\ sent' = sent \union {<<D, "LRP">>}
      BY DEF RespondLinkRequest, Answer, packet_filter, Sent
  <1>2. \A s \in Relay : ~ Live(s)
      <2>1. x.tid \notin Relay
          BY <1>1, NodeAssumption, RouteAssumption DEF Node
      <2> QED BY <1>1, <2>1 DEF RelayInv, HandoverInv, OnlyFor
  <1>3. \A s \in Relay : seen'[s] = seen[s]
      BY NodeAssumption DEF RespondLinkRequest, Answer, TypeOK, Node
  <1>4. \A z \in air' : z.pkt = "LRP" \/ z \in air
      BY <1>1, TransmitPacket
  <1>5. Ahead(pos)'
      <2>1. \A s \in Relay : ~ Live(s)'
          BY <1>2, <1>3, <1>4 DEF Live
      <2> QED BY <1>1, <1>3, <2>1 DEF OrderInv, Ahead
  <1>6. Behind(pos)'
      <2>1. ASSUME NEW z \in air', z.pkt = "LRP", NEW s \in Relay,
                   link[s] # None, pos[z.to] < pos[s]
            PROVE  z \in air
          <3>1. CASE z \notin air
              <4>1. z.to \in Node /\ pos[D] <= pos[z.to] + 1
                  BY <1>1, <3>1, HeardNear, TransmitHeard DEF Node
              <4>2. pos[s] < pos[D] /\ D \in Node /\ s \in Node
                  BY DEF LayeredBy, Node
              <4> QED BY <2>1, <4>1, <4>2
          <3> QED BY <3>1
      <2> QED BY <1>1, <2>1 DEF OrderInv, Behind
  <1>7. ActiveFirst'
      BY <1>1, <1>4 DEF OrderInv, ActiveFirst, LinkTraffic, Exempt
  <1>8. OnRoute'
      BY <1>1 DEF OrderInv, OnRoute
  <1> QED BY <1>5, <1>6, <1>7, <1>8 DEF OrderInv

\* The link proof arrives at A, before all relays: every entry is validated
\* when the first packet of the link is sent.
LEMMA OrderActive ==
    ASSUME NEW pos \in [Node -> Nat], LayeredBy(pos), TypeOK, RelayInv, OrderInv(pos),
           NEW x \in air, ReceiveLinkProof(x)
    PROVE  OrderInv(pos)'
  <1>1. /\ x.pkt = "LRP" /\ x.to = A
        /\ link' = link /\ path' = path /\ astate' = "active"
        /\ air' = (air \ {x}) \union Transmit(A, x.on, "RTT", 0, None)
        /\ sent' = sent \union {<<A, "RTT">>}
      BY DEF ReceiveLinkProof, Answer, Received, Sent
  <1>2. \A s \in Relay : seen'[s] = seen[s]
      BY NodeAssumption DEF ReceiveLinkProof, Answer, TypeOK, Node
  <1>3. \A z \in air' : z.pkt = "RTT" \/ z \in air
      BY <1>1, TransmitPacket
  <1>4. \A s \in Relay : link[s] # None => link[s].validated
      BY <1>1 DEF OrderInv, Ahead, Behind
  <1>5. Ahead(pos)'
      <2>1. \A s \in Relay : ~ Live(s)
          BY <1>1, ProofIsLater
      <2>2. \A s \in Relay : ~ Live(s)'
          BY <1>2, <1>3, <2>1 DEF Live
      <2> QED BY <1>1, <1>2, <2>2 DEF OrderInv, Ahead
  <1>6. Behind(pos)' /\ ActiveFirst'
      BY <1>1, <1>4 DEF Behind, ActiveFirst
  <1>7. OnRoute'
      BY <1>1 DEF OrderInv, OnRoute
  <1> QED BY <1>5, <1>6, <1>7 DEF OrderInv

\* The other steps of the relays.
LEMMA OrderRelay ==
    ASSUME NEW pos, TypeOK, OrderInv(pos), NEW r \in Relay, NEW x \in air,
           \/ Filtered(r, x) \/ RelayMessage(r, x) \/ RelayTraffic(r, x)
           \/ RelayProof(r, x) \/ NotTransported(r, x)
    PROVE  OrderInv(pos)'
  <1>1. link' = link /\ path' = path /\ astate' = astate
      BY DEF Filtered, RelayMessage, RelayTraffic, RelayProof, NotTransported, ends
  <1>2. OnRoute'
      BY <1>1 DEF OrderInv, OnRoute
  <1>3. \A s \in Relay : "LR" \in seen[s] => "LR" \in seen'[s]
      BY DEF Filtered, RelayMessage, RelayTraffic, RelayProof, NotTransported, Handle,
             TypeOK, Node
  <1>4. CASE Filtered(r, x) \/ NotTransported(r, x)
      <2>1. air' \subseteq air /\ sent' = sent
          BY <1>4 DEF Filtered, NotTransported, Handle, NotSent
      <2> QED BY <1>1, <1>2, <1>3, <2>1, OrderKept DEF OrderInv, ActiveFirst
  <1>5. CASE RelayMessage(r, x) \/ RelayProof(r, x)
      <2>1. /\ x.pkt \in {"MSG", "PRF"}
            /\ \A z \in air' : z \in air \/ z.pkt = x.pkt
            /\ sent' = sent \union {<<r, x.pkt>>}
          BY <1>5, TransmitPacket
          DEF RelayMessage, RelayProof, IsProof, Handle, Forward, Sent
      <2>2. \A p \in LinkTraffic \union {"LR", "LRP"} : p # x.pkt
          BY <2>1 DEF LinkTraffic, Exempt
      <2>3. \A z \in air' : z.pkt \in LinkTraffic \union {"LR", "LRP"} => z \in air
          BY <2>1, <2>2
      <2>4. \A s \in Relay, p \in LinkTraffic : <<s, p>> \in sent' => <<s, p>> \in sent
          BY <2>1, <2>2
      <2> QED BY <1>1, <1>2, <1>3, <2>3, <2>4, OrderKept DEF OrderInv, ActiveFirst
  <1>6. CASE RelayTraffic(r, x)
      <2>1. /\ x.pkt \in LinkTraffic
            /\ \A z \in air' : z \in air \/ z.pkt = x.pkt
            /\ sent' = sent \union {<<r, x.pkt>>}
          BY <1>6, TransmitPacket DEF RelayTraffic, IsTraffic, Handle, Sent
      <2>2. astate = "active"
          BY <2>1 DEF OrderInv, ActiveFirst
      <2>3. x.pkt \notin {"LR", "LRP"}
          BY <2>1 DEF LinkTraffic, Exempt
      <2> QED BY <1>1, <1>2, <1>3, <2>1, <2>2, <2>3, OrderKept
  <1> QED BY <1>4, <1>5, <1>6

\* The other steps of the ends.
LEMMA OrderEnd ==
    ASSUME NEW pos, TypeOK, RelayInv, OrderInv(pos), NEW x \in air,
           \/ ReceiveRTT(x) \/ AnswerKeepalive(x) \/ ProveMessage(x)
           \/ \E n \in {A, D} : EndForgets(n, x) \/ EndHears(n, x)
    PROVE  OrderInv(pos)'
  <1>1. link' = link /\ path' = path /\ astate' = astate
      BY DEF ReceiveRTT, AnswerKeepalive, ProveMessage, Answer, EndForgets, EndHears, ends
  <1>2. OnRoute'
      BY <1>1 DEF OrderInv, OnRoute
  <1>3. \A s \in Relay : seen'[s] = seen[s]
      BY NodeAssumption
      DEF ReceiveRTT, AnswerKeepalive, ProveMessage, Answer, EndForgets, EndHears,
          Handle, TypeOK, Node
  <1>4. \A s \in Relay, p \in Packet : <<s, p>> \in sent' => <<s, p>> \in sent
      BY NodeAssumption
      DEF ReceiveRTT, AnswerKeepalive, ProveMessage, Answer, EndForgets, EndHears,
          Sent, NotSent
  <1>5. LinkTraffic \subseteq Packet
      BY DEF LinkTraffic, Exempt, Packet
  <1>6. CASE ReceiveRTT(x) \/ AnswerKeepalive(x)
      <2>1. /\ x.pkt \in LinkTraffic
            /\ \A z \in air' : z \in air \/ z.pkt \in {"DAT", "ACK"}
          BY <1>6, TransmitPacket
          DEF ReceiveRTT, AnswerKeepalive, Answer, LinkTraffic, Exempt
      <2>2. astate = "active"
          BY <2>1 DEF OrderInv, ActiveFirst
      <2>3. \A z \in air' : z.pkt \in {"LR", "LRP"} => z \in air
          BY <2>1
      <2> QED BY <1>1, <1>2, <1>3, <1>4, <1>5, <2>2, <2>3, OrderKept
  <1>7. CASE ProveMessage(x) \/ \E n \in {A, D} : EndForgets(n, x) \/ EndHears(n, x)
      <2>1. \A z \in air' : z \in air \/ z.pkt = "PRF"
          BY <1>7, TransmitPacket DEF ProveMessage, Answer, EndForgets, EndHears, Handle
      <2>2. \A z \in air' : z.pkt \in LinkTraffic \union {"LR", "LRP"} => z \in air
          BY <2>1 DEF LinkTraffic, Exempt
      <2> QED BY <1>1, <1>2, <1>3, <1>4, <1>5, <2>2, OrderKept DEF OrderInv, ActiveFirst
  <1> QED BY <1>6, <1>7

\* Every step keeps the invariant.
LEMMA OrderInductive ==
    ASSUME NEW pos \in [Node -> Nat], LayeredBy(pos)
    PROVE  TypeOK /\ RelayInv /\ OrderInv(pos) /\ [Next]_vars => OrderInv(pos)'
  <1> SUFFICES ASSUME TypeOK, RelayInv, OrderInv(pos), [Next]_vars PROVE OrderInv(pos)'
      OBVIOUS
  <1>1. ASSUME NEW x \in air, Inbound(x) PROVE OrderInv(pos)'
      <2>1. CASE \E r \in Relay : RelayRequest(r, x)
          BY <2>1, OrderRequest
      <2>2. CASE \E r \in Relay : RelayLinkProof(r, x)
          BY <2>2, OrderProof
      <2>3. CASE \E r \in Relay :
                   \/ Filtered(r, x) \/ RelayMessage(r, x) \/ RelayTraffic(r, x)
                   \/ RelayProof(r, x) \/ NotTransported(r, x)
          BY <2>3, OrderRelay
      <2>4. CASE RespondLinkRequest(x)
          BY <2>4, OrderAnswer
      <2>5. CASE ReceiveLinkProof(x)
          BY <2>5, OrderActive
      <2>6. CASE \/ ReceiveRTT(x) \/ AnswerKeepalive(x) \/ ProveMessage(x)
                 \/ \E n \in {A, D} : EndForgets(n, x) \/ EndHears(n, x)
          BY <2>6, OrderEnd
      <2> QED BY <1>1, <2>1, <2>2, <2>3, <2>4, <2>5, <2>6 DEF Inbound
  <1>2. ASSUME NEW r \in Relay,
               \/ CullUnproven(r) \/ CullLink(r) \/ CullReverse(r)
               \/ \E p \in Routes[r] \union {None} : PathChanges(r, p)
        PROVE  OrderInv(pos)'
      <2>1. seen' = seen /\ sent' = sent /\ air' = air /\ astate' = astate
          BY <1>2 DEF CullUnproven, CullLink, CullReverse, PathChanges, NotSent, ends
      <2>2. link' = link \/ link' = [link EXCEPT ![r] = None]
          BY <1>2 DEF CullUnproven, CullLink, CullReverse, PathChanges
      <2>3. \A s \in Relay :
                link'[s] # None => link[s] # None /\ (link[s].validated => link'[s].validated)
          BY <2>2 DEF TypeOK
      <2>4. OnRoute'
          <3>1. \/ path' = path
                \/ \E p \in Routes[r] \union {None} : path' = [path EXCEPT ![r] = p]
              BY <1>2 DEF CullUnproven, CullLink, CullReverse, PathChanges
          <3> QED BY <3>1 DEF OrderInv, OnRoute, TypeOK
      <2> QED BY <2>1, <2>3, <2>4, OrderKept DEF OrderInv, ActiveFirst
  <1>3. CASE RequestLink
      BY <1>3, OrderFirst
  <1>4. CASE SendMessage \/ SendKeepalive
      <2>1. /\ link' = link /\ path' = path /\ astate' = astate
            /\ \A z \in air' :
                  z \in air \/ z.pkt = "MSG" \/ (z.pkt = "KEEP" /\ astate = "active")
          BY <1>4, TransmitPacket DEF SendMessage, SendKeepalive, Outbound, ends
      <2>2. OnRoute'
          BY <2>1 DEF OrderInv, OnRoute
      <2>3. \A s \in Relay : seen'[s] = seen[s]
          BY <1>4, NodeAssumption DEF SendMessage, SendKeepalive, TypeOK, Node
      <2>4. \A s \in Relay, p \in LinkTraffic : <<s, p>> \in sent' => <<s, p>> \in sent
          BY <1>4, NodeAssumption DEF SendMessage, SendKeepalive, Sent
      <2>5. \A z \in air' : z.pkt \in {"LR", "LRP"} => z \in air
          BY <2>1
      <2>6. \A z \in air' : z.pkt \in LinkTraffic => astate = "active"
          BY <2>1 DEF OrderInv, ActiveFirst, LinkTraffic, Exempt
      <2> QED BY <2>1, <2>2, <2>3, <2>4, <2>5, <2>6, OrderKept
  <1>5. CASE UNCHANGED vars
      <2>1. OnRoute'
          BY <1>5 DEF vars, OrderInv, OnRoute
      <2> QED BY <1>5, <2>1, OrderKept DEF vars, OrderInv, ActiveFirst
  <1> QED BY <1>1, <1>2, <1>3, <1>4, <1>5 DEF Next

\* On every network in order, for any relays, media and routes, a relay that
\* carries the traffic of a link holds a validated entry for it: it is never
\* culled as one whose proof did not come, though paths change, receptions are
\* lost or overtake each other, and entries time out at any moment.
THEOREM CarriedIsValidatedHolds ==
    ASSUME NEW pos \in [Node -> Nat], LayeredBy(pos)
    PROVE  Spec => []CarriedIsValidated
  <1>1. Init => OrderInv(pos)
      BY DEF Init, OrderInv, OnRoute, Ahead, Behind, ActiveFirst, Live
  <1>2. OrderInv(pos) => CarriedIsValidated
      BY DEF OrderInv, ActiveFirst, CarriedIsValidated
  <1>3. Init => RelayInv
      BY DEF Init, RelayInv, HandoverInv, Quiet, Live, FilteredIsRelayed, Node
  <1>4. TypeOK /\ RelayInv /\ OrderInv(pos) /\ [Next]_vars => OrderInv(pos)'
      BY OrderInductive
  <1> QED BY <1>1, <1>2, <1>3, <1>4, RelayInductive, TypeCorrect, PTL DEF Spec
=============================================================================
