----------------------------- MODULE PacketWire ------------------------------
(***************************************************************************)
(* The form a packet has on the wire (Packet.cpp) and what the nodes on    *)
(* its way do to it: outbound() and inbound() of Transport.cpp.            *)
(*                                                                         *)
(* raw is a sequence with one element for each field: the byte of flags,   *)
(* the byte of hops, one or two addresses, the context, and the data if    *)
(* there is any.  A hash is the part of raw that is hashed, an encrypted   *)
(* payload the key, a nonce and the plaintext.  Sizes are left out, and so *)
(* are shared instances, which this library is never connected to, and     *)
(* access codes, which are commented out.                                  *)
(***************************************************************************)
EXTENDS Naturals, Sequences, SequencesExt

CONSTANT None         \* no transport id, no key, no hash, no data

HEADER_1 == 0
HEADER_2 == 1
DATA == 0
ANNOUNCE == 1
LINKREQUEST == 2
PROOF_PACKET == 3     \* PROOF, a word of TLA+
SINGLE == 0
GROUP == 1
PLAIN == 2
LINK == 3
BROADCAST == 0
TRANSPORT == 1

\* The contexts of packets that keep a link up or bring it up, in the order
\* of their numbers.
LinkContext == {"KEEPALIVE", "LINKIDENTIFY", "LINKCLOSE", "LINKPROOF", "LRRTT",
                "LRPROOF"}

\* The contexts of packets that carry a resource.
ResourceContext == {"RESOURCE", "RESOURCE_ADV", "RESOURCE_REQ", "RESOURCE_HMU",
                    "RESOURCE_PRF", "RESOURCE_ICL", "RESOURCE_RCL"}

Context == LinkContext \union ResourceContext
           \union {"NONE", "CACHE_REQUEST", "REQUEST", "RESPONSE", "PATH_RESPONSE",
                   "COMMAND", "COMMAND_STATUS", "CHANNEL"}

-----------------------------------------------------------------------------
(* Packing. *)

\* A packet for a destination, as the constructor makes it: the fluent
\* setters change a field each.  key is what the destination encrypts with.
NewPacket(destination, type, key, data) ==
    [header_type |-> HEADER_1, context_flag |-> 0, transport_type |-> BROADCAST,
     destination_type |-> type, packet_type |-> DATA, context |-> "NONE",
     hops |-> 0, transport_id |-> None, destination |-> destination,
     key |-> key, data |-> data]

\* A packet for a link goes to a destination that stands for the link.
NewLinkPacket(link_id, key, data) == NewPacket(link_id, LINK, key, data)

\* The destination type of a link request's proof is that of its link,
\* whatever its destination.
get_packed_flags(p) ==
    64 * p.header_type + 32 * p.context_flag + 16 * p.transport_type
    + 4 * (IF p.context = "LRPROOF" THEN LINK ELSE p.destination_type)
    + p.packet_type

unpack_flags(flags) ==
    [header_type |-> (flags \div 64) % 2,
     context_flag |-> (flags \div 32) % 2,
     transport_type |-> (flags \div 16) % 2,
     destination_type |-> (flags \div 4) % 4,
     packet_type |-> flags % 4]

\* Identity::encrypt(): with a key made for this one packet.
Sealed(key, nonce, data) == <<[key |-> key, nonce |-> nonce, clear |-> data]>>

\* Identity::decrypt()
Unsealed(key, data) ==
    IF data # <<>> /\ data[1].key = key THEN data[1].clear ELSE None

\* Destination::encrypt(): without a key, as for PLAIN and GROUP destinations
\* and those of proofs, the data stays as it is.
encrypt(key, nonce, data) == IF key = None THEN data ELSE Sealed(key, nonce, data)

\* Destination::decrypt()
decrypt(type, key, data) ==
    IF type = PLAIN THEN data
    ELSE IF type = SINGLE /\ key # None THEN Unsealed(key, data) ELSE None

\* The packets pack() does not encrypt.
InClear(p) ==
    \/ p.packet_type \in {ANNOUNCE, LINKREQUEST}
    \/ p.packet_type = PROOF_PACKET
       /\ (p.context = "RESOURCE_PRF" \/ p.destination_type = LINK)
    \/ p.context \in {"LRPROOF", "RESOURCE", "KEEPALIVE", "CACHE_REQUEST"}

\* In a packet made with two addresses only an announce keeps its data.
Payload(p, nonce) ==
    IF p.header_type = HEADER_2 /\ p.context # "LRPROOF"
    THEN IF p.packet_type = ANNOUNCE THEN p.data ELSE <<>>
    ELSE IF InClear(p) THEN p.data ELSE encrypt(p.key, nonce, p.data)

\* pack(), which throws for a packet with two addresses that lacks one.
pack(p, nonce) ==
    <<get_packed_flags(p), p.hops>>
    \o (IF p.header_type = HEADER_2 /\ p.context # "LRPROOF"
        THEN <<p.transport_id, p.destination>> ELSE <<p.destination>>)
    \o <<p.context>> \o Payload(p, nonce)

\* Nothing was sent, or nothing arrived.
Nothing == <<>>

\* unpack() fails for a packet that ends before its data does.
malformed(raw) ==
    \/ Len(raw) < 4
    \/ unpack_flags(raw[1]).header_type = HEADER_2 /\ Len(raw) < 5

\* unpack()
unpack(raw) ==
    LET f == unpack_flags(raw[1])
        k == 3 + f.header_type          \* where the destination stands
    IN  [header_type |-> f.header_type, context_flag |-> f.context_flag,
         transport_type |-> f.transport_type,
         destination_type |-> f.destination_type,
         packet_type |-> f.packet_type,
         context |-> raw[k + 1], hops |-> raw[2],
         transport_id |-> IF f.header_type = HEADER_2 THEN raw[3] ELSE None,
         destination |-> raw[k], key |-> None,
         data |-> SubSeq(raw, k + 2, Len(raw))]

\* get_hashable_part(): neither the hops, nor the next hop, nor the upper half
\* of the flags, all of which change on the way.
get_hash(raw) ==
    <<raw[1] % 16>>
    \o SubSeq(raw, 3 + unpack_flags(raw[1]).header_type, Len(raw))

-----------------------------------------------------------------------------
(* On the way. *)

\* outbound() inserts a packet into transport when its destination is more
\* than one hop away; one that has two addresses already is not sent.
Inserted(raw, next_hop) ==
    <<64 * HEADER_2 + 16 * TRANSPORT + (raw[1] % 16), raw[2], next_hop>>
    \o SubSeq(raw, 3, Len(raw))

\* What outbound() sends of raw, given the path: next hop and hops.
outbound_raw(raw, path) ==
    LET p == unpack(raw) IN
    IF p.packet_type = ANNOUNCE \/ p.destination_type \in {PLAIN, GROUP}
       \/ path.hops <= 1
    THEN raw
    ELSE IF p.header_type = HEADER_1 THEN Inserted(raw, path.next_hop) ELSE Nothing

\* The first steps of inbound(): the byte of hops wraps around.
Received(raw) == [unpack(raw) EXCEPT !.hops = (@ + 1) % 256]

\* packet_filter() of the node with the identity self.
packet_filter(p, self, seen) ==
    /\ p.transport_id # None /\ p.packet_type # ANNOUNCE => p.transport_id = self
    /\ \/ p.context \in {"KEEPALIVE", "RESOURCE_REQ", "RESOURCE_PRF", "RESOURCE",
                         "CACHE_REQUEST", "CHANNEL"}
       \/ /\ p.destination_type \in {PLAIN, GROUP}
          /\ p.packet_type # ANNOUNCE /\ p.hops <= 1
       \/ /\ p.destination_type \in {SINGLE, LINK}
          /\ seen => p.packet_type = ANNOUNCE /\ p.destination_type = SINGLE

\* How a relay sends on a packet in transport: to the next hop, without the
\* transport header to a destination one hop away, and as it is to a
\* destination of its own clients.
Relayed(raw, hops, remaining_hops, next_hop) ==
    IF remaining_hops > 1
    THEN <<raw[1], hops, next_hop>> \o SubSeq(raw, 4, Len(raw))
    ELSE IF remaining_hops = 1
    THEN <<64 * HEADER_1 + 16 * BROADCAST + (raw[1] % 16), hops>>
         \o SubSeq(raw, 4, Len(raw))
    ELSE <<raw[1], hops>> \o SubSeq(raw, 3, Len(raw))

\* Node i of the route receives raw and sends it on.
RelayStep(route, i, raw) ==
    LET p == Received(raw) IN
    IF malformed(raw) \/ p.transport_id # route[i]
       \/ ~packet_filter(p, route[i], FALSE)
    THEN Nothing
    ELSE Relayed(raw, p.hops, Len(route) - i, route[i + 1])

\* The packet as node k of the route receives it from the nodes before it,
\* each with a path along the route.
CarriedTo(k, raw, route) ==
    LET at[i \in 1 .. k] ==
            IF i = 1
            THEN outbound_raw(raw, [next_hop |-> route[1], hops |-> Len(route)])
            ELSE RelayStep(route, i - 1, at[i - 1])
    IN  at[k]

Carried(raw, route) == CarriedTo(Len(route), raw, route)

-----------------------------------------------------------------------------
(* Proofs. *)

\* inbound() has data for a destination of the node self: its hash, type, key
\* and proof strategy.
Delivered(raw, self, dest) ==
    LET p == Received(raw) IN
    /\ ~malformed(raw) /\ packet_filter(p, self, FALSE)
    /\ p.packet_type = DATA
    /\ p.destination = dest.hash /\ p.destination_type = dest.type

\* Whether the destination proves what it was delivered, when its application
\* says so if it is asked.  That the data could not be decrypted is no reason
\* not to.
WillProve(dest, answer) ==
    \/ dest.strategy = "PROVE_ALL"
    \/ dest.strategy = "PROVE_APP" /\ answer

\* Identity::sign()
sign(identity, hash) == [by |-> identity, of |-> hash]

\* Identity::prove(): a signature of the hash, with the hash if the proof is
\* explicit.  The proof travels to the truncated hash of the packet.
prove(raw, identity, explicit) ==
    [hash |-> IF explicit THEN get_hash(raw) ELSE None,
     signature |-> sign(identity, get_hash(raw))]

\* The relays know the way back of the proof, which is addressed with the hash
\* of the packet as it arrived, by the hash of the packet as they received it.
FindsBack(raw, route) ==
    \A k \in 1 .. Len(route) :
        get_hash(CarriedTo(k, raw, route)) = get_hash(Carried(raw, route))

\* Identity::validate()
validate(identity, signature, hash) ==
    signature = sign(identity, hash)

\* PacketReceipt::validate_proof()
validate_proof(identity, hash, proof) ==
    /\ proof.hash # None => proof.hash = hash
    /\ validate(identity, proof.signature, hash)

\* PacketReceipt::validate_link_proof(): the signature is not looked at, the
\* outcome is fixed.
validate_link_proof(hash, proof) == FALSE

=============================================================================
