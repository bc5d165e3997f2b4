--------------------------- MODULE MCNeighborProbe --------------------------
(***************************************************************************)
(* The instance of NeighborProbe that TLC checks: two neighbours, one of   *)
(* them unknown, that lead to the destination in three hops and in two.    *)
(*                                                                         *)
(* The assumptions check PacketWire on every packet a node can make: its   *)
(* fields survive packing and unpacking, and a packet in transport reaches *)
(* the end of every route with its data, its hash and its hops.            *)
(***************************************************************************)
EXTENDS NeighborProbe, TLC

CONSTANTS n1, n2

MCPurpose == {n1, n2, "application"}
MCRoute == n1 :> <<n1, "relay", "end">> @@ n2 :> <<n2, "end">>

Made ==
    { [NewPacket("d", type, "key", data) EXCEPT
          !.packet_type = t, !.context = c, !.context_flag = f] :
      type \in {SINGLE, GROUP, PLAIN, LINK}, data \in {<<>>, <<"x">>},
      t \in {DATA, ANNOUNCE, LINKREQUEST, PROOF_PACKET}, c \in Context,
      f \in {0, 1} }

\* What is unpacked is what was packed, but for the proof of a link request,
\* which has its link's type, and for what is encrypted.
ASSUME RoundTrip ==
    \A p \in Made :
        LET raw == pack(p, 1) IN
        /\ ~malformed(raw)
        /\ unpack(raw) =
             [p EXCEPT !.key = None, !.data = Payload(p, 1),
                       !.destination_type = IF p.context = "LRPROOF" THEN LINK ELSE @]

\* A packet to a destination several hops away arrives with its data and its
\* hash, without a transport header, and its hops are those of the path.
ASSUME Transported ==
    \A p \in { q \in Made : q.packet_type \in {DATA, LINKREQUEST}
                            /\ q.destination_type = SINGLE
                            /\ q.context \in {"NONE", "CACHE_REQUEST"} } :
    \A k \in 1 .. 4 :
        LET raw == pack(p, 1)
            route == [i \in 1 .. k |-> i]
            arrived == Carried(raw, route)
        IN  /\ ~malformed(arrived) /\ get_hash(arrived) = get_hash(raw)
            /\ FindsBack(raw, route)
            /\ Received(arrived).transport_id = None
            /\ Received(arrived).hops = k
            /\ Received(arrived).data = Payload(p, 1)
            /\ packet_filter(Received(arrived), k, FALSE)
            /\ ~InClear(p) => decrypt(SINGLE, "key", Received(arrived).data) = p.data

=============================================================================
