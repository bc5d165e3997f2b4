------------------------------ MODULE Receipts ------------------------------
(***************************************************************************)
(* The receipts of sent packets (PacketReceipt in Packet.cpp, _receipts in *)
(* Transport.cpp): one is made for every data packet sent, it waits in a   *)
(* list for a proof, and it concludes when the proof arrives, when it is   *)
(* timed out, or when the list is too long.                                *)
(*                                                                         *)
(* Packets are numbered in the order they are sent, and travel along a     *)
(* route in the forms PacketWire gives them: the proof is of the packet as *)
(* it arrives.  A receipt may time out at any moment.  The proof of a      *)
(* packet may arrive at any time, again and again, or never.               *)
(*                                                                         *)
(* told and proved are history variables.                                  *)
(***************************************************************************)
EXTENDS PacketWire, FiniteSets

CONSTANTS
    MAX_RECEIPTS,     \* how many receipts jobs() leaves in the list
    MaxSent,          \* bound on the packets sent
    Purpose           \* what a packet is sent for

ASSUME ReceiptsAssumption == MAX_RECEIPTS \in Nat /\ MaxSent \in Nat

VARIABLES
    receipt,          \* the receipts made: purpose, link, status, the hash of
                      \* the packet, what its last node received, and
                      \* whether a proof of that finds its way back
    receipts,         \* _receipts, oldest first
    told,             \* how often each receipt's two callbacks were called
    proved            \* packets whose proof came while they were waited for

receiptVars == <<receipt, receipts, told, proved>>

Sent == DOMAIN receipt
Open == { i \in Sent : receipt[i].status = "SENT" }
Listed == ToSet(receipts)

\* The k-th smallest number in I, and the elements of s at the places in I.
Nth(I, k) == CHOOSE i \in I : Cardinality({ j \in I : j <= i }) = k
SubSeqAt(s, I) == [k \in 1 .. Cardinality(I) |-> s[Nth(I, k)]]

ReceiptsInit ==
    /\ receipt = <<>>
    /\ receipts = <<>>
    /\ told = <<>>
    /\ proved = {}

\* The destination a packet is sent to.
Endpoint(purpose) ==
    [hash |-> purpose, type |-> SINGLE, key |-> purpose,
     strategy |-> IF purpose = "application" THEN "PROVE_APP" ELSE "PROVE_ALL"]

\* What outbound() sends as packet i.
Packed(i, purpose, link) ==
    pack(IF link THEN NewLinkPacket("link", "session", <<"data">>)
         ELSE NewPacket(Endpoint(purpose).hash, SINGLE, Endpoint(purpose).key,
                        <<"data">>), i)

\* PacketReceipt(): a link's packets find their way by the link table.
NewReceipt(i, purpose, link, route) ==
    LET raw == Packed(i, purpose, link) IN
    [for |-> purpose, link |-> link, status |-> "SENT", hash |-> get_hash(raw),
     arrived |-> IF link THEN raw ELSE Carried(raw, route),
     returns |-> link \/ FindsBack(raw, route)]

\* The receipts that outbound() makes and lists, one for each purpose in ps.
NewReceipts(ps, link, routes) ==
    /\ Len(receipt) + Len(ps) <= MaxSent
    /\ receipt' = receipt \o
          [k \in DOMAIN ps |-> NewReceipt(Len(receipt) + k, ps[k], link, routes[k])]
    /\ receipts' = receipts \o [k \in DOMAIN ps |-> Len(receipt) + k]
    /\ told' = told \o [k \in DOMAIN ps |-> [delivered |-> 0, timed_out |-> 0]]
    /\ UNCHANGED proved

\* Packet::prove() at the node packet i arrives at.
ProofOf(i, explicit) ==
    prove(receipt[i].arrived,
          IF receipt[i].link THEN "peer" ELSE Endpoint(receipt[i].for).key, explicit)

\* validate_proof_packet(): the receipts in the list that a proof concludes.
Proves(link, proof) ==
    { j \in Listed :
        IF link THEN validate_link_proof(receipt[j].hash, proof)
        ELSE validate_proof(Endpoint(receipt[j].for).key, receipt[j].hash, proof) }

Conclude(c, status) ==
    [j \in Sent |-> IF j \in c THEN [receipt[j] EXCEPT !.status = status]
                               ELSE receipt[j]]

\* The handling of a regular proof, of packet i, in inbound(), which concludes
\* the receipts in c.
ReceiveProof(i, c) ==
    /\ receipt' = Conclude(c, "DELIVERED")
    /\ receipts' = SubSeqAt(receipts, {k \in DOMAIN receipts : receipts[k] \notin c})
    /\ told' = [j \in Sent |->
                  IF j \in c
                  THEN [told[j] EXCEPT !.delivered = @ + 1] ELSE told[j]]
    /\ proved' = IF i \in Open /\ ~receipt[i].link THEN proved \union {i} ELSE proved

\* How many receipts the list has too many.
Excess == IF Len(receipts) > MAX_RECEIPTS THEN Len(receipts) - MAX_RECEIPTS
                                           ELSE 0

\* The oldest receipts, which jobs() takes out of a list that is too long.
Culled == ToSet(SubSeq(receipts, 1, Excess))

\* What the pass leaves in the list.
Remaining(due) ==
    SubSeqAt(receipts, {k \in DOMAIN receipts : k > Excess /\ receipts[k] \notin due})

\* The receipts pass of jobs(), when the receipts in due are timed out.  One
\* taken out is timed out too, whatever its timeout was.
ReceiptsPass(due) ==
    /\ due \subseteq Listed \ Culled
    /\ receipt' = [j \in Sent |->
                     IF j \in Culled THEN [receipt[j] EXCEPT !.status = "CULLED"]
                     ELSE IF j \in due THEN [receipt[j] EXCEPT !.status = "FAILED"]
                     ELSE receipt[j]]
    /\ receipts' = Remaining(due)
    /\ told' = [j \in Sent |->
                  IF j \in Culled \union due
                  THEN [told[j] EXCEPT !.timed_out = @ + 1] ELSE told[j]]
    /\ UNCHANGED proved

-----------------------------------------------------------------------------
(* Properties. *)

ReceiptsTypeOK ==
    /\ \A i \in Sent :
          /\ receipt[i].for \in Purpose /\ receipt[i].link \in BOOLEAN
          /\ receipt[i].status \in {"SENT", "DELIVERED", "FAILED", "CULLED"}
    /\ proved \subseteq Sent
    /\ Len(receipt) <= MaxSent
    /\ Len(told) = Len(receipt)
    /\ receipts \in Seq(Sent)

\* The application hears of a packet once: one call of one of its two
\* callbacks, the one its status says, however late, often or never the proof
\* arrives.  Until then the receipt waits in the list.
ConcludedOnce ==
    /\ Listed = Open /\ Len(receipts) = Cardinality(Open)
    /\ \A i \in Sent :
          told[i] = [delivered |-> IF receipt[i].status = "DELIVERED" THEN 1 ELSE 0,
                     timed_out |-> IF receipt[i].status \in {"FAILED", "CULLED"}
                                   THEN 1 ELSE 0]

\* What the recipient proves is what the sender waits for: a packet is
\* delivered exactly when a proof of it arrives while its receipt is open,
\* whatever the relays have made of its header, and in either form of proof;
\* and every relay knows where the proof belongs.  Packets on links are the
\* exception: their proofs prove nothing.
ProofIsRecognised ==
    \A i \in Sent : /\ receipt[i].status = "DELIVERED" <=> i \in proved
                    /\ receipt[i].arrived # Nothing /\ receipt[i].returns

=============================================================================
