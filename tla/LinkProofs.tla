----------------------------- MODULE LinkProofs -----------------------------
(***************************************************************************)
(* Proofs about the two ends of a link, for all requests, handlers and     *)
(* MTUs and any number of faults and teardowns.                            *)
(*                                                                         *)
(* What an end believes of the other one it has from a packet, so the      *)
(* invariant says of every packet under way what its sender knew when it   *)
(* was sent (Justified), and of each end what it has learned (Ends).       *)
(* Nothing that justifies a packet is ever undone (Grows), so packets may  *)
(* be lost, delayed and overtaken.                                         *)
(***************************************************************************)
EXTENDS Link, SequenceTheorems, FiniteSetTheorems, TLAPS

\* A handler the initiator was allowed to use has served the request.
Served(r) ==
    /\ served[r] > 0
    /\ Kind[r].allow # "ALLOW_NONE"
    /\ Kind[r].allow = "ALLOW_LIST" => remote

\* What must have happened before the packet x could be under way to e.
Justified(e, x) ==
    /\ e = "I" /\ x.t = "PROOF" => status["R"] # "NONE" /\ x.mtu = mtu["R"]
    /\ e = "R" /\ x.t = "RTT" => told["I"].established > 0
    /\ x.t = "CLOSE" => reason[Other(e)] # "none"
    /\ x.t \in {"RSP", "BRSP"} => Served(x.r)

\* Where the ends are in the life of the link: each is listed in step with
\* its status, and a link whose path was given up is closed and forgotten.
Ends ==
    /\ listed["R"] # "pending" /\ status["R"] # "PENDING"
    /\ listed["R"] = "active" => status["R"] # "NONE"
    /\ status["I"] = "NONE" => told["I"].established = 0
    /\ listed["I"] = "pending" => told["I"].established = 0
    /\ expired => /\ status["I"] = "CLOSED" /\ listed["I"] = "no"
                  /\ told["I"].established = 0

LinkInv ==
    /\ TypeOK
    /\ \A e \in End : \A i \in DOMAIN air[e] : Justified(e, air[e][i])
    /\ Ends /\ Agreement /\ ReasonAgrees
    /\ AnsweredIsServed


-----------------------------------------------------------------------------
(* Packets. *)

\* Every packet under way after a step was under way to the same end before,
\* or is one of N, a set of pairs of an end and a packet.
Carries(N) ==
    /\ air' \in [End -> Seq(Packet)]
    /\ \A e \in End : \A i \in DOMAIN air'[e] :
          \/ \E j \in DOMAIN air[e] : air'[e][i] = air[e][j]
          \/ <<e, air'[e][i]>> \in N

\* The queue q holds packets for e that were under way, and those of S.
Queue(e, q, S) ==
    /\ q \in Seq(Packet)
    /\ \A i \in DOMAIN q : (\E j \in DOMAIN air[e] : q[i] = air[e][j]) \/ q[i] \in S

\* What is under way to an end is a finite sequence of packets.
LEMMA AirFacts ==
    ASSUME TypeOK, NEW e \in End
    PROVE  /\ air[e] \in Seq(Packet) /\ DOMAIN air[e] = 1 .. Len(air[e])
           /\ Len(air[e]) \in Nat
           /\ \A i \in DOMAIN air[e] : air[e][i] \in Packet
<1>1. air[e] \in Seq(Packet)
  BY DEF TypeOK
<1> QED BY <1>1, LenProperties, ElementOfSeq

\* Taking one element out of a sequence keeps the others in their order.
LEMMA RemoveAtFacts ==
    ASSUME NEW S, NEW q \in Seq(S), NEW i \in DOMAIN q
    PROVE  /\ RemoveAt(q, i) \in Seq(S)
           /\ DOMAIN RemoveAt(q, i) = 1 .. Len(q) - 1
           /\ \A j \in 1 .. Len(q) - 1 :
                 RemoveAt(q, i)[j] = q[IF j < i THEN j ELSE j + 1]
<1> DEFINE a == SubSeq(q, 1, i - 1)
           b == SubSeq(q, i + 1, Len(q))
<1>1. /\ Len(q) \in Nat /\ i \in 1 .. Len(q)
      /\ \A j \in 1 .. Len(q) : q[j] \in S
  BY LenProperties, ElementOfSeq
<1>2. /\ a \in Seq(S) /\ Len(a) = i - 1
      /\ \A j \in 1 .. i - 1 : a[j] = q[j]
  <2>1. \A j \in 1 .. i - 1 : q[j] \in S
    BY <1>1
  <2> HIDE <1>1
  <2>2. 1 \in Int /\ i - 1 \in Int /\ i >= 1
    BY <1>1
  <2>3. /\ a \in Seq(S)
        /\ Len(a) = IF 1 <= i - 1 THEN i - 1 - 1 + 1 ELSE 0
        /\ \A j \in 1 .. i - 1 - 1 + 1 : a[j] = q[1 + j - 1]
    BY <2>1, <2>2, SubSeqProperties
  <2> QED BY <2>2, <2>3
<1>3. /\ b \in Seq(S) /\ Len(b) = Len(q) - i
      /\ \A j \in 1 .. Len(q) - i : b[j] = q[i + j]
  <2>1. \A j \in i + 1 .. Len(q) : q[j] \in S
    BY <1>1
  <2>2. i + 1 \in Int /\ Len(q) \in Int /\ i <= Len(q)
    BY <1>1
  <2>3. /\ b \in Seq(S)
        /\ Len(b) = IF i + 1 <= Len(q) THEN Len(q) - (i + 1) + 1 ELSE 0
        /\ \A j \in 1 .. Len(q) - (i + 1) + 1 : b[j] = q[i + 1 + j - 1]
    BY <2>1, <2>2, SubSeqProperties
  <2> QED BY <2>2, <2>3
<1>4. /\ a \o b \in Seq(S) /\ Len(a \o b) = Len(a) + Len(b)
      /\ \A j \in 1 .. Len(a) + Len(b) :
            (a \o b)[j] = IF j <= Len(a) THEN a[j] ELSE b[j - Len(a)]
  BY <1>2, <1>3, ConcatProperties
<1>5. RemoveAt(q, i) = a \o b
  BY DEF RemoveAt
<1> HIDE DEF a, b
<1>6. Len(a) + Len(b) = Len(q) - 1
  BY <1>1, <1>2, <1>3
<1>7. DOMAIN (a \o b) = 1 .. Len(q) - 1
  BY <1>4, <1>6, LenProperties
<1>8. ASSUME NEW j \in 1 .. Len(q) - 1
      PROVE  (a \o b)[j] = q[IF j < i THEN j ELSE j + 1]
  <2>1. CASE j < i
    BY <2>1, <1>1, <1>2, <1>4, <1>6
  <2>2. CASE ~(j < i)
    <3>1. j - Len(a) \in 1 .. Len(q) - i
      BY <2>2, <1>1, <1>2, <1>8
    <3>2. (a \o b)[j] = b[j - Len(a)]
      BY <2>2, <1>1, <1>2, <1>4, <1>6, SMTT(30)
    <3>3. b[j - Len(a)] = q[i + (j - Len(a))]
      BY <3>1, <1>3
    <3>4. i + (j - Len(a)) = j + 1
      BY <1>1, <1>2
    <3> QED BY <2>2, <3>2, <3>3, <3>4
  <2> QED BY <2>1, <2>2
<1> QED BY <1>4, <1>5, <1>7, <1>8

\* The packets under way to an end bring nothing new, whichever of them is
\* taken out.
LEMMA QueueFacts ==
    ASSUME TypeOK, NEW e \in End
    PROVE  /\ Queue(e, air[e], {})
           /\ \A i \in DOMAIN air[e] : Queue(e, RemoveAt(air[e], i), {})
           /\ Len(air[e]) > 0 => Queue(e, Tail(air[e]), {})
<1> DEFINE q == air[e]
<1>1. /\ q \in Seq(Packet) /\ Len(q) \in Nat /\ DOMAIN q = 1 .. Len(q)
      /\ \A i \in 1 .. Len(q) : q[i] \in Packet
  BY AirFacts
<1> HIDE DEF q
<1>2. Queue(e, q, {})
  BY <1>1 DEF Queue, q
<1>3. ASSUME NEW i \in DOMAIN q
      PROVE  Queue(e, RemoveAt(q, i), {})
  <2> DEFINE o(j) == IF j < i THEN j ELSE j + 1
  <2>1. /\ RemoveAt(q, i) \in Seq(Packet)
        /\ DOMAIN RemoveAt(q, i) = 1 .. Len(q) - 1
        /\ \A j \in 1 .. Len(q) - 1 : RemoveAt(q, i)[j] = q[o(j)]
    BY <1>1, RemoveAtFacts
  <2>2. \A j \in 1 .. Len(q) - 1 : o(j) \in DOMAIN q
    BY <1>1
  <2> HIDE DEF o
  <2> QED BY <2>1, <2>2 DEF Queue, q
<1>4. ASSUME Len(q) > 0 PROVE Queue(e, Tail(q), {})
  <2>1. q # <<>>
    BY <1>1, <1>4
  <2>2. /\ Tail(q) \in Seq(Packet) /\ Len(Tail(q)) = Len(q) - 1
        /\ \A j \in 1 .. Len(Tail(q)) : Tail(q)[j] = q[j + 1]
    BY <1>1, <2>1, HeadTailProperties
  <2>3. DOMAIN Tail(q) = 1 .. Len(Tail(q))
    BY <2>2, LenProperties
  <2>4. \A j \in DOMAIN Tail(q) : j + 1 \in DOMAIN q
    BY <1>1, <1>4, <2>2, <2>3
  <2> QED BY <2>2, <2>3, <2>4 DEF Queue, q
<1> QED BY <1>2, <1>3, <1>4 DEF q

\* Sending one more packet adds that packet and nothing else.
LEMMA AppendFacts ==
    ASSUME NEW e \in End, NEW S, NEW q, Queue(e, q, S), NEW x \in Packet
    PROVE  Queue(e, Append(q, x), S \union {x})
<1>1. q \in Seq(Packet) /\ DOMAIN q = 1 .. Len(q)
  BY LenProperties DEF Queue
<1>2. /\ Append(q, x) \in Seq(Packet) /\ Len(Append(q, x)) = Len(q) + 1
      /\ \A i \in 1 .. Len(q) : Append(q, x)[i] = q[i]
      /\ Append(q, x)[Len(q) + 1] = x
      /\ Len(q) \in Nat /\ DOMAIN Append(q, x) = 1 .. Len(q) + 1
  BY <1>1, AppendProperties, LenProperties
<1>3. \A i \in DOMAIN Append(q, x) : i \in DOMAIN q \/ i = Len(q) + 1
  BY <1>1, <1>2
<1> QED BY <1>1, <1>2, <1>3 DEF Queue

\* One queue changes.
LEMMA CarriesOne ==
    ASSUME TypeOK, NEW e \in End, NEW q, NEW S, Queue(e, q, S),
           air' = [air EXCEPT ![e] = q]
    PROVE  Carries({e} \X S)
<1>1. air \in [End -> Seq(Packet)]
  BY DEF TypeOK
<1>2. air' \in [End -> Seq(Packet)]
  BY <1>1 DEF Queue
<1>3. \A f \in End : air'[f] = IF f = e THEN q ELSE air[f]
  BY <1>1
<1> QED BY <1>2, <1>3 DEF Carries, Queue

\* A packet is taken by e, and one sent to the other end.
LEMMA CarriesTwo ==
    ASSUME TypeOK, NEW e \in End, NEW q, NEW S, Queue(e, q, S),
           NEW f \in End, f # e, NEW p, NEW T, Queue(f, p, T),
           air' = [air EXCEPT ![e] = q, ![f] = p]
    PROVE  Carries(({e} \X S) \union ({f} \X T))
<1>1. air \in [End -> Seq(Packet)]
  BY DEF TypeOK
<1>2. air' \in [End -> Seq(Packet)]
  BY <1>1 DEF Queue
<1>3. \A g \in End :
        air'[g] = IF g = f THEN p ELSE IF g = e THEN q ELSE air[g]
  BY <1>1
<1> QED BY <1>2, <1>3 DEF Carries, Queue

\* What the actions write of the queues.
LEMMA SendFacts ==
    ASSUME TypeOK, NEW e \in End, NEW x \in Packet, air' = Send(e, x)
    PROVE  Carries({<<Other(e), x>>})
<1> DEFINE f == Other(e)
<1>1. f \in End
  BY DEF Other, End
<1>2. Queue(f, Append(air[f], x), {} \union {x})
  BY <1>1, QueueFacts, AppendFacts
<1>3. air' = [air EXCEPT ![f] = Append(air[f], x)]
  BY DEF Send
<1>4. Carries({f} \X ({} \union {x}))
  BY <1>1, <1>2, <1>3, CarriesOne
<1> QED BY <1>4, ZenonT(30) DEF Carries

\* A reception that sends nothing leaves only packets that were under way.
LEMMA TakeFacts ==
    ASSUME TypeOK, NEW e \in End, NEW i \in DOMAIN air[e], air' = Taken(e, i)
    PROVE  Carries({})
<1>1. Queue(e, RemoveAt(air[e], i), {})
  BY QueueFacts
<1>2. air' = [air EXCEPT ![e] = RemoveAt(air[e], i)]
  BY DEF Taken
<1>3. Carries({e} \X {})
  BY <1>1, <1>2, CarriesOne
<1> QED BY <1>3 DEF Carries

\* A reception that is answered with one packet puts only that one under way.
LEMMA AnswerFacts ==
    ASSUME TypeOK, NEW e \in End, NEW i \in DOMAIN air[e],
           NEW f \in End, f # e, NEW x \in Packet,
           air' = [Taken(e, i) EXCEPT ![f] = Append(@, x)]
    PROVE  Carries({<<f, x>>})
<1> DEFINE q == RemoveAt(air[e], i)
           p == Append(air[f], x)
<1>1. Queue(e, q, {}) /\ Queue(f, p, {} \union {x})
  BY QueueFacts, AppendFacts
<1>2. air \in [End -> Seq(Packet)]
  BY DEF TypeOK
<1>3. Taken(e, i) = [air EXCEPT ![e] = q]
  BY DEF Taken
<1> HIDE DEF q
<1>4. [air EXCEPT ![e] = q][f] = air[f]
  BY <1>2
<1>5. air' = [[air EXCEPT ![e] = q] EXCEPT ![f] = p]
  BY <1>3, <1>4
<1> HIDE DEF p
<1>6. air' = [air EXCEPT ![e] = q, ![f] = p]
  BY <1>5
<1>7. Carries(({e} \X {}) \union ({f} \X ({} \union {x})))
  BY <1>1, <1>6, CarriesTwo
<1> QED BY <1>7, ZenonT(30) DEF Carries

-----------------------------------------------------------------------------
(* Callbacks, bounds and packets. *)

Told == [established: Nat, closed: Nat, failed: BOOLEAN]

\* What link_established() and link_closed() tell the application of one end
\* they do not tell the other, and they keep the counts.
LEMMA ToldFacts ==
    ASSUME told \in [End -> Told], NEW e \in End
    PROVE  /\ Established(e) \in [End -> Told]
           /\ Established(e)[e].established = told[e].established + 1
           /\ \A f \in End : f # e => Established(e)[f] = told[f]
           /\ [told EXCEPT ![e].closed = @ + 1] \in [End -> Told]
           /\ \A f \in End : [told EXCEPT ![e].closed = @ + 1][f].established
                                 = told[f].established
<1> DEFINE n == told[e].established + 1
           c == told[e].closed + 1
           x == [told[e] EXCEPT !.established = n]
           y == [told[e] EXCEPT !.closed = c]
<1>1. told[e] \in Told /\ n \in Nat /\ c \in Nat
  BY DEF Told
<1>2. Established(e) = [told EXCEPT ![e] = x]
  BY DEF Established
<1>3. [told EXCEPT ![e].closed = @ + 1] = [told EXCEPT ![e] = y]
  OBVIOUS
<1> HIDE DEF n, c
<1>4. /\ x \in Told /\ x.established = n
      /\ y \in Told /\ y.established = told[e].established
  BY <1>1 DEF Told
<1> HIDE DEF x, y
<1> QED BY <1>2, <1>3, <1>4 DEF n

\* Marking a request of the initiator as failed keeps the counts of both
\* ends.
LEMMA FailedFacts ==
    ASSUME NEW t \in [End -> Told]
    PROVE  /\ [t EXCEPT !["I"].failed = TRUE] \in [End -> Told]
           /\ \A f \in End : [t EXCEPT !["I"].failed = TRUE][f].established
                                 = t[f].established
<1> DEFINE x == [t["I"] EXCEPT !.failed = TRUE]
<1>1. t["I"] \in Told
  BY DEF End
<1>2. [t EXCEPT !["I"].failed = TRUE] = [t EXCEPT !["I"] = x]
  OBVIOUS
<1>3. x \in Told /\ x.established = t["I"].established
  BY <1>1 DEF Told
<1> HIDE DEF x
<1> QED BY <1>2, <1>3 DEF End

\* No action exceeds the bounds on faults and teardowns.
LEMMA BoundFacts ==
    ASSUME TypeOK
    PROVE  /\ Faulty => faults' \in 0 .. MaxFaults
           /\ \A e \in End, i \in Nat : Takes(e, i) => faults' \in 0 .. MaxFaults
           /\ Interrupts => breaks' \in 0 .. MaxTeardowns
<1>1. IsFiniteSet(End)
  <2>1. IsFiniteSet({"I"} \union {"R"})
    BY FS_Singleton, FS_Union
  <2> QED BY <2>1 DEF End
<1>2. IsFiniteSet({e \in End : data[e] # "none"})
  BY <1>1, FS_Subset
<1>3. Cardinality({e \in End : data[e] # "none"}) \in Nat
  BY <1>2, FS_CardinalityType
<1>4. faults \in 0 .. MaxFaults /\ breaks \in 0 .. MaxTeardowns
  BY DEF TypeOK
<1>5. Faulty => faults' \in 0 .. MaxFaults
  BY <1>4, BoundAssumption DEF Faulty
<1> QED BY <1>3, <1>4, <1>5, BoundAssumption DEF Interrupts, Spent, Takes

\* The packets the code builds have the type and the fields they are built
\* with.
LEMMA PacketFacts ==
    /\ \A t \in {"BADMODE", "BADSIG", "RTT", "ID", "CLOSE", "DATA", "DPROOF"} :
          P(t) \in Packet /\ P(t).t = t
    /\ \A m \in Mtu : /\ LinkRequest(m) \in Packet /\ LinkRequest(m).t = "LR"
                      /\ Proof(m) \in Packet /\ Proof(m).t = "PROOF"
                      /\ Proof(m).mtu = m
    /\ \A r \in Req : /\ Response(r) \in Packet /\ Response(r).r = r
                      /\ Response(r).t \in {"RSP", "BRSP"}
                      /\ \A t \in {"REQ", "BREQ"} : [t |-> t, r |-> r] \in Packet
    /\ \A x \in Packet : /\ x.t \in {"LR", "PROOF"} => x.mtu \in Mtu
                         /\ x.t \in {"REQ", "BREQ", "RSP", "BRSP"} => x.r \in Req
  BY DEF P, Packet, LinkRequest, Proof, Response

-----------------------------------------------------------------------------
(* What justifies a packet is never undone. *)

Grows ==
    /\ status["R"] # "NONE" => status'["R"] # "NONE" /\ mtu'["R"] = mtu["R"]
    /\ told["I"].established > 0 => told'["I"].established > 0
    /\ \A e \in End : reason[e] # "none" => reason'[e] # "none"
    /\ \A r \in Req : Served(r) => Served(r)'

AllJustified == \A e \in End : \A i \in DOMAIN air[e] : Justified(e, air[e][i])

\* When only justified packets are sent and nothing that justifies one is
\* undone (Grows), every packet under way stays justified.
LEMMA StaysJustified ==
    ASSUME TypeOK, AllJustified, Grows, NEW N, Carries(N),
           \A e \in End, x \in Packet : <<e, x>> \in N => Justified(e, x)'
    PROVE  AllJustified'
<1>1. ASSUME NEW e \in End, NEW x \in Packet, Justified(e, x)
      PROVE  Justified(e, x)'
  <2>1. Other(e) \in End
    BY DEF Other, End
  <2>2. x.t \in {"RSP", "BRSP"} => x.r \in Req
    BY PacketFacts
  <2> QED BY <1>1, <2>1, <2>2 DEF Grows, Justified
<1>2. ASSUME NEW e \in End, NEW i \in DOMAIN air'[e], NEW x, x = air'[e][i]
      PROVE  Justified(e, x)'
  <2>1. air'[e] \in Seq(Packet)
    BY DEF Carries
  <2>2. x \in Packet
    BY <1>2, <2>1, LenProperties, ElementOfSeq
  <2>3. CASE \E j \in DOMAIN air[e] : x = air[e][j]
    <3>1. PICK j \in DOMAIN air[e] : x = air[e][j]
      BY <2>3
    <3>2. Justified(e, x)
      BY <3>1 DEF AllJustified
    <3> QED BY <1>1, <2>2, <3>2
  <2>4. CASE <<e, x>> \in N
    BY <2>2, <2>4
  <2> QED BY <1>2, <2>3, <2>4 DEF Carries
<1>3. ASSUME NEW e \in End, NEW i \in DOMAIN air'[e]
      PROVE  /\ e = "I" /\ air'[e][i].t = "PROOF"
                    => status'["R"] # "NONE" /\ air'[e][i].mtu = mtu'["R"]
             /\ e = "R" /\ air'[e][i].t = "RTT" => told'["I"].established > 0
             /\ air'[e][i].t = "CLOSE" => reason'[Other(e)] # "none"
             /\ air'[e][i].t \in {"RSP", "BRSP"} => Served(air[e][i].r)'
  <2>1. PICK x : x = air'[e][i]
    OBVIOUS
  <2>2. Justified(e, x)'
    BY <1>2, <2>1
  <2>3. Served(air[e][i].r)' <=> Served(x.r)'
    BY <2>1 DEF Served
  <2> QED BY <2>1, <2>2, <2>3 DEF Justified
<1> QED BY <1>3 DEF AllJustified, Justified

-----------------------------------------------------------------------------
(* Every action keeps the invariant. *)

Counters == faults' \in 0 .. MaxFaults /\ breaks' \in 0 .. MaxTeardowns

\* The invariant with its parts named.
LEMMA LinkInvParts ==
    LinkInv <=> /\ TypeOK /\ AllJustified /\ Ends /\ Agreement /\ ReasonAgrees
                /\ AnsweredIsServed
  BY DEF LinkInv, AllJustified

\* Only packets move, and the applications' record of theirs.
LEMMA PacketsOnly ==
    ASSUME LinkInv, NEW N, Carries(N),
           \A e \in End, x \in Packet : <<e, x>> \in N => Justified(e, x),
           UNCHANGED <<estab, remote, receipt, served, knew>>,
           data' \in [End -> {"none", "sent", "got"}], Counters
    PROVE  LinkInv'
<1>1. /\ TypeOK /\ AllJustified /\ Ends /\ Agreement /\ ReasonAgrees
      /\ AnsweredIsServed
  BY LinkInvParts
<1>2. UNCHANGED <<status, listed, owned, reason, mtu, told, expired,
                  remote, receipt, served, knew>>
  BY DEF estab
<1>3. Grows
  BY <1>2 DEF Grows, Served
<1>4. \A e \in End, x \in Packet : <<e, x>> \in N => Justified(e, x)'
  BY <1>2 DEF Justified, Served
<1>5. AllJustified'
  BY <1>1, <1>3, <1>4, StaysJustified
<1>6. TypeOK'
  BY <1>1, <1>2 DEF TypeOK, Carries, Counters
<1>7. Ends' /\ Agreement' /\ ReasonAgrees' /\ AnsweredIsServed'
  BY <1>1, <1>2 DEF Ends, Agreement, ReasonAgrees, AnsweredIsServed
<1> QED BY <1>5, <1>6, <1>7 DEF LinkInv, AllJustified

\* A step that changes nothing but the packets under way, and sends only
\* justified ones, keeps the invariant.
LEMMA AirOnly ==
    ASSUME LinkInv, NEW N, Carries(N),
           \A e \in End, x \in Packet : <<e, x>> \in N => Justified(e, x),
           UNCHANGED <<estab, exchange>>, Counters
    PROVE  LinkInv'
<1>1. data' \in [End -> {"none", "sent", "got"}]
  BY DEF exchange, LinkInv, TypeOK
<1>2. UNCHANGED <<estab, remote, receipt, served, knew>>
  BY DEF exchange
<1> QED BY <1>1, <1>2, PacketsOnly

\* A packet is changed on its way to e.
LEMMA ChangedFacts ==
    ASSUME TypeOK, NEW e \in End, NEW i \in DOMAIN air[e], NEW x \in Packet,
           air' = [air EXCEPT ![e] = [air[e] EXCEPT ![i] = x]]
    PROVE  Carries({<<e, x>>})
<1> DEFINE q == [air[e] EXCEPT ![i] = x]
<1>1. /\ air[e] \in Seq(Packet) /\ DOMAIN q = DOMAIN air[e]
      /\ \A j \in DOMAIN q : q[j] = IF j = i THEN x ELSE air[e][j]
  BY AirFacts
<1>2. q \in Seq(Packet)
  BY <1>1, ExceptSeq
<1>3. Queue(e, q, {x})
  BY <1>1, <1>2 DEF Queue
<1> HIDE DEF q
<1>4. Carries({e} \X {x})
  BY <1>3, CarriesOne DEF q
<1> QED BY <1>4 DEF Carries

\* The carrier (clamped MTU, lost, garbled and repeated packets) keeps the
\* invariant, and so does identify().
LEMMA CarrierStep ==
    ASSUME LinkInv, Clamp \/ identify \/ Lose \/ Garble \/ Repeat
    PROVE  LinkInv'
<1>1. TypeOK
  BY DEF LinkInv
<1>2. Counters
  <2>1. faults \in 0 .. MaxFaults /\ breaks \in 0 .. MaxTeardowns
    BY <1>1 DEF TypeOK
  <2> QED BY <1>1, <2>1, BoundFacts
          DEF Counters, Clamp, identify, Lose, Garble, Repeat
<1>3. UNCHANGED <<estab, exchange>>
  BY DEF Clamp, identify, Lose, Garble, Repeat
<1>4. CASE Clamp
  <2>1. PICK i \in DOMAIN air["R"], m \in Mtu :
          air["R"][i].t = "LR" /\ air' = [air EXCEPT !["R"][i].mtu = m]
    BY <1>4 DEF Clamp
  <2> DEFINE x == [air["R"][i] EXCEPT !.mtu = m]
  <2>2. "R" \in End
    BY DEF End
  <2>3. air["R"][i] \in Packet
    BY <1>1, <2>2, AirFacts
  <2>4. x \in Packet /\ x.t = "LR"
    BY <2>1, <2>3 DEF Packet
  <2>5. air' = [air EXCEPT !["R"] = [air["R"] EXCEPT ![i] = x]]
    BY <2>1
  <2> HIDE DEF x
  <2>6. Carries({<<"R", x>>})
    BY <1>1, <2>2, <2>4, <2>5, ChangedFacts
  <2>7. Justified("R", x)
    BY <2>4 DEF Justified
  <2> QED BY <1>2, <1>3, <2>6, <2>7, AirOnly
<1>5. CASE identify
  <2>1. P("ID") \in Packet /\ P("ID").t = "ID"
    BY PacketFacts
  <2>2. Carries({<<Other("I"), P("ID")>>})
    BY <1>1, <1>5, <2>1, SendFacts DEF identify, End
  <2>3. Justified(Other("I"), P("ID"))
    BY <2>1 DEF Justified
  <2> QED BY <1>2, <1>3, <2>2, <2>3, AirOnly
<1>6. CASE Lose
  <2>1. Carries({})
    BY <1>1, <1>6, TakeFacts DEF Lose
  <2> QED BY <1>2, <1>3, <2>1, AirOnly
<1>7. CASE Garble
  <2>1. PICK i \in DOMAIN air["I"], t \in {"BADMODE", "BADSIG"} :
          air' = [air EXCEPT !["I"][i] = P(t)]
    BY <1>7 DEF Garble
  <2>2. P(t) \in Packet /\ P(t).t = t /\ "I" \in End
    BY PacketFacts DEF End
  <2>3. air' = [air EXCEPT !["I"] = [air["I"] EXCEPT ![i] = P(t)]]
    BY <2>1
  <2>4. Carries({<<"I", P(t)>>})
    BY <1>1, <2>2, <2>3, ChangedFacts
  <2>5. Justified("I", P(t))
    BY <2>2 DEF Justified
  <2> QED BY <1>2, <1>3, <2>4, <2>5, AirOnly
<1>8. CASE Repeat
  <2>1. PICK e \in End : \E i \in DOMAIN air[e] :
          air' = [air EXCEPT ![e] = Append(@, air[e][i])]
    BY <1>8 DEF Repeat
  <2>2. PICK i \in DOMAIN air[e] :
          air' = [air EXCEPT ![e] = Append(air[e], air[e][i])]
    BY <2>1
  <2>3. air[e][i] \in Packet
    BY <1>1, AirFacts
  <2>4. Queue(e, Append(air[e], air[e][i]), {} \union {air[e][i]})
    BY <1>1, <2>3, QueueFacts, AppendFacts
  <2>5. Carries({e} \X ({} \union {air[e][i]}))
    BY <1>1, <2>2, <2>4, CarriesOne
  <2>6. Justified(e, air[e][i])
    BY DEF LinkInv
  <2> QED BY <1>2, <1>3, <2>5, <2>6, AirOnly
<1> QED BY <1>4, <1>5, <1>6, <1>7, <1>8

\* Opening the link, with the request that goes out, keeps the invariant.
LEMMA OpenStep ==
    ASSUME LinkInv, Open
    PROVE  LinkInv'
<1>1. /\ TypeOK /\ AllJustified /\ Ends /\ Agreement /\ ReasonAgrees
      /\ AnsweredIsServed
  BY LinkInvParts
<1>2. PICK m \in Mtu : /\ mtu' = [mtu EXCEPT !["I"] = m]
                       /\ air' = Send("I", LinkRequest(m))
  BY DEF Open
<1>3. /\ status["I"] = "NONE"
      /\ status' = [status EXCEPT !["I"] = "PENDING"]
      /\ listed' = [listed EXCEPT !["I"] = "pending"]
      /\ UNCHANGED <<owned, reason, remote, receipt, data, served, knew, told,
                     expired, faults, breaks>>
  BY DEF Open, register_link, exchange
<1>4. LinkRequest(m) \in Packet /\ LinkRequest(m).t = "LR"
  BY PacketFacts
<1>5. Carries({<<Other("I"), LinkRequest(m)>>})
  BY <1>1, <1>2, <1>4, SendFacts DEF End
<1>6. TypeOK'
  BY <1>1, <1>2, <1>3, <1>5 DEF TypeOK, Carries, Status, End
<1>7. /\ status'["I"] = "PENDING" /\ status'["R"] = status["R"]
      /\ mtu'["R"] = mtu["R"] /\ listed'["I"] = "pending"
      /\ listed'["R"] = listed["R"]
  BY <1>1, <1>2, <1>3 DEF TypeOK, End
<1>8. Grows
  BY <1>3, <1>7 DEF Grows, Served
<1>9. Justified(Other("I"), LinkRequest(m))'
  BY <1>4 DEF Justified
<1>10. AllJustified'
  BY <1>1, <1>5, <1>8, <1>9, StaysJustified
<1>11. Ends' /\ Agreement' /\ ReasonAgrees' /\ AnsweredIsServed'
  BY <1>1, <1>3, <1>7 DEF Ends, Agreement, ReasonAgrees, AnsweredIsServed
<1> QED BY <1>6, <1>10, <1>11 DEF LinkInv, AllJustified

\* Requests and packets of the applications keep the invariant.
LEMMA TrafficStep ==
    ASSUME LinkInv, (\E r \in Req : request(r)) \/ (\E e \in End : SendData(e))
    PROVE  LinkInv'
<1>1. /\ TypeOK /\ AllJustified /\ Ends /\ Agreement /\ ReasonAgrees
      /\ AnsweredIsServed
  BY LinkInvParts
<1>2. UNCHANGED <<estab, remote, served, faults, breaks>>
  BY DEF request, SendData
<1>3. UNCHANGED <<status, listed, owned, reason, mtu, told, expired, remote,
                  served, faults, breaks>>
  BY <1>2 DEF estab
<1>4. Grows
  BY <1>3 DEF Grows, Served
<1>5. Ends' /\ Agreement' /\ ReasonAgrees'
  BY <1>1, <1>3 DEF Ends, Agreement, ReasonAgrees
<1>6. CASE \E r \in Req : request(r)
  <2>1. PICK r \in Req : request(r)
    BY <1>6
  <2> DEFINE x == [t |-> IF Kind[r].big THEN "BREQ" ELSE "REQ", r |-> r]
  <2>2. x \in Packet /\ x.t \in {"REQ", "BREQ"}
    BY PacketFacts
  <2>3. air' = air \/ air' = Send("I", x)
    BY <2>1 DEF request
  <2> HIDE DEF x
  <2>4. Carries({<<Other("I"), x>>})
    <3>1. CASE air' = air
      BY <1>1, <3>1 DEF TypeOK, Carries
    <3>2. CASE air' = Send("I", x)
      BY <1>1, <2>2, <3>2, SendFacts DEF End
    <3> QED BY <2>3, <3>1, <3>2
  <2>5. Justified(Other("I"), x)'
    BY <2>2 DEF Justified
  <2>6. AllJustified'
    BY <1>1, <1>4, <2>4, <2>5, StaysJustified
  <2>7. /\ receipt' = [receipt EXCEPT ![r] = "sent"]
        /\ knew' = [knew EXCEPT ![r] = Identifying]
        /\ data' = data
    BY <2>1 DEF request
  <2>8. Identifying \in BOOLEAN
    BY <1>1 DEF Identifying, TypeOK
  <2>9. TypeOK'
    BY <1>1, <1>3, <2>4, <2>7, <2>8 DEF TypeOK, Carries
  <2>10. AnsweredIsServed'
    BY <1>1, <1>3, <2>7 DEF AnsweredIsServed, TypeOK
  <2> QED BY <1>5, <2>6, <2>9, <2>10 DEF LinkInv, AllJustified
<1>7. CASE \E e \in End : SendData(e)
  <2>1. PICK e \in End : SendData(e)
    BY <1>7
  <2>2. P("DATA") \in Packet /\ P("DATA").t = "DATA"
    BY PacketFacts
  <2>3. Carries({<<Other(e), P("DATA")>>})
    BY <1>1, <2>1, <2>2, SendFacts DEF SendData
  <2>4. Justified(Other(e), P("DATA"))'
    BY <2>2 DEF Justified
  <2>5. AllJustified'
    BY <1>1, <1>4, <2>3, <2>4, StaysJustified
  <2>6. data' = [data EXCEPT ![e] = "sent"] /\ UNCHANGED <<receipt, knew>>
    BY <2>1 DEF SendData
  <2>7. TypeOK'
    BY <1>1, <1>3, <2>3, <2>6 DEF TypeOK, Carries
  <2>8. AnsweredIsServed'
    BY <1>1, <1>3, <2>6 DEF AnsweredIsServed
  <2> QED BY <1>5, <2>5, <2>7, <2>8 DEF LinkInv, AllJustified
<1> QED BY <1>6, <1>7

\* An end closes the link, or learns that the other one has.
LEMMA ClosedFacts ==
    ASSUME TypeOK, NEW e \in End,
           NEW why \in {"INITIATOR_CLOSED", "DESTINATION_CLOSED"},
           link_closed(e, why)
    PROVE  /\ status' \in [End -> Status]
           /\ reason' \in [End -> {"none", "INITIATOR_CLOSED", "DESTINATION_CLOSED"}]
           /\ owned' \in BOOLEAN
           /\ told' \in [End -> [established: Nat, closed: Nat, failed: BOOLEAN]]
           /\ \A f \in End :
                 /\ status'[f] = IF f = e THEN "CLOSED" ELSE status[f]
                 /\ reason'[f] = IF f = e THEN why ELSE reason[f]
                 /\ told'[f].established = told[f].established
           /\ owned' <=> owned /\ e # "R"
<1>1. told \in [End -> Told]
  BY DEF TypeOK, Told
<1>2. told' = [told EXCEPT ![e].closed = @ + 1]
  BY DEF link_closed
<1>3. /\ told' \in [End -> Told]
      /\ \A f \in End : told'[f].established = told[f].established
  BY <1>1, <1>2, ToldFacts
<1> QED BY <1>3 DEF TypeOK, link_closed, Status, Told

\* link_closed() undoes nothing that justifies a packet.
LEMMA ClosedGrows ==
    ASSUME TypeOK, NEW e \in End,
           NEW why \in {"INITIATOR_CLOSED", "DESTINATION_CLOSED"},
           link_closed(e, why), UNCHANGED <<mtu, served, remote>>
    PROVE  Grows
  BY ClosedFacts DEF Grows, Served, End

\* It is the end's own word, or the other's, that the link is closed.
LEMMA ClosedInv ==
    ASSUME TypeOK, Ends, Agreement, ReasonAgrees, AnsweredIsServed,
           NEW e \in End,
           NEW why \in {"INITIATOR_CLOSED", "DESTINATION_CLOSED"},
           link_closed(e, why), UNCHANGED <<listed, mtu, remote, receipt, served, expired>>,
           \/ why = (IF e = "I" THEN "INITIATOR_CLOSED" ELSE "DESTINATION_CLOSED")
           \/ reason[Other(e)] # "none"
    PROVE  Ends' /\ Agreement' /\ ReasonAgrees' /\ AnsweredIsServed'
<1>1. \A f \in End :
        /\ status'[f] = IF f = e THEN "CLOSED" ELSE status[f]
        /\ reason'[f] = IF f = e THEN why ELSE reason[f]
        /\ told'[f].established = told[f].established
  BY ClosedFacts
<1>2. owned' <=> owned /\ e # "R"
  BY ClosedFacts
<1>3. Ends'
  BY <1>1 DEF Ends, End
<1>4. Agreement'
  <2>1. owned \in BOOLEAN /\ owned' \in BOOLEAN
    BY ClosedFacts DEF TypeOK
  <2>2. owned <=> status["R"] \in {"HANDSHAKE", "ACTIVE"}
    BY DEF Agreement
  <2>3. status'["R"] = IF e = "R" THEN "CLOSED" ELSE status["R"]
    BY <1>1 DEF End
  <2>4. owned' = (status'["R"] \in {"HANDSHAKE", "ACTIVE"})
    BY <1>2, <2>1, <2>2, <2>3
  <2>5. /\ status'["I"] = "ACTIVE" => status'["R"] # "NONE" /\ mtu'["I"] = mtu'["R"]
        /\ status'["R"] = "ACTIVE" => told'["I"].established > 0
    BY <1>1 DEF Agreement, End
  <2> QED BY <2>4, <2>5 DEF Agreement
<1>5. ReasonAgrees'
  BY <1>1 DEF ReasonAgrees, End, Other
<1>6. AnsweredIsServed'
  BY DEF AnsweredIsServed
<1> QED BY <1>3, <1>4, <1>5, <1>6

\* teardown() at either end keeps the invariant: the CLOSE packet it sends is
\* justified by the reason it records.
LEMMA TeardownStep ==
    ASSUME LinkInv, NEW e \in End, teardown(e)
    PROVE  LinkInv'
<1>1. /\ TypeOK /\ AllJustified /\ Ends /\ Agreement /\ ReasonAgrees
      /\ AnsweredIsServed
  BY LinkInvParts
<1> DEFINE why == IF e = "I" THEN "INITIATOR_CLOSED" ELSE "DESTINATION_CLOSED"
<1>2. /\ link_closed(e, why)
      /\ air' = air \/ air' = Send(e, P("CLOSE"))
      /\ UNCHANGED <<listed, mtu, remote, receipt, data, served, knew, expired,
                     faults>>
      /\ Interrupts
  BY DEF teardown, exchange
<1>3. why \in {"INITIATOR_CLOSED", "DESTINATION_CLOSED"}
  OBVIOUS
<1> HIDE DEF why
<1>4. P("CLOSE") \in Packet /\ P("CLOSE").t = "CLOSE"
  BY PacketFacts
<1>5. Carries({<<Other(e), P("CLOSE")>>})
  <2>1. CASE air' = air
    BY <1>1, <2>1 DEF TypeOK, Carries
  <2>2. CASE air' = Send(e, P("CLOSE"))
    BY <1>1, <1>4, <2>2, SendFacts
  <2> QED BY <1>2, <2>1, <2>2
<1>6. Grows
  BY <1>1, <1>2, <1>3, ClosedGrows
<1>7. Other(Other(e)) = e /\ reason'[e] = why
  BY <1>1, <1>2, <1>3, ClosedFacts DEF Other, End
<1>8. Justified(Other(e), P("CLOSE"))'
  BY <1>3, <1>4, <1>7 DEF Justified
<1>9. AllJustified'
  BY <1>1, <1>5, <1>6, <1>8, StaysJustified
<1>10. TypeOK'
  <2>1. breaks' \in 0 .. MaxTeardowns
    BY <1>1, <1>2, BoundFacts
  <2> QED BY <1>1, <1>2, <1>3, <1>5, <2>1, ClosedFacts DEF TypeOK, Carries
<1>11. Ends' /\ Agreement' /\ ReasonAgrees' /\ AnsweredIsServed'
  BY <1>1, <1>2, <1>3, ClosedInv DEF why
<1> QED BY <1>9, <1>10, <1>11 DEF LinkInv, AllJustified

\* The visit of Transport::jobs() to pending and closed links keeps the
\* invariant.
LEMMA JobsStep ==
    ASSUME LinkInv, jobs
    PROVE  LinkInv'
<1>1. /\ TypeOK /\ AllJustified /\ Ends /\ Agreement /\ ReasonAgrees
      /\ AnsweredIsServed
  BY LinkInvParts
<1>2. PICK e \in End : Cull(e)
  BY DEF jobs
<1>3. UNCHANGED <<status, owned, reason, mtu, remote, receipt, data, served, knew,
                  air, told, faults, breaks>>
  BY DEF jobs, exchange
<1>4. /\ status[e] = "CLOSED" /\ listed[e] # "no"
      /\ listed' = [listed EXCEPT ![e] = "no"]
      /\ expired' = (expired \/ listed[e] = "pending")
  BY <1>2 DEF Cull
<1>5. TypeOK'
  BY <1>1, <1>3, <1>4 DEF TypeOK
<1>6. \A f \in End : listed'[f] = IF f = e THEN "no" ELSE listed[f]
  BY <1>1, <1>4 DEF TypeOK
<1>7. Ends'
  <2>1. expired' <=> expired \/ listed[e] = "pending"
    BY <1>4
  <2>2. e = "I" \/ e = "R"
    BY DEF End
  <2>3. /\ listed'["R"] = IF e = "R" THEN "no" ELSE listed["R"]
        /\ listed'["I"] = IF e = "I" THEN "no" ELSE listed["I"]
    BY <1>6 DEF End
  <2>4. CASE e = "I"
    BY <1>1, <1>3, <1>4, <2>1, <2>3, <2>4 DEF Ends
  <2>5. CASE e = "R"
    BY <1>1, <1>3, <1>4, <2>1, <2>3, <2>5 DEF Ends
  <2> QED BY <2>2, <2>4, <2>5
<1>8. AllJustified' /\ Agreement' /\ ReasonAgrees' /\ AnsweredIsServed'
  <2>1. AllJustified' <=> AllJustified
    BY <1>3 DEF AllJustified, Justified, Served
  <2>2. Agreement' <=> Agreement
    BY <1>3 DEF Agreement
  <2>3. (ReasonAgrees' <=> ReasonAgrees) /\ (AnsweredIsServed' <=> AnsweredIsServed)
    BY <1>3 DEF ReasonAgrees, AnsweredIsServed
  <2> QED BY <1>1, <2>1, <2>2, <2>3
<1> QED BY <1>5, <1>7, <1>8 DEF LinkInv, AllJustified

\* A link request that reaches the responder keeps the invariant: the proof
\* it answers with carries the MTU it has stored.
LEMMA ReceiveRequestStep ==
    ASSUME LinkInv, ReceiveRequest
    PROVE  LinkInv'
<1>1. /\ TypeOK /\ AllJustified /\ Ends /\ Agreement /\ ReasonAgrees
      /\ AnsweredIsServed
  BY LinkInvParts
<1>2. "I" \in End /\ "R" \in End /\ \A e \in End : e = "I" \/ e = "R"
  BY DEF End
<1>3. PICK i \in DOMAIN air["R"], h \in HwMtu :
        /\ air["R"][i].t = "LR" /\ i = 1
        /\ validate_request(ClampedTo(h, air["R"][i].mtu))
  BY DEF ReceiveRequest
<1>4. PICK m : m = ClampedTo(h, air["R"][i].mtu)
  OBVIOUS
<1>5. m \in Mtu
  <2>1. air["R"][i] \in Packet
    BY <1>1, <1>2, AirFacts
  <2>2. air["R"][i].mtu \in Mtu
    BY <1>3, <2>1, PacketFacts
  <2> QED BY <1>4, <2>2, MtuAssumption DEF ClampedTo
<1>6. /\ status["R"] = "NONE"
      /\ status' = [status EXCEPT !["R"] = "HANDSHAKE"]
      /\ listed' = [listed EXCEPT !["R"] = "active"]
      /\ owned' = TRUE
      /\ mtu' = [mtu EXCEPT !["R"] = m]
      /\ air' = [I |-> Append(air["I"], Proof(m)), R |-> Tail(air["R"])]
  BY <1>3, <1>4 DEF validate_request, register_link
<1>7. UNCHANGED <<reason, remote, receipt, data, served, knew, told, expired,
                  breaks, faults>>
  BY DEF ReceiveRequest, exchange
<1>8. Proof(m) \in Packet /\ Proof(m).t = "PROOF" /\ Proof(m).mtu = m
  BY <1>5, PacketFacts
<1>9. Carries({<<"I", Proof(m)>>})
  <2> DEFINE q == Append(air["I"], Proof(m))
             p == Tail(air["R"])
  <2>1. Len(air["R"]) > 0
    BY <1>1, <1>2, <1>3, AirFacts
  <2>2. Queue("I", q, {} \union {Proof(m)}) /\ Queue("R", p, {})
    BY <1>1, <1>2, <1>8, <2>1, QueueFacts, AppendFacts
  <2> HIDE DEF q, p
  <2>3. air' = [I |-> q, R |-> p]
    BY <1>6 DEF q, p
  <2>4. /\ air' = [e \in End |-> IF e = "I" THEN q ELSE p]
    BY <2>3 DEF End
  <2>5. air'["I"] = q /\ air'["R"] = p /\ air' \in [End -> Seq(Packet)]
    BY <1>2, <2>2, <2>4 DEF Queue
  <2> QED BY <1>2, <2>2, <2>5 DEF Carries, Queue
<1>10. /\ status'["R"] = "HANDSHAKE" /\ status'["I"] = status["I"]
      /\ listed'["R"] = "active" /\ listed'["I"] = listed["I"]
      /\ mtu'["R"] = m
  BY <1>1, <1>2, <1>6 DEF TypeOK
<1>11. Grows
  BY <1>6, <1>7 DEF Grows, Served
<1>12. Justified("I", Proof(m))'
  BY <1>8, <1>10 DEF Justified
<1>13. AllJustified'
  BY <1>1, <1>9, <1>11, <1>12, StaysJustified
<1>14. TypeOK'
  BY <1>1, <1>5, <1>6, <1>7, <1>9 DEF TypeOK, Carries, Status
<1>15. Ends' /\ ReasonAgrees' /\ AnsweredIsServed'
  BY <1>1, <1>7, <1>10 DEF Ends, ReasonAgrees, AnsweredIsServed
<1>16. Agreement'
  BY <1>1, <1>6, <1>7, <1>10 DEF Agreement
<1> QED BY <1>13, <1>14, <1>15, <1>16 DEF LinkInv, AllJustified

\* A link proof that reaches the initiator keeps the invariant: from it the
\* initiator has the MTU of the responder.
LEMMA ReceiveProofStep ==
    ASSUME LinkInv, ReceiveProof
    PROVE  LinkInv'
<1>1. /\ TypeOK /\ AllJustified /\ Ends /\ Agreement /\ ReasonAgrees
      /\ AnsweredIsServed
  BY LinkInvParts
<1>2. "I" \in End /\ "R" \in End /\ \A e \in End : e = "I" \/ e = "R"
  BY DEF End
<1>3. PICK i \in DOMAIN air["I"] :
        LET x == air["I"][i] IN
        /\ x.t \in {"PROOF", "BADMODE", "BADSIG"}
        /\ Takes("I", i)
        /\ IF AwaitsProof
           THEN /\ validate_proof(x)
                /\ air' = IF x.t = "PROOF"
                          THEN [Taken("I", i) EXCEPT !["R"] = Append(@, P("RTT"))]
                          ELSE Taken("I", i)
           ELSE /\ air' = Taken("I", i)
                /\ UNCHANGED <<status, listed, mtu, told, breaks>>
  BY DEF ReceiveProof
<1>4. UNCHANGED <<owned, reason, remote, receipt, data, served, knew, expired>>
  BY DEF ReceiveProof, exchange
<1> DEFINE x == air["I"][i]
<1>5. x \in Packet /\ Justified("I", x)
  BY <1>1, <1>2, AirFacts DEF AllJustified
<1>6. faults' \in 0 .. MaxFaults
  <2>1. i \in Nat
    BY <1>1, <1>2, AirFacts
  <2> QED BY <1>1, <1>2, <1>3, <2>1, BoundFacts
<1>7. breaks' = breaks \/ Interrupts
  BY <1>3 DEF validate_proof
<1>8. Counters
  BY <1>1, <1>6, <1>7, BoundFacts DEF Counters, TypeOK
<1>9. CASE ~AwaitsProof
  <2>1. Carries({})
    BY <1>1, <1>2, <1>3, <1>9, TakeFacts
  <2>2. UNCHANGED <<estab, exchange>>
    BY <1>3, <1>4, <1>9 DEF estab, exchange
  <2> QED BY <1>8, <2>1, <2>2, AirOnly
<1>10. CASE AwaitsProof /\ x.t = "PROOF"
  <2>1. P("RTT") \in Packet /\ P("RTT").t = "RTT"
    BY PacketFacts
  <2>2. Carries({<<"R", P("RTT")>>})
    BY <1>1, <1>2, <1>3, <1>10, <2>1, AnswerFacts
  <2>3. /\ validate_proof(x)
        /\ listed["I"] = "pending" /\ status["I"] = "PENDING"
    BY <1>3, <1>10 DEF AwaitsProof
  <2>4. /\ x.mtu = mtu["R"] /\ status["R"] # "NONE" /\ x.mtu \in Mtu
    BY <1>1, <1>2, <1>5, <1>10 DEF Justified, TypeOK
  <2>5. /\ listed' = [listed EXCEPT !["I"] = "active"]
        /\ mtu' = [mtu EXCEPT !["I"] = x.mtu]
        /\ \/ /\ status' = [status EXCEPT !["I"] = "ACTIVE"]
              /\ told' = Established("I")
           \/ /\ status' = [status EXCEPT !["I"] = "CLOSED"]
              /\ told' = [Established("I") EXCEPT !["I"].failed = TRUE]
    BY <1>10, <2>3 DEF validate_proof, activate_link, ConfirmedMtu
  <2>6. told' \in [End -> Told] /\ told'["I"].established > 0
    <3>1. told \in [End -> Told] /\ told["I"].established \in Nat
      BY <1>1, <1>2 DEF TypeOK, Told
    <3>2. /\ Established("I") \in [End -> Told]
          /\ Established("I")["I"].established = told["I"].established + 1
      BY <1>2, <3>1, ToldFacts
    <3>3. CASE told' = Established("I")
      BY <3>1, <3>2, <3>3
    <3>4. CASE told' = [Established("I") EXCEPT !["I"].failed = TRUE]
      BY <1>2, <3>1, <3>2, <3>4, FailedFacts
    <3> QED BY <2>5, <3>3, <3>4
  <2>7. /\ listed' \in [End -> {"no", "pending", "active"}]
        /\ mtu' \in [End -> Mtu] /\ status' \in [End -> Status]
        /\ listed'["I"] = "active" /\ listed'["R"] = listed["R"]
        /\ mtu'["I"] = mtu["R"] /\ mtu'["R"] = mtu["R"]
        /\ status'["I"] \in {"ACTIVE", "CLOSED"} /\ status'["R"] = status["R"]
    <3>1. PICK s \in {"ACTIVE", "CLOSED"} : status' = [status EXCEPT !["I"] = s]
      BY <2>5
    <3>2. /\ status' \in [End -> Status]
          /\ status'["I"] = s /\ status'["R"] = status["R"]
      BY <1>1, <1>2, <3>1 DEF TypeOK, Status
    <3> QED BY <1>1, <1>2, <2>4, <2>5, <3>2 DEF TypeOK
  <2>8. Grows
    BY <1>4, <2>6, <2>7 DEF Grows, Served
  <2>9. Justified("R", P("RTT"))'
    BY <2>1, <2>6 DEF Justified
  <2>10. AllJustified'
    BY <1>1, <2>2, <2>8, <2>9, StaysJustified
  <2>11. TypeOK'
    BY <1>1, <1>4, <1>8, <2>2, <2>6, <2>7 DEF TypeOK, Carries, Counters, Told
  <2>12. Ends'
    BY <1>1, <1>4, <2>3, <2>7 DEF Ends
  <2>13. Agreement'
    BY <1>1, <1>4, <2>4, <2>6, <2>7 DEF Agreement
  <2>14. ReasonAgrees' /\ AnsweredIsServed'
    BY <1>1, <1>4 DEF ReasonAgrees, AnsweredIsServed
  <2> QED BY <2>10, <2>11, <2>12, <2>13, <2>14 DEF LinkInv, AllJustified
<1>11. CASE AwaitsProof /\ x.t # "PROOF"
  <2>1. Carries({})
    BY <1>1, <1>2, <1>3, <1>11, TakeFacts
  <2>2. /\ status["I"] = "PENDING"
        /\ \/ status' = [status EXCEPT !["I"] = "HANDSHAKE"]
           \/ status' = [status EXCEPT !["I"] = "CLOSED"]
        /\ UNCHANGED <<listed, mtu, told>>
    BY <1>3, <1>11 DEF AwaitsProof, validate_proof
  <2>3. /\ status' \in [End -> Status] /\ status'["R"] = status["R"]
        /\ status'["I"] \in {"HANDSHAKE", "CLOSED"}
    <3>1. PICK s \in {"HANDSHAKE", "CLOSED"} :
            status' = [status EXCEPT !["I"] = s]
      BY <2>2
    <3> QED BY <1>1, <1>2, <3>1 DEF TypeOK, Status
  <2>4. Grows
    BY <1>4, <2>2, <2>3 DEF Grows, Served
  <2>5. AllJustified'
    BY <1>1, <2>1, <2>4, StaysJustified
  <2>6. TypeOK'
    BY <1>1, <1>4, <1>8, <2>1, <2>2, <2>3 DEF TypeOK, Carries, Counters
  <2>7. Ends'
    BY <1>1, <1>4, <2>2, <2>3 DEF Ends
  <2>8. Agreement'
    BY <1>1, <1>4, <2>2, <2>3 DEF Agreement
  <2>9. ReasonAgrees' /\ AnsweredIsServed'
    BY <1>1, <1>4 DEF ReasonAgrees, AnsweredIsServed
  <2> QED BY <2>5, <2>6, <2>7, <2>8, <2>9 DEF LinkInv, AllJustified
<1> QED BY <1>9, <1>10, <1>11

\* Neither end's view of the link changes.
LEMMA QuietFacts ==
    ASSUME Quiet, UNCHANGED <<listed, mtu, expired>>
    PROVE  /\ UNCHANGED estab
           /\ UNCHANGED <<status, listed, owned, reason, mtu, told, expired>>
  BY DEF Quiet, estab

\* An application has a packet of the other one's, and may prove it.
LEMMA DataStep ==
    ASSUME LinkInv, NEW e \in End, NEW i \in DOMAIN air[e],
           ReceiveData(e, air[e][i], i), Quiet, Counters,
           UNCHANGED <<listed, mtu, expired, remote, receipt, served, knew>>
    PROVE  LinkInv'
<1>1. TypeOK
  BY DEF LinkInv
<1>2. Other(e) \in End /\ Other(e) # e
  BY DEF Other, End
<1>3. /\ data' = [data EXCEPT ![Other(e)] = "got"]
      /\ \/ air' = [Taken(e, i) EXCEPT ![Other(e)] = Append(@, P("DPROOF"))]
         \/ air' = Taken(e, i)
  BY DEF ReceiveData
<1>4. data' \in [End -> {"none", "sent", "got"}]
  BY <1>1, <1>2, <1>3 DEF TypeOK
<1>5. P("DPROOF") \in Packet /\ P("DPROOF").t = "DPROOF"
  BY PacketFacts
<1>6. Carries({<<Other(e), P("DPROOF")>>})
  <2>1. CASE air' = [Taken(e, i) EXCEPT ![Other(e)] = Append(@, P("DPROOF"))]
    BY <1>1, <1>2, <1>5, <2>1, AnswerFacts
  <2>2. CASE air' = Taken(e, i)
    <3>1. Carries({})
      BY <1>1, <2>2, TakeFacts
    <3> QED BY <3>1 DEF Carries
  <2> QED BY <1>3, <2>1, <2>2
<1>7. Justified(Other(e), P("DPROOF"))
  BY <1>5 DEF Justified
<1>8. UNCHANGED <<estab, remote, receipt, served, knew>>
  BY QuietFacts
<1> QED BY <1>4, <1>6, <1>7, <1>8, PacketsOnly

\* The other end has closed the link.
LEMMA PeerClosedStep ==
    ASSUME LinkInv, NEW e \in End, NEW i \in DOMAIN air[e],
           teardown_packet(e, air[e][i]), air' = Taken(e, i),
           Counters,
           UNCHANGED <<listed, mtu, expired, remote, receipt, data, served, knew>>
    PROVE  LinkInv'
<1>1. /\ TypeOK /\ AllJustified /\ Ends /\ Agreement /\ ReasonAgrees
      /\ AnsweredIsServed
  BY LinkInvParts
<1>2. PICK why \in {"INITIATOR_CLOSED", "DESTINATION_CLOSED"} :
        link_closed(e, why)
  BY DEF teardown_packet
<1>3. reason[Other(e)] # "none"
  BY <1>1 DEF AllJustified, Justified, teardown_packet
<1>4. Carries({})
  BY <1>1, TakeFacts
<1>5. Grows
  BY <1>1, <1>2, ClosedGrows
<1>6. AllJustified'
  BY <1>1, <1>4, <1>5, StaysJustified
<1>7. TypeOK'
  BY <1>1, <1>2, <1>4, ClosedFacts DEF TypeOK, Carries, Counters
<1>8. Ends' /\ Agreement' /\ ReasonAgrees' /\ AnsweredIsServed'
  BY <1>1, <1>2, <1>3, ClosedInv
<1> QED BY <1>6, <1>7, <1>8 DEF LinkInv, AllJustified

\* The responder serves a request, or drops it.
LEMMA ServeStep ==
    ASSUME LinkInv, NEW i \in DOMAIN air["R"],
           air["R"][i].t \in {"REQ", "BREQ"}, Serve(air["R"][i], i), Counters,
           UNCHANGED <<listed, mtu, expired, receipt, data, knew>>
    PROVE  LinkInv'
<1>1. /\ TypeOK /\ AllJustified /\ Ends /\ Agreement /\ ReasonAgrees
      /\ AnsweredIsServed
  BY LinkInvParts
<1>2. "I" \in End /\ "R" \in End
  BY DEF End
<1>3. PICK r : r = air["R"][i].r
  OBVIOUS
<1>4. r \in Req
  BY <1>1, <1>2, <1>3, AirFacts, PacketFacts
<1>5. /\ Quiet /\ UNCHANGED remote
      /\ IF handle_request(r)
         THEN /\ served' = [served EXCEPT ![r] = @ + 1]
              /\ air' = [Taken("R", i) EXCEPT !["I"] = Append(@, Response(r))]
         ELSE air' = Taken("R", i) /\ UNCHANGED served
  BY <1>3 DEF Serve
<1>6. UNCHANGED <<status, listed, owned, reason, mtu, told, expired>>
  BY <1>5, QuietFacts
<1>7. CASE ~handle_request(r)
  <2>1. Carries({})
    BY <1>1, <1>2, <1>5, <1>7, TakeFacts
  <2>2. UNCHANGED <<estab, exchange>>
    BY <1>5, <1>6, <1>7 DEF estab, exchange
  <2> QED BY <2>1, <2>2, AirOnly
<1>8. CASE handle_request(r)
  <2>1. Response(r) \in Packet /\ Response(r).t \in {"RSP", "BRSP"} /\ Response(r).r = r
    BY <1>4, PacketFacts
  <2>2. Carries({<<"I", Response(r)>>})
    BY <1>1, <1>2, <1>5, <1>8, <2>1, AnswerFacts
  <2>3. /\ served' \in [Req -> Nat] /\ served'[r] > 0
        /\ \A s \in Req : served[s] > 0 => served'[s] > 0
    <3> DEFINE n == served[r] + 1
    <3>1. served \in [Req -> Nat] /\ n \in Nat /\ n > 0
      BY <1>1, <1>4 DEF TypeOK
    <3>2. served' = [served EXCEPT ![r] = n]
      BY <1>5, <1>8
    <3> HIDE DEF n
    <3> QED BY <1>4, <3>1, <3>2
  <2>4. Grows
    BY <1>5, <1>6, <2>3 DEF Grows, Served
  <2>5. Served(r)'
    BY <1>4, <1>5, <1>8, <2>3 DEF Served, handle_request, Allowed
  <2>6. Justified("I", Response(r))'
    BY <2>1, <2>5 DEF Justified
  <2>7. AllJustified'
    BY <1>1, <2>2, <2>4, <2>6, StaysJustified
  <2>8. TypeOK'
    BY <1>1, <1>5, <1>6, <2>2, <2>3 DEF TypeOK, Carries, Counters
  <2>9. Ends' /\ Agreement' /\ ReasonAgrees'
    BY <1>1, <1>6 DEF Ends, Agreement, ReasonAgrees
  <2>10. AnsweredIsServed'
    BY <1>1, <1>5, <2>3 DEF AnsweredIsServed
  <2> QED BY <2>7, <2>8, <2>9, <2>10 DEF LinkInv, AllJustified
<1> QED BY <1>7, <1>8

\* Whatever Link::receive() does with a packet at the responder keeps the
\* invariant.
LEMMA ResponderReceivesStep ==
    ASSUME LinkInv, ResponderReceives
    PROVE  LinkInv'
<1>1. /\ TypeOK /\ AllJustified /\ Ends /\ Agreement /\ ReasonAgrees
      /\ AnsweredIsServed
  BY LinkInvParts
<1>2. "I" \in End /\ "R" \in End
  BY DEF End
<1>3. PICK i \in DOMAIN air["R"] :
        LET x == air["R"][i] IN
        /\ Takes("R", i)
        /\ \/ /\ air' = Taken("R", i)
              /\ Quiet /\ UNCHANGED <<remote, served, data>>
           \/ /\ ReceiveRequestPacket(x, i) \/ request_resource_concluded(x, i)
              /\ UNCHANGED data
           \/ /\ ReceiveData("R", x, i)
              /\ Quiet /\ UNCHANGED <<remote, served>>
           \/ /\ Hears("R")
              /\ \/ rtt_packet(x)
                 \/ ReceiveIdentify(x)
                 \/ teardown_packet("R", x) /\ UNCHANGED <<remote, served>>
              /\ air' = Taken("R", i)
              /\ UNCHANGED data
        /\ UNCHANGED <<listed, mtu, receipt, knew, expired, breaks>>
  BY DEF ResponderReceives
<1> DEFINE x == air["R"][i]
<1>4. Counters
  <2>1. i \in Nat
    BY <1>1, <1>2, AirFacts
  <2> QED BY <1>1, <1>2, <1>3, <2>1, BoundFacts DEF Counters, TypeOK
<1>5. CASE /\ air' = Taken("R", i)
           /\ Quiet /\ UNCHANGED <<remote, served, data>>
  <2>1. Carries({})
    BY <1>1, <1>2, <1>5, TakeFacts
  <2>2. UNCHANGED <<estab, exchange>>
    BY <1>3, <1>5, QuietFacts DEF exchange
  <2> QED BY <1>4, <2>1, <2>2, AirOnly
<1>6. CASE /\ ReceiveRequestPacket(x, i) \/ request_resource_concluded(x, i)
           /\ UNCHANGED data
  <2>1. x.t \in {"REQ", "BREQ"} /\ Serve(x, i)
    BY <1>6 DEF ReceiveRequestPacket, request_resource_concluded
  <2> QED BY <1>3, <1>4, <1>6, <2>1, ServeStep
<1>7. CASE /\ ReceiveData("R", x, i)
           /\ Quiet /\ UNCHANGED <<remote, served>>
  BY <1>2, <1>3, <1>4, <1>7, DataStep
<1>8. CASE Hears("R") /\ rtt_packet(x) /\ air' = Taken("R", i) /\ UNCHANGED data
  <2>1. /\ status' = [status EXCEPT !["R"] = "ACTIVE"]
        /\ told' = Established("R") /\ x.t = "RTT"
        /\ UNCHANGED <<owned, reason, remote, served, listed, mtu, receipt, knew,
                       expired, data>>
    BY <1>3, <1>8 DEF rtt_packet
  <2>2. told["I"].established > 0
    BY <1>1, <1>2, <2>1 DEF AllJustified, Justified
  <2>3. Carries({})
    BY <1>1, <1>2, <1>8, TakeFacts
  <2>4. /\ told' \in [End -> Told] /\ told'["I"] = told["I"]
    <3>1. told \in [End -> Told]
      BY <1>1 DEF TypeOK, Told
    <3> QED BY <1>2, <2>1, <3>1, ToldFacts
  <2>5. /\ status' \in [End -> Status]
        /\ status'["R"] = "ACTIVE" /\ status'["I"] = status["I"]
    BY <1>1, <1>2, <2>1 DEF TypeOK, Status
  <2>6. status["R"] \in {"HANDSHAKE", "ACTIVE"}
    BY <1>1, <1>2, <1>8 DEF Hears, Ends, TypeOK, Status
  <2>7. Grows
    BY <2>1, <2>2, <2>4, <2>5 DEF Grows, Served
  <2>8. AllJustified'
    BY <1>1, <2>3, <2>7, StaysJustified
  <2>9. TypeOK'
    BY <1>1, <1>4, <2>1, <2>3, <2>4, <2>5 DEF TypeOK, Carries, Counters, Told
  <2>10. Ends'
    BY <1>1, <2>1, <2>4, <2>5 DEF Ends
  <2>11. Agreement'
    BY <1>1, <2>1, <2>2, <2>4, <2>5, <2>6 DEF Agreement
  <2>12. ReasonAgrees' /\ AnsweredIsServed'
    BY <1>1, <2>1 DEF ReasonAgrees, AnsweredIsServed
  <2> QED BY <2>8, <2>9, <2>10, <2>11, <2>12 DEF LinkInv, AllJustified
<1>9. CASE ReceiveIdentify(x) /\ air' = Taken("R", i) /\ UNCHANGED data
  <2>1. UNCHANGED <<status, owned, reason, served, listed, mtu, receipt, knew, told,
                    expired, data>>
        /\ remote' = TRUE
    BY <1>3, <1>9 DEF ReceiveIdentify, Quiet
  <2>2. Carries({})
    BY <1>1, <1>2, <1>9, TakeFacts
  <2>3. Grows
    BY <2>1 DEF Grows, Served
  <2>4. AllJustified'
    BY <1>1, <2>2, <2>3, StaysJustified
  <2>5. TypeOK'
    BY <1>1, <1>4, <2>1, <2>2 DEF TypeOK, Carries, Counters
  <2>6. Ends' /\ Agreement' /\ ReasonAgrees' /\ AnsweredIsServed'
    BY <1>1, <2>1 DEF Ends, Agreement, ReasonAgrees, AnsweredIsServed
  <2> QED BY <2>4, <2>5, <2>6 DEF LinkInv, AllJustified
<1>10. CASE /\ Hears("R") /\ teardown_packet("R", x)
            /\ UNCHANGED <<remote, served, data>> /\ air' = Taken("R", i)
  BY <1>2, <1>3, <1>4, <1>10, PeerClosedStep
<1> QED BY <1>3, <1>5, <1>6, <1>7, <1>8, <1>9, <1>10

\* Whatever Link::receive() does with a packet at the initiator keeps the
\* invariant.
LEMMA InitiatorReceivesStep ==
    ASSUME LinkInv, InitiatorReceives
    PROVE  LinkInv'
<1>1. /\ TypeOK /\ AllJustified /\ Ends /\ Agreement /\ ReasonAgrees
      /\ AnsweredIsServed
  BY LinkInvParts
<1>2. "I" \in End /\ "R" \in End
  BY DEF End
<1>3. PICK i \in DOMAIN air["I"] :
        LET x == air["I"][i] IN
        /\ Takes("I", i)
        /\ \/ /\ air' = Taken("I", i)
              /\ Quiet /\ UNCHANGED <<receipt, data>>
           \/ /\ ReceiveData("I", x, i)
              /\ Quiet /\ UNCHANGED receipt
           \/ /\ Hears("I")
              /\ \/ ReceiveResponse(x)
                 \/ response_resource_concluded(x)
                 \/ teardown_packet("I", x) /\ UNCHANGED receipt
              /\ air' = Taken("I", i)
              /\ UNCHANGED data
        /\ UNCHANGED <<listed, mtu, remote, served, knew, expired, breaks>>
  BY DEF InitiatorReceives
<1> DEFINE x == air["I"][i]
<1>4. Counters
  <2>1. i \in Nat
    BY <1>1, <1>2, AirFacts
  <2> QED BY <1>1, <1>2, <1>3, <2>1, BoundFacts DEF Counters, TypeOK
<1>5. CASE /\ air' = Taken("I", i)
           /\ Quiet /\ UNCHANGED <<receipt, data>>
  <2>1. Carries({})
    BY <1>1, <1>2, <1>5, TakeFacts
  <2>2. UNCHANGED <<estab, exchange>>
    BY <1>3, <1>5, QuietFacts DEF exchange
  <2> QED BY <1>4, <2>1, <2>2, AirOnly
<1>6. CASE /\ ReceiveData("I", x, i)
           /\ Quiet /\ UNCHANGED receipt
  BY <1>2, <1>3, <1>4, <1>6, DataStep
<1>7. CASE /\ ReceiveResponse(x) \/ response_resource_concluded(x)
           /\ air' = Taken("I", i) /\ UNCHANGED data
  <2>1. PICK r : r = x.r
    OBVIOUS
  <2>2. x.t \in {"RSP", "BRSP"} /\ response_received(r)
    BY <1>7, <2>1 DEF ReceiveResponse, response_resource_concluded
  <2>3. r \in Req
    BY <1>1, <1>2, <2>1, <2>2, AirFacts, PacketFacts
  <2>4. Served(r)
    BY <1>1, <1>2, <2>1, <2>2 DEF AllJustified, Justified
  <2>5. /\ receipt' = receipt \/ receipt' = [receipt EXCEPT ![r] = "ready"]
        /\ Quiet
    BY <2>2 DEF response_received
  <2>6. UNCHANGED <<status, listed, owned, reason, mtu, told, expired>>
    BY <1>3, <2>5, QuietFacts
  <2>7. Carries({})
    BY <1>1, <1>2, <1>7, TakeFacts
  <2>8. Grows
    BY <1>3, <2>6 DEF Grows, Served
  <2>9. AllJustified'
    BY <1>1, <2>7, <2>8, StaysJustified
  <2>10. receipt' \in [Req -> {"none", "sent", "ready"}]
    BY <1>1, <2>3, <2>5 DEF TypeOK
  <2>11. TypeOK'
    BY <1>1, <1>3, <1>4, <1>7, <2>6, <2>7, <2>10 DEF TypeOK, Carries, Counters
  <2>12. Ends' /\ Agreement' /\ ReasonAgrees'
    BY <1>1, <2>6 DEF Ends, Agreement, ReasonAgrees
  <2>13. AnsweredIsServed'
    <3>1. \A s \in Req : receipt'[s] = receipt[s] \/ s = r
      BY <1>1, <2>3, <2>5 DEF TypeOK
    <3> QED BY <1>1, <1>3, <2>4, <3>1 DEF AnsweredIsServed, Served
  <2> QED BY <2>9, <2>11, <2>12, <2>13 DEF LinkInv, AllJustified
<1>8. CASE /\ Hears("I") /\ teardown_packet("I", x)
           /\ UNCHANGED <<receipt, data>> /\ air' = Taken("I", i)
  BY <1>2, <1>3, <1>4, <1>8, PeerClosedStep
<1> QED BY <1>3, <1>5, <1>6, <1>7, <1>8

-----------------------------------------------------------------------------
(* The theorems. *)

\* The invariant holds before the link is requested.
LEMMA LinkInit == Init => LinkInv
<1> SUFFICES ASSUME Init PROVE LinkInv
  OBVIOUS
<1>1. air = [e \in End |-> <<>>]
  BY DEF Init
<1>2. \A e \in End : DOMAIN air[e] = {}
  BY <1>1
<1>3. air \in [End -> Seq(Packet)]
  BY <1>1
<1>4. TypeOK
  <2>1. /\ status \in [End -> Status]
        /\ listed \in [End -> {"no", "pending", "active"}]
        /\ reason \in [End -> {"none", "INITIATOR_CLOSED", "DESTINATION_CLOSED"}]
        /\ mtu \in [End -> Mtu]
    BY MtuAssumption DEF Init, Status
  <2>2. /\ receipt \in [Req -> {"none", "sent", "ready"}]
        /\ data \in [End -> {"none", "sent", "got"}]
        /\ served \in [Req -> Nat] /\ knew \in [Req -> BOOLEAN]
    BY DEF Init
  <2>3. told \in [End -> [established: Nat, closed: Nat, failed: BOOLEAN]]
    BY DEF Init
  <2>4. owned \in BOOLEAN /\ remote \in BOOLEAN /\ expired \in BOOLEAN
    BY DEF Init
  <2>5. faults \in 0 .. MaxFaults /\ breaks \in 0 .. MaxTeardowns
    BY BoundAssumption DEF Init
  <2> QED BY <1>3, <2>1, <2>2, <2>3, <2>4, <2>5 DEF TypeOK
<1>5. Ends /\ ReasonAgrees /\ AnsweredIsServed
  BY DEF Init, Ends, ReasonAgrees, AnsweredIsServed, End
<1>6. Agreement
  <2>1. status["I"] = "NONE" /\ status["R"] = "NONE" /\ owned = FALSE
    BY DEF Init, End
  <2>2. (status["R"] \in {"HANDSHAKE", "ACTIVE"}) = FALSE
    BY <2>1
  <2> QED BY <2>1, <2>2 DEF Agreement
<1> QED BY <1>2, <1>4, <1>5, <1>6 DEF LinkInv

\* Every step of the two ends and of what is between them keeps the
\* invariant.
LEMMA LinkStep == LinkInv /\ [Next]_vars => LinkInv'
<1> SUFFICES ASSUME LinkInv, [Next]_vars PROVE LinkInv'
  OBVIOUS
<1>1. CASE UNCHANGED vars
  <2>1. UNCHANGED <<estab, exchange, air, faults, breaks>>
    BY <1>1 DEF vars, estab, exchange
  <2>2. Carries({})
    BY <2>1 DEF LinkInv, TypeOK, Carries
  <2>3. Counters
    BY <2>1 DEF LinkInv, TypeOK, Counters
  <2> QED BY <2>1, <2>2, <2>3, AirOnly
<1>2. CASE Open
  BY <1>2, OpenStep
<1>3. CASE Clamp \/ identify \/ Lose \/ Garble \/ Repeat
  BY <1>3, CarrierStep
<1>4. CASE (\E r \in Req : request(r)) \/ (\E e \in End : SendData(e))
  BY <1>4, TrafficStep
<1>5. CASE \E e \in End : teardown(e)
  BY <1>5, TeardownStep
<1>6. CASE jobs
  BY <1>6, JobsStep
<1>7. CASE \E e \in End : ReceiveAt(e)
  BY <1>7, ReceiveRequestStep, ReceiveProofStep, ResponderReceivesStep,
     InitiatorReceivesStep
  DEF ReceiveAt
<1> QED BY <1>1, <1>2, <1>3, <1>4, <1>5, <1>6, <1>7 DEF Next

\* Every packet under way is justified by what has happened at its sender, and
\* the lists, the destination and the status of each end are in step.
THEOREM LinkCorrect == Spec => []LinkInv
  BY LinkInit, LinkStep, PTL DEF Spec

\* The two ends agree on what is established, with which MTU, and on who
\* closed the link, and validate_proof() and jobs() between them give up a
\* path only for a link that never became active.
THEOREM ConsistentHolds == Spec => []Consistent
<1>1. LinkInv => Consistent
  BY DEF LinkInv, Consistent, Ends, ExpiresOnlyUnused
<1> QED BY <1>1, LinkCorrect, PTL

\* response_received() concludes a receipt only for a response that
\* handle_request() made, for a peer its handler allows.
THEOREM AnsweredIsServedHolds == Spec => []AnsweredIsServed
<1>1. LinkInv => AnsweredIsServed
  BY DEF LinkInv
<1> QED BY <1>1, LinkCorrect, PTL

\* No packet, late or overtaken, and no callback makes a closed link anything
\* else: rtt_packet(), which sets ACTIVE unconditionally, is never reached.
THEOREM ClosedForGoodHolds == Spec => ClosedForGood
<1> DEFINE Stays == \A e \in End : status[e] = "CLOSED" => status'[e] = "CLOSED"
<1>1. LinkInv /\ [Next]_vars => [Stays]_vars
  <2> SUFFICES ASSUME LinkInv, Next, NEW e \in End, status[e] = "CLOSED"
               PROVE  status'[e] = "CLOSED"
    OBVIOUS
  <2>1. status \in [End -> Status]
    BY DEF LinkInv, TypeOK
  <2>2. ASSUME UNCHANGED status PROVE status'[e] = "CLOSED"
    BY <2>2
  <2>3. ASSUME NEW f \in End, NEW s, s = "CLOSED" \/ f # e,
               status' = [status EXCEPT ![f] = s]
        PROVE  status'[e] = "CLOSED"
    BY <2>1, <2>3
  <2>4. CASE Open
    <3>1. "I" # e /\ status' = [status EXCEPT !["I"] = "PENDING"]
      BY <2>4 DEF Open
    <3> QED BY <2>3, <3>1 DEF End
  <2>5. CASE Clamp \/ identify \/ Lose \/ Garble \/ Repeat \/ jobs
    BY <2>2, <2>5 DEF Clamp, identify, Lose, Garble, Repeat, jobs, estab
  <2>6. CASE (\E r \in Req : request(r)) \/ (\E f \in End : SendData(f))
    BY <2>2, <2>6 DEF request, SendData, estab
  <2>7. ASSUME NEW f \in End, NEW why, link_closed(f, why)
        PROVE  status'[e] = "CLOSED"
    BY <2>3, <2>7 DEF link_closed
  <2>8. CASE \E f \in End : teardown(f)
    BY <2>7, <2>8 DEF teardown
  <2>9. CASE ReceiveRequest
    <3>1. "R" # e /\ status' = [status EXCEPT !["R"] = "HANDSHAKE"]
      BY <2>9 DEF ReceiveRequest, validate_request
    <3> QED BY <2>3, <3>1 DEF End
  <2>10. CASE ReceiveProof
    <3>1. CASE AwaitsProof
      <4>1. "I" # e
        BY <3>1 DEF AwaitsProof
      <4>2. \E s : status' = [status EXCEPT !["I"] = s]
        BY <2>10, <3>1 DEF ReceiveProof, validate_proof
      <4> QED BY <2>3, <4>1, <4>2 DEF End
    <3>2. CASE ~AwaitsProof
      BY <2>2, <2>10, <3>2 DEF ReceiveProof
    <3> QED BY <3>1, <3>2
  <2>11. CASE ResponderReceives
    <3>1. \/ Quiet
          \/ Hears("R") /\ status' = [status EXCEPT !["R"] = "ACTIVE"]
          \/ \E why : link_closed("R", why)
      BY <2>11 DEF ResponderReceives, ReceiveRequestPacket,
                   request_resource_concluded, Serve, rtt_packet,
                   ReceiveIdentify, teardown_packet
    <3>2. CASE Hears("R") /\ status' = [status EXCEPT !["R"] = "ACTIVE"]
      BY <2>3, <3>2 DEF Hears, End
    <3> QED BY <2>2, <2>7, <3>1, <3>2 DEF Quiet, End
  <2>12. CASE InitiatorReceives
    <3>1. Quiet \/ \E why : link_closed("I", why)
      BY <2>12 DEF InitiatorReceives, ReceiveResponse,
                   response_resource_concluded, response_received,
                   teardown_packet
    <3> QED BY <2>2, <2>7, <3>1 DEF Quiet, End
  <2> QED BY <2>4, <2>5, <2>6, <2>8, <2>9, <2>10, <2>11, <2>12
          DEF Next, ReceiveAt
<1> QED BY <1>1, LinkCorrect, PTL DEF Spec, ClosedForGood

=============================================================================
