------------------------ MODULE PathDiscoveryProofs ------------------------
(***************************************************************************)
(* Proofs about PathDiscovery, with Interfaces and Identities, for any     *)
(* nodes, media, modes, limits and bounds.                                 *)
(*                                                                         *)
(* The heart of the inductive invariant is what is said of an announce     *)
(* under way and of a path alike (Vouched): the node it came from is the   *)
(* owner, has given up a path, or has a path at least as good.  Paths only *)
(* improve but for those that are given up (Onward), so what is vouched    *)
(* for stays so, and what was passed on or queued stays known.             *)
(*                                                                         *)
(* Requests end because tags are remembered, and a GenerationalSet         *)
(* remembers its last MAX_PR_TAGS tags or so: what is proved of requests   *)
(* is proved for as long as fewer were given out (TagsLast).               *)
(***************************************************************************)
EXTENDS PathDiscovery, FiniteSetTheorems, SequenceTheorems, TLAPS

-----------------------------------------------------------------------------
(* Sequences.                                                              *)

\* SetToSeq() lists the elements of a finite set.
LEMMA ListFacts ==
    ASSUME NEW S, IsFiniteSet(S)
    PROVE  /\ SetToSeq(S) \in Seq(S) /\ IsInjective(SetToSeq(S))
           /\ \A x \in S : \E k \in DOMAIN SetToSeq(S) : SetToSeq(S)[k] = x
           /\ Len(SetToSeq(S)) = Cardinality(S) /\ Cardinality(S) \in Nat
  <1> DEFINE N == Cardinality(S)
             f == SetToSeq(S)
  <1>1. N \in Nat /\ ExistsBijection(1 .. N, S)
      BY FS_CardinalityType
  <1>2. PICK g \in Bijection(1 .. N, S) : TRUE
      BY <1>1 DEF ExistsBijection
  <1>3. g \in [1 .. N -> S] /\ IsInjective(g)
      BY <1>2 DEF Bijection, Injection, IsInjective
  <1>4. f \in [1 .. N -> S] /\ IsInjective(f)
      BY <1>3 DEF SetToSeq
  <1>5. f \in Injection(1 .. N, S)
      BY <1>4 DEF Injection
  <1>6. IsFiniteSet(1 .. N) /\ Cardinality(1 .. N) = N
      BY <1>1, FS_Interval
  <1>7. f \in Surjection(1 .. N, S)
      BY <1>5, <1>6, FS_Injection
  <1>8. \A x \in S : \E k \in 1 .. N : f[k] = x
      BY <1>7 DEF Surjection
  <1> HIDE DEF f, N
  <1>9. f \in Seq(S) /\ Len(f) = N /\ DOMAIN f = 1 .. N
      BY <1>1, <1>4
  <1> QED BY <1>1, <1>4, <1>8, <1>9 DEF f, N

\* What is in a sequence made of two is in one of them.
LEMMA JoinedFacts ==
    ASSUME NEW X, NEW s \in Seq(X), NEW t \in Seq(X)
    PROVE  /\ s \o t \in Seq(X)
           /\ \A y \in ToSet(s \o t) : y \in ToSet(s) \/ y \in ToSet(t)
  <1>1. /\ s \o t \in Seq(X) /\ Len(s \o t) = Len(s) + Len(t)
        /\ \A i \in 1 .. Len(s) + Len(t) :
              (s \o t)[i] = IF i <= Len(s) THEN s[i] ELSE t[i - Len(s)]
      BY ConcatProperties
  <1>2. /\ DOMAIN s = 1 .. Len(s) /\ DOMAIN t = 1 .. Len(t) /\ Len(s) \in Nat /\ Len(t) \in Nat
      OBVIOUS
  <1> DEFINE u == s \o t
  <1>3. DOMAIN u = 1 .. Len(s) + Len(t)
      BY <1>1
  <1> HIDE DEF u
  <1>4. ASSUME NEW i \in 1 .. Len(s) + Len(t) PROVE u[i] \in ToSet(s) \/ u[i] \in ToSet(t)
      <2>1. CASE i <= Len(s)
          <3>1. i \in DOMAIN s /\ u[i] = s[i]
              BY <1>1, <1>2, <2>1 DEF u
          <3> QED BY <3>1, Zenon DEF ToSet
      <2>2. CASE ~(i <= Len(s))
          <3>1. i - Len(s) \in DOMAIN t /\ u[i] = t[i - Len(s)]
              BY <1>1, <1>2, <2>2 DEF u
          <3> QED BY <3>1, Zenon DEF ToSet
      <2> QED BY <2>1, <2>2
  <1>5. \A y \in ToSet(u) : y \in ToSet(s) \/ y \in ToSet(t)
      <2>1. ASSUME NEW y \in ToSet(u) PROVE \E i \in 1 .. Len(s) + Len(t) : y = u[i]
          BY <1>3, Zenon DEF ToSet
      <2> QED BY <1>4, <2>1
  <1> QED BY <1>1, <1>5 DEF u

\* What is left of a sequence was in it.
LEMMA TailFacts ==
    ASSUME NEW X, NEW s \in Seq(X), s # <<>>
    PROVE  /\ Head(s) \in ToSet(s) /\ Head(s) \in X
           /\ Tail(s) \in Seq(X) /\ \A y \in ToSet(Tail(s)) : y \in ToSet(s)
  <1>1. Len(s) \in Nat \ {0} /\ DOMAIN s = 1 .. Len(s) /\ Head(s) = s[1]
      OBVIOUS
  <1>2. /\ Tail(s) \in Seq(X) /\ Len(Tail(s)) = Len(s) - 1
        /\ \A i \in 1 .. Len(s) - 1 : Tail(s)[i] = s[i + 1]
      OBVIOUS
  <1>3. 1 \in DOMAIN s
      BY <1>1
  <1>4. Head(s) \in ToSet(s)
      BY <1>1, <1>3, Zenon DEF ToSet
  <1>5. DOMAIN Tail(s) = 1 .. Len(s) - 1
      BY <1>2
  <1>6. ASSUME NEW y \in ToSet(Tail(s)) PROVE y \in ToSet(s)
      <2>1. PICK i \in DOMAIN Tail(s) : y = Tail(s)[i]
          BY Zenon DEF ToSet
      <2>2. y = s[i + 1] /\ i + 1 \in DOMAIN s
          BY <1>1, <1>2, <1>5, <2>1
      <2> QED BY <2>2, Zenon DEF ToSet
  <1>7. Head(s) \in X
      BY <1>1
  <1> QED BY <1>2, <1>4, <1>6, <1>7

\* What a sequence holds is of its kind.
LEMMA MemberFacts ==
    ASSUME NEW X, NEW s \in Seq(X), NEW y \in ToSet(s)
    PROVE  y \in X
  <1>1. PICK k \in DOMAIN s : y = s[k]
      BY Zenon DEF ToSet
  <1> QED BY <1>1

-----------------------------------------------------------------------------
(* Packets under way.                                                      *)

\* What may be under way.
Packet ==
    [t: {"request"}, from: Node, on: Medium, tag: Tag]
    \union [t: {"announce", "response"}, from: Node, on: Medium, hops: Nat, emission: Nat]

\* Packets under way to each node.
IsAir(boxes) == boxes \in [Node -> Seq(Packet)]

\* The packet p on the medium x.
Placed(p, x) == [p EXCEPT !.on = x]

\* The packets ps, one for each medium, may be under way.
AllPlaced(ps) == \A x \in DOMAIN ps \intersect Medium : Placed(ps[x], x) \in Packet

\* What a node hears after another has sent ps: what it heard before, and one
\* packet for each medium they share.
Heard(new, boxes, n, ps) ==
    \A m \in Node : \A y \in ToSet(new[m]) :
        \/ y \in ToSet(boxes[m])
        \/ /\ m # n
           /\ \E x \in DOMAIN ps \intersect Medium :
                 y = Placed(ps[x], x) /\ Hears(m, ps[x])

\* Sending adds to what is under way.
LEMMA SendsFacts ==
    ASSUME NEW boxes, IsAir(boxes), NEW n \in Node, NEW ps, AllPlaced(ps)
    PROVE  IsAir(Sends(boxes, n, ps)) /\ Heard(Sends(boxes, n, ps), boxes, n, ps)
  <1> DEFINE S(m) == { x \in DOMAIN ps \intersect On[m] : Hears(m, ps[x]) }
             s(m) == SetToSeq(S(m))
             t(m) == [k \in DOMAIN s(m) |-> [ps[s(m)[k]] EXCEPT !.on = s(m)[k]]]
             r == Sends(boxes, n, ps)
  <1>1. r = [m \in Node |-> IF m = n THEN boxes[m] ELSE boxes[m] \o t(m)]
      BY DEF Sends
  <1>2. ASSUME NEW m \in Node
        PROVE  /\ t(m) \in Seq(Packet)
               /\ \A y \in ToSet(t(m)) : \E x \in DOMAIN ps \intersect Medium :
                     y = Placed(ps[x], x) /\ Hears(m, ps[x])
      <2>1. On[m] \in SUBSET Medium
          BY InterfacesAssumption
      <2>2. S(m) \in SUBSET Medium /\ S(m) \in SUBSET (DOMAIN ps \intersect Medium)
          BY <2>1
      <2>3. IsFiniteSet(S(m))
          <3>1. IsFiniteSet(Medium)
              BY DiscoveryAssumption
          <3> HIDE DEF S
          <3> QED BY <2>2, <3>1, FS_Subset
      <2>4. \A x \in S(m) : Hears(m, ps[x])
          OBVIOUS
      <2> DEFINE U == S(m)
      <2> HIDE DEF S
      <2>5. SetToSeq(U) \in Seq(U)
          BY <2>3, ListFacts
      <2>6. s(m) \in Seq(U) /\ s(m) \in Seq(S(m))
          BY <2>5
      <2> DEFINE v == s(m)
      <2>7. v \in Seq(U) /\ \A x \in U : x \in DOMAIN ps \intersect Medium /\ Hears(m, ps[x])
          BY <2>2, <2>4, <2>6
      <2>8. t(m) = [k \in DOMAIN v |-> Placed(ps[v[k]], v[k])]
          BY DEF Placed
      <2> DEFINE w == t(m)
      <2>9. w = [k \in DOMAIN v |-> Placed(ps[v[k]], v[k])]
          BY <2>8
      <2> HIDE DEF v, U, w, t, s
      <2>10. DOMAIN v = 1 .. Len(v) /\ Len(v) \in Nat /\ \A k \in 1 .. Len(v) : v[k] \in U
          BY <2>7
      <2>11. DOMAIN w = 1 .. Len(v) /\ \A k \in 1 .. Len(v) : w[k] = Placed(ps[v[k]], v[k]) /\ w[k] \in Packet
          BY <2>7, <2>9, <2>10 DEF AllPlaced
      <2>12. w \in Seq(Packet)
          BY <2>9, <2>10, <2>11
      <2>13. ASSUME NEW y \in ToSet(w)
             PROVE  \E x \in DOMAIN ps \intersect Medium : y = Placed(ps[x], x) /\ Hears(m, ps[x])
          <3>1. PICK k \in 1 .. Len(v) : y = w[k]
              BY <2>11, Zenon DEF ToSet
          <3> QED BY <2>7, <2>10, <2>11, <3>1
      <2> QED BY <2>12, <2>13 DEF w
  <1> HIDE DEF t
  <1>3. ASSUME NEW m \in Node
        PROVE  /\ r[m] \in Seq(Packet)
               /\ \A y \in ToSet(r[m]) :
                     \/ y \in ToSet(boxes[m])
                     \/ /\ m # n
                        /\ \E x \in DOMAIN ps \intersect Medium :
                              y = Placed(ps[x], x) /\ Hears(m, ps[x])
      <2>1. CASE m = n
          BY <1>1, <2>1 DEF IsAir
      <2>2. CASE m # n
          <3>1. r[m] = boxes[m] \o t(m) /\ boxes[m] \in Seq(Packet)
              BY <1>1, <2>2 DEF IsAir
          <3>2. t(m) \in Seq(Packet)
              BY <1>2
          <3>3. /\ boxes[m] \o t(m) \in Seq(Packet)
                /\ \A y \in ToSet(boxes[m] \o t(m)) : y \in ToSet(boxes[m]) \/ y \in ToSet(t(m))
              BY <3>1, <3>2, JoinedFacts
          <3> QED BY <1>2, <2>2, <3>1, <3>3
      <2> QED BY <2>1, <2>2
  <1>4. r \in [Node -> Seq(Packet)]
      <2>1. DOMAIN r = Node /\ r = [m \in Node |-> r[m]]
          BY <1>1
      <2> HIDE DEF r
      <2> QED BY <1>3, <2>1
  <1> QED BY <1>3, <1>4 DEF IsAir, Heard

\* The packet p may be sent on every medium.
Sendable(p) == \A x \in Medium : Placed(p, x) \in Packet

\* The same for one packet on several media.
LEMMA BroadcastFacts ==
    ASSUME NEW boxes, IsAir(boxes), NEW n \in Node, NEW ms, NEW p, Sendable(p)
    PROVE  /\ IsAir(Broadcast(boxes, n, ms, p))
           /\ \A m \in Node : \A y \in ToSet(Broadcast(boxes, n, ms, p)[m]) :
                 \/ y \in ToSet(boxes[m])
                 \/ m # n /\ Hears(m, p) /\ \E x \in Medium : y = Placed(p, x)
  <1> DEFINE ps == [x \in ms |-> p]
  <1>1. \A x \in DOMAIN ps \intersect Medium : ps[x] = p
      OBVIOUS
  <1>2. Broadcast(boxes, n, ms, p) = Sends(boxes, n, ps)
      BY DEF Broadcast
  <1> HIDE DEF ps
  <1>3. AllPlaced(ps)
      BY <1>1 DEF AllPlaced, Sendable
  <1>4. IsAir(Sends(boxes, n, ps)) /\ Heard(Sends(boxes, n, ps), boxes, n, ps)
      BY <1>3, SendsFacts
  <1> QED BY <1>1, <1>2, <1>4 DEF Heard

\* A request, as it is heard.
LEMMA RequestFacts ==
    ASSUME NEW n \in Node, NEW tag \in Tag, NEW x \in Medium, NEW y,
           y = Placed(Request(n, tag), x)
    PROVE  y \in Packet /\ y.t = "request" /\ y.from = n
  BY DEF Placed, Request, Packet

\* An announce, as it is heard.
LEMMA AnnouncementFacts ==
    ASSUME NEW t \in {"announce", "response"}, NEW n \in Node, NEW h \in Nat, NEW e \in Nat,
           NEW x \in Medium, NEW y, y = Placed(Announcement(t, n, h, e), x)
    PROVE  y \in Packet /\ y.t = t /\ y.from = n /\ y.hops = h /\ y.emission = e
  BY DEF Placed, Announcement, Packet

\* What is heard is what it was sent as.
LEMMA PacketFacts ==
    ASSUME NEW y \in Packet
    PROVE  /\ y.t \in {"request", "announce", "response"} /\ y.from \in Node /\ y.on \in Medium
           /\ y.t = "request" => y.tag \in Tag
           /\ y.t # "request" => y.hops \in Nat /\ y.emission \in Nat
  BY DEF Packet

-----------------------------------------------------------------------------
(* The inductive invariant, in parts.                                      *)

\* A node that is named as the sender of an announce, or as a next hop, can
\* do what is expected of it: it is the owner, it has given up a path, or it has
\* a path of a newer announce, or of the same one and no longer.
Vouched(m, em, h) ==
    \/ m \in {Owner} \union lost
    \/ /\ path[m] # None
       /\ path[m].emission > em \/ (path[m].emission = em /\ path[m].hops <= h)

\* Counters, marks and histories.
BasicsOK ==
    /\ tags \in [Node -> [active: SUBSET Tag, previous: SUBSET Tag]]
    /\ waiting \in [Node -> Medium \union {None}]
    /\ unresponsive \in [Node -> BOOLEAN]
    /\ emission \in Nat /\ nextTag \in 0 .. MaxTags /\ faults \in 0 .. MaxFaults
    /\ asked \subseteq Node /\ lost \subseteq Node
    /\ forwards \in [Node -> [Tag -> Nat]]
    /\ \A n \in Node : unresponsive[n] => n \in lost

\* A path is of an announce that was made, and its next hop is vouched for.
PathsOK ==
    /\ path \in [Node -> Path \union {None}]
    /\ \A n \in Node : path[n] # None =>
          /\ n # Owner /\ path[n].emission \in 1 .. emission /\ path[n].hops > 0
          /\ Vouched(path[n].from, path[n].emission, path[n].hops - 1)

\* Packets come from another node; a request has a tag that was given out, an
\* announce was made and who sent it is vouched for.
PacketOK(m, y) ==
    /\ y.from # m
    /\ y.t = "request" => y.tag \in 1 .. nextTag
    /\ y.t # "request" =>
          /\ m # Owner /\ y.emission \in 1 .. emission
          /\ Vouched(y.from, y.emission, y.hops)

AirOK ==
    /\ IsAir(air)
    /\ \A m \in Node : \A y \in ToSet(air[m]) : PacketOK(m, y)

\* What a node has passed on is no newer than its path, and in order.
PassedOK ==
    /\ passed \in [Node -> Seq(Nat)]
    /\ \A n \in Node \ lost :
          /\ \A k \in DOMAIN passed[n] :
                path[n] # None /\ passed[n][k] <= path[n].emission
          /\ \A j, k \in DOMAIN passed[n] : j < k => passed[n][j] < passed[n][k]

\* A queue of announces is within its limit and has one entry for a
\* destination.
Entry == [dest: Dest, hops: Nat, emission: Nat]

QueueOK(q) ==
    /\ q \in Seq(Entry) /\ Len(q) <= MAX_QUEUED_ANNOUNCES
    /\ \A j, k \in DOMAIN q : q[j].dest = q[k].dest => j = k

\* Every announce in q is known to the node n.
KnownTo(n, q) ==
    n \notin lost =>
        \A k \in DOMAIN q : path[n] # None /\ q[k].emission <= path[n].emission

QueuesOK ==
    /\ DOMAIN announce_queue = Interface
    /\ \A i \in Interface :
          QueueOK(announce_queue[i]) /\ KnownTo(i[1], announce_queue[i])
    /\ capped \subseteq Interface

\* The queue of requests.
Pending == [dest: Dest, blocked: Medium \union {None}]

PendingOK ==
    /\ queue \in [Node -> Seq(Pending)]
    /\ \A n \in Node : Len(queue[n]) <= MAX_QUEUED_DISCOVERY_PRS

\* Rate entries.
RateEntry == [violations: Nat, blocked: BOOLEAN]

RateOK ==
    /\ rate \in [Node -> RateEntry \union {None}]
    /\ \A n \in Node : rate[n] # None =>
          rate[n] \in RateEntry /\ (rate[n].blocked <=> rate[n].violations > Grace)

\* What is known of the destination is what the owner announced.
KnownOK ==
    /\ DOMAIN known = Node
    /\ \A n \in Node : \A e \in known[n] : e.key = Key /\ e.app \in 1 .. emission

\* Not so many tags were given out that a node may have forgotten one.
TagsLast == MAX_PR_TAGS = 0 \/ nextTag < MAX_PR_TAGS

\* Tags that were seen were given out; the previous generation, when there is
\* one, was full.
GenerationsOK ==
    \A n \in Node :
        /\ tags[n].active \union tags[n].previous \subseteq 1 .. nextTag
        /\ tags[n].active \intersect tags[n].previous = {}
        /\ tags[n].previous # {} =>
              MAX_PR_TAGS > 0 /\ Cardinality(tags[n].previous) >= (MAX_PR_TAGS + 1) \div 2

\* As long as no tag can have been forgotten, what was asked on with was seen.
ForwardsOK ==
    TagsLast => \A n \in Node, t \in Tag :
        forwards[n][t] <= 1 /\ (forwards[n][t] > 0 => Seen(n, t))

DiscoveryInv ==
    /\ BasicsOK /\ PathsOK /\ AirOK /\ PassedOK /\ QueuesOK /\ PendingOK /\ RateOK
    /\ KnownOK /\ GenerationsOK /\ ForwardsOK

-----------------------------------------------------------------------------
(* What a step leaves alone.                                               *)

\* Announces, tags and lost paths only add up, and a path that was not given up
\* is kept or gives way to that of a newer announce.
Onward ==
    /\ emission' \in Nat /\ emission <= emission'
    /\ nextTag' \in Nat /\ nextTag <= nextTag'
    /\ lost \subseteq lost'
    /\ \A m \in Node \ lost' : path[m] # None =>
          /\ path'[m] # None /\ path'[m].emission \in Nat
          /\ path'[m] = path[m] \/ path'[m].emission > path[m].emission

\* Numbers that the parts of the invariant keep.
LEMMA InvFacts ==
    ASSUME DiscoveryInv
    PROVE  /\ emission \in Nat /\ nextTag \in Nat /\ MaxTags \in Nat /\ MaxFaults \in Nat
           /\ \A m \in Node : path[m] # None =>
                 /\ path[m] \in Path /\ path[m].emission \in Nat /\ path[m].hops \in Nat
                 /\ path[m].from \in Node
           /\ IsAir(air)
           /\ \A m \in Node : air[m] \in Seq(Packet)
           /\ None \notin Path
  <1>1. emission \in Nat /\ nextTag \in Nat /\ MaxTags \in Nat /\ MaxFaults \in Nat /\ None \notin Path
      BY DiscoveryAssumption DEF DiscoveryInv, BasicsOK
  <1>2. \A m \in Node : path[m] # None => path[m] \in Path
      BY DEF DiscoveryInv, PathsOK
  <1>3. \A p \in Path : p.emission \in Nat /\ p.hops \in Nat /\ p.from \in Node
      BY DEF Path
  <1>4. IsAir(air) /\ \A m \in Node : air[m] \in Seq(Packet)
      BY DEF DiscoveryInv, AirOK, IsAir
  <1> QED BY <1>1, <1>2, <1>3, <1>4

\* A step that changes no path goes onward.
LEMMA OnwardSame ==
    ASSUME DiscoveryInv, path' = path, lost' = lost,
           emission' \in Nat, emission <= emission', nextTag' \in Nat, nextTag <= nextTag'
    PROVE  Onward
  BY InvFacts DEF Onward

\* Who was vouched for still is.
LEMMA VouchedStays ==
    ASSUME DiscoveryInv, Onward, NEW m \in Node, NEW em \in Nat, NEW h, Vouched(m, em, h)
    PROVE  Vouched(m, em, h)'
  <1>1. path[m] # None => path[m].emission \in Nat
      BY InvFacts
  <1>2. CASE m \in {Owner} \union lost
      BY <1>2 DEF Onward, Vouched
  <1>3. CASE m \notin {Owner} \union lost
      <2>1. /\ path[m] # None
            /\ path[m].emission > em \/ (path[m].emission = em /\ path[m].hops <= h)
          BY <1>3 DEF Vouched
      <2>2. CASE m \in lost'
          BY <2>2 DEF Vouched
      <2>3. CASE m \notin lost'
          <3>1. /\ path'[m] # None /\ path'[m].emission \in Nat
                /\ path'[m] = path[m] \/ path'[m].emission > path[m].emission
              BY <2>1, <2>3 DEF Onward
          <3>2. CASE path'[m] = path[m]
              BY <2>1, <3>1, <3>2 DEF Vouched
          <3>3. CASE path'[m].emission > path[m].emission
              BY <1>1, <2>1, <3>1, <3>3 DEF Vouched
          <3> QED BY <3>1, <3>2, <3>3
      <2> QED BY <2>2, <2>3
  <1> QED BY <1>2, <1>3

\* Paths that a step leaves alone stay as they should be.
LEMMA PathsKept ==
    ASSUME DiscoveryInv, Onward, path' = path
    PROVE  PathsOK'
  <1>1. path' \in [Node -> Path \union {None}]
      BY DEF DiscoveryInv, PathsOK
  <1>2. ASSUME NEW n \in Node, path'[n] # None
        PROVE  /\ n # Owner /\ path'[n].emission \in 1 .. emission' /\ path'[n].hops > 0
               /\ Vouched(path[n].from, path[n].emission, path[n].hops - 1)'
      <2>1. /\ n # Owner /\ path[n].emission \in 1 .. emission /\ path[n].hops > 0
            /\ Vouched(path[n].from, path[n].emission, path[n].hops - 1)
          BY <1>2 DEF DiscoveryInv, PathsOK
      <2>2. path[n].emission \in Nat /\ path[n].from \in Node /\ emission \in Nat
          BY <1>2, InvFacts
      <2> QED BY <2>1, <2>2, VouchedStays DEF Onward
  <1> QED BY <1>1, <1>2 DEF PathsOK

\* What was passed on is still in order, and no newer than the path.
LEMMA PassedKept ==
    ASSUME DiscoveryInv, Onward, passed' = passed
    PROVE  PassedOK'
  <1>1. passed \in [Node -> Seq(Nat)]
      BY DEF DiscoveryInv, PassedOK
  <1>2. ASSUME NEW n \in Node \ lost'
        PROVE  /\ \A k \in DOMAIN passed[n] : path'[n] # None /\ passed[n][k] <= path'[n].emission
               /\ \A j, k \in DOMAIN passed[n] : j < k => passed[n][j] < passed[n][k]
      <2>1. n \in Node \ lost
          BY DEF Onward
      <2>2. /\ \A k \in DOMAIN passed[n] : path[n] # None /\ passed[n][k] <= path[n].emission
            /\ \A j, k \in DOMAIN passed[n] : j < k => passed[n][j] < passed[n][k]
          BY <2>1 DEF DiscoveryInv, PassedOK
      <2>3. ASSUME NEW k \in DOMAIN passed[n]
            PROVE  path'[n] # None /\ passed[n][k] <= path'[n].emission
          <3>1. path[n] # None /\ passed[n][k] <= path[n].emission /\ passed[n][k] \in Nat
              BY <1>1, <2>2
          <3>2. path[n].emission \in Nat
              BY <3>1, InvFacts
          <3>3. /\ path'[n] # None /\ path'[n].emission \in Nat
                /\ path'[n] = path[n] \/ path'[n].emission > path[n].emission
              BY <3>1 DEF Onward
          <3>4. CASE path'[n] = path[n]
              BY <3>1, <3>3, <3>4
          <3>5. CASE path'[n].emission > path[n].emission
              BY <3>1, <3>2, <3>3, <3>5
          <3> QED BY <3>3, <3>4, <3>5
      <2> QED BY <2>2, <2>3
  <1> QED BY <1>1, <1>2 DEF PassedOK

\* What a queue holds stays known.
LEMMA KnownToStays ==
    ASSUME DiscoveryInv, Onward, NEW n \in Node, NEW q \in Seq(Entry), KnownTo(n, q)
    PROVE  KnownTo(n, q)'
  <1> SUFFICES ASSUME n \notin lost', NEW k \in DOMAIN q
               PROVE  path'[n] # None /\ q[k].emission <= path'[n].emission
      BY DEF KnownTo
  <1>1. n \notin lost
      BY DEF Onward
  <1>2. path[n] # None /\ q[k].emission <= path[n].emission
      BY <1>1 DEF KnownTo
  <1>3. q[k] \in Entry
      OBVIOUS
  <1>4. q[k].emission \in Nat /\ path[n].emission \in Nat
      BY <1>2, <1>3, InvFacts DEF Entry
  <1>5. /\ path'[n] # None /\ path'[n].emission \in Nat
        /\ path'[n] = path[n] \/ path'[n].emission > path[n].emission
      BY <1>2 DEF Onward
  <1>6. CASE path'[n] = path[n]
      BY <1>2, <1>5, <1>6
  <1>7. CASE path'[n].emission > path[n].emission
      BY <1>2, <1>4, <1>5, <1>7
  <1> QED BY <1>5, <1>6, <1>7

\* An interface is of a node.
LEMMA InterfaceFacts ==
    ASSUME NEW i \in Interface
    PROVE  i[1] \in Node /\ i[2] \in Medium /\ i[2] \in On[i[1]]
  BY DEF Interface

\* Queues that a step leaves alone stay as they should be.
LEMMA QueuesKept ==
    ASSUME DiscoveryInv, Onward, announce_queue' = announce_queue, capped' \subseteq Interface
    PROVE  QueuesOK'
  <1>1. ASSUME NEW i \in Interface
        PROVE  QueueOK(announce_queue'[i]) /\ KnownTo(i[1], announce_queue[i])'
      <2>1. QueueOK(announce_queue[i]) /\ KnownTo(i[1], announce_queue[i])
          BY DEF DiscoveryInv, QueuesOK
      <2>2. announce_queue[i] \in Seq(Entry)
          BY <2>1 DEF QueueOK
      <2>3. i[1] \in Node
          BY InterfaceFacts
      <2>4. PICK m, q : m = i[1] /\ q = announce_queue[i]
          OBVIOUS
      <2>5. KnownTo(m, q)'
          BY <2>1, <2>2, <2>3, <2>4, KnownToStays
      <2> QED BY <2>1, <2>4, <2>5 DEF KnownTo
  <1>2. DOMAIN announce_queue' = Interface
      BY DEF DiscoveryInv, QueuesOK
  <1> QED BY <1>1, <1>2 DEF QueuesOK, KnownTo, QueueOK

\* What is known stays genuine.
LEMMA KnownKept ==
    ASSUME DiscoveryInv, Onward, known' = known
    PROVE  KnownOK'
  <1>1. \A n \in Node : \A e \in known[n] : e.key = Key /\ e.app \in 1 .. emission
      BY DEF DiscoveryInv, KnownOK
  <1>2. emission \in Nat /\ emission' \in Nat /\ emission <= emission'
      BY InvFacts DEF Onward
  <1>3. 1 .. emission \subseteq 1 .. emission'
      BY <1>2
  <1> QED BY <1>1, <1>3 DEF DiscoveryInv, KnownOK

\* What is said of a request, a rate entry or a mark is said of the variables
\* that hold them.
LEMMA RestKept ==
    ASSUME DiscoveryInv
    PROVE  /\ queue' = queue => PendingOK'
           /\ rate' = rate => RateOK'
  BY DEF DiscoveryInv, PendingOK, RateOK

\* Tags that a step leaves alone were given out.
LEMMA TagsKept ==
    ASSUME DiscoveryInv, Onward, tags' = tags, forwards' = forwards
    PROVE  GenerationsOK' /\ ForwardsOK'
  <1>1. nextTag \in Nat /\ nextTag' \in Nat /\ nextTag <= nextTag'
      BY InvFacts DEF Onward
  <1>2. 1 .. nextTag \subseteq 1 .. nextTag'
      BY <1>1
  <1>3. GenerationsOK'
      BY <1>2 DEF DiscoveryInv, GenerationsOK
  <1>4. TagsLast' => TagsLast
      BY <1>1, DiscoveryAssumption DEF TagsLast
  <1>5. \A n \in Node, t \in Tag : Seen(n, t)' <=> Seen(n, t)
      BY DEF Seen, TagSet!contains
  <1>6. ForwardsOK'
      BY <1>4, <1>5 DEF DiscoveryInv, ForwardsOK
  <1> QED BY <1>3, <1>6

-----------------------------------------------------------------------------
(* What a step sends.                                                      *)

\* A packet under way stays as it should be.
LEMMA PacketStays ==
    ASSUME DiscoveryInv, Onward, NEW m \in Node, NEW y \in Packet, PacketOK(m, y)
    PROVE  PacketOK(m, y)'
  <1>1. nextTag \in Nat /\ nextTag' \in Nat /\ nextTag <= nextTag'
        /\ emission \in Nat /\ emission' \in Nat /\ emission <= emission'
      BY InvFacts DEF Onward
  <1>2. CASE y.t = "request"
      <2>1. y.tag \in 1 .. nextTag'
          BY <1>1, <1>2 DEF PacketOK
      <2> QED BY <1>2, <2>1 DEF PacketOK
  <1>3. CASE y.t # "request"
      <2>1. y.from \in Node /\ y.emission \in Nat /\ y.hops \in Nat
          BY <1>3, PacketFacts
      <2>2. m # Owner /\ y.emission \in 1 .. emission' /\ Vouched(y.from, y.emission, y.hops)
          BY <1>1, <1>3 DEF PacketOK
      <2>3. PICK f, e, h : f = y.from /\ e = y.emission /\ h = y.hops
          OBVIOUS
      <2>4. f \in Node /\ e \in Nat /\ Vouched(f, e, h)
          BY <2>1, <2>2, <2>3
      <2>5. Vouched(f, e, h)'
          BY <2>4, VouchedStays
      <2>6. Vouched(y.from, y.emission, y.hops)'
          BY <2>3, <2>5
      <2> QED BY <1>3, <2>2, <2>6 DEF PacketOK
  <1> QED BY <1>2, <1>3

\* Boxes that hold no more than is under way.
NoMore(b) == IsAir(b) /\ \A m \in Node : \A y \in ToSet(b[m]) : y \in ToSet(air[m])

\* What is left when a packet is taken, and what there is.
LEMMA NoMoreFacts ==
    ASSUME DiscoveryInv
    PROVE  /\ NoMore(air)
           /\ \A n \in Node : air[n] # <<>> => /\ NoMore(Taken(n))
                                              /\ Head(air[n]) \in Packet
                                              /\ PacketOK(n, Head(air[n]))
  <1>1. NoMore(air)
      BY InvFacts DEF NoMore
  <1>2. ASSUME NEW n \in Node, air[n] # <<>>
        PROVE  NoMore(Taken(n)) /\ Head(air[n]) \in Packet /\ PacketOK(n, Head(air[n]))
      <2>1. PICK s \in Seq(Packet) : s = air[n]
          BY InvFacts
      <2>2. /\ Head(s) \in ToSet(s) /\ Head(s) \in Packet
            /\ Tail(s) \in Seq(Packet) /\ \A y \in ToSet(Tail(s)) : y \in ToSet(s)
          BY <1>2, <2>1, TailFacts
      <2>3. Taken(n) = [air EXCEPT ![n] = Tail(s)]
          BY <2>1 DEF Taken
      <2>4. air \in [Node -> Seq(Packet)]
          BY InvFacts DEF IsAir
      <2>5. IsAir(Taken(n)) /\ \A m \in Node : Taken(n)[m] = IF m = n THEN Tail(s) ELSE air[m]
          BY <2>2, <2>3, <2>4 DEF IsAir
      <2>6. ASSUME NEW m \in Node, NEW y \in ToSet(Taken(n)[m]) PROVE y \in ToSet(air[m])
          BY <2>1, <2>2, <2>5
      <2>7. \A y \in ToSet(air[n]) : PacketOK(n, y)
          BY DEF DiscoveryInv, AirOK
      <2> QED BY <2>1, <2>2, <2>5, <2>6, <2>7 DEF NoMore
  <1> QED BY <1>1, <1>2

\* Boxes in which every packet will be as it should be after the step.
NextOK(b) == IsAir(b) /\ \A m \in Node : \A y \in ToSet(b[m]) : PacketOK(m, y)'

\* Those that hold no more than is under way.
LEMMA NoMoreNext ==
    ASSUME DiscoveryInv, Onward, NEW b, NoMore(b)
    PROVE  NextOK(b)
  <1>1. IsAir(b)
      BY DEF NoMore
  <1>2. ASSUME NEW m \in Node, NEW y \in ToSet(b[m]) PROVE PacketOK(m, y)'
      <2>1. y \in ToSet(air[m])
          BY DEF NoMore
      <2>2. air[m] \in Seq(Packet)
          BY InvFacts
      <2>3. y \in Packet
          BY <2>1, <2>2, MemberFacts
      <2>4. PacketOK(m, y)
          BY <2>1 DEF DiscoveryInv, AirOK
      <2> QED BY <2>3, <2>4, PacketStays
  <1> QED BY <1>1, <1>2 DEF NextOK

\* When they are what is under way after the step, it is as it should be.
LEMMA NextAir ==
    ASSUME NEW b, NextOK(b), air' = b
    PROVE  AirOK'
  BY DEF NextOK, AirOK, IsAir

\* Nothing is sent.
LEMMA AirKept ==
    ASSUME DiscoveryInv, Onward, NoMore(air')
    PROVE  AirOK'
  <1>1. PICK b : b = air'
      OBVIOUS
  <1>2. NextOK(b)
      BY <1>1, NoMoreNext
  <1> QED BY <1>1, <1>2, NextAir

\* Packets are sent that will be as they should be where they are heard.
LEMMA SendsNext ==
    ASSUME NEW b, NextOK(b), NEW n \in Node, NEW ps, AllPlaced(ps),
           \A m \in Node \ {n} : \A x \in DOMAIN ps \intersect Medium :
               Hears(m, ps[x]) => PacketOK(m, Placed(ps[x], x))'
    PROVE  NextOK(Sends(b, n, ps))
  <1>1. IsAir(Sends(b, n, ps)) /\ Heard(Sends(b, n, ps), b, n, ps)
      BY SendsFacts DEF NextOK
  <1>2. ASSUME NEW m \in Node, NEW y \in ToSet(Sends(b, n, ps)[m]) PROVE PacketOK(m, y)'
      <2>1. CASE y \in ToSet(b[m])
          BY <2>1 DEF NextOK
      <2>2. CASE y \notin ToSet(b[m])
          <3>1. /\ m # n
                /\ \E x \in DOMAIN ps \intersect Medium : y = Placed(ps[x], x) /\ Hears(m, ps[x])
              BY <1>1, <2>2 DEF Heard
          <3> QED BY <3>1
      <2> QED BY <2>1, <2>2
  <1> QED BY <1>1, <1>2 DEF NextOK

\* The same, behind what is under way.
LEMMA AirSent ==
    ASSUME DiscoveryInv, Onward, NEW b, NoMore(b), NEW n \in Node, NEW ps, AllPlaced(ps),
           \A m \in Node \ {n} : \A x \in DOMAIN ps \intersect Medium :
               Hears(m, ps[x]) => PacketOK(m, Placed(ps[x], x))',
           air' = Sends(b, n, ps)
    PROVE  AirOK'
  <1>1. PICK r : r = Sends(b, n, ps)
      OBVIOUS
  <1>2. NextOK(r)
      BY <1>1, NoMoreNext, SendsNext
  <1> QED BY <1>1, <1>2, NextAir

\* A request is sent on several media.
LEMMA RequestSent ==
    ASSUME DiscoveryInv, Onward, NEW b, NoMore(b), NEW n \in Node, NEW ms, NEW tag \in Tag,
           tag <= nextTag', air' = Broadcast(b, n, ms, Request(n, tag))
    PROVE  AirOK'
  <1> DEFINE p == Request(n, tag)
             ps == [x \in ms |-> p]
  <1>1. \A x \in DOMAIN ps \intersect Medium : ps[x] = Request(n, tag)
      OBVIOUS
  <1>2. air' = Sends(b, n, ps)
      BY DEF Broadcast
  <1> HIDE DEF ps, p
  <1>3. ASSUME NEW x \in DOMAIN ps \intersect Medium
        PROVE  Placed(ps[x], x) \in Packet /\ \A m \in Node \ {n} : PacketOK(m, Placed(ps[x], x))'
      <2>1. PICK y : y = Placed(Request(n, tag), x)
          OBVIOUS
      <2>2. y \in Packet /\ y.t = "request" /\ y.from = n /\ y.tag = tag
          BY <2>1 DEF Placed, Request, Packet
      <2>3. tag \in 1 .. nextTag'
          BY DEF Tag, Onward
      <2>4. \A m \in Node \ {n} : PacketOK(m, y)'
          BY <2>2, <2>3 DEF PacketOK
      <2> QED BY <1>1, <2>1, <2>2, <2>4
  <1>4. AllPlaced(ps)
      BY <1>3 DEF AllPlaced
  <1> QED BY <1>2, <1>3, <1>4, AirSent

\* An announce is sent on several media.
LEMMA AnnouncementNext ==
    ASSUME Onward, NEW b, NextOK(b), NEW n \in Node, NEW ms,
           NEW t \in {"announce", "response"}, NEW h \in Nat, NEW e \in 1 .. emission',
           Vouched(n, e, h)'
    PROVE  NextOK(Broadcast(b, n, ms, Announcement(t, n, h, e)))
  <1> DEFINE p == Announcement(t, n, h, e)
             ps == [x \in ms |-> p]
  <1>1. \A x \in DOMAIN ps \intersect Medium : ps[x] = Announcement(t, n, h, e)
      OBVIOUS
  <1>2. Broadcast(b, n, ms, Announcement(t, n, h, e)) = Sends(b, n, ps)
      BY DEF Broadcast
  <1>3. e \in Nat
      BY DEF Onward
  <1>4. Announcement(t, n, h, e).t = t
      BY DEF Announcement
  <1> HIDE DEF ps, p
  <1>5. ASSUME NEW x \in DOMAIN ps \intersect Medium
        PROVE  /\ Placed(ps[x], x) \in Packet
               /\ \A m \in Node \ {n} : Hears(m, ps[x]) => PacketOK(m, Placed(ps[x], x))'
      <2>1. PICK y : y = Placed(Announcement(t, n, h, e), x)
          OBVIOUS
      <2>2. y \in Packet /\ y.t = t /\ y.from = n /\ y.hops = h /\ y.emission = e
          BY <1>3, <2>1 DEF Placed, Announcement, Packet
      <2>3. ASSUME NEW m \in Node \ {n}, Hears(m, ps[x])
            PROVE  PacketOK(m, y)'
          <3>1. m # Owner
              BY <1>1, <1>4, <2>3 DEF Hears
          <3>2. Vouched(y.from, y.emission, y.hops)'
              BY <2>2
          <3> QED BY <2>2, <3>1, <3>2 DEF PacketOK
      <2> QED BY <1>1, <2>1, <2>2, <2>3
  <1>6. AllPlaced(ps)
      BY <1>5 DEF AllPlaced
  <1> QED BY <1>2, <1>5, <1>6, SendsNext

\* The same, behind what is under way.
LEMMA AnnouncementSent ==
    ASSUME DiscoveryInv, Onward, NEW b, NoMore(b), NEW n \in Node, NEW ms,
           NEW t \in {"announce", "response"}, NEW h \in Nat, NEW e \in 1 .. emission',
           Vouched(n, e, h)', air' = Broadcast(b, n, ms, Announcement(t, n, h, e))
    PROVE  AirOK'
  <1>1. PICK r : r = Broadcast(b, n, ms, Announcement(t, n, h, e))
      OBVIOUS
  <1>2. NextOK(r)
      BY <1>1, NoMoreNext, AnnouncementNext
  <1> QED BY <1>1, <1>2, NextAir

-----------------------------------------------------------------------------
(* Steps that change no path.                                              *)

\* What a step that changes no path, no queue and no tag keeps.
LEMMA QuietStep ==
    ASSUME DiscoveryInv, path' = path, lost' = lost, passed' = passed,
           emission' \in Nat, emission <= emission', nextTag' \in Nat, nextTag <= nextTag'
    PROVE  /\ Onward /\ PathsOK' /\ PassedOK'
           /\ announce_queue' = announce_queue /\ capped' \subseteq Interface => QueuesOK'
           /\ queue' = queue => PendingOK'
           /\ rate' = rate => RateOK'
           /\ known' = known => KnownOK'
           /\ tags' = tags /\ forwards' = forwards => GenerationsOK' /\ ForwardsOK'
  <1>1. Onward
      BY OnwardSame
  <1>2. PathsOK' /\ PassedOK'
      BY <1>1, PathsKept, PassedKept
  <1>3. announce_queue' = announce_queue /\ capped' \subseteq Interface => QueuesOK'
      BY <1>1, QueuesKept
  <1>4. (queue' = queue => PendingOK') /\ (rate' = rate => RateOK')
      BY RestKept
  <1>5. known' = known => KnownOK'
      BY <1>1, KnownKept
  <1>6. tags' = tags /\ forwards' = forwards => GenerationsOK' /\ ForwardsOK'
      BY <1>1, TagsKept
  <1> QED BY <1>1, <1>2, <1>3, <1>4, <1>5, <1>6

\* The interfaces announces are capped on are interfaces.
LEMMA CappedFacts ==
    ASSUME DiscoveryInv
    PROVE  capped \subseteq Interface
  BY DEF DiscoveryInv, QueuesOK

\* An application asks.
LEMMA AskForStep ==
    ASSUME DiscoveryInv, NEW n \in Node, AskFor(n)
    PROVE  DiscoveryInv'
  <1>1. /\ nextTag < MaxTags /\ nextTag' = nextTag + 1 /\ asked' = asked \union {n}
        /\ air' = Broadcast(air, n, On[n], Request(n, nextTag + 1))
        /\ tags' = tags /\ waiting' = waiting /\ path' = path /\ unresponsive' = unresponsive
        /\ queue' = queue /\ emission' = emission /\ forwards' = forwards /\ passed' = passed
        /\ lost' = lost /\ faults' = faults /\ announce_queue' = announce_queue
        /\ capped' = capped /\ rate' = rate /\ known' = known
      BY DEF AskFor, interfaceVars, identityVars
  <1>2. nextTag \in Nat /\ MaxTags \in Nat /\ emission \in Nat
      BY InvFacts
  <1>3. BasicsOK'
      BY <1>1, <1>2 DEF DiscoveryInv, BasicsOK
  <1>4. nextTag' \in Nat /\ nextTag <= nextTag' /\ nextTag + 1 \in Tag /\ nextTag + 1 <= nextTag'
      BY <1>1, <1>2 DEF Tag
  <1>5. /\ Onward /\ PathsOK' /\ PassedOK' /\ QueuesOK' /\ PendingOK' /\ RateOK' /\ KnownOK'
        /\ GenerationsOK' /\ ForwardsOK'
      BY <1>1, <1>2, <1>4, QuietStep, CappedFacts
  <1>6. PICK tag, b : tag = nextTag + 1 /\ b = air
      OBVIOUS
  <1>7. AirOK'
      BY <1>1, <1>4, <1>5, <1>6, NoMoreFacts, RequestSent
  <1> QED BY <1>3, <1>5, <1>7 DEF DiscoveryInv

\* A wait ends.
LEMMA CullWaitingStep ==
    ASSUME DiscoveryInv, NEW n \in Node, CullWaiting(n)
    PROVE  DiscoveryInv'
  <1>1. /\ faults < MaxFaults /\ faults' = faults + 1 /\ waiting' = [waiting EXCEPT ![n] = None]
        /\ tags' = tags /\ path' = path /\ unresponsive' = unresponsive
        /\ queue' = queue /\ emission' = emission /\ forwards' = forwards /\ passed' = passed
        /\ lost' = lost /\ announce_queue' = announce_queue /\ nextTag' = nextTag
        /\ asked' = asked /\ air' = air
        /\ capped' = capped /\ rate' = rate /\ known' = known
      BY DEF CullWaiting, Faulty, interfaceVars, identityVars
  <1>2. nextTag \in Nat /\ MaxFaults \in Nat /\ emission \in Nat
      BY InvFacts
  <1>3. BasicsOK'
      BY <1>1, <1>2 DEF DiscoveryInv, BasicsOK
  <1>4. /\ Onward /\ PathsOK' /\ PassedOK' /\ QueuesOK' /\ PendingOK' /\ RateOK' /\ KnownOK'
        /\ GenerationsOK' /\ ForwardsOK'
      BY <1>1, <1>2, QuietStep, CappedFacts
  <1>5. AirOK'
      BY <1>1, <1>4, NoMoreFacts, AirKept
  <1> QED BY <1>3, <1>4, <1>5 DEF DiscoveryInv

\* A packet is lost.
LEMMA LoseStep ==
    ASSUME DiscoveryInv, Lose
    PROVE  DiscoveryInv'
  <1>1. /\ faults < MaxFaults /\ faults' = faults + 1 /\ waiting' = waiting
        /\ tags' = tags /\ path' = path /\ unresponsive' = unresponsive
        /\ queue' = queue /\ emission' = emission /\ forwards' = forwards /\ passed' = passed
        /\ lost' = lost /\ announce_queue' = announce_queue /\ nextTag' = nextTag
        /\ asked' = asked
        /\ capped' = capped /\ rate' = rate /\ known' = known
      BY DEF Lose, Faulty, interfaceVars, identityVars
  <1>2. nextTag \in Nat /\ MaxFaults \in Nat /\ emission \in Nat
      BY InvFacts
  <1>3. BasicsOK'
      BY <1>1, <1>2 DEF DiscoveryInv, BasicsOK
  <1>4. /\ Onward /\ PathsOK' /\ PassedOK' /\ QueuesOK' /\ PendingOK' /\ RateOK' /\ KnownOK'
        /\ GenerationsOK' /\ ForwardsOK'
      BY <1>1, <1>2, QuietStep, CappedFacts
  <1>5. PICK n \in Node : air[n] # <<>> /\ air' = Taken(n)
      BY DEF Lose
  <1>6. AirOK'
      BY <1>4, <1>5, NoMoreFacts, AirKept
  <1> QED BY <1>3, <1>4, <1>6 DEF DiscoveryInv

\* What is known of the destination after a record is dropped or recalled.
LEMMA RecallStep ==
    ASSUME DiscoveryInv, NEW n \in Node, Forget(n) \/ Recall(n)
    PROVE  DiscoveryInv'
  <1>1. /\ faults' \in 0 .. MaxFaults /\ waiting' = waiting
        /\ tags' = tags /\ path' = path /\ unresponsive' = unresponsive
        /\ queue' = queue /\ emission' = emission /\ forwards' = forwards /\ passed' = passed
        /\ lost' = lost /\ announce_queue' = announce_queue /\ nextTag' = nextTag
        /\ asked' = asked /\ air' = air /\ capped' = capped /\ rate' = rate
      <2>1. faults \in 0 .. MaxFaults /\ MaxFaults \in Nat
          BY InvFacts DEF DiscoveryInv, BasicsOK
      <2>2. CASE Forget(n)
          BY <2>1, <2>2 DEF Forget, Faulty, interfaceVars
      <2>3. CASE Recall(n)
          BY <2>1, <2>3 DEF Recall, interfaceVars
      <2> QED BY <2>2, <2>3
  <1>2. nextTag \in Nat /\ emission \in Nat
      BY InvFacts
  <1>3. BasicsOK'
      BY <1>1 DEF DiscoveryInv, BasicsOK
  <1>4. /\ Onward /\ PathsOK' /\ PassedOK' /\ QueuesOK' /\ PendingOK' /\ RateOK'
        /\ GenerationsOK' /\ ForwardsOK'
      BY <1>1, <1>2, QuietStep, CappedFacts
  <1>5. AirOK'
      BY <1>1, <1>4, NoMoreFacts, AirKept
  <1>6. KnownOK'
      <2>1. DOMAIN known = Node /\ \A m \in Node : \A e \in known[m] : e.key = Key /\ e.app \in 1 .. emission
          BY DEF DiscoveryInv, KnownOK
      <2>2. CASE Forget(n)
          <3>1. known' = [known EXCEPT ![n] = {}]
              BY <2>2 DEF Forget, forget
          <3> QED BY <1>1, <2>1, <3>1 DEF KnownOK
      <2>3. CASE Recall(n)
          <3>1. known' = [known EXCEPT ![n] = recall(n, Stored(n))] /\ known[n] = {} /\ Stored(n) # {}
              BY <2>3 DEF Recall, recalls
          <3>2. ASSUME NEW e \in recall(n, Stored(n)) PROVE e.key = Key /\ e.app \in 1 .. emission
              <4>1. path[n] # None /\ Stored(n) = {Content(path[n].emission)}
                  BY <3>1 DEF Stored
              <4>2. PICK c \in Stored(n) : e \in Remembered({}, c)
                  BY <3>1 DEF recall
              <4>3. e.key = Content(path[n].emission).key /\ e.app = Content(path[n].emission).app
                  BY <4>1, <4>2 DEF Remembered
              <4>4. path[n].emission \in 1 .. emission
                  BY <4>1 DEF DiscoveryInv, PathsOK
              <4> QED BY <4>3, <4>4 DEF Content
          <3> QED BY <1>1, <2>1, <3>1, <3>2 DEF KnownOK
      <2> QED BY <2>2, <2>3
  <1> QED BY <1>3, <1>4, <1>5, <1>6 DEF DiscoveryInv

-----------------------------------------------------------------------------
(* Queues.                                                                 *)

\* A queue stays within its limit and keeps one entry for a destination when
\* an announce is added; what it holds was there or is that announce.
LEMMA AddFacts ==
    ASSUME NEW q, QueueOK(q), NEW a \in Entry
    PROVE  /\ QueueOK(add_announce(q, a))
           /\ \A k \in DOMAIN add_announce(q, a) :
                 \/ add_announce(q, a)[k] = a
                 \/ k \in DOMAIN q /\ add_announce(q, a)[k] = q[k]
  <1>1. /\ q \in Seq(Entry) /\ Len(q) <= MAX_QUEUED_ANNOUNCES /\ Len(q) \in Nat
        /\ DOMAIN q = 1 .. Len(q)
        /\ \A j, k \in DOMAIN q : q[j].dest = q[k].dest => j = k
      BY DEF QueueOK
  <1>2. MAX_QUEUED_ANNOUNCES \in Nat
      BY InterfacesAssumption
  <1>3. CASE Len(q) >= MAX_QUEUED_ANNOUNCES
      BY <1>3 DEF add_announce
  <1>4. CASE ~(Len(q) >= MAX_QUEUED_ANNOUNCES) /\ \A k \in DOMAIN q : q[k].dest # a.dest
      <2>1. add_announce(q, a) = Append(q, a)
          BY <1>4 DEF add_announce
      <2> DEFINE u == Append(q, a)
      <2>2. /\ u \in Seq(Entry) /\ Len(u) = Len(q) + 1 /\ DOMAIN u = 1 .. Len(q) + 1
            /\ u[Len(q) + 1] = a /\ \A k \in 1 .. Len(q) : u[k] = q[k]
          BY <1>1
      <2> HIDE DEF u
      <2>3. \A j, k \in DOMAIN u : u[j].dest = u[k].dest => j = k
          BY <1>1, <1>4, <2>2
      <2>4. Len(u) <= MAX_QUEUED_ANNOUNCES
          BY <1>1, <1>2, <1>4, <2>2
      <2>5. \A k \in DOMAIN u : u[k] = a \/ (k \in DOMAIN q /\ u[k] = q[k])
          BY <1>1, <2>2
      <2>6. QueueOK(u)
          BY <2>2, <2>3, <2>4 DEF QueueOK
      <2> QED BY <2>1, <2>5, <2>6 DEF u
  <1>5. CASE ~(Len(q) >= MAX_QUEUED_ANNOUNCES) /\ ~\A k \in DOMAIN q : q[k].dest # a.dest
      <2> DEFINE u == [k \in DOMAIN q |-> IF q[k].dest = a.dest /\ a.emission > q[k].emission
                                          THEN a ELSE q[k]]
      <2>1. add_announce(q, a) = u
          BY <1>5 DEF add_announce
      <2>2. /\ DOMAIN u = 1 .. Len(q)
            /\ \A k \in 1 .. Len(q) : u[k] = (IF q[k].dest = a.dest /\ a.emission > q[k].emission
                                            THEN a ELSE q[k])
          BY <1>1
      <2>3. u \in Seq(Entry) /\ Len(u) = Len(q)
          BY <1>1
      <2> HIDE DEF u
      <2>4. \A k \in 1 .. Len(q) : u[k].dest = q[k].dest /\ (u[k] = a \/ u[k] = q[k])
          BY <2>2
      <2>5. \A j, k \in DOMAIN u : u[j].dest = u[k].dest => j = k
          BY <1>1, <2>2, <2>4
      <2>6. QueueOK(u)
          BY <1>1, <2>3, <2>5 DEF QueueOK
      <2> QED BY <1>1, <2>1, <2>2, <2>4, <2>6
  <1> QED BY <1>3, <1>4, <1>5

\* What an announce that is sent does to the queues, if it is known to the
\* node or made there.
LEMMA OutboundFacts ==
    ASSUME DiscoveryInv, Onward, NEW n \in Node, NEW a \in Entry, NEW from, NEW local, NEW early,
           outbound_announce(n, a, from, local, early),
           (a.hops > 0 /\ n \notin lost') => path'[n] # None /\ a.emission <= path'[n].emission
    PROVE  QueuesOK'
  <1> DEFINE capping == { i \in Of(n) : LetsOut(i, from, local) /\ CapApplies(i, a.hops) }
             C(i) == i \in capping /\ Blocked(i, early)
  <1>1. /\ announce_queue' = [i \in Interface |->
               IF i \in capping /\ Blocked(i, early)
               THEN add_announce(announce_queue[i], a) ELSE announce_queue[i]]
        /\ capped' = capped \union { i \in capping : ~Blocked(i, early) }
      BY DEF outbound_announce
  <1>2. \A i \in capping : i \in Interface /\ i[1] = n /\ a.hops > 0
      BY DEF Of, CapApplies
  <1>3. capped' \subseteq Interface
      BY <1>1, <1>2, CappedFacts
  <1> HIDE DEF capping
  <1>4. /\ DOMAIN announce_queue' = Interface
        /\ \A i \in Interface : announce_queue'[i] =
              IF C(i) THEN add_announce(announce_queue[i], a) ELSE announce_queue[i]
      BY <1>1
  <1>5. \A i \in Interface : C(i) => i[1] = n /\ a.hops > 0
      BY <1>2
  <1> HIDE DEF C
  <1>6. ASSUME NEW i \in Interface
        PROVE  QueueOK(announce_queue'[i]) /\ KnownTo(i[1], announce_queue[i])'
      <2>1. PICK m, q : m = i[1] /\ q = announce_queue[i]
          OBVIOUS
      <2>2. m \in Node /\ QueueOK(q) /\ KnownTo(m, q)
          BY <2>1, InterfaceFacts DEF DiscoveryInv, QueuesOK
      <2>3. q \in Seq(Entry)
          BY <2>2 DEF QueueOK
      <2>4. KnownTo(m, q)'
          BY <2>2, <2>3, KnownToStays
      <2>5. CASE ~C(i)
          BY <1>4, <2>1, <2>2, <2>4, <2>5 DEF KnownTo
      <2>6. CASE C(i)
          <3>1. PICK u : u = add_announce(q, a)
              OBVIOUS
          <3>2. /\ QueueOK(u)
                /\ \A k \in DOMAIN u : u[k] = a \/ (k \in DOMAIN q /\ u[k] = q[k])
              BY <2>2, <3>1, AddFacts
          <3>3. announce_queue'[i] = u /\ m = n /\ a.hops > 0
              BY <1>4, <1>5, <2>1, <2>6, <3>1
          <3>4. ASSUME n \notin lost', NEW k \in DOMAIN u
                PROVE  path'[n] # None /\ u[k].emission <= path'[n].emission
              <4>1. CASE u[k] = a
                  BY <3>3, <3>4, <4>1
              <4>2. CASE k \in DOMAIN q /\ u[k] = q[k]
                  BY <2>4, <3>3, <3>4, <4>2 DEF KnownTo
              <4> QED BY <3>2, <4>1, <4>2
          <3> QED BY <2>1, <3>2, <3>3, <3>4 DEF KnownTo
      <2> QED BY <2>5, <2>6
  <1> QED BY <1>3, <1>4, <1>6 DEF QueuesOK, KnownTo, QueueOK

\* The queue of requests never outgrows its limit.
LEMMA EnqueueFacts ==
    ASSUME NEW q \in Seq(Pending), Len(q) <= MAX_QUEUED_DISCOVERY_PRS,
           NEW dests \in SUBSET Dest, NEW blocked \in Medium \union {None}
    PROVE  /\ Enqueue(q, dests, blocked) \in Seq(Pending)
           /\ Len(Enqueue(q, dests, blocked)) <= MAX_QUEUED_DISCOVERY_PRS
  <1> DEFINE D == { x \in dests : ~Queued(q, x) }
             s == SetToSeq(D)
             K == { k \in DOMAIN s : k <= Room(q) }
             r == [k \in K |-> [dest |-> s[k], blocked |-> blocked]]
  <1>1. Enqueue(q, dests, blocked) = q \o r
      BY DEF Enqueue
  <1>2. IsFiniteSet(D) /\ D \subseteq Dest
      BY DiscoveryAssumption, FS_Subset
  <1>3. s \in Seq(D)
      <2> HIDE DEF D
      <2> QED BY <1>2, ListFacts
  <1> HIDE DEF D
  <1>4. DOMAIN s = 1 .. Len(s) /\ Len(s) \in Nat /\ \A k \in 1 .. Len(s) : s[k] \in Dest
      BY <1>2, <1>3
  <1> HIDE DEF s
  <1>5. PICK N \in Nat : N = Room(q) /\ Len(q) + N = MAX_QUEUED_DISCOVERY_PRS
      BY DiscoveryAssumption DEF Room
  <1>6. PICK M \in Nat : M <= N /\ M <= Len(s) /\ K = 1 .. M
      <2>1. CASE N <= Len(s)
          BY <1>4, <1>5, <2>1
      <2>2. CASE ~(N <= Len(s))
          BY <1>4, <1>5, <2>2
      <2> QED BY <2>1, <2>2
  <1> HIDE DEF K
  <1>7. r \in Seq(Pending) /\ Len(r) = M
      BY <1>4, <1>6 DEF Pending
  <1> HIDE DEF r
  <1>8. q \o r \in Seq(Pending) /\ Len(q \o r) = Len(q) + Len(r)
      BY <1>7, ConcatProperties
  <1> QED BY <1>1, <1>5, <1>6, <1>7, <1>8

\* The queues of a node are dropped.
LEMMA DropQueuesStep ==
    ASSUME DiscoveryInv, NEW n \in Node, DropQueues(n)
    PROVE  DiscoveryInv'
  <1>1. /\ faults' = faults /\ waiting' = waiting
        /\ tags' = tags /\ path' = path /\ unresponsive' = unresponsive
        /\ queue' = queue /\ emission' = emission /\ forwards' = forwards /\ passed' = passed
        /\ lost' = lost /\ nextTag' = nextTag
        /\ asked' = asked /\ air' = air /\ capped' = capped /\ rate' = rate /\ known' = known
        /\ announce_queue' = [i \in Interface |-> IF i[1] = n THEN <<>> ELSE announce_queue[i]]
      BY DEF DropQueues, drop_announce_queues, identityVars
  <1>2. nextTag \in Nat /\ emission \in Nat
      BY InvFacts
  <1>3. BasicsOK'
      BY <1>1 DEF DiscoveryInv, BasicsOK
  <1>4. /\ Onward /\ PathsOK' /\ PassedOK' /\ PendingOK' /\ RateOK' /\ KnownOK'
        /\ GenerationsOK' /\ ForwardsOK'
      BY <1>1, <1>2, QuietStep
  <1>5. AirOK'
      BY <1>1, <1>4, NoMoreFacts, AirKept
  <1>6. QueuesOK'
      <2>1. QueueOK(<<>>) /\ \A m \in Node : KnownTo(m, <<>>)'
          BY InterfacesAssumption DEF QueueOK, KnownTo
      <2>2. ASSUME NEW i \in Interface
            PROVE  QueueOK(announce_queue'[i]) /\ KnownTo(i[1], announce_queue[i])'
          <3>1. QueueOK(announce_queue[i]) /\ KnownTo(i[1], announce_queue[i]) /\ i[1] \in Node
              BY InterfaceFacts DEF DiscoveryInv, QueuesOK
          <3>2. CASE i[1] = n
              BY <1>1, <2>1, <3>1, <3>2 DEF KnownTo
          <3>3. CASE i[1] # n
              BY <1>1, <3>1, <3>3 DEF KnownTo
          <3> QED BY <3>2, <3>3
      <2>3. capped' \subseteq Interface /\ DOMAIN announce_queue' = Interface
          BY <1>1, CappedFacts
      <2> QED BY <2>2, <2>3 DEF QueuesOK, KnownTo, QueueOK
  <1> QED BY <1>3, <1>4, <1>5, <1>6 DEF DiscoveryInv

\* Requests from the queue are sent.
LEMMA HandleStep ==
    ASSUME DiscoveryInv, NEW n \in Node, handle_disovery_path_requests(n)
    PROVE  DiscoveryInv'
  <1>1. /\ faults' = faults /\ waiting' = waiting
        /\ tags' = tags /\ path' = path /\ unresponsive' = unresponsive
        /\ emission' = emission /\ forwards' = forwards /\ passed' = passed
        /\ lost' = lost /\ asked' = asked /\ announce_queue' = announce_queue
        /\ capped' = capped /\ rate' = rate /\ known' = known
        /\ queue[n] # <<>> /\ queue' = [queue EXCEPT ![n] = Tail(@)]
      BY DEF handle_disovery_path_requests, interfaceVars, identityVars
  <1>2. PICK ms \in SUBSET Medium :
            \/ air' = air /\ nextTag' = nextTag
            \/ /\ nextTag < MaxTags /\ nextTag' = nextTag + 1
               /\ air' = Broadcast(air, n, ms, Request(n, nextTag + 1))
            \/ /\ nextTag + Cardinality(ms) <= MaxTags
               /\ nextTag' = nextTag + Cardinality(ms)
               /\ \E s \in {SetToSeq(ms)} :
                     air' = Sends(air, n, [i \in ms |->
                                Request(n, nextTag + CHOOSE k \in DOMAIN s : s[k] = i)])
      <2>1. \A x : On[n] \ {x} \in SUBSET Medium
          BY InterfacesAssumption
      <2> QED BY <2>1, Zenon DEF handle_disovery_path_requests
  <1>3. nextTag \in Nat /\ emission \in Nat /\ MaxTags \in Nat
      BY InvFacts
  <1>4. IsFiniteSet(ms) /\ Cardinality(ms) \in Nat
      BY DiscoveryAssumption, FS_Subset, FS_CardinalityType
  <1>5. nextTag' \in 0 .. MaxTags /\ nextTag <= nextTag' /\ nextTag' \in Nat
      <2>1. nextTag \in 0 .. MaxTags
          BY DEF DiscoveryInv, BasicsOK
      <2>2. PICK N \in Nat : N = Cardinality(ms)
          BY <1>4
      <2> QED BY <1>2, <1>3, <2>1, <2>2
  <1>6. BasicsOK'
      BY <1>1, <1>5 DEF DiscoveryInv, BasicsOK
  <1>7. /\ Onward /\ PathsOK' /\ PassedOK' /\ QueuesOK' /\ RateOK' /\ KnownOK'
        /\ GenerationsOK' /\ ForwardsOK'
      BY <1>1, <1>3, <1>5, QuietStep, CappedFacts
  <1>8. PendingOK'
      <2>1. PICK q \in Seq(Pending) : q = queue[n] /\ Len(q) <= MAX_QUEUED_DISCOVERY_PRS
          BY DEF DiscoveryInv, PendingOK
      <2>2. Tail(q) \in Seq(Pending) /\ Len(Tail(q)) <= MAX_QUEUED_DISCOVERY_PRS
          BY <1>1, <2>1, DiscoveryAssumption
      <2> QED BY <1>1, <2>1, <2>2 DEF DiscoveryInv, PendingOK
  <1>9. AirOK'
      <2>1. PICK b : b = air
          OBVIOUS
      <2>2. NoMore(b)
          BY <2>1, NoMoreFacts
      <2>3. CASE air' = air
          BY <1>7, <2>3, NoMoreFacts, AirKept
      <2>4. CASE /\ nextTag < MaxTags /\ nextTag' = nextTag + 1
                 /\ air' = Broadcast(air, n, ms, Request(n, nextTag + 1))
          <3>1. PICK tag : tag = nextTag + 1
              OBVIOUS
          <3>2. tag \in Tag /\ tag <= nextTag'
              BY <1>3, <2>4, <3>1 DEF Tag
          <3> QED BY <1>7, <2>1, <2>2, <2>4, <3>1, <3>2, RequestSent
      <2>5. CASE /\ nextTag' = nextTag + Cardinality(ms)
                 /\ \E s \in {SetToSeq(ms)} :
                       air' = Sends(air, n, [i \in ms |->
                                  Request(n, nextTag + CHOOSE k \in DOMAIN s : s[k] = i)])
          <3>1. PICK s : s = SetToSeq(ms)
              OBVIOUS
          <3> DEFINE rank(i) == CHOOSE k \in DOMAIN s : s[k] = i
          <3>2. PICK ps : /\ air' = Sends(b, n, ps)
                          /\ ps = [i \in ms |-> Request(n, nextTag + rank(i))]
              BY <2>1, <2>5, <3>1
          <3>3. /\ s \in Seq(ms) /\ Len(s) = Cardinality(ms)
                /\ \A x \in ms : \E k \in DOMAIN s : s[k] = x
              BY <1>4, <3>1, ListFacts
          <3>4. \A i \in ms : rank(i) \in DOMAIN s
              BY <3>3
          <3> HIDE DEF rank
          <3>5. DOMAIN s = 1 .. Cardinality(ms)
              BY <3>3
          <3>6. DOMAIN ps = ms /\ \A i \in ms : ps[i] = Request(n, nextTag + rank(i))
              BY <3>2
          <3>7. ASSUME NEW x \in DOMAIN ps \intersect Medium
                PROVE  Placed(ps[x], x) \in Packet
                       /\ \A m \in Node \ {n} : PacketOK(m, Placed(ps[x], x))'
              <4>1. PICK tag : tag = nextTag + rank(x)
                  OBVIOUS
              <4>2. PICK N \in Nat : N = Cardinality(ms)
                  BY <1>4
              <4>3. rank(x) \in 1 .. N
                  BY <3>4, <3>5, <3>6, <4>2
              <4>4. tag \in 1 .. nextTag' /\ tag \in Tag
                  BY <1>3, <1>5, <2>5, <4>1, <4>2, <4>3 DEF Tag
              <4>5. PICK y : y = Placed(Request(n, tag), x)
                  OBVIOUS
              <4>6. y \in Packet /\ y.t = "request" /\ y.from = n /\ y.tag = tag
                  BY <4>4, <4>5 DEF Placed, Request, Packet
              <4>7. \A m \in Node \ {n} : PacketOK(m, y)'
                  BY <4>4, <4>6 DEF PacketOK
              <4>8. y = Placed(ps[x], x)
                  BY <3>6, <4>1, <4>5
              <4> QED BY <4>6, <4>7, <4>8
          <3>8. AllPlaced(ps)
              BY <3>7 DEF AllPlaced
          <3> QED BY <1>7, <2>2, <3>2, <3>7, <3>8, AirSent
      <2> QED BY <1>2, <2>3, <2>4, <2>5
  <1> QED BY <1>6, <1>7, <1>8, <1>9 DEF DiscoveryInv

-----------------------------------------------------------------------------
(* Steps that give up paths.                                               *)

\* Paths that are given up, with the nodes that do so in lost, leave the rest
\* as it should be.
LEMMA GiveUpStep ==
    ASSUME DiscoveryInv, lost \subseteq lost',
           path' \in [Node -> Path \union {None}],
           \A m \in Node : path'[m] = path[m] \/ (path'[m] = None /\ m \in lost'),
           passed' = passed, announce_queue' = announce_queue, capped' = capped,
           rate' = rate, known' = known, tags' = tags, forwards' = forwards,
           emission' = emission, nextTag' = nextTag, air' = air
    PROVE  /\ Onward /\ PathsOK' /\ PassedOK' /\ QueuesOK' /\ RateOK' /\ KnownOK'
           /\ GenerationsOK' /\ ForwardsOK' /\ AirOK'
  <1>1. Onward
      BY InvFacts DEF Onward
  <1>2. PassedOK' /\ QueuesOK' /\ RateOK' /\ KnownOK' /\ GenerationsOK' /\ ForwardsOK'
      BY <1>1, PassedKept, QueuesKept, CappedFacts, RestKept, KnownKept, TagsKept
  <1>3. AirOK'
      BY <1>1, NoMoreFacts, AirKept
  <1>4. ASSUME NEW n \in Node, path'[n] # None
        PROVE  /\ n # Owner /\ path'[n].emission \in 1 .. emission' /\ path'[n].hops > 0
               /\ Vouched(path[n].from, path[n].emission, path[n].hops - 1)'
      <2>1. path'[n] = path[n] /\ path[n] # None
          BY <1>4
      <2>2. /\ n # Owner /\ path[n].emission \in 1 .. emission /\ path[n].hops > 0
            /\ Vouched(path[n].from, path[n].emission, path[n].hops - 1)
          BY <2>1 DEF DiscoveryInv, PathsOK
      <2>3. path[n].emission \in Nat /\ path[n].from \in Node /\ emission \in Nat
          BY <2>1, InvFacts
      <2>4. PICK m, e, h : m = path[n].from /\ e = path[n].emission /\ h = path[n].hops - 1
          OBVIOUS
      <2>5. Vouched(m, e, h)'
          BY <1>1, <2>2, <2>3, <2>4, VouchedStays
      <2>6. Vouched(path[n].from, path[n].emission, path[n].hops - 1)'
          BY <2>1, <2>4, <2>5
      <2> QED BY <2>1, <2>2, <2>3, <2>6
  <1> QED BY <1>1, <1>2, <1>3, <1>4 DEF PathsOK

\* A path is removed or expires.
LEMMA LosePathStep ==
    ASSUME DiscoveryInv, NEW n \in Node, LosePath(n)
    PROVE  DiscoveryInv'
  <1>1. /\ faults < MaxFaults /\ faults' = faults + 1 /\ waiting' = waiting
        /\ tags' = tags /\ path' = [path EXCEPT ![n] = None]
        /\ unresponsive' = [unresponsive EXCEPT ![n] = FALSE]
        /\ queue' = queue /\ emission' = emission /\ forwards' = forwards /\ passed' = passed
        /\ lost' = lost \union {n} /\ announce_queue' = announce_queue /\ nextTag' = nextTag
        /\ asked' = asked /\ air' = air /\ capped' = capped /\ rate' = rate /\ known' = known
      BY DEF LosePath, Faulty, interfaceVars, identityVars
  <1>2. MaxFaults \in Nat
      BY InvFacts
  <1>3. BasicsOK'
      BY <1>1, <1>2 DEF DiscoveryInv, BasicsOK
  <1>4. /\ path' \in [Node -> Path \union {None}] /\ lost \subseteq lost'
        /\ \A m \in Node : path'[m] = path[m] \/ (path'[m] = None /\ m \in lost')
      BY <1>1 DEF DiscoveryInv, PathsOK
  <1>5. /\ PathsOK' /\ PassedOK' /\ QueuesOK' /\ RateOK' /\ KnownOK'
        /\ GenerationsOK' /\ ForwardsOK' /\ AirOK'
      BY <1>1, <1>4, GiveUpStep
  <1>6. PendingOK'
      BY <1>1, RestKept
  <1> QED BY <1>3, <1>5, <1>6 DEF DiscoveryInv

\* A link fails: the path is given up or marked.
LEMMA LinkFailsStep ==
    ASSUME DiscoveryInv, NEW n \in Node, LinkFails(n)
    PROVE  DiscoveryInv'
  <1>1. /\ faults < MaxFaults /\ faults' = faults + 1 /\ waiting' = waiting
        /\ tags' = tags /\ emission' = emission /\ forwards' = forwards /\ passed' = passed
        /\ announce_queue' = announce_queue /\ nextTag' = nextTag
        /\ asked' = asked /\ air' = air /\ capped' = capped /\ rate' = rate /\ known' = known
        /\ lost' = IF path' = path /\ unresponsive' = unresponsive
                   THEN lost ELSE lost \union {n}
      BY DEF LinkFails, Faulty, interfaceVars, identityVars
  <1>2. PICK dests \in SUBSET Dest, blocked \in Medium \union {None} :
          /\ queue' = [queue EXCEPT ![n] = Enqueue(@, dests, blocked)]
          /\ path' = IF d \in dests /\ n \notin Transport
                     THEN [path EXCEPT ![n] = None] ELSE path
          /\ unresponsive' = IF d \in dests /\ blocked # None
                             THEN [unresponsive EXCEPT ![n] = TRUE]
                             ELSE unresponsive
      <2>1. On[n] \subseteq Medium
          BY InterfacesAssumption
      <2>2. \A x : x \in (IF n \in Transport /\ path[n] # None /\ ~unresponsive[n]
                          THEN On[n] ELSE {None}) => x \in Medium \union {None}
          BY <2>1
      <2> QED BY <2>2 DEF LinkFails
  <1>3. MaxFaults \in Nat
      BY InvFacts
  <1>4. /\ path \in [Node -> Path \union {None}] /\ unresponsive \in [Node -> BOOLEAN]
        /\ lost \subseteq Node
      BY DEF DiscoveryInv, PathsOK, BasicsOK
  <1>5. lost \subseteq lost' /\ lost' \subseteq Node
      BY <1>1, <1>4
  <1>6. path' # path \/ unresponsive' # unresponsive => n \in lost'
      BY <1>1
  <1>7. /\ path' \in [Node -> Path \union {None}]
        /\ \A m \in Node : path'[m] = path[m] \/ (path'[m] = None /\ m \in lost')
      <2>1. CASE path' = path
          BY <1>4, <2>1
      <2>2. CASE path' # path
          <3>1. n \in lost' /\ path' = [path EXCEPT ![n] = None]
              BY <1>2, <1>6, <2>2
          <3> QED BY <1>4, <3>1
      <2> QED BY <2>1, <2>2
  <1>8. /\ unresponsive' \in [Node -> BOOLEAN]
        /\ \A m \in Node : unresponsive'[m] => m \in lost'
      <2>1. \A m \in Node : unresponsive[m] => m \in lost'
          BY <1>5 DEF DiscoveryInv, BasicsOK
      <2>2. CASE unresponsive' = unresponsive
          BY <1>4, <2>1, <2>2
      <2>3. CASE unresponsive' # unresponsive
          <3>1. n \in lost' /\ unresponsive' = [unresponsive EXCEPT ![n] = TRUE]
              BY <1>2, <1>6, <2>3
          <3> QED BY <1>4, <2>1, <3>1
      <2> QED BY <2>2, <2>3
  <1>9. BasicsOK'
      BY <1>1, <1>3, <1>5, <1>8 DEF DiscoveryInv, BasicsOK
  <1>10. /\ PathsOK' /\ PassedOK' /\ QueuesOK' /\ RateOK' /\ KnownOK'
         /\ GenerationsOK' /\ ForwardsOK' /\ AirOK'
      BY <1>1, <1>5, <1>7, GiveUpStep
  <1>11. PendingOK'
      <2>1. PICK q \in Seq(Pending) : q = queue[n] /\ Len(q) <= MAX_QUEUED_DISCOVERY_PRS
          BY DEF DiscoveryInv, PendingOK
      <2>2. PICK r : r = Enqueue(q, dests, blocked)
          OBVIOUS
      <2>3. r \in Seq(Pending) /\ Len(r) <= MAX_QUEUED_DISCOVERY_PRS
          BY <2>1, <2>2, EnqueueFacts
      <2>4. queue' = [queue EXCEPT ![n] = r]
          BY <1>2, <2>1, <2>2
      <2> QED BY <2>3, <2>4 DEF DiscoveryInv, PendingOK
  <1> QED BY <1>9, <1>10, <1>11 DEF DiscoveryInv

\* The owner announces.
LEMMA AnnounceStep ==
    ASSUME DiscoveryInv, Announce
    PROVE  DiscoveryInv'
  <1>1. /\ emission' = emission + 1
        /\ faults' = faults /\ waiting' = waiting
        /\ tags' = tags /\ path' = path /\ unresponsive' = unresponsive
        /\ queue' = queue /\ forwards' = forwards /\ passed' = passed
        /\ lost' = lost /\ nextTag' = nextTag
        /\ asked' = asked /\ rate' = rate /\ known' = known
      BY DEF Announce, identityVars
  <1>2. PICK a, from, local, early, ms :
            /\ a = [dest |-> d, hops |-> 0, emission |-> emission + 1]
            /\ outbound_announce(Owner, a, from, local, early)
            /\ air' = Broadcast(air, Owner, ms, Announcement("announce", Owner, 0, emission + 1))
      BY Zenon DEF Announce
  <1>3. nextTag \in Nat /\ emission \in Nat /\ Owner \in Node /\ d \in Dest
      BY InvFacts, DiscoveryAssumption
  <1>4. BasicsOK'
      BY <1>1, <1>3 DEF DiscoveryInv, BasicsOK
  <1>5. /\ Onward /\ PathsOK' /\ PassedOK' /\ PendingOK' /\ RateOK' /\ KnownOK'
        /\ GenerationsOK' /\ ForwardsOK'
      BY <1>1, <1>3, QuietStep
  <1>6. a \in Entry /\ a.hops = 0
      BY <1>2, <1>3 DEF Entry
  <1>7. QueuesOK'
      <2>1. (a.hops > 0 /\ Owner \notin lost') => path'[Owner] # None /\ a.emission <= path'[Owner].emission
          BY <1>6
      <2> QED BY <1>2, <1>3, <1>5, <1>6, <2>1, OutboundFacts
  <1>8. AirOK'
      <2>1. PICK b, e, t : b = air /\ e = emission + 1 /\ t = "announce"
          OBVIOUS
      <2>2. NoMore(b) /\ e \in 1 .. emission' /\ t \in {"announce", "response"}
          BY <1>1, <1>3, <2>1, NoMoreFacts
      <2>3. Vouched(Owner, e, 0)'
          BY DEF Vouched
      <2>4. air' = Broadcast(b, Owner, ms, Announcement(t, Owner, 0, e))
          BY <1>2, <2>1
      <2> QED BY <1>3, <1>5, <2>2, <2>3, <2>4, AnnouncementSent
  <1> QED BY <1>4, <1>5, <1>7, <1>8 DEF DiscoveryInv

-----------------------------------------------------------------------------
(* Requests.                                                               *)

\* What is made of the generations g of a node when a tag is noted: a full
\* generation becomes the previous one, and what was previous is forgotten.
Noted(g, t) ==
    IF MAX_PR_TAGS > 0 /\ Cardinality(g.active \union {t}) >= (MAX_PR_TAGS + 1) \div 2
    THEN [active |-> {}, previous |-> g.active \union {t}]
    ELSE [active |-> g.active \union {t}, previous |-> g.previous]

\* insert() of a GenerationalSet does that.
LEMMA RememberFacts ==
    ASSUME DiscoveryInv, NEW n \in Node, NEW t
    PROVE  Remember(n, t) = [tags EXCEPT ![n] = Noted(tags[n], t)]
  <1>1. \A S : TagSet(n)!Cardinality(S) = Cardinality(S)
      BY DEF TagSet!Cardinality, Cardinality, TagSet!IsFiniteSet, IsFiniteSet
  <1>2. PICK A : A = tags[n].active \union {t}
      OBVIOUS
  <1>3. TagSet(n)!rotation_due(A) <=> MAX_PR_TAGS > 0 /\ Cardinality(A) >= (MAX_PR_TAGS + 1) \div 2
      <2>1. TagSet(n)!Cardinality(A) = Cardinality(A)
          BY <1>1
      <2> QED BY <2>1 DEF TagSet!rotation_due, TagSet!Half
  <1>4. Remember(n, t) =
            [tags EXCEPT ![n] = IF TagSet(n)!rotation_due(A) THEN [active |-> {}, previous |-> A]
                                ELSE [active |-> A, previous |-> tags[n].previous]]
      BY <1>2 DEF Remember
  <1> QED BY <1>2, <1>3, <1>4 DEF Noted

\* The generations of a node after a tag is noted that it had not seen; none
\* is forgotten before MAX_PR_TAGS were given out.
LEMMA NotedFacts ==
    ASSUME NEW g \in [active: SUBSET Tag, previous: SUBSET Tag],
           NEW N \in Nat, g.active \union g.previous \subseteq 1 .. N,
           g.active \intersect g.previous = {},
           g.previous # {} => Cardinality(g.previous) >= (MAX_PR_TAGS + 1) \div 2,
           NEW t \in Tag, t \in 1 .. N, t \notin g.active \union g.previous
    PROVE  /\ Noted(g, t) \in [active: SUBSET Tag, previous: SUBSET Tag]
           /\ Noted(g, t).active \union Noted(g, t).previous \subseteq 1 .. N
           /\ Noted(g, t).active \intersect Noted(g, t).previous = {}
           /\ Noted(g, t).previous = g.previous
              \/ (MAX_PR_TAGS > 0 /\ Cardinality(Noted(g, t).previous) >= (MAX_PR_TAGS + 1) \div 2)
           /\ t \in Noted(g, t).active \union Noted(g, t).previous
           /\ MAX_PR_TAGS = 0 \/ N < MAX_PR_TAGS =>
                 g.active \union g.previous \subseteq Noted(g, t).active \union Noted(g, t).previous
  <1> DEFINE a == g.active \union {t}
             p == g.previous
             due == MAX_PR_TAGS > 0 /\ Cardinality(a) >= (MAX_PR_TAGS + 1) \div 2
  <1>1. a \subseteq 1 .. N /\ p \subseteq 1 .. N /\ a \in SUBSET Tag /\ p \in SUBSET Tag
        /\ a \intersect p = {} /\ t \in a /\ g.active \subseteq a
      OBVIOUS
  <1>2. CASE due
      <2>1. Noted(g, t) = [active |-> {}, previous |-> a]
          BY <1>2 DEF Noted
      <2>2. ASSUME N < MAX_PR_TAGS, p # {} PROVE FALSE
          <3>1. IsFiniteSet(1 .. N) /\ Cardinality(1 .. N) = N
              BY FS_Interval
          <3>2. IsFiniteSet(a) /\ IsFiniteSet(p) /\ IsFiniteSet(a \union p)
              BY <1>1, <3>1, FS_Subset, FS_Union
          <3>3. /\ Cardinality(a \union p) = Cardinality(a) + Cardinality(p) - Cardinality(a \intersect p)
                /\ Cardinality(a) \in Nat /\ Cardinality(p) \in Nat
              BY <3>2, FS_Union, FS_CardinalityType
          <3>4. Cardinality(a \intersect p) = 0
              BY <1>1, FS_EmptySet
          <3>5. Cardinality(a \union p) <= N /\ Cardinality(a \union p) \in Nat
              <4>1. a \union p \subseteq 1 .. N
                  BY <1>1
              <4> HIDE DEF a, p
              <4> QED BY <3>1, <3>2, <4>1, FS_Subset, FS_CardinalityType
          <3>6. Cardinality(p) >= (MAX_PR_TAGS + 1) \div 2 /\ Cardinality(a) >= (MAX_PR_TAGS + 1) \div 2
              BY <1>2, <2>2
          <3> HIDE DEF a, p
          <3>7. PICK A \in Nat, B \in Nat, M \in Nat : A = Cardinality(a) /\ B = Cardinality(p) /\ M = MAX_PR_TAGS
              BY <3>3, DiscoveryAssumption
          <3>8. A + B <= N /\ B >= (M + 1) \div 2 /\ A >= (M + 1) \div 2 /\ N < M
              BY <2>2, <3>3, <3>4, <3>5, <3>6, <3>7
          <3> QED BY <3>7, <3>8
      <2>3. MAX_PR_TAGS # 0
          BY <1>2, DiscoveryAssumption
      <2>4. ASSUME MAX_PR_TAGS = 0 \/ N < MAX_PR_TAGS PROVE p = {}
          BY <2>2, <2>3, <2>4
      <2> QED BY <1>1, <1>2, <2>1, <2>4
  <1>3. CASE ~due
      <2>1. Noted(g, t) = [active |-> a, previous |-> p]
          BY <1>3 DEF Noted
      <2> QED BY <1>1, <1>3, <2>1
  <1> QED BY <1>2, <1>3

\* A node sees what it has noted, and does not ask on twice with a tag it sees.
LEMMA RememberStep ==
    ASSUME DiscoveryInv, NEW n \in Node, NEW t \in 1 .. nextTag, ~Seen(n, t),
           tags' = Remember(n, t), nextTag' = nextTag,
           forwards' \in {forwards, [forwards EXCEPT ![n][t] = @ + 1]}
    PROVE  /\ tags' \in [Node -> [active: SUBSET Tag, previous: SUBSET Tag]]
           /\ forwards' \in [Node -> [Tag -> Nat]]
           /\ GenerationsOK' /\ ForwardsOK'
  <1>1. /\ tags \in [Node -> [active: SUBSET Tag, previous: SUBSET Tag]]
        /\ forwards \in [Node -> [Tag -> Nat]] /\ nextTag \in 0 .. MaxTags /\ MaxTags \in Nat
      BY DiscoveryAssumption DEF DiscoveryInv, BasicsOK
  <1>2. PICK N \in Nat : N = nextTag /\ t \in 1 .. N /\ t \in Tag
      BY <1>1 DEF Tag
  <1>3. PICK g \in [active: SUBSET Tag, previous: SUBSET Tag] : g = tags[n]
      BY <1>1
  <1>4. /\ g.active \union g.previous \subseteq 1 .. N
        /\ g.active \intersect g.previous = {}
        /\ g.previous # {} =>
              MAX_PR_TAGS > 0 /\ Cardinality(g.previous) >= (MAX_PR_TAGS + 1) \div 2
      BY <1>2, <1>3 DEF DiscoveryInv, GenerationsOK
  <1>5. t \notin g.active \union g.previous
      BY <1>3 DEF Seen, TagSet!contains
  <1>6. PICK h : h = Noted(g, t)
      OBVIOUS
  <1>7. /\ h \in [active: SUBSET Tag, previous: SUBSET Tag]
        /\ h.active \union h.previous \subseteq 1 .. N
        /\ h.active \intersect h.previous = {}
        /\ h.previous = g.previous
           \/ (MAX_PR_TAGS > 0 /\ Cardinality(h.previous) >= (MAX_PR_TAGS + 1) \div 2)
        /\ t \in h.active \union h.previous
        /\ MAX_PR_TAGS = 0 \/ N < MAX_PR_TAGS =>
              g.active \union g.previous \subseteq h.active \union h.previous
      BY <1>2, <1>4, <1>5, <1>6, NotedFacts
  <1>8. tags' = [tags EXCEPT ![n] = h]
      BY <1>3, <1>6, RememberFacts
  <1>9. tags' \in [Node -> [active: SUBSET Tag, previous: SUBSET Tag]]
      BY <1>1, <1>7, <1>8
  <1>10. \A m \in Node : tags'[m] = IF m = n THEN h ELSE tags[m]
      BY <1>1, <1>8
  <1>11. GenerationsOK'
      <2>1. h.previous # {} => MAX_PR_TAGS > 0 /\ Cardinality(h.previous) >= (MAX_PR_TAGS + 1) \div 2
          <3>1. CASE h.previous = g.previous
              BY <1>4, <3>1
          <3>2. CASE h.previous # g.previous
              BY <1>7, <3>2
          <3> QED BY <3>1, <3>2
      <2>2. ASSUME NEW m \in Node
            PROVE  /\ tags'[m].active \union tags'[m].previous \subseteq 1 .. nextTag'
                   /\ tags'[m].active \intersect tags'[m].previous = {}
                   /\ tags'[m].previous # {} =>
                         MAX_PR_TAGS > 0 /\ Cardinality(tags'[m].previous) >= (MAX_PR_TAGS + 1) \div 2
          <3>1. CASE m = n
              <4>1. tags'[m] = h
                  BY <1>10, <3>1
              <4> QED BY <1>2, <1>7, <2>1, <4>1
          <3>2. CASE m # n
              <4>1. tags'[m] = tags[m]
                  BY <1>10, <3>2
              <4> QED BY <4>1 DEF DiscoveryInv, GenerationsOK
          <3> QED BY <3>1, <3>2
      <2> QED BY <2>2 DEF GenerationsOK
  <1>12. forwards' \in [Node -> [Tag -> Nat]]
         /\ \A m \in Node, u \in Tag :
               forwards'[m][u] = forwards[m][u] \/ (m = n /\ u = t /\ forwards'[m][u] = forwards[m][u] + 1)
      <2>1. CASE forwards' = forwards
          BY <1>1, <2>1
      <2>2. CASE forwards' = [forwards EXCEPT ![n][t] = @ + 1]
          BY <1>1, <1>2, <2>2
      <2> QED BY <2>1, <2>2
  <1>13. ForwardsOK'
      <2>1. SUFFICES ASSUME TagsLast', NEW m \in Node, NEW u \in Tag
                     PROVE  forwards'[m][u] <= 1 /\ (forwards'[m][u] > 0 => Seen(m, u)')
          BY DEF ForwardsOK
      <2>2. TagsLast /\ (MAX_PR_TAGS = 0 \/ N < MAX_PR_TAGS)
          BY <1>2, <2>1 DEF TagsLast
      <2>3. /\ forwards[m][u] \in Nat /\ forwards[m][u] <= 1
            /\ forwards[m][u] > 0 => Seen(m, u)
          BY <1>1, <2>2 DEF DiscoveryInv, ForwardsOK
      <2>4. Seen(m, u) => Seen(m, u)'
          <3>1. CASE m = n
              BY <1>3, <1>7, <1>10, <2>2, <3>1 DEF Seen, TagSet!contains
          <3>2. CASE m # n
              BY <1>10, <3>2 DEF Seen, TagSet!contains
          <3> QED BY <3>1, <3>2
      <2>5. Seen(n, t)'
          BY <1>7, <1>10 DEF Seen, TagSet!contains
      <2>6. CASE m = n /\ u = t
          <3>1. ~(forwards[m][u] > 0)
              BY <2>3, <2>6
          <3>2. forwards[m][u] = 0
              BY <2>3, <3>1
          <3>3. forwards'[m][u] <= 1
              BY <1>12, <3>2
          <3> QED BY <2>5, <2>6, <3>3
      <2>7. CASE ~(m = n /\ u = t)
          <3>1. forwards'[m][u] = forwards[m][u]
              BY <1>12, <2>7
          <3> QED BY <2>3, <2>4, <3>1
      <2> QED BY <2>6, <2>7
  <1> QED BY <1>9, <1>11, <1>12, <1>13

\* What is done with a request that was not seen before, to what is under way,
\* to the waits, the announces made and the caps.
Answered(n, x) ==
    \/ AnswerLocal(n, x) \/ AnswerKnown(n, x) \/ Ignore(n, x)
    \/ AskOn(n, x)

\* Whatever is done, what is sent is as it should be, and a node asks on at most
\* once.
LEMMA AnsweredFacts ==
    ASSUME DiscoveryInv, NEW n \in Node, NEW x, x = Head(air[n]), air[n] # <<>>,
           x.t = "request", Answered(n, x), path' = path, lost' = lost, passed' = passed,
           nextTag' = nextTag
    PROVE  /\ waiting' \in [Node -> Medium \union {None}] /\ faults' \in 0 .. MaxFaults
           /\ emission' \in Nat /\ emission <= emission'
           /\ forwards' \in {forwards, [forwards EXCEPT ![n][x.tag] = @ + 1]}
           /\ capped' \subseteq Interface
           /\ AirOK'
  <1>1. emission \in Nat /\ nextTag \in Nat /\ MaxFaults \in Nat
      BY InvFacts
  <1>2. waiting \in [Node -> Medium \union {None}] /\ faults \in 0 .. MaxFaults
      BY DEF DiscoveryInv, BasicsOK
  <1>3. PICK b : b = Taken(n) /\ NoMore(b)
      BY NoMoreFacts
  <1>4. x \in Packet /\ x.on \in Medium /\ x.tag \in 1 .. nextTag /\ x.tag \in Tag
      <2>1. x \in Packet /\ PacketOK(n, x)
          BY NoMoreFacts
      <2>2. x.on \in Medium /\ x.tag \in Tag
          BY <2>1, PacketFacts
      <2> QED BY <2>1, <2>2 DEF PacketOK
  <1>5. CASE AnswerLocal(n, x)
      <2>1. /\ n = Owner /\ emission' = emission + 1
            /\ air' = Broadcast(b, n, {x.on}, Response(n, 0, emission + 1))
            /\ waiting' = waiting /\ forwards' = forwards /\ faults' = faults /\ capped' = capped
          BY <1>3, <1>5 DEF AnswerLocal
      <2>2. Onward
          BY <1>1, <2>1, OnwardSame
      <2>3. PICK e, t, ms : e = emission + 1 /\ t = "response" /\ ms = {x.on}
          OBVIOUS
      <2>4. e \in 1 .. emission' /\ t \in {"announce", "response"}
          BY <1>1, <2>1, <2>3
      <2>5. Vouched(n, e, 0)'
          BY <2>1 DEF Vouched
      <2>6. air' = Broadcast(b, n, ms, Announcement(t, n, 0, e))
          BY <2>1, <2>3 DEF Response
      <2>7. AirOK'
          BY <1>3, <2>2, <2>4, <2>5, <2>6, AnnouncementSent
      <2> QED BY <1>1, <1>2, <2>1, <2>7, CappedFacts
  <1>6. CASE AnswerKnown(n, x)
      <2>1. /\ path[n] # None /\ emission' = emission
            /\ \/ air' = b
               \/ air' = Broadcast(b, n, {x.on}, Response(n, path[n].hops, path[n].emission))
            /\ waiting' = waiting /\ forwards' = forwards /\ faults' = faults /\ capped' = capped
          BY <1>3, <1>6 DEF AnswerKnown, Knows
      <2>2. Onward
          BY <1>1, <2>1, OnwardSame
      <2>3. PICK e, h, t, ms : e = path[n].emission /\ h = path[n].hops /\ t = "response" /\ ms = {x.on}
          OBVIOUS
      <2>4. e \in 1 .. emission' /\ t \in {"announce", "response"} /\ h \in Nat
          BY <2>1, <2>3, InvFacts DEF DiscoveryInv, PathsOK
      <2>5. Vouched(n, e, h)
          BY <1>1, <2>1, <2>3, <2>4, InvFacts DEF Vouched
      <2>6. e \in Nat
          BY <2>1, <2>3, InvFacts
      <2>7. Vouched(n, e, h)'
          BY <2>2, <2>5, <2>6, VouchedStays
      <2>8. AirOK'
          <3>1. CASE air' = b
              BY <1>3, <2>2, <3>1, AirKept DEF NoMore
          <3>2. CASE air' = Broadcast(b, n, {x.on}, Response(n, path[n].hops, path[n].emission))
              <4>1. air' = Broadcast(b, n, ms, Announcement(t, n, h, e))
                  BY <2>3, <3>2 DEF Response
              <4> QED BY <1>3, <2>2, <2>4, <2>7, <4>1, AnnouncementSent
          <3> QED BY <2>1, <3>1, <3>2
      <2> QED BY <1>1, <1>2, <2>1, <2>8, CappedFacts
  <1>7. CASE Ignore(n, x)
      <2>1. /\ air' = b /\ emission' = emission
            /\ waiting' = waiting /\ forwards' = forwards /\ faults' = faults /\ capped' = capped
          BY <1>3, <1>7 DEF Ignore
      <2>2. Onward
          BY <1>1, <2>1, OnwardSame
      <2>3. AirOK'
          BY <1>3, <2>1, <2>2, AirKept DEF NoMore
      <2> QED BY <1>1, <1>2, <2>1, <2>3, CappedFacts
  <1>8. CASE AskOn(n, x)
      <2>1. PICK early, is :
                /\ is = RequestedOn(n, early)
                /\ IF early = {} THEN UNCHANGED faults ELSE Faulty
                /\ air' = Broadcast(Taken(n), n, Media(is), Request(n, x.tag))
                /\ capped' = capped \union is
          BY <1>8, Zenon DEF AskOn
      <2>2. /\ emission' = emission /\ waiting' = [waiting EXCEPT ![n] = x.on]
            /\ forwards' = [forwards EXCEPT ![n][x.tag] = @ + 1]
          BY <1>8 DEF AskOn
      <2>3. Onward
          BY <1>1, <2>2, OnwardSame
      <2>4. PICK tag, ms : tag = x.tag /\ ms = Media(is)
          OBVIOUS
      <2>5. tag \in Tag /\ tag <= nextTag' /\ air' = Broadcast(b, n, ms, Request(n, tag))
          BY <1>1, <1>3, <1>4, <2>1, <2>4
      <2>6. AirOK'
          BY <1>3, <2>3, <2>5, RequestSent
      <2>7. is \subseteq Interface
          BY <2>1 DEF RequestedOn, Of
      <2>8. faults' \in 0 .. MaxFaults
          BY <1>1, <1>2, <2>1 DEF Faulty
      <2>9. waiting' \in [Node -> Medium \union {None}]
          BY <1>2, <1>4, <2>2
      <2> QED BY <1>1, <2>1, <2>2, <2>6, <2>7, <2>8, <2>9, CappedFacts
  <1> QED BY <1>5, <1>6, <1>7, <1>8 DEF Answered

\* A request is received.
LEMMA ReceiveRequestStep ==
    ASSUME DiscoveryInv, NEW n \in Node, ReceiveRequest(n)
    PROVE  DiscoveryInv'
  <1>1. /\ path' = path /\ unresponsive' = unresponsive /\ queue' = queue /\ nextTag' = nextTag
        /\ passed' = passed /\ asked' = asked /\ lost' = lost /\ air[n] # <<>>
        /\ announce_queue' = announce_queue /\ rate' = rate /\ known' = known
      BY DEF ReceiveRequest, identityVars
  <1>2. PICK x : /\ x = Head(air[n]) /\ x.t = "request"
                 /\ \/ /\ Seen(n, x.tag)
                       /\ air' = Taken(n)
                       /\ UNCHANGED <<tags, waiting, emission, forwards, faults, capped>>
                    \/ /\ ~Seen(n, x.tag)
                       /\ tags' = Remember(n, x.tag)
                       /\ Answered(n, x)
      BY Zenon DEF ReceiveRequest, NoteTag, Answered
  <1>3. nextTag \in Nat /\ emission \in Nat
      BY InvFacts
  <1>4. CASE air' = Taken(n) /\ UNCHANGED <<tags, waiting, emission, forwards, faults, capped>>
      <2>1. BasicsOK'
          BY <1>1, <1>4 DEF DiscoveryInv, BasicsOK
      <2>2. /\ Onward /\ PathsOK' /\ PassedOK' /\ QueuesOK' /\ PendingOK' /\ RateOK' /\ KnownOK'
            /\ GenerationsOK' /\ ForwardsOK'
          BY <1>1, <1>3, <1>4, QuietStep, CappedFacts
      <2>3. AirOK'
          BY <1>1, <1>4, <2>2, NoMoreFacts, AirKept
      <2> QED BY <2>1, <2>2, <2>3 DEF DiscoveryInv
  <1>5. CASE ~Seen(n, x.tag) /\ tags' = Remember(n, x.tag) /\ Answered(n, x)
      <2>1. /\ waiting' \in [Node -> Medium \union {None}] /\ faults' \in 0 .. MaxFaults
            /\ emission' \in Nat /\ emission <= emission'
            /\ forwards' \in {forwards, [forwards EXCEPT ![n][x.tag] = @ + 1]}
            /\ capped' \subseteq Interface
            /\ AirOK'
          BY <1>1, <1>2, <1>5, AnsweredFacts
      <2>2. PICK t \in 1 .. nextTag : t = x.tag
          <3>1. PacketOK(n, x)
              BY <1>1, <1>2, NoMoreFacts
          <3> QED BY <1>2, <3>1 DEF PacketOK
      <2>3. /\ tags' \in [Node -> [active: SUBSET Tag, previous: SUBSET Tag]]
            /\ forwards' \in [Node -> [Tag -> Nat]]
            /\ GenerationsOK' /\ ForwardsOK'
          BY <1>1, <1>5, <2>1, <2>2, RememberStep
      <2>4. BasicsOK'
          BY <1>1, <1>3, <2>1, <2>3 DEF DiscoveryInv, BasicsOK
      <2>5. PathsOK' /\ PassedOK' /\ QueuesOK' /\ PendingOK' /\ RateOK' /\ KnownOK'
          BY <1>1, <1>3, <2>1, QuietStep
      <2> QED BY <2>1, <2>3, <2>4, <2>5 DEF DiscoveryInv
  <1> QED BY <1>2, <1>4, <1>5

-----------------------------------------------------------------------------
(* Announces.                                                              *)

\* Only what the owner announced passes the checks.
LEMMA GenuineFacts ==
    ASSUME NEW n, NEW e, NEW c \in {Content(e)} \union Damaged(Content(e)),
           validate_announce(n, c)
    PROVE  c.key = Key /\ c.app = e
  <1>1. /\ c.signature = Signature(c.key, SignedData(c))
        /\ c.dest = hash(c.name, c.key)
      BY DEF validate_announce
  <1>2. CASE c = Content(e)
      BY <1>2 DEF Content
  <1>3. CASE c = [Content(e) EXCEPT !.key = "other"]
      BY <1>1, <1>3 DEF Content, Signature, Key
  <1>4. CASE c = [Content(e) EXCEPT !.name = "other"]
      BY <1>4 DEF Content
  <1>5. CASE c = [Content(e) EXCEPT !.blob = 0]
      BY <1>5 DEF Content
  <1>6. CASE c = [Content(e) EXCEPT !.app = 0]
      BY <1>1, <1>6 DEF Content, Signature, SignedData
  <1>7. CASE c = [Content(e) EXCEPT !.signature[1] = "other"]
      BY <1>7 DEF Content
  <1> QED BY <1>2, <1>3, <1>4, <1>5, <1>6, <1>7 DEF Damaged

\* The rate entry after an accepted announce.
LEMMA RatedFacts ==
    ASSUME DiscoveryInv, NEW n \in Node, NEW i, NEW response, NEW entry \in Rated(n, i, response),
           rate' = [rate EXCEPT ![n] = entry]
    PROVE  RateOK'
  <1>1. /\ rate \in [Node -> RateEntry \union {None}] /\ Grace \in Nat
        /\ rate[n] # None => rate[n] \in RateEntry /\ (rate[n].blocked <=> rate[n].violations > Grace)
      BY InterfacesAssumption DEF DiscoveryInv, RateOK
  <1>2. \/ entry = rate[n]
        \/ entry = NewRate
        \/ rate[n] # None /\ \E fast \in BOOLEAN : entry = Judged(rate[n], fast)
      BY DEF Rated
  <1>3. ASSUME rate[n] # None, NEW fast \in BOOLEAN, entry = Judged(rate[n], fast)
        PROVE  entry \in RateEntry /\ (entry.blocked <=> entry.violations > Grace)
      <2>1. PICK r \in RateEntry : r = rate[n]
          BY <1>1, <1>3
      <2>2. r.violations \in Nat
          BY DEF RateEntry
      <2>3. PICK v \in Nat : v = IF fast THEN r.violations + 1
                                 ELSE IF r.violations > 0 THEN r.violations - 1 ELSE 0
          BY <2>2
      <2>4. entry = [violations |-> v, blocked |-> v > Grace]
          BY <1>3, <2>1, <2>3 DEF Judged
      <2>5. (v > Grace) \in BOOLEAN
          OBVIOUS
      <2> QED BY <2>4, <2>5 DEF RateEntry
  <1>4. NewRate \in RateEntry /\ (NewRate.blocked <=> NewRate.violations > Grace)
      BY <1>1 DEF NewRate, RateEntry
  <1>5. \/ entry = None
        \/ entry \in RateEntry /\ (entry.blocked <=> entry.violations > Grace)
      BY <1>1, <1>2, <1>3, <1>4
  <1>6. entry \in RateEntry \union {None}
      BY <1>5
  <1>7. rate' \in [Node -> RateEntry \union {None}]
      BY <1>1, <1>6
  <1>8. ASSUME NEW m \in Node, rate'[m] # None
        PROVE  rate'[m] \in RateEntry /\ (rate'[m].blocked <=> rate'[m].violations > Grace)
      <2>1. CASE m = n
          <3>1. rate'[m] = entry
              BY <1>1, <2>1
          <3> QED BY <1>5, <1>8, <3>1
      <2>2. CASE m # n
          <3>1. rate'[m] = rate[m]
              BY <1>1, <2>2
          <3> QED BY <1>8, <3>1 DEF DiscoveryInv, RateOK
      <2> QED BY <2>1, <2>2
  <1> QED BY <1>7, <1>8 DEF RateOK

\* What is remembered of a genuine announce.
LEMMA RememberedFacts ==
    ASSUME DiscoveryInv, NEW n \in Node, NEW c, c.key = Key, c.app \in 1 .. emission,
           emission' = emission, known' = [known EXCEPT ![n] = Remembered(@, c)]
    PROVE  KnownOK'
  <1>1. DOMAIN known = Node /\ \A m \in Node : \A e \in known[m] : e.key = Key /\ e.app \in 1 .. emission
      BY DEF DiscoveryInv, KnownOK
  <1>2. \A e \in Remembered(known[n], c) : e.key = Key /\ e.app \in 1 .. emission
      BY <1>1 DEF Remembered
  <1> QED BY <1>1, <1>2 DEF KnownOK

\* A newer announce replaces the path.
LEMMA AcceptFacts ==
    ASSUME DiscoveryInv, NEW n \in Node, n # Owner, NEW x \in Packet, PacketOK(n, x),
           x.t # "request", Accept(n, x),
           path' = [path EXCEPT ![n] = [from |-> x.from, on |-> x.on, hops |-> x.hops + 1,
                                        emission |-> x.emission]],
           lost' = lost, emission' = emission, nextTag' = nextTag
    PROVE  /\ Onward /\ PathsOK'
           /\ path'[n] # None /\ path'[n].emission = x.emission /\ path'[n].hops = x.hops + 1
           /\ n \notin lost => (path[n] # None => path[n].emission < x.emission)
  <1>1. /\ x.from \in Node /\ x.on \in Medium /\ x.hops \in Nat /\ x.emission \in Nat
      BY PacketFacts
  <1>2. x.emission \in 1 .. emission /\ Vouched(x.from, x.emission, x.hops)
      BY DEF PacketOK
  <1>3. emission \in Nat /\ nextTag \in Nat
      BY InvFacts
  <1>4. PICK p : p = [from |-> x.from, on |-> x.on, hops |-> x.hops + 1, emission |-> x.emission]
      OBVIOUS
  <1>5. /\ p \in Path /\ p # None /\ p.emission = x.emission /\ p.hops = x.hops + 1 /\ p.from = x.from
      BY <1>1, <1>4, InvFacts DEF Path
  <1>6. path \in [Node -> Path \union {None}] /\ path' = [path EXCEPT ![n] = p]
      BY <1>4 DEF DiscoveryInv, PathsOK
  <1>7. path' \in [Node -> Path \union {None}] /\ \A m \in Node : path'[m] = IF m = n THEN p ELSE path[m]
      BY <1>5, <1>6
  <1>8. n \notin lost => (path[n] # None => path[n].emission < x.emission)
      <2>1. ASSUME n \notin lost, path[n] # None PROVE path[n].emission < x.emission
          <3>1. ~unresponsive[n]
              BY <2>1 DEF DiscoveryInv, BasicsOK
          <3>2. x.emission > path[n].emission
              BY <2>1, <3>1 DEF Accept
          <3>3. path[n].emission \in Nat
              BY <2>1, InvFacts
          <3> QED BY <1>1, <3>2, <3>3
      <2> QED BY <2>1
  <1>9. Onward
      <2>1. ASSUME NEW m \in Node \ lost', path[m] # None
            PROVE  /\ path'[m] # None /\ path'[m].emission \in Nat
                   /\ path'[m] = path[m] \/ path'[m].emission > path[m].emission
          <3>1. path[m].emission \in Nat
              BY <2>1, InvFacts
          <3>2. CASE m = n
              BY <1>1, <1>5, <1>7, <1>8, <2>1, <3>1, <3>2
          <3>3. CASE m # n
              BY <1>7, <2>1, <3>1, <3>3
          <3> QED BY <3>2, <3>3
      <2> QED BY <1>3, <2>1 DEF Onward
  <1>10. ASSUME NEW m \in Node, path'[m] # None
         PROVE  /\ m # Owner /\ path'[m].emission \in 1 .. emission' /\ path'[m].hops > 0
                /\ Vouched(path[m].from, path[m].emission, path[m].hops - 1)'
      <2>1. CASE m = n
          <3>1. path'[m] = p
              BY <1>7, <2>1
          <3>2. PICK f, e, h : f = x.from /\ e = x.emission /\ h = x.hops
              OBVIOUS
          <3>3. f \in Node /\ e \in Nat /\ Vouched(f, e, h) /\ h \in Nat
              BY <1>1, <1>2, <3>2
          <3>4. Vouched(f, e, h)'
              BY <1>9, <3>3, VouchedStays
          <3>5. /\ path'[m].from = f /\ path'[m].emission = e /\ path'[m].hops - 1 = h
                /\ path'[m].hops > 0
              BY <1>5, <3>1, <3>2, <3>3
          <3>6. path'[m].emission \in 1 .. emission'
              BY <1>2, <3>2, <3>5
          <3> QED BY <2>1, <3>4, <3>5, <3>6
      <2>2. CASE m # n
          <3>1. path'[m] = path[m] /\ path[m] # None
              BY <1>7, <1>10, <2>2
          <3>2. /\ m # Owner /\ path[m].emission \in 1 .. emission /\ path[m].hops > 0
                /\ Vouched(path[m].from, path[m].emission, path[m].hops - 1)
              BY <3>1 DEF DiscoveryInv, PathsOK
          <3>3. PICK f, e, h : f = path[m].from /\ e = path[m].emission /\ h = path[m].hops - 1
              OBVIOUS
          <3>4. f \in Node /\ e \in Nat /\ Vouched(f, e, h)
              BY <3>1, <3>2, <3>3, InvFacts
          <3>5. Vouched(f, e, h)'
              BY <1>9, <3>4, VouchedStays
          <3>6. path'[m].from = f /\ path'[m].emission = e /\ path'[m].hops - 1 = h
              BY <3>1, <3>3
          <3> QED BY <3>1, <3>2, <3>5, <3>6
      <2> QED BY <2>1, <2>2
  <1>11. PathsOK'
      BY <1>7, <1>10 DEF PathsOK
  <1> QED BY <1>5, <1>7, <1>8, <1>9, <1>11

\* An announce that is passed on is newer than those passed on before it.
LEMMA PassedStep ==
    ASSUME DiscoveryInv, Onward, NEW n \in Node, NEW e \in Nat,
           path'[n] # None, path'[n].emission = e,
           n \notin lost => (path[n] # None => path[n].emission < e), lost' = lost,
           passed' = [passed EXCEPT ![n] = Append(@, e)]
    PROVE  PassedOK'
  <1>1. passed \in [Node -> Seq(Nat)]
      BY DEF DiscoveryInv, PassedOK
  <1>2. PICK s \in Seq(Nat) : s = passed[n]
      BY <1>1
  <1>3. PICK u : u = Append(s, e)
      OBVIOUS
  <1>4. /\ u \in Seq(Nat) /\ DOMAIN u = 1 .. Len(s) + 1 /\ u[Len(s) + 1] = e
        /\ DOMAIN s = 1 .. Len(s) /\ Len(s) \in Nat
        /\ \A k \in 1 .. Len(s) : u[k] = s[k]
      BY <1>3
  <1>5. passed' \in [Node -> Seq(Nat)] /\ \A m \in Node : passed'[m] = IF m = n THEN u ELSE passed[m]
      BY <1>1, <1>2, <1>3, <1>4
  <1>6. ASSUME NEW m \in Node \ lost'
        PROVE  /\ \A k \in DOMAIN passed'[m] : path'[m] # None /\ passed'[m][k] <= path'[m].emission
               /\ \A j, k \in DOMAIN passed'[m] : j < k => passed'[m][j] < passed'[m][k]
      <2>1. CASE m = n
          <3>1. passed'[m] = u
              BY <1>5, <2>1
          <3>2. /\ \A k \in DOMAIN s : path[n] # None /\ s[k] <= path[n].emission
                /\ \A j, k \in DOMAIN s : j < k => s[j] < s[k]
              BY <1>2, <1>6, <2>1 DEF DiscoveryInv, PassedOK
          <3>3. ASSUME NEW k \in DOMAIN s PROVE s[k] < e /\ s[k] \in Nat
              <4>1. path[n] # None /\ s[k] <= path[n].emission /\ s[k] \in Nat
                  BY <1>4, <3>2
              <4>2. path[n].emission < e /\ path[n].emission \in Nat
                  BY <1>6, <2>1, <4>1, InvFacts
              <4> QED BY <4>1, <4>2
          <3>4. \A k \in DOMAIN u : u[k] <= e
              BY <1>4, <3>3
          <3>5. ASSUME NEW j \in DOMAIN u, NEW k \in DOMAIN u, j < k PROVE u[j] < u[k]
              <4>1. j \in DOMAIN s /\ u[j] = s[j]
                  BY <1>4, <3>5
              <4>2. CASE k \in DOMAIN s
                  BY <1>4, <3>2, <3>5, <4>1, <4>2
              <4>3. CASE k \notin DOMAIN s
                  <5>1. u[k] = e
                      BY <1>4, <4>3
                  <5> QED BY <3>3, <4>1, <5>1
              <4> QED BY <4>2, <4>3
          <3> QED BY <2>1, <3>1, <3>4, <3>5
      <2>2. CASE m # n
          <3>1. passed'[m] = passed[m] /\ m \in Node \ lost
              BY <1>5, <1>6, <2>2
          <3>2. /\ \A k \in DOMAIN passed[m] : path[m] # None /\ passed[m][k] <= path[m].emission
                /\ \A j, k \in DOMAIN passed[m] : j < k => passed[m][j] < passed[m][k]
              BY <3>1 DEF DiscoveryInv, PassedOK
          <3>3. ASSUME NEW k \in DOMAIN passed[m]
                PROVE  path'[m] # None /\ passed[m][k] <= path'[m].emission
              <4>1. path[m] # None /\ passed[m][k] <= path[m].emission /\ passed[m][k] \in Nat
                  BY <1>1, <3>2
              <4>2. path[m].emission \in Nat
                  BY <4>1, InvFacts
              <4>3. /\ path'[m] # None /\ path'[m].emission \in Nat
                    /\ path'[m] = path[m] \/ path'[m].emission > path[m].emission
                  BY <1>6, <4>1 DEF Onward
              <4>4. CASE path'[m] = path[m]
                  BY <4>1, <4>3, <4>4
              <4>5. CASE path'[m].emission > path[m].emission
                  BY <4>1, <4>2, <4>3, <4>5
              <4> QED BY <4>3, <4>4, <4>5
          <3> QED BY <3>1, <3>2, <3>3
      <2> QED BY <2>1, <2>2
  <1> QED BY <1>5, <1>6 DEF PassedOK

\* The request that waits is answered with an announce that is known.
LEMMA AnswerWaitingFacts ==
    ASSUME DiscoveryInv, Onward, NEW n \in Node, air[n] # <<>>, NEW x, x.hops \in Nat,
           x.emission \in 1 .. emission', Vouched(n, x.emission, x.hops + 1)'
    PROVE  NextOK(AnswerWaiting(n, x))
  <1>1. PICK b : b = Taken(n) /\ NoMore(b)
      BY NoMoreFacts
  <1>2. NextOK(b)
      BY <1>1, NoMoreNext
  <1>3. CASE waiting[n] = None
      BY <1>1, <1>2, <1>3 DEF AnswerWaiting
  <1>4. CASE waiting[n] # None
      <2>1. PICK t, ms : t = "response" /\ ms = {waiting[n]}
          OBVIOUS
      <2>2. PICK e, h : e = x.emission /\ h = x.hops + 1
          OBVIOUS
      <2>3. t \in {"announce", "response"} /\ h \in Nat /\ e \in 1 .. emission' /\ Vouched(n, e, h)'
          BY <2>1, <2>2
      <2>4. NextOK(Broadcast(b, n, ms, Announcement(t, n, h, e)))
          BY <1>2, <2>3, AnnouncementNext
      <2>5. AnswerWaiting(n, x) = Broadcast(b, n, ms, Announcement(t, n, h, e))
          BY <1>1, <1>4, <2>1, <2>2 DEF AnswerWaiting, Response
      <2> QED BY <2>4, <2>5
  <1> QED BY <1>3, <1>4

\* What is passed on of an accepted announce, if anything is.
LEMMA PassOnStep ==
    ASSUME DiscoveryInv, Onward, NEW n \in Node, n # Owner, NEW x \in Packet, x.t # "request",
           NEW boxes, NextOK(boxes), PassOn(n, x, boxes),
           x.emission \in 1 .. emission',
           path'[n] # None, path'[n].emission = x.emission, Vouched(n, x.emission, x.hops + 1)',
           n \notin lost => (path[n] # None => path[n].emission < x.emission), lost' = lost
    PROVE  QueuesOK' /\ AirOK' /\ PassedOK' /\ faults' \in 0 .. MaxFaults
  <1>1. x.hops \in Nat /\ x.emission \in Nat /\ d \in Dest
      BY PacketFacts, DiscoveryAssumption
  <1>2. PICK early, a, from, local, ms, t :
            /\ a = [dest |-> d, hops |-> x.hops + 1, emission |-> x.emission]
            /\ t = "announce"
            /\ IF early = {} THEN UNCHANGED faults ELSE Faulty
            /\ outbound_announce(n, a, from, local, early)
            /\ air' = Broadcast(boxes, n, ms, Announcement(t, n, a.hops, a.emission))
            /\ passed' = [passed EXCEPT ![n] = Append(@, x.emission)]
      BY Zenon DEF PassOn
  <1>3. a \in Entry /\ a.hops = x.hops + 1 /\ a.emission = x.emission
      BY <1>1, <1>2 DEF Entry
  <1>4. faults' \in 0 .. MaxFaults
      <2>1. faults \in 0 .. MaxFaults /\ MaxFaults \in Nat
          BY InvFacts DEF DiscoveryInv, BasicsOK
      <2> QED BY <1>2, <2>1 DEF Faulty
  <1>5. PICK e : e = x.emission
      OBVIOUS
  <1>6. PassedOK'
      BY <1>1, <1>2, <1>5, PassedStep
  <1>7. QueuesOK'
      <2>1. (a.hops > 0 /\ n \notin lost') => path'[n] # None /\ a.emission <= path'[n].emission
          BY <1>1, <1>3
      <2> QED BY <1>2, <1>3, <2>1, OutboundFacts
  <1>8. AirOK'
      <2>1. PICK h : h = a.hops
          OBVIOUS
      <2>2. h \in Nat /\ e \in 1 .. emission' /\ Vouched(n, e, h)' /\ t \in {"announce", "response"}
          BY <1>1, <1>2, <1>3, <1>5, <2>1
      <2>3. PICK r : r = Broadcast(boxes, n, ms, Announcement(t, n, h, e))
          OBVIOUS
      <2>4. NextOK(r)
          BY <2>2, <2>3, AnnouncementNext
      <2>5. air' = r
          BY <1>2, <1>3, <1>5, <2>1, <2>3
      <2> QED BY <2>4, <2>5, NextAir
  <1> QED BY <1>4, <1>6, <1>7, <1>8

\* An announce is processed.
LEMMA ProcessStep ==
    ASSUME DiscoveryInv, NEW n \in Node, air[n] # <<>>, NEW x \in Packet, PacketOK(n, x),
           x.t # "request", NEW content, NEW k, Process(n, x, content, k),
           tags' = tags, waiting' = waiting, queue' = queue, emission' = emission,
           nextTag' = nextTag, forwards' = forwards, asked' = asked, lost' = lost
    PROVE  /\ BasicsOK' /\ PathsOK' /\ AirOK' /\ PassedOK' /\ QueuesOK' /\ PendingOK' /\ RateOK'
           /\ GenerationsOK' /\ ForwardsOK'
  <1>1. nextTag \in Nat /\ emission \in Nat
      BY InvFacts
  <1>2. PendingOK'
      BY RestKept
  <1>3. CASE /\ ~Accept(n, x) /\ air' = Taken(n)
             /\ UNCHANGED <<path, unresponsive, passed, faults, handed, interfaceVars>>
      <2>1. /\ path' = path /\ unresponsive' = unresponsive /\ passed' = passed /\ faults' = faults
            /\ announce_queue' = announce_queue /\ capped' = capped /\ rate' = rate /\ air' = Taken(n)
          BY <1>3 DEF interfaceVars
      <2>2. BasicsOK'
          BY <2>1 DEF DiscoveryInv, BasicsOK
      <2>3. /\ Onward /\ PathsOK' /\ PassedOK' /\ QueuesOK' /\ RateOK'
            /\ GenerationsOK' /\ ForwardsOK'
          BY <1>1, <2>1, QuietStep, CappedFacts
      <2>4. AirOK'
          BY <2>1, <2>3, NoMoreFacts, AirKept
      <2> QED BY <1>2, <2>2, <2>3, <2>4
  <1>4. CASE ~(~Accept(n, x) /\ air' = Taken(n)
               /\ UNCHANGED <<path, unresponsive, passed, faults, handed, interfaceVars>>)
      <2>1. PICK entry \in Rated(n, <<n, x.on>>, x.t = "response") :
             /\ Accept(n, x)
             /\ path' = [path EXCEPT ![n] =
                           [from |-> x.from, on |-> x.on, hops |-> x.hops + 1,
                            emission |-> x.emission]]
             /\ unresponsive' = [unresponsive EXCEPT ![n] = FALSE]
             /\ rate' = [rate EXCEPT ![n] = entry]
             /\ \/ PassOn(n, x, AnswerWaiting(n, x))
                \/ /\ air' = AnswerWaiting(n, x)
                   /\ UNCHANGED <<passed, faults, announce_queue, capped>>
          BY <1>4, Zenon DEF Process
      <2>2. n # Owner /\ x.emission \in 1 .. emission /\ x.hops \in Nat /\ x.emission \in Nat
          BY PacketFacts DEF PacketOK
      <2>3. /\ Onward /\ PathsOK'
            /\ path'[n] # None /\ path'[n].emission = x.emission /\ path'[n].hops = x.hops + 1
            /\ n \notin lost => (path[n] # None => path[n].emission < x.emission)
          BY <2>1, <2>2, AcceptFacts
      <2>4. Vouched(n, x.emission, x.hops + 1)'
          <3>1. PICK e, h \in Nat : e = x.emission /\ h = x.hops + 1
              BY <2>2
          <3>2. Vouched(n, e, h)'
              BY <2>3, <3>1 DEF Vouched
          <3> QED BY <3>1, <3>2
      <2>5. GenerationsOK' /\ ForwardsOK'
          BY <2>3, TagsKept
      <2>6. RateOK'
          BY <2>1, RatedFacts
      <2>7. PICK boxes : boxes = AnswerWaiting(n, x) /\ NextOK(boxes)
          BY <2>2, <2>3, <2>4, AnswerWaitingFacts
      <2>8. QueuesOK' /\ AirOK' /\ PassedOK' /\ faults' \in 0 .. MaxFaults
          <3>1. CASE PassOn(n, x, AnswerWaiting(n, x))
              <4>1. PassOn(n, x, boxes)
                  BY <2>7, <3>1
              <4> QED BY <2>2, <2>3, <2>4, <2>7, <4>1, PassOnStep
          <3>2. CASE air' = AnswerWaiting(n, x) /\ UNCHANGED <<passed, faults, announce_queue, capped>>
              <4>1. AirOK'
                  BY <2>7, <3>2, NextAir
              <4>2. QueuesOK' /\ PassedOK'
                  BY <2>3, <3>2, QueuesKept, CappedFacts, PassedKept
              <4>3. faults' \in 0 .. MaxFaults
                  BY <3>2 DEF DiscoveryInv, BasicsOK
              <4> QED BY <4>1, <4>2, <4>3
          <3> QED BY <2>1, <3>1, <3>2
      <2>9. BasicsOK'
          BY <1>1, <2>1, <2>8 DEF DiscoveryInv, BasicsOK
      <2> QED BY <1>2, <2>3, <2>5, <2>6, <2>8, <2>9
  <1> QED BY <1>3, <1>4

\* An announce is received, damaged or not.
LEMMA ReceiveAnnounceStep ==
    ASSUME DiscoveryInv, NEW n \in Node, ReceiveAnnounce(n)
    PROVE  DiscoveryInv'
  <1>1. /\ air[n] # <<>> /\ tags' = tags /\ waiting' = waiting /\ queue' = queue
        /\ emission' = emission /\ nextTag' = nextTag /\ forwards' = forwards /\ asked' = asked
        /\ lost' = lost
      BY DEF ReceiveAnnounce
  <1>2. PICK x : /\ x = Head(air[n]) /\ x.t \in {"announce", "response"}
                 /\ \/ \E content \in Arriving(x) :
                          /\ validate_announce(n, content)
                          /\ known' = [known EXCEPT ![n] = Remembered(@, content)]
                          /\ Process(n, x, content, known'[n])
                    \/ /\ Faulty
                       /\ air' = Taken(n)
                       /\ UNCHANGED <<path, unresponsive, passed, interfaceVars, identityVars>>
      BY Zenon DEF ReceiveAnnounce
  <1>3. x \in Packet /\ PacketOK(n, x) /\ x.t # "request"
      BY <1>1, <1>2, NoMoreFacts
  <1>4. CASE \E content \in Arriving(x) :
                 /\ validate_announce(n, content)
                 /\ known' = [known EXCEPT ![n] = Remembered(@, content)]
                 /\ Process(n, x, content, known'[n])
      <2>0. PICK content \in Arriving(x) :
                 /\ validate_announce(n, content)
                 /\ known' = [known EXCEPT ![n] = Remembered(@, content)]
                 /\ \E k : Process(n, x, content, k)
          BY <1>4, Zenon
      <2>1. PICK k :
                 /\ validate_announce(n, content)
                 /\ known' = [known EXCEPT ![n] = Remembered(@, content)]
                 /\ Process(n, x, content, k)
          BY <2>0, Zenon
      <2>2. /\ BasicsOK' /\ PathsOK' /\ AirOK' /\ PassedOK' /\ QueuesOK' /\ PendingOK' /\ RateOK'
            /\ GenerationsOK' /\ ForwardsOK'
          BY <1>1, <1>3, <2>1, ProcessStep
      <2>3. PICK e : e = x.emission /\ e \in 1 .. emission
          BY <1>3 DEF PacketOK
      <2>4. content \in {Content(e)} \union Damaged(Content(e))
          BY <2>1, <2>3 DEF Arriving
      <2>5. content.key = Key /\ content.app \in 1 .. emission
          BY <2>1, <2>3, <2>4, GenuineFacts
      <2>6. KnownOK'
          BY <1>1, <2>1, <2>5, RememberedFacts
      <2> QED BY <2>2, <2>6 DEF DiscoveryInv
  <1>5. CASE /\ Faulty /\ air' = Taken(n)
             /\ UNCHANGED <<path, unresponsive, passed, interfaceVars, identityVars>>
      <2>1. /\ path' = path /\ unresponsive' = unresponsive /\ passed' = passed
            /\ announce_queue' = announce_queue /\ capped' = capped /\ rate' = rate
            /\ known' = known /\ faults < MaxFaults /\ faults' = faults + 1
          BY <1>5 DEF Faulty, interfaceVars, identityVars
      <2>2. nextTag \in Nat /\ MaxFaults \in Nat /\ emission \in Nat
          BY InvFacts
      <2>3. BasicsOK'
          BY <1>1, <2>1, <2>2 DEF DiscoveryInv, BasicsOK
      <2>4. /\ Onward /\ PathsOK' /\ PassedOK' /\ QueuesOK' /\ PendingOK' /\ RateOK' /\ KnownOK'
            /\ GenerationsOK' /\ ForwardsOK'
          BY <1>1, <2>1, <2>2, QuietStep, CappedFacts
      <2>5. AirOK'
          BY <1>1, <1>5, <2>4, NoMoreFacts, AirKept
      <2> QED BY <2>3, <2>4, <2>5 DEF DiscoveryInv
  <1> QED BY <1>2, <1>4, <1>5

-----------------------------------------------------------------------------
(* The invariant.                                                          *)

\* It holds at the start.
LEMMA InitInv == Init => DiscoveryInv
  <1> SUFFICES ASSUME Init PROVE DiscoveryInv
      OBVIOUS
  <1> USE DEF Init, InterfacesInit, IdentitiesInit
  <1>1. MaxTags \in Nat /\ MaxFaults \in Nat /\ MAX_QUEUED_ANNOUNCES \in Nat
        /\ MAX_QUEUED_DISCOVERY_PRS \in Nat
      BY DiscoveryAssumption, InterfacesAssumption
  <1>2. BasicsOK
      BY <1>1 DEF BasicsOK
  <1>3. PathsOK
      BY DEF PathsOK
  <1>4. AirOK
      BY DEF AirOK, IsAir, ToSet
  <1>5. PassedOK
      BY DEF PassedOK
  <1>6. QueuesOK
      <2>1. QueueOK(<<>>) /\ \A m \in Node : KnownTo(m, <<>>)
          BY <1>1 DEF QueueOK, KnownTo
      <2>2. \A i \in Interface : announce_queue[i] = <<>> /\ i[1] \in Node
          BY InterfaceFacts
      <2> QED BY <2>1, <2>2 DEF QueuesOK
  <1>7. PendingOK
      BY <1>1 DEF PendingOK
  <1>8. RateOK
      BY DEF RateOK
  <1>9. KnownOK
      BY DEF KnownOK
  <1>10. GenerationsOK
      BY DEF GenerationsOK
  <1>11. ForwardsOK
      BY DEF ForwardsOK
  <1> QED BY <1>2, <1>3, <1>4, <1>5, <1>6, <1>7, <1>8, <1>9, <1>10, <1>11 DEF DiscoveryInv

\* Every step keeps it.
LEMMA NextInv == DiscoveryInv /\ [Next]_vars => DiscoveryInv'
  <1> SUFFICES ASSUME DiscoveryInv, [Next]_vars PROVE DiscoveryInv'
      OBVIOUS
  <1>1. CASE UNCHANGED vars
      <2>1. /\ path' = path /\ lost' = lost /\ passed' = passed /\ emission' = emission
            /\ nextTag' = nextTag /\ announce_queue' = announce_queue /\ capped' = capped
            /\ queue' = queue /\ rate' = rate /\ known' = known /\ tags' = tags
            /\ forwards' = forwards /\ waiting' = waiting /\ unresponsive' = unresponsive
            /\ air' = air /\ asked' = asked /\ faults' = faults
          BY <1>1 DEF vars, interfaceVars, identityVars
      <2>2. nextTag \in Nat /\ emission \in Nat
          BY InvFacts
      <2>3. BasicsOK'
          BY <2>1 DEF DiscoveryInv, BasicsOK
      <2>4. /\ Onward /\ PathsOK' /\ PassedOK' /\ QueuesOK' /\ PendingOK' /\ RateOK' /\ KnownOK'
            /\ GenerationsOK' /\ ForwardsOK'
          BY <2>1, <2>2, QuietStep, CappedFacts
      <2>5. AirOK'
          BY <2>1, <2>4, NoMoreFacts, AirKept
      <2> QED BY <2>3, <2>4, <2>5 DEF DiscoveryInv
  <1>2. ASSUME NEW n \in Node,
               \/ AskFor(n) \/ Receive(n) \/ CullWaiting(n) \/ LinkFails(n)
               \/ handle_disovery_path_requests(n) \/ LosePath(n) \/ DropQueues(n)
               \/ Forget(n) \/ Recall(n)
        PROVE  DiscoveryInv'
      <2>1. CASE AskFor(n)
          BY <2>1, AskForStep
      <2>2. CASE Receive(n)
          BY <2>2, ReceiveRequestStep, ReceiveAnnounceStep DEF Receive
      <2>3. CASE CullWaiting(n)
          BY <2>3, CullWaitingStep
      <2>4. CASE LinkFails(n)
          BY <2>4, LinkFailsStep
      <2>5. CASE handle_disovery_path_requests(n)
          BY <2>5, HandleStep
      <2>6. CASE LosePath(n)
          BY <2>6, LosePathStep
      <2>7. CASE DropQueues(n)
          BY <2>7, DropQueuesStep
      <2>8. CASE Forget(n) \/ Recall(n)
          BY <2>8, RecallStep
      <2> QED BY <1>2, <2>1, <2>2, <2>3, <2>4, <2>5, <2>6, <2>7, <2>8
  <1>3. CASE Announce
      BY <1>3, AnnounceStep
  <1>4. CASE Lose
      BY <1>4, LoseStep
  <1> QED BY <1>1, <1>2, <1>3, <1>4 DEF Next

\* The invariant holds in every state that can be reached.
THEOREM DiscoveryInvariant == Spec => []DiscoveryInv
  BY InitInv, NextInv, PTL DEF Spec

-----------------------------------------------------------------------------
(* What it says.                                                           *)

\* Values, and the limits of the queues.
LEMMA TypesHold == DiscoveryInv => TypeOK
  <1> SUFFICES ASSUME DiscoveryInv PROVE TypeOK
      OBVIOUS
  <1>1. InterfacesTypeOK
      BY DEF DiscoveryInv, QueuesOK, QueueOK, RateOK, RateEntry, InterfacesTypeOK
  <1> QED BY <1>1, InvFacts DEF DiscoveryInv, BasicsOK, PendingOK, TypeOK

\* Announces: passed on in order, queued no newer than the path, and a path is
\* as near to the owner as the next hop says.
LEMMA AnnouncesHold == DiscoveryInv => PassedOnOnce /\ QueuedIsKnown /\ TowardsOwner
  <1> SUFFICES ASSUME DiscoveryInv PROVE PassedOnOnce /\ QueuedIsKnown /\ TowardsOwner
      OBVIOUS
  <1>1. PassedOnOnce
      BY DEF DiscoveryInv, PassedOK, PassedOnOnce
  <1>2. QueuedIsKnown
      BY DEF DiscoveryInv, QueuesOK, KnownTo, QueuedIsKnown
  <1>3. ASSUME NEW n \in Node, path[n] # None, path[n].from \notin {Owner} \union lost
        PROVE  LET p == path[path[n].from] IN
               /\ p # None
               /\ \/ p.emission > path[n].emission
                  \/ p.emission = path[n].emission /\ p.hops < path[n].hops
      <2>1. Vouched(path[n].from, path[n].emission, path[n].hops - 1)
          BY <1>3 DEF DiscoveryInv, PathsOK
      <2>2. PICK p : p = path[path[n].from]
          OBVIOUS
      <2>3. /\ p # None
            /\ p.emission > path[n].emission
               \/ (p.emission = path[n].emission /\ p.hops <= path[n].hops - 1)
          BY <1>3, <2>1, <2>2 DEF Vouched
      <2>4. path[n].from \in Node /\ path[n].hops \in Nat
          BY <1>3, InvFacts
      <2>5. p.hops \in Nat
          BY <2>2, <2>3, <2>4, InvFacts
      <2>6. p.hops <= path[n].hops - 1 => p.hops < path[n].hops
          BY <2>4, <2>5
      <2> QED BY <2>2, <2>3, <2>6
  <1>4. TowardsOwner
      BY <1>3 DEF TowardsOwner
  <1> QED BY <1>1, <1>2, <1>4

\* Identities.
LEMMA IdentitiesHold == DiscoveryInv => Recallable
  <1> SUFFICES ASSUME DiscoveryInv, NEW n \in Node
               PROVE  /\ path[n] # None => \E e \in recall(n, Stored(n)) : e.key = Key
                      /\ \A e \in known[n] : e.key = Key /\ e.app \in 1 .. emission
      BY DEF Recallable
  <1>1. \A e \in known[n] : e.key = Key /\ e.app \in 1 .. emission
      BY DEF DiscoveryInv, KnownOK
  <1>2. ASSUME path[n] # None PROVE \E e \in recall(n, Stored(n)) : e.key = Key
      <2>1. CASE known[n] # {}
          BY <1>1, <2>1 DEF recall
      <2>2. CASE known[n] = {}
          <3>1. PICK c : c = Content(path[n].emission)
              OBVIOUS
          <3>2. Stored(n) = {c} /\ c.key = Key
              BY <1>2, <3>1 DEF Stored, Content
          <3>3. PICK e : e = [key |-> c.key, app |-> c.app]
              OBVIOUS
          <3>4. e \in Remembered({}, c) /\ e.key = Key
              BY <3>2, <3>3 DEF Remembered
          <3>5. e \in recall(n, Stored(n))
              BY <2>2, <3>2, <3>4 DEF recall
          <3> QED BY <3>4, <3>5
      <2> QED BY <2>1, <2>2
  <1> QED BY <1>1, <1>2

\* Requests: none is asked on with twice by a node that can have forgotten no
\* tag.
LEMMA RequestsHold == DiscoveryInv => (TagsLast => AskedOnOnce)
  BY DEF DiscoveryInv, ForwardsOK, AskedOnOnce

\* Announces end, queues keep their limits, every path leads towards the owner
\* and its identity is at hand, whatever is lost, damaged, forgotten or given
\* up, on every topology.
THEOREM AnnouncesContained ==
    Spec => [](TypeOK /\ PassedOnOnce /\ QueuedIsKnown /\ TowardsOwner /\ Recallable)
  BY DiscoveryInvariant, TypesHold, AnnouncesHold, IdentitiesHold, PTL

\* With that, no request circulates (Contained) for as long as fewer tags were
\* given out than a node remembers at least: path_request_handler() drops what
\* it has seen, and its tags turn over only after MAX_PR_TAGS of them.
THEOREM ContainedWhileTagsLast == Spec => [](TagsLast => Contained)
  <1>1. DiscoveryInv => (TagsLast => Contained)
      BY TypesHold, AnnouncesHold, IdentitiesHold, RequestsHold DEF Contained
  <1> QED BY <1>1, DiscoveryInvariant, PTL

=============================================================================
