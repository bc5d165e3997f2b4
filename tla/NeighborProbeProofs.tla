----------------------- MODULE NeighborProbeProofs -----------------------
(***************************************************************************)
(* Proofs about the packets on the wire (PacketWire), the receipts         *)
(* (Receipts) and the probes of neighbours (NeighborProbe), for any        *)
(* neighbours, routes and bounds.                                          *)
(*                                                                         *)
(* On the wire, every relay changes the header and none the hash, so a     *)
(* proof made anywhere on the way is recognised where the packet came from *)
(* and for no other packet.  ReceiptsInv says of the list of receipts that *)
(* it holds those, and only those, that were not concluded, and of every   *)
(* callback that it was called once the receipt was.  ProbeInv adds the    *)
(* flags: a probe is noted as pending while one is open, and the scan      *)
(* alone never has two of one neighbour open.                              *)
(***************************************************************************)
EXTENDS NeighborProbe, FiniteSetTheorems, SequenceTheorems, WellFoundedInduction, TLAPS

-----------------------------------------------------------------------------
(* Numbers and sequences.                                                  *)

\* The least-number principle.
LEMMA LeastExists ==
    ASSUME NEW T \in SUBSET Nat, T # {}
    PROVE  \E x \in T : \A y \in T : x <= y
  <1>1. IsWellFoundedOn(OpToRel(<, Nat), Nat)
      BY NatLessThanWellFounded
  <1>2. PICK x \in T : \A y \in T : <<y, x>> \notin OpToRel(<, Nat)
      BY <1>1, WFMin
  <1>3. ASSUME NEW y \in T PROVE x <= y
      <2>1. <<y, x>> \notin OpToRel(<, Nat)
          BY <1>2
      <2>2. ~(y < x)
          BY <2>1 DEF OpToRel
      <2> QED BY <2>2
  <1> QED BY <1>3

\* The numbers of a finite set, counted from the smallest, are numbered from 1.
LEMMA NthFacts ==
    ASSUME NEW I \in SUBSET Nat, IsFiniteSet(I)
    PROVE  /\ Cardinality(I) \in Nat
           /\ \A k \in 1 .. Cardinality(I) : Nth(I, k) \in I
           /\ \A k, m \in 1 .. Cardinality(I) : Nth(I, k) = Nth(I, m) => k = m
           /\ \A i \in I : \E k \in 1 .. Cardinality(I) : Nth(I, k) = i
  <1> DEFINE B(i) == {j \in I : j <= i}
             N == Cardinality(I)
             r == [i \in I |-> Cardinality(B(i))]
  <1>1. N \in Nat
      BY FS_CardinalityType
  <1>2. ASSUME NEW i \in I
        PROVE  /\ IsFiniteSet(B(i)) /\ Cardinality(B(i)) \in Nat
               /\ Cardinality(B(i)) <= N /\ Cardinality(B(i)) # 0
      <2>1. B(i) \in SUBSET I /\ i \in B(i)
          OBVIOUS
      <2>2. IsFiniteSet(B(i)) /\ Cardinality(B(i)) <= N
          BY <2>1, FS_Subset
      <2>3. Cardinality(B(i)) \in Nat /\ Cardinality(B(i)) # 0
          BY <2>1, <2>2, FS_CardinalityType, FS_EmptySet
      <2> QED BY <2>2, <2>3
  <1>3. ASSUME NEW i \in I PROVE r[i] \in 1 .. N
      <2> DEFINE b == Cardinality(B(i))
      <2>1. b \in Nat /\ r[i] = b /\ b <= N /\ b # 0
          BY <1>2
      <2> HIDE DEF b, N, r
      <2> QED BY <1>1, <2>1
  <1>4. ASSUME NEW i \in I, NEW j \in I, i < j PROVE r[i] # r[j]
      <2>0. \A x \in I : x \in Nat
          OBVIOUS
      <2>01. \A x \in B(i) : x \in I /\ x <= j
          BY <1>4, <2>0
      <2>02. j \in B(j) /\ j \notin B(i)
          BY <1>4, <2>0
      <2>03. \A x \in B(i) : x \in B(j)
          BY <2>01
      <2>1. B(i) \in SUBSET B(j) /\ j \in B(j) /\ j \notin B(i)
          <3> HIDE DEF B
          <3> QED BY <2>02, <2>03
      <2>2. Cardinality(B(j)) # Cardinality(B(i))
          BY <1>2, <2>1, FS_Subset
      <2> QED BY <1>2, <2>2
  <1>5. \A i, j \in I : r[i] = r[j] => i = j
      <2> SUFFICES ASSUME NEW i \in I, NEW j \in I, i # j PROVE r[i] # r[j]
          OBVIOUS
      <2>1. i < j \/ j < i
          OBVIOUS
      <2> QED BY <1>4, <2>1
  <1>6. ASSUME NEW k \in 1 .. N, ~\E i \in I : r[i] = k PROVE FALSE
      <2> DEFINE T == (1 .. N) \ {k}
      <2>1. IsFiniteSet(1 .. N) /\ Cardinality(1 .. N) = N
          BY <1>1, FS_Interval
      <2>2. IsFiniteSet(T) /\ Cardinality(T) = N - 1
          BY <2>1, FS_RemoveElement, ZenonT(30)
      <2>3. r \in [I -> T]
          BY <1>3, <1>6
      <2>4. Cardinality(T) < Cardinality(I)
          BY <1>1, <2>2
      <2> HIDE DEF r, T, N
      <2>5. \E i, j \in I : i # j /\ r[i] = r[j]
          BY <2>2, <2>3, <2>4, FS_PigeonHole
      <2> QED BY <1>5, <2>5
  <1>7. ASSUME NEW k \in 1 .. N PROVE Nth(I, k) \in I /\ r[Nth(I, k)] = k
      <2>1. PICK i \in I : r[i] = k
          BY <1>6
      <2>2. \E j \in I : Cardinality(B(j)) = k
          BY <2>1
      <2>3. Nth(I, k) \in I /\ Cardinality(B(Nth(I, k))) = k
          BY <2>2 DEF Nth
      <2> QED BY <2>3
  <1>8. ASSUME NEW i \in I PROVE \E k \in 1 .. N : Nth(I, k) = i
      <2>1. r[i] \in 1 .. N
          BY <1>3
      <2>2. Nth(I, r[i]) \in I /\ r[Nth(I, r[i])] = r[i]
          BY <1>7, <2>1
      <2>3. Nth(I, r[i]) = i
          BY <1>5, <2>2
      <2> QED BY <2>1, <2>3
  <1>9. ASSUME NEW k \in 1 .. N, NEW m \in 1 .. N, Nth(I, k) = Nth(I, m) PROVE k = m
      BY <1>7, <1>9
  <1> QED BY <1>1, <1>7, <1>8, <1>9

\* The elements of a sequence without repetitions at some of its places.
LEMMA SubSeqAtFacts ==
    ASSUME NEW X, NEW s \in Seq(X), IsInjective(s), NEW I \in SUBSET (1 .. Len(s))
    PROVE  /\ SubSeqAt(s, I) \in Seq(X) /\ IsInjective(SubSeqAt(s, I))
           /\ ToSet(SubSeqAt(s, I)) = { s[i] : i \in I }
  <1> DEFINE t == SubSeqAt(s, I)
             N == Cardinality(I)
  <1>0. IsFiniteSet(I) /\ I \in SUBSET Nat
      <2>1. Len(s) \in Nat
          OBVIOUS
      <2>2. IsFiniteSet(1 .. Len(s))
          BY <2>1, FS_Interval
      <2>3. IsFiniteSet(I)
          BY <2>2, FS_Subset
      <2> QED BY <2>1, <2>3
  <1>1. /\ N \in Nat
        /\ \A k \in 1 .. N : Nth(I, k) \in I
        /\ \A k, m \in 1 .. N : Nth(I, k) = Nth(I, m) => k = m
        /\ \A i \in I : \E k \in 1 .. N : Nth(I, k) = i
      BY <1>0, NthFacts
  <1>2. t = [k \in 1 .. N |-> s[Nth(I, k)]]
      BY DEF SubSeqAt
  <1> HIDE DEF t, N
  <1>3. \A k \in 1 .. N : s[Nth(I, k)] \in X /\ Nth(I, k) \in DOMAIN s
      <2>1. \A i \in I : i \in 1 .. Len(s)
          OBVIOUS
      <2>2. \A i \in 1 .. Len(s) : s[i] \in X /\ i \in DOMAIN s
          OBVIOUS
      <2> QED BY <1>1, <2>1, <2>2
  <1>4. t \in Seq(X) /\ DOMAIN t = 1 .. N
      BY <1>1, <1>2, <1>3
  <1>5. IsInjective(t)
      <2> SUFFICES ASSUME NEW k \in 1 .. N, NEW m \in 1 .. N, t[k] = t[m] PROVE k = m
          BY <1>4 DEF IsInjective
      <2>1. s[Nth(I, k)] = s[Nth(I, m)] /\ Nth(I, k) \in DOMAIN s /\ Nth(I, m) \in DOMAIN s
          BY <1>2, <1>3
      <2>2. Nth(I, k) = Nth(I, m)
          BY <2>1 DEF IsInjective
      <2> QED BY <1>1, <2>2
  <1>6. ToSet(t) = { s[i] : i \in I }
      <2>1. ToSet(t) = { s[Nth(I, k)] : k \in 1 .. N }
          BY <1>2, <1>4 DEF ToSet
      <2> QED BY <1>1, <2>1
  <1> QED BY <1>4, <1>5, <1>6 DEF t

\* SetToSeq() lists each element of a finite set once.
LEMMA SetToSeqFacts ==
    ASSUME NEW S, IsFiniteSet(S)
    PROVE  /\ SetToSeq(S) \in Seq(S) /\ IsInjective(SetToSeq(S))
           /\ ToSet(SetToSeq(S)) = S /\ Len(SetToSeq(S)) = Cardinality(S)
           /\ Cardinality(S) \in Nat
  <1> DEFINE N == Cardinality(S)
             f == SetToSeq(S)
  <1>1. N \in Nat /\ ExistsBijection(1 .. N, S)
      BY FS_CardinalityType
  <1>2. PICK g \in Bijection(1 .. N, S) : TRUE
      BY <1>1 DEF ExistsBijection
  <1>3. g \in [1 .. N -> S] /\ IsInjective(g)
      BY <1>2 DEF Bijection, Injection, IsInjective
  <1>4. f \in [1 .. N -> S] /\ IsInjective(f)
      BY <1>3 DEF SetToSeq
  <1>5. f \in Injection(1 .. N, S)
      BY <1>4 DEF Injection
  <1>6. IsFiniteSet(1 .. N) /\ Cardinality(1 .. N) = N
      BY <1>1, FS_Interval
  <1>7. f \in Surjection(1 .. N, S)
      BY <1>5, <1>6, FS_Injection
  <1>8. \A x \in S : \E k \in 1 .. N : f[k] = x
      BY <1>7 DEF Surjection
  <1> HIDE DEF f, N
  <1>9. f \in Seq(S) /\ Len(f) = N /\ ToSet(f) = S
      BY <1>1, <1>4, <1>8 DEF ToSet
  <1> QED BY <1>1, <1>4, <1>9 DEF f, N

\* A sequence without repetitions has as many elements as it has places.
LEMMA InjectiveSize ==
    ASSUME NEW X, NEW s \in Seq(X), IsInjective(s)
    PROVE  IsFiniteSet(ToSet(s)) /\ Cardinality(ToSet(s)) = Len(s)
  <1> DEFINE T == ToSet(s)
  <1>1. s \in [1 .. Len(s) -> T] /\ \A x \in T : \E k \in 1 .. Len(s) : s[k] = x
      BY DEF ToSet
  <1>2. s \in Bijection(1 .. Len(s), T)
      BY <1>1 DEF Bijection, Injection, Surjection, IsInjective
  <1>3. Len(s) \in Nat
      OBVIOUS
  <1>4. IsFiniteSet(1 .. Len(s)) /\ Cardinality(1 .. Len(s)) = Len(s)
      BY <1>3, FS_Interval, SMTT(30)
  <1>5. ExistsBijection(1 .. Len(s), T)
      BY <1>2 DEF ExistsBijection
  <1> QED BY <1>4, <1>5, FS_Bijection

-----------------------------------------------------------------------------
(* The packet on the wire.                                                 *)

\* Two sequences one after the other are t, if they have its elements.
LEMMA Joined ==
    ASSUME NEW S, NEW s1 \in Seq(S), NEW s2 \in Seq(S), NEW t \in Seq(S),
           Len(t) = Len(s1) + Len(s2),
           \A i \in 1 .. Len(s1) : t[i] = s1[i],
           \A i \in 1 .. Len(s2) : t[Len(s1) + i] = s2[i]
    PROVE  s1 \o s2 = t
  <1>1. /\ s1 \o s2 \in Seq(S) /\ Len(s1 \o s2) = Len(s1) + Len(s2)
        /\ \A i \in 1 .. Len(s1) + Len(s2) :
              (s1 \o s2)[i] = IF i <= Len(s1) THEN s1[i] ELSE s2[i - Len(s1)]
      BY ConcatProperties
  <1>2. Len(s1) \in Nat /\ Len(s2) \in Nat
      OBVIOUS
  <1>3. ASSUME NEW i \in 1 .. Len(t) PROVE (s1 \o s2)[i] = t[i]
      <2>1. CASE i <= Len(s1)
          BY <1>1, <1>2, <2>1
      <2>2. CASE ~(i <= Len(s1))
          <3>1. i - Len(s1) \in 1 .. Len(s2) /\ Len(s1) + (i - Len(s1)) = i
              BY <1>2, <2>2
          <3>2. t[Len(s1) + (i - Len(s1))] = s2[i - Len(s1)]
              BY <3>1
          <3> QED BY <1>1, <1>2, <2>2, <3>1, <3>2
      <2> QED BY <2>1, <2>2
  <1> QED BY <1>1, <1>3, SeqEqual

\* The elements of s from m on are t.
LEMMA Cut ==
    ASSUME NEW S, NEW s \in Seq(S), NEW m \in 1 .. Len(s), NEW t \in Seq(S),
           Len(s) = Len(t) + m - 1,
           \A i \in 1 .. Len(t) : t[i] = s[m + i - 1]
    PROVE  SubSeq(s, m, Len(s)) = t
  <1>1. \A i \in m .. Len(s) : s[i] \in S
      OBVIOUS
  <1>2. Len(s) \in Int /\ m \in Int /\ Len(t) \in Nat
      OBVIOUS
  <1>3. /\ SubSeq(s, m, Len(s)) \in Seq(S)
        /\ Len(SubSeq(s, m, Len(s))) = Len(s) - m + 1
        /\ \A i \in 1 .. Len(s) - m + 1 : SubSeq(s, m, Len(s))[i] = s[m + i - 1]
      BY <1>1, <1>2, SubSeqProperties
  <1> QED BY <1>2, <1>3, SeqEqual

\* A packet without a transport header, one with it, what they have in common, and
\* a hash.
Plain(f, h, p, x) == <<f, h, p, "NONE", x>>
InTransport(h, n, p, x) == <<80, h, n, p, "NONE", x>>
Rest(p, x) == <<p, "NONE", x>>
Hash(f, p, x) == <<f, p, "NONE", x>>

\* The flags and the hops before the rest.
LEMMA PlainJoin ==
    ASSUME NEW f, NEW h, NEW p, NEW x
    PROVE  <<f, h>> \o Rest(p, x) = Plain(f, h, p, x)
  <1>0. PICK S : f \in S /\ h \in S /\ p \in S /\ "NONE" \in S /\ x \in S
      <2> DEFINE U == {f, h, p, "NONE", x}
      <2>1. f \in U /\ h \in U /\ p \in U /\ "NONE" \in U /\ x \in U
          OBVIOUS
      <2> QED BY <2>1
  <1>1. /\ <<f, h>> \in Seq(S) /\ <<p, "NONE", x>> \in Seq(S) /\ <<f, h, p, "NONE", x>> \in Seq(S)
        /\ Len(<<f, h, p, "NONE", x>>) = Len(<<f, h>>) + Len(<<p, "NONE", x>>)
      BY <1>0
  <1>2. \A i \in 1 .. Len(<<f, h>>) : <<f, h, p, "NONE", x>>[i] = <<f, h>>[i]
      OBVIOUS
  <1>3. \A i \in 1 .. Len(<<p, "NONE", x>>) : <<f, h, p, "NONE", x>>[Len(<<f, h>>) + i] = <<p, "NONE", x>>[i]
      OBVIOUS
  <1>9. <<f, h>> \o <<p, "NONE", x>> = <<f, h, p, "NONE", x>>
      BY <1>1, <1>2, <1>3, Joined, Zenon
  <1> QED BY <1>9 DEF Plain, Rest

\* The transport header before the rest.
LEMMA TransportJoin ==
    ASSUME NEW h, NEW n, NEW p, NEW x
    PROVE  <<80, h, n>> \o Rest(p, x) = InTransport(h, n, p, x)
  <1>0. PICK S : 80 \in S /\ h \in S /\ n \in S /\ p \in S /\ "NONE" \in S /\ x \in S
      <2> DEFINE U == {80, h, n, p, "NONE", x}
      <2>1. 80 \in U /\ h \in U /\ n \in U /\ p \in U /\ "NONE" \in U /\ x \in U
          OBVIOUS
      <2> QED BY <2>1
  <1>1. /\ <<80, h, n>> \in Seq(S) /\ <<p, "NONE", x>> \in Seq(S) /\ <<80, h, n, p, "NONE", x>> \in Seq(S)
        /\ Len(<<80, h, n, p, "NONE", x>>) = Len(<<80, h, n>>) + Len(<<p, "NONE", x>>)
      BY <1>0
  <1>2. \A i \in 1 .. Len(<<80, h, n>>) : <<80, h, n, p, "NONE", x>>[i] = <<80, h, n>>[i]
      OBVIOUS
  <1>3. \A i \in 1 .. Len(<<p, "NONE", x>>) : <<80, h, n, p, "NONE", x>>[Len(<<80, h, n>>) + i] = <<p, "NONE", x>>[i]
      OBVIOUS
  <1>9. <<80, h, n>> \o <<p, "NONE", x>> = <<80, h, n, p, "NONE", x>>
      BY <1>1, <1>2, <1>3, Joined, ZenonT(30)
  <1> QED BY <1>9 DEF InTransport, Rest

\* The flags before the rest.
LEMMA HashJoin ==
    ASSUME NEW f, NEW p, NEW x
    PROVE  <<f>> \o Rest(p, x) = Hash(f, p, x)
  <1>0. PICK S : f \in S /\ p \in S /\ "NONE" \in S /\ x \in S
      <2> DEFINE U == {f, p, "NONE", x}
      <2>1. f \in U /\ p \in U /\ "NONE" \in U /\ x \in U
          OBVIOUS
      <2> QED BY <2>1
  <1>1. /\ <<f>> \in Seq(S) /\ <<p, "NONE", x>> \in Seq(S) /\ <<f, p, "NONE", x>> \in Seq(S)
        /\ Len(<<f, p, "NONE", x>>) = Len(<<f>>) + Len(<<p, "NONE", x>>)
      BY <1>0
  <1>2. \A i \in 1 .. Len(<<f>>) : <<f, p, "NONE", x>>[i] = <<f>>[i]
      OBVIOUS
  <1>3. \A i \in 1 .. Len(<<p, "NONE", x>>) : <<f, p, "NONE", x>>[Len(<<f>>) + i] = <<p, "NONE", x>>[i]
      OBVIOUS
  <1>9. <<f>> \o <<p, "NONE", x>> = <<f, p, "NONE", x>>
      BY <1>1, <1>2, <1>3, Joined, Zenon
  <1> QED BY <1>9 DEF Hash, Rest

\* The rest of a packet without a transport header.
LEMMA PlainRest ==
    ASSUME NEW f, NEW h, NEW p, NEW x
    PROVE  SubSeq(Plain(f, h, p, x), 3, 5) = Rest(p, x)
  <1>0. PICK S : f \in S /\ h \in S /\ p \in S /\ "NONE" \in S /\ x \in S
      <2> DEFINE U == {f, h, p, "NONE", x}
      <2>1. f \in U /\ h \in U /\ p \in U /\ "NONE" \in U /\ x \in U
          OBVIOUS
      <2> QED BY <2>1
  <1>1. /\ <<f, h, p, "NONE", x>> \in Seq(S) /\ Len(<<f, h, p, "NONE", x>>) = 5
        /\ <<p, "NONE", x>> \in Seq(S) /\ Len(<<f, h, p, "NONE", x>>) = Len(<<p, "NONE", x>>) + 3 - 1
        /\ 3 \in 1 .. Len(<<f, h, p, "NONE", x>>)
      BY <1>0
  <1>2. \A i \in 1 .. Len(<<p, "NONE", x>>) : <<p, "NONE", x>>[i] = <<f, h, p, "NONE", x>>[3 + i - 1]
      OBVIOUS
  <1>3. SubSeq(<<f, h, p, "NONE", x>>, 3, Len(<<f, h, p, "NONE", x>>)) = <<p, "NONE", x>>
      BY <1>1, <1>2, Cut, Zenon
  <1>9. SubSeq(<<f, h, p, "NONE", x>>, 3, 5) = <<p, "NONE", x>>
      BY <1>1, <1>3
  <1> QED BY <1>9 DEF Plain, Rest

\* The rest of a packet with a transport header.
LEMMA TransportRest ==
    ASSUME NEW h, NEW n, NEW p, NEW x
    PROVE  SubSeq(InTransport(h, n, p, x), 4, 6) = Rest(p, x)
  <1>0. PICK S : 80 \in S /\ h \in S /\ n \in S /\ p \in S /\ "NONE" \in S /\ x \in S
      <2> DEFINE U == {80, h, n, p, "NONE", x}
      <2>1. 80 \in U /\ h \in U /\ n \in U /\ p \in U /\ "NONE" \in U /\ x \in U
          OBVIOUS
      <2> QED BY <2>1
  <1>1. /\ <<80, h, n, p, "NONE", x>> \in Seq(S) /\ Len(<<80, h, n, p, "NONE", x>>) = 6
        /\ <<p, "NONE", x>> \in Seq(S) /\ Len(<<80, h, n, p, "NONE", x>>) = Len(<<p, "NONE", x>>) + 4 - 1
        /\ 4 \in 1 .. Len(<<80, h, n, p, "NONE", x>>)
      BY <1>0
  <1>2. \A i \in 1 .. Len(<<p, "NONE", x>>) : <<p, "NONE", x>>[i] = <<80, h, n, p, "NONE", x>>[4 + i - 1]
      OBVIOUS
  <1>3. SubSeq(<<80, h, n, p, "NONE", x>>, 4, Len(<<80, h, n, p, "NONE", x>>)) = <<p, "NONE", x>>
      BY <1>1, <1>2, Cut, Zenon
  <1>9. SubSeq(<<80, h, n, p, "NONE", x>>, 4, 6) = <<p, "NONE", x>>
      BY <1>1, <1>3
  <1> QED BY <1>9 DEF InTransport, Rest

\* What pack() joins.
LEMMA PackJoin ==
    ASSUME NEW f, NEW p, NEW x
    PROVE  <<f, 0>> \o <<p>> \o <<"NONE">> \o <<x>> = Plain(f, 0, p, x)
  <1>0. PICK S : f \in S /\ 0 \in S /\ p \in S /\ "NONE" \in S /\ x \in S
      <2> DEFINE U == {f, 0, p, "NONE", x}
      <2>1. f \in U /\ 0 \in U /\ p \in U /\ "NONE" \in U /\ x \in U
          OBVIOUS
      <2> QED BY <2>1
  <1>1. <<f, 0>> \o <<p>> = <<f, 0, p>>
      <2>1. /\ <<f, 0>> \in Seq(S) /\ <<p>> \in Seq(S) /\ <<f, 0, p>> \in Seq(S)
            /\ Len(<<f, 0, p>>) = Len(<<f, 0>>) + Len(<<p>>)
          BY <1>0
      <2>2. \A i \in 1 .. Len(<<f, 0>>) : <<f, 0, p>>[i] = <<f, 0>>[i]
          OBVIOUS
      <2>3. \A i \in 1 .. Len(<<p>>) : <<f, 0, p>>[Len(<<f, 0>>) + i] = <<p>>[i]
          OBVIOUS
      <2> QED BY <2>1, <2>2, <2>3, Joined, Zenon
  <1>2. <<f, 0, p>> \o <<"NONE">> = <<f, 0, p, "NONE">>
      <2>1. /\ <<f, 0, p>> \in Seq(S) /\ <<"NONE">> \in Seq(S) /\ <<f, 0, p, "NONE">> \in Seq(S)
            /\ Len(<<f, 0, p, "NONE">>) = Len(<<f, 0, p>>) + Len(<<"NONE">>)
          BY <1>0
      <2>2. \A i \in 1 .. Len(<<f, 0, p>>) : <<f, 0, p, "NONE">>[i] = <<f, 0, p>>[i]
          OBVIOUS
      <2>3. \A i \in 1 .. Len(<<"NONE">>) : <<f, 0, p, "NONE">>[Len(<<f, 0, p>>) + i] = <<"NONE">>[i]
          OBVIOUS
      <2> QED BY <2>1, <2>2, <2>3, Joined, Zenon
  <1>3. <<f, 0, p, "NONE">> \o <<x>> = <<f, 0, p, "NONE", x>>
      <2>1. /\ <<f, 0, p, "NONE">> \in Seq(S) /\ <<x>> \in Seq(S) /\ <<f, 0, p, "NONE", x>> \in Seq(S)
            /\ Len(<<f, 0, p, "NONE", x>>) = Len(<<f, 0, p, "NONE">>) + Len(<<x>>)
          BY <1>0
      <2>2. \A i \in 1 .. Len(<<f, 0, p, "NONE">>) : <<f, 0, p, "NONE", x>>[i] = <<f, 0, p, "NONE">>[i]
          OBVIOUS
      <2>3. \A i \in 1 .. Len(<<x>>) : <<f, 0, p, "NONE", x>>[Len(<<f, 0, p, "NONE">>) + i] = <<x>>[i]
          OBVIOUS
      <2> QED BY <2>1, <2>2, <2>3, Joined, Zenon
  <1> QED BY <1>1, <1>2, <1>3 DEF Plain

\* The payload of packet i to purpose p.
Box(i, p) == [key |-> p, nonce |-> i, clear |-> <<"data">>]

\* What outbound() makes of a packet for a destination.
LEMMA PackedFacts ==
    ASSUME NEW i \in Nat, NEW p \in Purpose
    PROVE  Packed(i, p, FALSE) = Plain(0, 0, p, Box(i, p))
  <1> DEFINE q == NewPacket(p, SINGLE, p, <<"data">>)
  <1>1. Packed(i, p, FALSE) = pack(q, i)
      BY DEF Packed, Endpoint
  <1>2. /\ q.header_type = 0 /\ q.packet_type = 0 /\ q.context = "NONE" /\ q.hops = 0
        /\ q.destination = p /\ q.key = p /\ q.data = <<"data">> /\ q.destination_type = 0
        /\ q.context_flag = 0 /\ q.transport_type = 0
      BY DEF NewPacket, HEADER_1, DATA, SINGLE, BROADCAST
  <1> HIDE DEF q
  <1>3. get_packed_flags(q) = 0
      BY <1>2 DEF get_packed_flags
  <1>4. ~InClear(q)
      BY <1>2 DEF InClear, ANNOUNCE, LINKREQUEST, PROOF_PACKET
  <1>5. p # None
      BY ProbeAssumption
  <1>6. Payload(q, i) = <<Box(i, p)>>
      BY <1>2, <1>4, <1>5 DEF Payload, HEADER_2, encrypt, Sealed, Box
  <1>7. pack(q, i) = <<0, 0>> \o <<p>> \o <<"NONE">> \o <<Box(i, p)>>
      BY <1>2, <1>3, <1>6 DEF pack, HEADER_2
  <1> QED BY <1>1, <1>7, PackJoin

\* What outbound() makes of a packet for a link.
LEMMA LinkPackedFacts ==
    ASSUME NEW i \in Nat, NEW p \in Purpose
    PROVE  \E x : Packed(i, p, TRUE) = Plain(12, 0, "link", x)
  <1> DEFINE q == NewLinkPacket("link", "session", <<"data">>)
  <1>1. Packed(i, p, TRUE) = pack(q, i)
      BY DEF Packed
  <1>2. /\ q.header_type = 0 /\ q.packet_type = 0 /\ q.context = "NONE" /\ q.hops = 0
        /\ q.destination = "link" /\ q.data = <<"data">> /\ q.destination_type = 3
        /\ q.context_flag = 0 /\ q.transport_type = 0 /\ q.key = "session"
      BY DEF NewLinkPacket, NewPacket, HEADER_1, DATA, LINK, BROADCAST
  <1> HIDE DEF q
  <1>3. get_packed_flags(q) = 12
      BY <1>2 DEF get_packed_flags
  <1>4. ~InClear(q)
      BY <1>2 DEF InClear, ANNOUNCE, LINKREQUEST, PROOF_PACKET
  <1>5. \E x : Payload(q, i) = <<x>>
      BY <1>2, <1>4 DEF Payload, HEADER_2, encrypt, Sealed
  <1>6. PICK x : Payload(q, i) = <<x>>
      BY <1>5
  <1>7. pack(q, i) = <<12, 0>> \o <<"link">> \o <<"NONE">> \o <<x>>
      BY <1>2, <1>3, <1>6 DEF pack, HEADER_2
  <1> QED BY <1>1, <1>7, PackJoin

\* The flags of the packets that are sent.
LEMMA FlagFacts ==
    /\ unpack_flags(0).header_type = 0 /\ unpack_flags(12).header_type = 0
    /\ unpack_flags(80).header_type = 1
    /\ unpack_flags(0).destination_type = 0 /\ unpack_flags(80).destination_type = 0
    /\ unpack_flags(0).packet_type = 0 /\ unpack_flags(80).packet_type = 0
    /\ 0 % 16 = 0 /\ 12 % 16 = 12 /\ 80 % 16 = 0
  BY DEF unpack_flags

\* The fields of the two forms of a packet.
LEMMA FieldFacts ==
    ASSUME NEW f, NEW h, NEW n, NEW p, NEW x
    PROVE  /\ Len(Plain(f, h, p, x)) = 5 /\ Plain(f, h, p, x)[1] = f
           /\ Plain(f, h, p, x)[2] = h
           /\ Len(InTransport(h, n, p, x)) = 6 /\ InTransport(h, n, p, x)[1] = 80
           /\ InTransport(h, n, p, x)[2] = h /\ InTransport(h, n, p, x)[3] = n
           /\ InTransport(h, n, p, x)[5] = "NONE"
  BY DEF Plain, InTransport

\* The hash of a packet without a transport header.
LEMMA PlainHash ==
    ASSUME NEW f \in {0, 12}, NEW h, NEW p, NEW x
    PROVE  get_hash(Plain(f, h, p, x)) = Hash(f, p, x)
  <1> DEFINE r == Plain(f, h, p, x)
  <1>1. Len(r) = 5 /\ r[1] = f
      BY FieldFacts
  <1>2. SubSeq(r, 3, 5) = Rest(p, x)
      BY PlainRest
  <1> HIDE DEF r
  <1>3. r[1] % 16 = f /\ 3 + unpack_flags(r[1]).header_type = 3
      BY <1>1, FlagFacts
  <1>4. get_hash(r) = <<f>> \o SubSeq(r, 3, 5)
      BY <1>1, <1>3, Zenon DEF get_hash
  <1>5. <<f>> \o Rest(p, x) = Hash(f, p, x)
      BY HashJoin
  <1> QED BY <1>2, <1>4, <1>5 DEF r

\* The hash of a packet with a transport header.
LEMMA TransportHash ==
    ASSUME NEW h, NEW n, NEW p, NEW x
    PROVE  get_hash(InTransport(h, n, p, x)) = Hash(0, p, x)
  <1> DEFINE r == InTransport(h, n, p, x)
  <1>1. Len(r) = 6 /\ r[1] = 80
      BY FieldFacts
  <1>2. SubSeq(r, 4, 6) = Rest(p, x)
      BY TransportRest
  <1> HIDE DEF r
  <1>3. r[1] % 16 = 0 /\ 3 + unpack_flags(r[1]).header_type = 4
      BY <1>1, FlagFacts
  <1>4. get_hash(r) = <<0>> \o SubSeq(r, 4, 6)
      BY <1>1, <1>3, Zenon DEF get_hash
  <1>5. <<0>> \o Rest(p, x) = Hash(0, p, x)
      BY HashJoin
  <1> QED BY <1>2, <1>4, <1>5 DEF r

\* A relay sends on what is addressed to it: to the next relay with the transport
\* header, to the last node without.
LEMMA RelayStepFacts ==
    ASSUME NEW route, NEW N \in Nat, N = Len(route), NEW i \in 1 .. N - 1,
           NEW h \in Nat, NEW p, NEW x, NEW m, m = i + 1, NEW k, k = (h + 1) % 256
    PROVE  RelayStep(route, i, InTransport(h, route[i], p, x)) =
             IF m < N THEN InTransport(k, route[m], p, x) ELSE Plain(0, k, p, x)
  <1> DEFINE raw == InTransport(h, route[i], p, x)
             q == Received(raw)
  <1>1. Len(raw) = 6 /\ raw[1] = 80 /\ raw[2] = h /\ raw[3] = route[i] /\ raw[5] = "NONE"
      BY FieldFacts
  <1>2. SubSeq(raw, 4, 6) = Rest(p, x)
      BY TransportRest
  <1> HIDE DEF raw
  <1>3. ~malformed(raw)
      BY <1>1, FlagFacts DEF malformed, HEADER_2
  <1>4. /\ q.transport_id = route[i] /\ q.packet_type = 0 /\ q.destination_type = 0
        /\ q.context = "NONE" /\ q.hops = k
      BY <1>1, FlagFacts DEF Received, unpack, HEADER_2
  <1> HIDE DEF q
  <1>5. packet_filter(q, route[i], FALSE)
      BY <1>4 DEF packet_filter, SINGLE, LINK
  <1>6. RelayStep(route, i, raw) = Relayed(raw, k, N - i, route[m])
      BY <1>3, <1>4, <1>5 DEF RelayStep, q
  <1>7. CASE m < N
      <2>1. Relayed(raw, k, N - i, route[m]) = <<80, k, route[m]>> \o SubSeq(raw, 4, 6)
          BY <1>1, <1>7, SMTT(30) DEF Relayed
      <2>2. <<80, k, route[m]>> \o Rest(p, x) = InTransport(k, route[m], p, x)
          BY TransportJoin
      <2> QED BY <1>2, <1>6, <1>7, <2>1, <2>2, ZenonT(30) DEF raw
  <1>8. CASE ~(m < N)
      <2>1. N - i = 1 /\ ~(1 > 1)
          BY <1>8
      <2>11. 64 * HEADER_1 + 16 * BROADCAST + (raw[1] % 16) = 0
          BY <1>1, FlagFacts DEF HEADER_1, BROADCAST
      <2>2. Relayed(raw, k, N - i, route[m]) = <<0, k>> \o SubSeq(raw, 4, 6)
          BY <1>1, <2>1, <2>11, Zenon DEF Relayed
      <2>3. <<0, k>> \o Rest(p, x) = Plain(0, k, p, x)
          BY PlainJoin
      <2> QED BY <1>2, <1>6, <1>8, <2>2, <2>3, ZenonT(30) DEF raw
  <1> QED BY <1>7, <1>8

\* The forms of packet i on its way, of which only the hops and the next hop change:
\* as node k of the route receives it.
Form(route, i, p, k) ==
    IF Len(route) = 1 THEN Plain(0, 0, p, Box(i, p))
    ELSE IF k < Len(route) THEN InTransport((k - 1) % 256, route[k], p, Box(i, p))
    ELSE Plain(0, (k - 1) % 256, p, Box(i, p))

\* The hops are counted modulo 256.
LEMMA HopFacts ==
    ASSUME NEW k \in Nat \ {0}
    PROVE  (k - 1) % 256 \in Nat /\ (((k - 1) % 256) + 1) % 256 = k % 256
  OBVIOUS

\* outbound() makes the first form, and every relay the next one.
LEMMA FormFacts ==
    ASSUME NEW i \in Nat, NEW p \in Purpose, NEW route, Len(route) \in Nat \ {0},
           NEW k \in 1 .. Len(route)
    PROVE  Form(route, i, p, k) =
             IF k = 1
             THEN outbound_raw(Packed(i, p, FALSE), [next_hop |-> route[1], hops |-> Len(route)])
             ELSE RelayStep(route, k - 1, Form(route, i, p, k - 1))
  <1> DEFINE raw == Packed(i, p, FALSE)
             out == outbound_raw(raw, [next_hop |-> route[1], hops |-> Len(route)])
  <1>0. PICK N \in Nat \ {0} : N = Len(route) /\ k \in 1 .. N
      OBVIOUS
  <1>01. PICK x : x = Box(i, p)
      OBVIOUS
  <1>1. raw = Plain(0, 0, p, x)
      BY <1>01, PackedFacts
  <1> HIDE DEF raw
  <1>2. /\ raw[1] = 0 /\ raw[2] = 0 /\ Len(raw) = 5 /\ SubSeq(raw, 3, 5) = Rest(p, x)
      BY <1>1, FieldFacts, PlainRest
  <1>3. /\ unpack(raw).packet_type = 0 /\ unpack(raw).destination_type = 0
        /\ unpack(raw).header_type = 0
      BY <1>2, FlagFacts DEF unpack
  <1>4. CASE k = 1 /\ Len(route) = 1
      <2>1. out = raw
          BY <1>3, <1>4 DEF outbound_raw
      <2>2. Form(route, i, p, k) = Plain(0, 0, p, x)
          BY <1>01, <1>4 DEF Form
      <2> QED BY <1>1, <1>4, <2>1, <2>2 DEF raw
  <1>5. CASE k = 1 /\ Len(route) > 1
      <2>1. out = Inserted(raw, route[1])
          BY <1>3, <1>5 DEF outbound_raw, ANNOUNCE, PLAIN, GROUP, HEADER_1
      <2>2. Inserted(raw, route[1]) = <<80, 0, route[1]>> \o SubSeq(raw, 3, 5)
          BY <1>2, FlagFacts DEF Inserted, HEADER_2, TRANSPORT
      <2>3. <<80, 0, route[1]>> \o Rest(p, x) = InTransport(0, route[1], p, x)
          BY TransportJoin
      <2>4. Form(route, i, p, k) = InTransport((k - 1) % 256, route[k], p, x)
          <3>1. Len(route) # 1 /\ k < Len(route)
              BY <1>0, <1>5
          <3> QED BY <1>01, <3>1 DEF Form
      <2>5. (k - 1) % 256 = 0
          BY <1>5
      <2> QED BY <1>2, <1>5, <2>1, <2>2, <2>3, <2>4, <2>5 DEF raw
  <1>6. CASE k # 1
      <2>1. PICK j \in Nat \ {0} : k = j + 1
          BY <1>6
      <2>2. PICK h \in Nat : h = (j - 1) % 256 /\ (h + 1) % 256 = (k - 1) % 256
          BY <2>1, HopFacts
      <2>3. Form(route, i, p, j) = InTransport(h, route[j], p, x)
          <3>1. Len(route) # 1 /\ j < Len(route)
              <4>1. N # 1 /\ j < N
                  BY <1>0, <2>1
              <4> QED BY <1>0, <4>1
          <3> QED BY <1>01, <2>2, <3>1 DEF Form
      <2>4. j \in 1 .. Len(route) - 1 /\ j + 1 = k /\ k - 1 = j
          <3>1. j \in 1 .. N - 1
              BY <1>0, <2>1
          <3> QED BY <1>0, <2>1, <3>1
      <2>5. RelayStep(route, j, InTransport(h, route[j], p, x)) =
              IF k < Len(route)
              THEN InTransport((h + 1) % 256, route[k], p, x)
              ELSE Plain(0, (h + 1) % 256, p, x)
          <3>0. N = Len(route) /\ N \in Nat
              BY <1>0
          <3>1. j \in 1 .. N - 1
              BY <1>0, <2>1
          <3>2. PICK g : g = (h + 1) % 256
              OBVIOUS
          <3>3. RelayStep(route, j, InTransport(h, route[j], p, x)) =
                  IF k < N THEN InTransport(g, route[k], p, x) ELSE Plain(0, g, p, x)
              BY <2>1, <3>0, <3>1, <3>2, RelayStepFacts, SMTT(30)
          <3> QED BY <1>0, <3>2, <3>3
      <2>6. Form(route, i, p, k) = IF k < Len(route)
              THEN InTransport((k - 1) % 256, route[k], p, x)
              ELSE Plain(0, (k - 1) % 256, p, x)
          <3>1. Len(route) # 1
              BY <1>0, <1>6
          <3> QED BY <1>01, <3>1 DEF Form
      <2>7. Form(route, i, p, k) = RelayStep(route, j, Form(route, i, p, j))
          BY <2>2, <2>3, <2>5, <2>6, ZenonT(30)
      <2> QED BY <1>6, <2>4, <2>7
  <1>7. k = 1 \/ k # 1
      OBVIOUS
  <1>8. Len(route) = 1 \/ Len(route) > 1
      BY <1>0
  <1> QED BY <1>4, <1>5, <1>6, <1>7, <1>8

\* Every node of the route receives the form for its place.
LEMMA CarriedFacts ==
    ASSUME NEW i \in Nat, NEW p \in Purpose, NEW route, Len(route) \in Nat \ {0},
           NEW k \in 1 .. Len(route)
    PROVE  CarriedTo(k, Packed(i, p, FALSE), route) = Form(route, i, p, k)
  <1> DEFINE raw == Packed(i, p, FALSE)
             first == outbound_raw(raw, [next_hop |-> route[1], hops |-> Len(route)])
             E(g) == [m \in 1 .. k |-> IF m = 1 THEN first ELSE RelayStep(route, m - 1, g[m - 1])]
             h == [m \in 1 .. k |-> Form(route, i, p, m)]
  <1>1. ASSUME NEW m \in 1 .. k
        PROVE  /\ Form(route, i, p, m) =
                     IF m = 1 THEN first ELSE RelayStep(route, m - 1, Form(route, i, p, m - 1))
               /\ m # 1 => m - 1 \in 1 .. k
      <2>1. m \in 1 .. Len(route) /\ (m # 1 => m - 1 \in 1 .. k)
          OBVIOUS
      <2>2. Form(route, i, p, m) = IF m = 1 THEN first ELSE RelayStep(route, m - 1, Form(route, i, p, m - 1))
          BY <2>1, FormFacts, Zenon
      <2> QED BY <2>1, <2>2
  <1> HIDE DEF first
  <1>2. h = E(h)
      <2>1. ASSUME NEW m \in 1 .. k PROVE h[m] = E(h)[m]
          BY <1>1
      <2> QED BY <2>1
  <1> DEFINE at == CHOOSE g : g = E(g)
  <1>3. at = E(at)
      BY <1>2
  <1> HIDE DEF at
  <1>4. ASSUME NEW m \in 1 .. k, at[m] # h[m] PROVE FALSE
      <2> DEFINE T == {x \in 1 .. k : at[x] # h[x]}
      <2>1. T \in SUBSET Nat /\ T # {}
          BY <1>4
      <2>2. PICK x \in T : \A y \in T : x <= y
          BY <2>1, LeastExists
      <2>3. x \in 1 .. k /\ at[x] # h[x]
          BY <2>2
      <2>4. CASE x = 1
          <3>1. at[x] = first /\ h[x] = first
              BY <1>1, <1>3, <2>3, <2>4
          <3> QED BY <2>3, <3>1
      <2>5. CASE x # 1
          <3>1. x - 1 \in 1 .. k /\ ~(x <= x - 1)
              BY <2>3, <2>5
          <3>2. at[x - 1] = h[x - 1]
              BY <2>2, <3>1
          <3>3. at[x] = RelayStep(route, x - 1, at[x - 1])
              BY <1>3, <2>3, <2>5
          <3>4. h[x] = RelayStep(route, x - 1, h[x - 1])
              BY <1>1, <2>3, <2>5
          <3> QED BY <2>3, <3>2, <3>3, <3>4
      <2> QED BY <2>4, <2>5
  <1>5. CarriedTo(k, raw, route) = at[k]
      BY DEF CarriedTo, at, first
  <1>6. at[k] = h[k] /\ h[k] = Form(route, i, p, k)
      BY <1>4
  <1> QED BY <1>5, <1>6

\* The hash of packet i, which tells packets from one another, and those on links
\* from the others.
HashOf(i, p) == Hash(0, p, Box(i, p))

\* What every node on the way takes for the hash of a packet is what its sender
\* waits for.
LEMMA HashFacts ==
    ASSUME NEW i \in Nat, NEW p \in Purpose, NEW route, Len(route) \in Nat \ {0}
    PROVE  /\ get_hash(Packed(i, p, FALSE)) = HashOf(i, p)
           /\ Carried(Packed(i, p, FALSE), route) # Nothing
           /\ get_hash(Carried(Packed(i, p, FALSE), route)) = HashOf(i, p)
           /\ FindsBack(Packed(i, p, FALSE), route)
  <1>1. ASSUME NEW k \in 1 .. Len(route)
        PROVE  get_hash(Form(route, i, p, k)) = HashOf(i, p) /\ Form(route, i, p, k) # <<>>
      <2>1. \/ \E h : Form(route, i, p, k) = Plain(0, h, p, Box(i, p))
            \/ \E h, n : Form(route, i, p, k) = InTransport(h, n, p, Box(i, p))
          BY DEF Form
      <2>2. CASE \E h : Form(route, i, p, k) = Plain(0, h, p, Box(i, p))
          <3>1. PICK h : Form(route, i, p, k) = Plain(0, h, p, Box(i, p))
              BY <2>2
          <3>2. get_hash(Plain(0, h, p, Box(i, p))) = HashOf(i, p)
              BY PlainHash DEF HashOf
          <3>3. Len(Plain(0, h, p, Box(i, p))) = 5
              BY FieldFacts
          <3> QED BY <3>1, <3>2, <3>3, SMTT(30)
      <2>3. CASE \E h, n : Form(route, i, p, k) = InTransport(h, n, p, Box(i, p))
          <3>1. PICK h, n : Form(route, i, p, k) = InTransport(h, n, p, Box(i, p))
              BY <2>3
          <3>2. get_hash(InTransport(h, n, p, Box(i, p))) = HashOf(i, p)
              BY TransportHash DEF HashOf
          <3>3. Len(InTransport(h, n, p, Box(i, p))) = 6
              BY FieldFacts
          <3> QED BY <3>1, <3>2, <3>3
      <2> QED BY <2>1, <2>2, <2>3
  <1>2. get_hash(Packed(i, p, FALSE)) = HashOf(i, p)
      <2>1. get_hash(Plain(0, 0, p, Box(i, p))) = HashOf(i, p)
          BY PlainHash DEF HashOf
      <2> QED BY <2>1, PackedFacts
  <1>3. \A k \in 1 .. Len(route) : CarriedTo(k, Packed(i, p, FALSE), route) = Form(route, i, p, k)
      BY CarriedFacts
  <1>4. Len(route) \in 1 .. Len(route)
      OBVIOUS
  <1>5. Carried(Packed(i, p, FALSE), route) = Form(route, i, p, Len(route))
      BY <1>3, <1>4 DEF Carried
  <1>6. FindsBack(Packed(i, p, FALSE), route)
      BY <1>1, <1>3, <1>4, <1>5 DEF FindsBack
  <1> QED BY <1>1, <1>2, <1>4, <1>5, <1>6 DEF Nothing

\* The hash of a packet on a link is none of these.
LEMMA LinkHashFacts ==
    ASSUME NEW i \in Nat, NEW p \in Purpose
    PROVE  /\ Packed(i, p, TRUE) # Nothing
           /\ get_hash(Packed(i, p, TRUE))[1] = 12
  <1>1. PICK x : Packed(i, p, TRUE) = Plain(12, 0, "link", x)
      BY LinkPackedFacts
  <1>2. get_hash(Plain(12, 0, "link", x)) = Hash(12, "link", x)
      BY PlainHash
  <1>3. Hash(12, "link", x)[1] = 12
      BY DEF Hash
  <1>4. Len(Plain(12, 0, "link", x)) = 5
      BY FieldFacts
  <1>5. Plain(12, 0, "link", x) # Nothing
      BY <1>4, SMTT(30) DEF Nothing
  <1> QED BY <1>1, <1>2, <1>3, <1>5

-----------------------------------------------------------------------------
(* The receipts.                                                           *)

\* A sequence made of two.
LEMMA Appended ==
    ASSUME NEW s, s \in Seq(ToSet(s)), NEW t, t \in Seq(ToSet(t))
    PROVE  /\ s \o t \in Seq(ToSet(s \o t)) /\ Len(s \o t) = Len(s) + Len(t)
           /\ \A i \in 1 .. Len(s) : (s \o t)[i] = s[i]
           /\ \A k \in 1 .. Len(t) : (s \o t)[Len(s) + k] = t[k]
  <1> DEFINE u == s \o t
             X == ToSet(s) \union ToSet(t)
  <1>1. s \in Seq(X) /\ t \in Seq(X)
      <2>1. \A i \in 1 .. Len(s) : s[i] \in ToSet(s)
          BY DEF ToSet
      <2>2. \A i \in 1 .. Len(t) : t[i] \in ToSet(t)
          BY DEF ToSet
      <2> QED BY <2>1, <2>2
  <1>2. /\ u \in Seq(X) /\ Len(u) = Len(s) + Len(t)
        /\ \A i \in 1 .. Len(s) + Len(t) :
              u[i] = IF i <= Len(s) THEN s[i] ELSE t[i - Len(s)]
      BY <1>1, ConcatProperties
  <1>3. Len(s) \in Nat /\ Len(t) \in Nat
      OBVIOUS
  <1> HIDE DEF u, X
  <1>4. \A i \in 1 .. Len(s) : u[i] = s[i]
      BY <1>2, <1>3
  <1>5. ASSUME NEW k \in 1 .. Len(t) PROVE u[Len(s) + k] = t[k]
      <2>1. Len(s) + k \in 1 .. Len(s) + Len(t) /\ ~(Len(s) + k <= Len(s)) /\ Len(s) + k - Len(s) = k
          BY <1>3
      <2> QED BY <1>2, <2>1
  <1>6. u \in Seq(ToSet(u))
      <2>1. \A i \in 1 .. Len(u) : u[i] \in ToSet(u)
          BY <1>2 DEF ToSet
      <2> QED BY <1>2, <2>1
  <1> QED BY <1>2, <1>4, <1>5, <1>6 DEF u

\* A sequence is one of whatever its elements are.
LEMMA Narrowed ==
    ASSUME NEW X, NEW s \in Seq(X), NEW Y, \A i \in 1 .. Len(s) : s[i] \in Y
    PROVE  s \in Seq(Y)
  OBVIOUS

\* f is a function on S.
IsTable(f, S) == DOMAIN f = S /\ f = [x \in S |-> f[x]]

\* A function on 1 .. n is a sequence.
LEMMA Tabulated ==
    ASSUME NEW n \in Nat, NEW f, IsTable(f, 1 .. n)
    PROVE  f \in Seq(ToSet(f)) /\ Len(f) = n
  <1>1. \A i \in 1 .. n : f[i] \in ToSet(f)
      BY DEF IsTable, ToSet
  <1> QED BY <1>1 DEF IsTable

\* The ways lead somewhere.
LEMMA RouteFacts ==
    ASSUME NEW n \in Neighbor
    PROVE  Len(Route[n]) \in Nat \ {0}
  <1>1. Route[n] \in Seq(ToSet(Route[n])) /\ Len(Route[n]) > 0
      BY ProbeAssumption
  <1> QED BY <1>1

\* What is always so of the receipt of packet i.
IsReceipt(i, r) ==
    /\ r = [for |-> r.for, link |-> r.link, status |-> r.status, hash |-> r.hash,
            arrived |-> r.arrived, returns |-> r.returns]
    /\ r.for \in Purpose /\ r.link \in BOOLEAN
    /\ r.status \in {"SENT", "DELIVERED", "FAILED", "CULLED"}
    /\ r.arrived # Nothing /\ r.returns
    /\ get_hash(r.arrived) = r.hash
    /\ IF r.link THEN r.hash[1] = 12 ELSE r.hash = HashOf(i, r.for)

\* The receipt with another status.
WithStatus(r, status) == [r EXCEPT !.status = status]

\* A receipt keeps all that but its status.
LEMMA StatusFacts ==
    ASSUME NEW i, NEW r, IsReceipt(i, r),
           NEW status \in {"SENT", "DELIVERED", "FAILED", "CULLED"},
           NEW s, s = WithStatus(r, status)
    PROVE  IsReceipt(i, s) /\ s.status = status /\ s.for = r.for
  <1>1. r = [for |-> r.for, link |-> r.link, status |-> r.status, hash |-> r.hash,
             arrived |-> r.arrived, returns |-> r.returns]
      BY DEF IsReceipt
  <1>2. PICK a, b, c, d, e, f : r = [for |-> a, link |-> b, status |-> c, hash |-> d,
                                     arrived |-> e, returns |-> f]
      BY <1>1
  <1>3. s = [for |-> a, link |-> b, status |-> status, hash |-> d, arrived |-> e, returns |-> f]
      BY <1>2 DEF WithStatus
  <1>4. /\ r.for = a /\ r.link = b /\ r.hash = d /\ r.arrived = e /\ r.returns = f
      BY <1>2
  <1> DEFINE q == [for |-> a, link |-> b, status |-> status, hash |-> d, arrived |-> e, returns |-> f]
  <1>5. /\ q.for = a /\ q.link = b /\ q.hash = d /\ q.arrived = e /\ q.returns = f
        /\ q.status = status
      OBVIOUS
  <1>6. q = [for |-> q.for, link |-> q.link, status |-> q.status, hash |-> q.hash,
             arrived |-> q.arrived, returns |-> q.returns]
      OBVIOUS
  <1> HIDE DEF q
  <1>7. IsReceipt(i, q)
      BY <1>4, <1>5, <1>6 DEF IsReceipt
  <1> QED BY <1>3, <1>4, <1>5, <1>7 DEF q

\* The receipt of a new packet.
LEMMA NewReceiptFacts ==
    ASSUME NEW i \in Nat, NEW p \in Purpose, NEW link \in BOOLEAN, NEW route,
           Len(route) \in Nat \ {0}
    PROVE  /\ IsReceipt(i, NewReceipt(i, p, link, route))
           /\ NewReceipt(i, p, link, route).for = p
           /\ NewReceipt(i, p, link, route).status = "SENT"
  <1> DEFINE r == NewReceipt(i, p, link, route)
             raw == Packed(i, p, link)
             a == IF link THEN raw ELSE Carried(raw, route)
             b == link \/ FindsBack(raw, route)
  <1>1. r = [for |-> p, link |-> link, status |-> "SENT", hash |-> get_hash(raw),
             arrived |-> a, returns |-> b]
      BY DEF NewReceipt
  <1> HIDE DEF r, a, b
  <1>2. /\ r.for = p /\ r.link = link /\ r.status = "SENT" /\ r.hash = get_hash(raw)
        /\ r.arrived = a /\ r.returns = b
      BY <1>1
  <1>3. CASE link = TRUE
      <2>1. a = raw /\ b = TRUE
          BY <1>3 DEF a, b
      <2>2. raw # Nothing /\ get_hash(raw)[1] = 12
          BY <1>3, LinkHashFacts
      <2> HIDE DEF raw
      <2> QED BY <1>1, <1>2, <1>3, <2>1, <2>2 DEF IsReceipt, r
  <1>4. CASE link = FALSE
      <2>1. a = Carried(raw, route)
          BY <1>4 DEF a
      <2>2. /\ get_hash(raw) = HashOf(i, p) /\ Carried(raw, route) # Nothing
            /\ get_hash(Carried(raw, route)) = HashOf(i, p) /\ FindsBack(raw, route)
          BY <1>4, HashFacts
      <2>3. b
          BY <2>2 DEF b
      <2> HIDE DEF raw
      <2> QED BY <1>1, <1>2, <1>4, <2>1, <2>2, <2>3 DEF IsReceipt, r
  <1> QED BY <1>3, <1>4

\* Packets that are not on links have hashes of their own.
LEMMA HashDiffers ==
    ASSUME NEW i, NEW p, NEW j, NEW q
    PROVE  /\ HashOf(i, p) = HashOf(j, q) => i = j /\ p = q
           /\ HashOf(i, p)[1] = 0
  <1>1. HashOf(i, p)[1] = 0 /\ HashOf(i, p)[2] = p /\ HashOf(i, p)[4].nonce = i
      BY DEF HashOf, Hash, Box
  <1>2. HashOf(j, q)[2] = q /\ HashOf(j, q)[4].nonce = j
      BY DEF HashOf, Hash, Box
  <1> QED BY <1>1, <1>2

\* What the callbacks of receipt i were called, as its status says.
ToldOf(status) ==
    [delivered |-> IF status = "DELIVERED" THEN 1 ELSE 0,
     timed_out |-> IF status \in {"FAILED", "CULLED"} THEN 1 ELSE 0]

\* The inductive invariant of the receipts.
ReceiptsInv ==
    /\ receipt \in Seq(ToSet(receipt)) /\ Len(receipt) <= MaxSent
    /\ told \in Seq(ToSet(told)) /\ Len(told) = Len(receipt)
    /\ \A i \in Sent : IsReceipt(i, receipt[i])
    /\ \A i \in Sent : told[i] = ToldOf(receipt[i].status)
    /\ receipts \in Seq(Sent) /\ IsInjective(receipts) /\ Listed = Open
    /\ proved \in SUBSET Sent
    /\ \A i \in Sent : receipt[i].status = "DELIVERED" <=> i \in proved

\* The receipts are numbered from 1.
LEMMA SentFacts ==
    ASSUME ReceiptsInv
    PROVE  Len(receipt) \in Nat /\ Sent = 1 .. Len(receipt) /\ DOMAIN told = Sent
           /\ Open \in SUBSET Sent /\ DOMAIN receipts = 1 .. Len(receipts)
           /\ Len(receipts) \in Nat
  <1>1. /\ receipt \in Seq(ToSet(receipt)) /\ told \in Seq(ToSet(told))
        /\ Len(told) = Len(receipt) /\ receipts \in Seq(Sent)
      BY DEF ReceiptsInv
  <1>2. Len(receipt) \in Nat /\ DOMAIN receipt = 1 .. Len(receipt)
        /\ DOMAIN told = 1 .. Len(told)
      BY <1>1
  <1>3. Len(receipts) \in Nat /\ DOMAIN receipts = 1 .. Len(receipts)
      BY <1>1
  <1> QED BY <1>1, <1>2, <1>3 DEF Sent, Open

\* The invariant says what the properties say of the receipts.
LEMMA ReceiptsInvImplies ==
    ASSUME ReceiptsInv
    PROVE  ReceiptsTypeOK /\ ConcludedOnce /\ ProofIsRecognised
  <1>1. ReceiptsTypeOK
      BY DEF ReceiptsInv, IsReceipt, ReceiptsTypeOK
  <1>2. Len(receipts) = Cardinality(Open)
      <2>1. receipts \in Seq(Sent) /\ IsInjective(receipts) /\ ToSet(receipts) = Open
          BY DEF ReceiptsInv, Listed
      <2> QED BY <2>1, InjectiveSize
  <1>3. ConcludedOnce
      BY <1>2 DEF ReceiptsInv, ConcludedOnce, ToldOf
  <1>4. ProofIsRecognised
      BY DEF ReceiptsInv, IsReceipt, ProofIsRecognised
  <1> QED BY <1>1, <1>3, <1>4

\* At first there are no receipts.
LEMMA ReceiptsInvInit ==
    ASSUME ReceiptsInit PROVE ReceiptsInv /\ Open = {} /\ Sent = {} /\ Len(receipt) = 0
  <1>1. receipt = <<>> /\ receipts = <<>> /\ told = <<>> /\ proved = {}
      BY DEF ReceiptsInit
  <1>2. /\ DOMAIN receipt = {} /\ DOMAIN receipts = {} /\ Len(receipt) = 0 /\ Len(told) = 0
        /\ Len(receipt) <= MaxSent
      BY <1>1, ReceiptsAssumption
  <1>3. Sent = {} /\ Open = {} /\ Listed = {}
      BY <1>2 DEF Sent, Open, Listed, ToSet
  <1>4. receipt \in Seq(ToSet(receipt)) /\ told \in Seq(ToSet(told)) /\ receipts \in Seq(Sent)
      BY <1>1
  <1>5. IsInjective(receipts)
      BY <1>2 DEF IsInjective
  <1> QED BY <1>1, <1>2, <1>3, <1>4, <1>5 DEF ReceiptsInv

\* outbound() makes receipts and lists them.
LEMMA NewReceiptsStep ==
    ASSUME ReceiptsInv, NEW ps, ps \in Seq(Purpose), NEW link \in BOOLEAN, NEW routes,
           \A k \in 1 .. Len(ps) : Len(routes[k]) \in Nat \ {0},
           NewReceipts(ps, link, routes)
    PROVE  /\ ReceiptsInv'
           /\ Len(receipt)' = Len(receipt) + Len(ps)
           /\ \A i \in Sent : receipt'[i] = receipt[i]
           /\ \A k \in 1 .. Len(ps) : receipt'[Len(receipt) + k].for = ps[k]
           /\ Open' = Open \union { Len(receipt) + k : k \in 1 .. Len(ps) }
  <1> DEFINE L == Len(receipt)
             M == Len(ps)
             a == [k \in 1 .. M |-> NewReceipt(L + k, ps[k], link, routes[k])]
             b == [k \in 1 .. M |-> L + k]
             d == [k \in 1 .. M |-> [delivered |-> 0, timed_out |-> 0]]
             New == { L + k : k \in 1 .. M }
  <1>1. /\ L \in Nat /\ Sent = 1 .. L /\ DOMAIN told = Sent /\ Open \in SUBSET Sent
        /\ DOMAIN receipts = 1 .. Len(receipts) /\ Len(receipts) \in Nat
      BY SentFacts
  <1>2. M \in Nat /\ DOMAIN ps = 1 .. M /\ \A k \in 1 .. M : ps[k] \in Purpose
      OBVIOUS
  <1>3. /\ L + M <= MaxSent
        /\ receipt' = receipt \o a /\ receipts' = receipts \o b /\ told' = told \o d
        /\ proved' = proved
      BY <1>2 DEF NewReceipts
  <1>4. /\ a \in Seq(ToSet(a)) /\ Len(a) = M /\ b \in Seq(ToSet(b)) /\ Len(b) = M
        /\ d \in Seq(ToSet(d)) /\ Len(d) = M
      <2>1. IsTable(a, 1 .. M) /\ IsTable(b, 1 .. M) /\ IsTable(d, 1 .. M)
          BY DEF IsTable
      <2> QED BY <1>2, <2>1, Tabulated
  <1>5. ASSUME NEW k \in 1 .. M
        PROVE  /\ IsReceipt(L + k, a[k]) /\ a[k].for = ps[k] /\ a[k].status = "SENT"
               /\ b[k] = L + k /\ d[k] = ToldOf("SENT")
      <2>1. a[k] = NewReceipt(L + k, ps[k], link, routes[k]) /\ L + k \in Nat /\ b[k] = L + k
          BY <1>1
      <2>2. d[k] = ToldOf("SENT")
          BY DEF ToldOf
      <2>3. ps[k] \in Purpose /\ Len(routes[k]) \in Nat \ {0}
          BY <1>2
      <2> HIDE DEF a, b, d, L, M
      <2> QED BY <2>1, <2>2, <2>3, NewReceiptFacts
  <1> HIDE DEF a, b, d
  <1>6. /\ receipt' \in Seq(ToSet(receipt')) /\ Len(receipt') = L + M
        /\ \A i \in 1 .. L : receipt'[i] = receipt[i]
        /\ \A k \in 1 .. M : receipt'[L + k] = a[k]
      <2>1. receipt \in Seq(ToSet(receipt))
          BY DEF ReceiptsInv
      <2> HIDE DEF M
      <2>2. /\ receipt \o a \in Seq(ToSet(receipt \o a))
            /\ Len(receipt \o a) = Len(receipt) + Len(a)
            /\ \A i \in 1 .. Len(receipt) : (receipt \o a)[i] = receipt[i]
            /\ \A k \in 1 .. Len(a) : (receipt \o a)[Len(receipt) + k] = a[k]
          BY <1>4, <2>1, Appended
      <2> QED BY <1>3, <1>4, <2>2
  <1>7. /\ told' \in Seq(ToSet(told')) /\ Len(told') = L + M
        /\ \A i \in 1 .. L : told'[i] = told[i]
        /\ \A k \in 1 .. M : told'[L + k] = d[k]
      <2>1. told \in Seq(ToSet(told)) /\ Len(told) = L
          BY DEF ReceiptsInv
      <2> HIDE DEF M, L
      <2>19. told \in Seq(ToSet(told))
          BY <2>1
      <2>20. d \in Seq(ToSet(d))
          BY <1>4
      <2>2. /\ told \o d \in Seq(ToSet(told \o d))
            /\ Len(told \o d) = Len(told) + Len(d)
            /\ \A i \in 1 .. Len(told) : (told \o d)[i] = told[i]
            /\ \A k \in 1 .. Len(d) : (told \o d)[Len(told) + k] = d[k]
          BY <2>19, <2>20, Appended
      <2> QED BY <1>3, <1>4, <2>1, <2>2
  <1>8. DOMAIN receipt' = 1 .. L + M
      BY <1>6
  <1> HIDE DEF L, M
  <1>9. ASSUME NEW i \in 1 .. L + M PROVE i \in 1 .. L \/ \E k \in 1 .. M : i = L + k
      <2>1. CASE i <= L
          BY <1>1, <2>1
      <2>2. CASE ~(i <= L)
          <3>1. i - L \in 1 .. M /\ i = L + (i - L)
              BY <1>1, <1>2, <2>2
          <3> QED BY <3>1
      <2> QED BY <2>1, <2>2
  <1>10. \A k \in 1 .. M : L + k \in 1 .. L + M /\ L + k \notin 1 .. L
      BY <1>1, <1>2
  <1>11. \A i \in 1 .. L : i \in 1 .. L + M
      BY <1>1, <1>2
  <1>12. Sent' = 1 .. L + M
      BY <1>8 DEF Sent
  <1>13. ASSUME NEW i \in 1 .. L + M
         PROVE  IsReceipt(i, receipt'[i]) /\ told'[i] = ToldOf(receipt'[i].status)
      <2>1. CASE i \in 1 .. L
          BY <1>1, <1>6, <1>7, <2>1 DEF ReceiptsInv
      <2>2. CASE \E k \in 1 .. M : i = L + k
          BY <1>5, <1>6, <1>7, <2>2
      <2> QED BY <1>9, <2>1, <2>2
  <1>14. Open' = Open \union New
      <2>1. Open' = { i \in 1 .. L + M : receipt'[i].status = "SENT" }
          BY <1>12 DEF Open
      <2>2. Open = { i \in 1 .. L : receipt[i].status = "SENT" }
          BY <1>1 DEF Open
      <2>3. ASSUME NEW i \in Open' PROVE i \in Open \union New
          BY <1>6, <1>9, <2>1, <2>2
      <2>4. ASSUME NEW i \in Open PROVE i \in Open'
          BY <1>6, <1>11, <2>1, <2>2
      <2>5. ASSUME NEW k \in 1 .. M PROVE L + k \in Open'
          BY <1>5, <1>6, <1>10, <2>1
      <2> QED BY <2>3, <2>4, <2>5
  <1>15. /\ receipts' \in Seq(Sent') /\ IsInjective(receipts') /\ Listed' = Open'
      <2> DEFINE R == Len(receipts)
      <2>1. receipts \in Seq(1 .. L) /\ IsInjective(receipts) /\ ToSet(receipts) = Open
          BY <1>1 DEF ReceiptsInv, Listed
      <2>2. receipts \in Seq(ToSet(receipts))
          <3>1. \A i \in 1 .. Len(receipts) : receipts[i] \in ToSet(receipts)
              BY <1>1 DEF ToSet
          <3> QED BY <2>1, <3>1
      <2>20. b \in Seq(ToSet(b))
          BY <1>4
      <2>3. /\ receipts' \in Seq(ToSet(receipts')) /\ Len(receipts') = R + M
            /\ \A i \in 1 .. R : receipts'[i] = receipts[i]
            /\ \A k \in 1 .. M : receipts'[R + k] = b[k]
          <3> HIDE DEF M, R
          <3>1. /\ receipts \o b \in Seq(ToSet(receipts \o b))
                /\ Len(receipts \o b) = Len(receipts) + Len(b)
                /\ \A i \in 1 .. Len(receipts) : (receipts \o b)[i] = receipts[i]
                /\ \A k \in 1 .. Len(b) : (receipts \o b)[Len(receipts) + k] = b[k]
              BY <2>20, <2>2, Appended
          <3> QED BY <1>3, <1>4, <3>1 DEF R
      <2>4. R \in Nat /\ DOMAIN receipts = 1 .. R
          BY <1>1
      <2>41. \A x \in Open : \E i \in 1 .. R : receipts[i] = x
          BY <2>1, <2>4, Zenon DEF ToSet
      <2> HIDE DEF R
      <2>5. DOMAIN receipts' = 1 .. R + M
          BY <2>3
      <2>6. ASSUME NEW i \in 1 .. R + M PROVE i \in 1 .. R \/ \E k \in 1 .. M : i = R + k
          <3>1. CASE i <= R
              BY <2>4, <3>1
          <3>2. CASE ~(i <= R)
              <4>1. i - R \in 1 .. M /\ i = R + (i - R)
                  BY <1>2, <2>4, <3>2
              <4> QED BY <4>1
          <3> QED BY <3>1, <3>2
      <2>7. \A i \in 1 .. R : receipts[i] \in 1 .. L /\ receipts[i] \in Open
          <3>1. \A i \in 1 .. R : receipts[i] \in ToSet(receipts)
              BY <2>4, Zenon DEF ToSet
          <3>2. Open \in SUBSET (1 .. L)
              BY <1>1
          <3> QED BY <2>1, <3>1, <3>2
      <2>8. \A k \in 1 .. M : receipts'[R + k] = L + k
          BY <1>5, <2>3
      <2>9. ToSet(receipts') = Open \union New
          <3>1. ASSUME NEW i \in 1 .. R + M PROVE receipts'[i] \in Open \union New
              <4>1. CASE i \in 1 .. R
                  BY <2>3, <2>7, <4>1
              <4>2. CASE \E k \in 1 .. M : i = R + k
                  <5>1. PICK k \in 1 .. M : i = R + k
                      BY <4>2
                  <5>2. receipts'[i] = L + k
                      BY <2>8, <5>1
                  <5> QED BY <5>2
              <4> QED BY <2>6, <4>1, <4>2
          <3>2. ASSUME NEW x \in Open PROVE \E i \in 1 .. R + M : receipts'[i] = x
              <4>1. PICK i \in 1 .. R : receipts[i] = x
                  BY <2>41, Zenon
              <4>2. i \in 1 .. R + M
                  BY <1>2, <2>4
              <4> QED BY <2>3, <4>1, <4>2
          <3>3. ASSUME NEW k \in 1 .. M PROVE \E i \in 1 .. R + M : receipts'[i] = L + k
              <4>1. R + k \in 1 .. R + M
                  BY <1>2, <2>4
              <4> QED BY <2>8, <4>1
          <3> QED BY <2>5, <3>1, <3>2, <3>3 DEF ToSet
      <2>10. IsInjective(receipts')
          <3> SUFFICES ASSUME NEW i \in 1 .. R + M, NEW j \in 1 .. R + M, receipts'[i] = receipts'[j]
                       PROVE  i = j
              BY <2>5 DEF IsInjective
          <3>1. CASE i \in 1 .. R /\ j \in 1 .. R
              BY <2>1, <2>3, <2>4, <3>1 DEF IsInjective
          <3>2. CASE i \in 1 .. R /\ j \notin 1 .. R
              BY <1>10, <2>3, <2>6, <2>7, <2>8, <3>2, SMTT(30)
          <3>3. CASE i \notin 1 .. R /\ j \in 1 .. R
              BY <1>10, <2>3, <2>6, <2>7, <2>8, <3>3, SMTT(30)
          <3>4. CASE i \notin 1 .. R /\ j \notin 1 .. R
              <4>1. PICK k \in 1 .. M, m \in 1 .. M : i = R + k /\ j = R + m
                  BY <2>6, <3>4
              <4>2. L + k = L + m
                  BY <2>8, <4>1
              <4> QED BY <1>1, <4>1, <4>2
          <3> QED BY <3>1, <3>2, <3>3, <3>4
      <2>11. ToSet(receipts') \in SUBSET (1 .. L + M)
          BY <1>1, <1>10, <1>11, <2>9
      <2>12. receipts' \in Seq(1 .. L + M)
          <3>1. \A i \in 1 .. Len(receipts') : receipts'[i] \in ToSet(receipts')
              BY <2>3, <2>5, Zenon DEF ToSet
          <3>2. \A i \in 1 .. Len(receipts') : receipts'[i] \in 1 .. L + M
              BY <2>11, <3>1
          <3> QED BY <2>3, <3>2, Narrowed
      <2> QED BY <1>12, <1>14, <2>9, <2>10, <2>12 DEF Listed
  <1>16. proved' \in SUBSET (1 .. L + M)
         /\ \A i \in 1 .. L + M : receipt'[i].status = "DELIVERED" <=> i \in proved'
      <2>1. proved \in SUBSET (1 .. L) /\ \A i \in 1 .. L : receipt[i].status = "DELIVERED" <=> i \in proved
          BY <1>1 DEF ReceiptsInv
      <2>2. \A k \in 1 .. M : receipt'[L + k].status = "SENT"
          BY <1>5, <1>6
      <2> QED BY <1>3, <1>6, <1>9, <1>10, <1>11, <2>1, <2>2
  <1>17. ReceiptsInv'
      <2>1. L + M <= MaxSent /\ Len(receipt') = L + M
          BY <1>3, <1>6
      <2> QED BY <1>6, <1>7, <1>12, <1>13, <1>15, <1>16, <2>1 DEF ReceiptsInv
  <1> QED BY <1>1, <1>5, <1>6, <1>14, <1>17 DEF L, M

\* A proof concludes the receipt of the packet it is of, if that waits, and no other.
LEMMA ProvesFacts ==
    ASSUME ReceiptsInv, NEW i \in Sent, NEW e \in BOOLEAN
    PROVE  Proves(receipt[i].link, ProofOf(i, e)) =
             IF i \in Open /\ ~receipt[i].link THEN {i} ELSE {}
  <1> DEFINE pr == ProofOf(i, e)
             C == Proves(receipt[i].link, pr)
  <1>1. /\ Listed = Open /\ Open \in SUBSET Sent
        /\ \A j \in Sent : IsReceipt(j, receipt[j])
      BY SentFacts DEF ReceiptsInv
  <1>2. CASE receipt[i].link
      BY <1>2 DEF Proves, validate_link_proof
  <1>3. CASE ~receipt[i].link
      <2>1. get_hash(receipt[i].arrived) = receipt[i].hash /\ receipt[i].hash = HashOf(i, receipt[i].for)
          BY <1>1, <1>3 DEF IsReceipt
      <2>2. /\ pr.hash = IF e THEN receipt[i].hash ELSE None
            /\ pr.signature = sign(receipt[i].for, receipt[i].hash)
          BY <1>3, <2>1 DEF ProofOf, prove, Endpoint
      <2> HIDE DEF pr
      <2>3. C = { j \in Open : validate_proof(Endpoint(receipt[j].for).key, receipt[j].hash, pr) }
          BY <1>1, <1>3 DEF Proves
      <2>4. ASSUME NEW j \in Open,
                   validate_proof(Endpoint(receipt[j].for).key, receipt[j].hash, pr)
            PROVE  j = i
          <3>1. sign(receipt[i].for, receipt[i].hash) = sign(receipt[j].for, receipt[j].hash)
              BY <2>2, <2>4 DEF validate_proof, validate, Endpoint
          <3>2. receipt[j].hash = HashOf(i, receipt[i].for)
              <4>1. sign(receipt[i].for, receipt[i].hash).of = receipt[i].hash
                  BY DEF sign
              <4>2. sign(receipt[j].for, receipt[j].hash).of = receipt[j].hash
                  BY DEF sign
              <4> QED BY <2>1, <3>1, <4>1, <4>2
          <3>3. receipt[j].hash[1] = 0
              BY <3>2, HashDiffers
          <3>4. IsReceipt(j, receipt[j])
              BY <1>1
          <3>5. receipt[j].hash = HashOf(j, receipt[j].for)
              BY <3>3, <3>4 DEF IsReceipt
          <3>6. HashOf(i, receipt[i].for) = HashOf(j, receipt[j].for)
              BY <3>2, <3>5
          <3>7. PICK q : q = receipt[j].for
              OBVIOUS
          <3>8. PICK p : p = receipt[i].for
              OBVIOUS
          <3>9. HashOf(i, p) = HashOf(j, q)
              BY <3>6, <3>7, <3>8
          <3>10. i = j
              BY <3>9, HashDiffers
          <3> QED BY <3>10
      <2>5. validate_proof(Endpoint(receipt[i].for).key, receipt[i].hash, pr)
          BY <2>2 DEF validate_proof, validate, Endpoint
      <2> HIDE DEF C
      <2>6. C = IF i \in Open THEN {i} ELSE {}
          <3>1. CASE i \in Open
              BY <2>3, <2>4, <2>5, <3>1
          <3>2. CASE i \notin Open
              BY <2>3, <2>4, <3>2
          <3> QED BY <3>1, <3>2
      <2> QED BY <1>3, <2>6 DEF C, pr
  <1> QED BY <1>2, <1>3

\* What becomes of the receipts when some of those that wait conclude.
LEMMA ConcludeStep ==
    ASSUME ReceiptsInv, NEW C, C \in SUBSET Open, NEW K,
           K \in SUBSET (1 .. Len(receipts)),
           \A k \in 1 .. Len(receipts) : k \in K <=> receipts[k] \notin C,
           NEW st, \A j \in C : st[j] \in {"DELIVERED", "FAILED", "CULLED"},
           IsTable(receipt', Sent),
           \A j \in Sent : receipt'[j] = IF j \in C THEN WithStatus(receipt[j], st[j])
                                                   ELSE receipt[j],
           receipts' = SubSeqAt(receipts, K),
           IsTable(told', Sent),
           \A j \in Sent : told'[j] = IF j \in C THEN ToldOf(st[j]) ELSE told[j],
           proved' = proved \union { j \in C : st[j] = "DELIVERED" }
    PROVE  /\ ReceiptsInv' /\ Len(receipt)' = Len(receipt)
           /\ Sent' = Sent /\ Open' = Open \ C
           /\ \A j \in Sent : /\ receipt'[j].for = receipt[j].for
                              /\ j \in C => receipt'[j].status = st[j]
                              /\ j \notin C => receipt'[j] = receipt[j]
  <1> DEFINE L == Len(receipt)
  <1>1. /\ L \in Nat /\ Sent = 1 .. L /\ Open \in SUBSET Sent
        /\ DOMAIN receipts = 1 .. Len(receipts) /\ Len(receipts) \in Nat
      BY SentFacts
  <1>2. /\ Len(receipt) <= MaxSent
        /\ \A j \in Sent : IsReceipt(j, receipt[j])
        /\ \A j \in Sent : told[j] = ToldOf(receipt[j].status)
        /\ receipts \in Seq(Sent) /\ IsInjective(receipts) /\ ToSet(receipts) = Open
        /\ proved \in SUBSET Sent
        /\ \A j \in Sent : receipt[j].status = "DELIVERED" <=> j \in proved
      BY DEF ReceiptsInv, Listed
  <1> HIDE DEF L
  <1>3. receipt' \in Seq(ToSet(receipt')) /\ Len(receipt') = L /\ DOMAIN receipt' = Sent
      <2>1. IsTable(receipt', 1 .. L)
          BY <1>1
      <2>2. receipt' \in Seq(ToSet(receipt')) /\ Len(receipt') = L
          BY <1>1, <2>1, Tabulated
      <2> QED BY <1>1, <2>1, <2>2 DEF IsTable
  <1>4. told' \in Seq(ToSet(told')) /\ Len(told') = L
      <2>1. IsTable(told', 1 .. L)
          BY <1>1
      <2> QED BY <1>1, <2>1, Tabulated
  <1>5. Sent' = Sent
      BY <1>3 DEF Sent
  <1>6. ASSUME NEW j \in Sent
        PROVE  /\ IsReceipt(j, receipt'[j])
               /\ told'[j] = ToldOf(receipt'[j].status)
               /\ receipt'[j].for = receipt[j].for
               /\ j \in C => receipt'[j].status = st[j]
               /\ j \notin C => receipt'[j] = receipt[j]
      <2>1. CASE j \in C
          <3>1. receipt'[j] = WithStatus(receipt[j], st[j])
              BY <2>1
          <3>2. st[j] \in {"SENT", "DELIVERED", "FAILED", "CULLED"}
              BY <2>1
          <3>3. IsReceipt(j, receipt[j])
              BY <1>2
          <3>4. IsReceipt(j, receipt'[j]) /\ receipt'[j].status = st[j]
                /\ receipt'[j].for = receipt[j].for
              <4>1. PICK r : r = receipt[j]
                  OBVIOUS
              <4>2. PICK s \in {"SENT", "DELIVERED", "FAILED", "CULLED"} : s = st[j]
                  BY <3>2
              <4>3. IsReceipt(j, r)
                  BY <3>3, <4>1
              <4>4. receipt'[j] = WithStatus(r, s)
                  BY <3>1, <4>1, <4>2
              <4>5. IsReceipt(j, receipt'[j]) /\ receipt'[j].status = s /\ receipt'[j].for = r.for
                  BY <4>3, <4>4, StatusFacts
              <4> QED BY <4>1, <4>2, <4>5
          <3> QED BY <2>1, <3>4
      <2>2. CASE j \notin C
          <3>1. receipt'[j] = receipt[j] /\ told'[j] = told[j]
              BY <2>2
          <3> QED BY <1>2, <2>2, <3>1
      <2> QED BY <2>1, <2>2
  <1>7. Open' = Open \ C
      <2>1. Open' = { j \in Sent : receipt'[j].status = "SENT" }
          BY <1>5 DEF Open
      <2>2. Open = { j \in Sent : receipt[j].status = "SENT" }
          BY DEF Open
      <2>3. ASSUME NEW j \in Sent PROVE j \in Open' <=> j \in Open \ C
          BY <1>6, <2>1, <2>2
      <2> QED BY <2>1, <2>2, <2>3
  <1>8. receipts' \in Seq(Sent') /\ IsInjective(receipts') /\ Listed' = Open'
      <2>1. /\ SubSeqAt(receipts, K) \in Seq(Sent) /\ IsInjective(SubSeqAt(receipts, K))
            /\ ToSet(SubSeqAt(receipts, K)) = { receipts[k] : k \in K }
          BY <1>2, SubSeqAtFacts
      <2>2. { receipts[k] : k \in K } = Open \ C
          <3>1. ASSUME NEW k \in K PROVE receipts[k] \in Open \ C
              <4>1. k \in 1 .. Len(receipts) /\ receipts[k] \notin C
                  OBVIOUS
              <4>2. receipts[k] \in ToSet(receipts)
                  BY <1>1, <4>1, Zenon DEF ToSet
              <4> QED BY <1>2, <4>1, <4>2
          <3>2. ASSUME NEW x \in Open \ C PROVE \E k \in K : receipts[k] = x
              <4>1. x \in ToSet(receipts)
                  BY <1>2
              <4>2. PICK k \in 1 .. Len(receipts) : receipts[k] = x
                  BY <1>1, <4>1, Zenon DEF ToSet
              <4> QED BY <4>2
          <3>3. ASSUME NEW x PROVE x \in { receipts[k] : k \in K } <=> x \in Open \ C
              <4>1. x \in { receipts[k] : k \in K } => x \in Open \ C
                  BY <3>1, ZenonT(30)
              <4>2. x \in Open \ C => x \in { receipts[k] : k \in K }
                  BY <3>2, ZenonT(30)
              <4> QED BY <4>1, <4>2
          <3> DEFINE A == { receipts[k] : k \in K }
                     B == Open \ C
          <3>4. \A x : x \in A <=> x \in B
              BY <3>3
          <3> HIDE DEF A, B
          <3>5. A = B
              BY <3>4
          <3> QED BY <3>5 DEF A, B
      <2> QED BY <1>5, <1>7, <2>1, <2>2 DEF Listed
  <1>9. proved' \in SUBSET Sent /\ \A j \in Sent : receipt'[j].status = "DELIVERED" <=> j \in proved'
      <2>1. proved' \in SUBSET Sent
          BY <1>1, <1>2
      <2>2. ASSUME NEW j \in Sent PROVE receipt'[j].status = "DELIVERED" <=> j \in proved'
          <3>1. CASE j \in C
              <4>1. j \notin proved
                  BY <1>2, <3>1 DEF Open
              <4> QED BY <1>6, <3>1, <4>1
          <3>2. CASE j \notin C
              BY <1>2, <1>6, <3>2
          <3> QED BY <3>1, <3>2
      <2> QED BY <2>1, <2>2
  <1>10. ReceiptsInv'
      <2>1. Len(receipt)' <= MaxSent /\ Len(told') = Len(receipt')
          BY <1>2, <1>3, <1>4 DEF L
      <2> QED BY <1>3, <1>4, <1>5, <1>6, <1>8, <1>9, <2>1 DEF ReceiptsInv
  <1> QED BY <1>3, <1>5, <1>6, <1>7, <1>10 DEF L

\* C is what a proof of packet i concludes.
IsConcluded(C, i, e) == C = Proves(receipt[i].link, ProofOf(i, e))

\* A proof arrives.
LEMMA ReceiveProofStep ==
    ASSUME ReceiptsInv, NEW i \in Sent, NEW e \in BOOLEAN,
           NEW C, IsConcluded(C, i, e), ReceiveProof(i, C)
    PROVE  /\ C \in SUBSET Open /\ (i \in C => C = {i})
           /\ i \notin C => C = {}
           /\ ReceiptsInv' /\ Len(receipt)' = Len(receipt)
           /\ Sent' = Sent /\ Open' = Open \ C
           /\ \A j \in Sent : /\ receipt'[j].for = receipt[j].for
                              /\ j \in C => receipt'[j].status = "DELIVERED"
                              /\ j \notin C => receipt'[j] = receipt[j]
  <1> DEFINE K == {k \in DOMAIN receipts : receipts[k] \notin C}
             st == [j \in C |-> "DELIVERED"]
  <1>1. C = IF i \in Open /\ ~receipt[i].link THEN {i} ELSE {}
      <2>1. C = Proves(receipt[i].link, ProofOf(i, e))
          BY DEF IsConcluded
      <2> QED BY <2>1, ProvesFacts
  <1>2. /\ DOMAIN receipts = 1 .. Len(receipts) /\ DOMAIN told = Sent /\ Open \in SUBSET Sent
      BY SentFacts
  <1>3. /\ receipt' = [j \in Sent |-> IF j \in C THEN [receipt[j] EXCEPT !.status = "DELIVERED"]
                                                 ELSE receipt[j]]
        /\ receipts' = SubSeqAt(receipts, K)
        /\ told' = [j \in Sent |-> IF j \in C THEN [told[j] EXCEPT !.delivered = @ + 1]
                                              ELSE told[j]]
        /\ proved' = IF i \in Open /\ ~receipt[i].link THEN proved \union {i} ELSE proved
      BY DEF ReceiveProof, Conclude
  <1>4. C \in SUBSET Open
      BY <1>1
  <1>5. K \in SUBSET (1 .. Len(receipts))
        /\ \A k \in 1 .. Len(receipts) : k \in K <=> receipts[k] \notin C
      BY <1>2
  <1> HIDE DEF K
  <1>6. /\ IsTable(receipt', Sent)
        /\ \A j \in Sent : receipt'[j] = IF j \in C THEN WithStatus(receipt[j], st[j])
                                                ELSE receipt[j]
        /\ \A j \in C : st[j] = "DELIVERED"
      BY <1>3 DEF IsTable, WithStatus
  <1>7. ASSUME NEW j \in Sent PROVE told'[j] = IF j \in C THEN ToldOf(st[j]) ELSE told[j]
      <2>1. CASE j \in C
          <3>1. told[j] = ToldOf("SENT")
              BY <1>4, <2>1 DEF ReceiptsInv, Open
          <3>2. told[j] = [delivered |-> 0, timed_out |-> 0]
              BY <3>1 DEF ToldOf
          <3>3. told'[j] = [delivered |-> 1, timed_out |-> 0]
              BY <1>3, <2>1, <3>2
          <3> QED BY <1>6, <2>1, <3>3 DEF ToldOf
      <2> QED BY <1>3, <2>1
  <1> HIDE DEF st
  <1>8. proved' = proved \union { j \in C : st[j] = "DELIVERED" }
      BY <1>1, <1>3, <1>6
  <1>9. IsTable(told', Sent)
      BY <1>3 DEF IsTable
  <1>10. \A j \in C : st[j] \in {"DELIVERED", "FAILED", "CULLED"}
      BY <1>6
  <1>11. /\ ReceiptsInv' /\ Len(receipt)' = Len(receipt)
         /\ Sent' = Sent /\ Open' = Open \ C
         /\ \A j \in Sent : /\ receipt'[j].for = receipt[j].for
                            /\ j \in C => receipt'[j].status = st[j]
                            /\ j \notin C => receipt'[j] = receipt[j]
      <2>1. receipts' = SubSeqAt(receipts, K)
          BY <1>3
      <2>2. \A j \in Sent : told'[j] = IF j \in C THEN ToldOf(st[j]) ELSE told[j]
          BY <1>7
      <2>3. /\ K \in SUBSET (1 .. Len(receipts)) /\ IsTable(receipt', Sent) /\ IsTable(told', Sent)
            /\ C \in SUBSET Open
          BY <1>4, <1>5, <1>6, <1>9
      <2>4. \A k \in 1 .. Len(receipts) : k \in K <=> receipts[k] \notin C
          BY <1>5
      <2>5. \A j \in Sent : receipt'[j] = IF j \in C THEN WithStatus(receipt[j], st[j])
                                                  ELSE receipt[j]
          BY <1>6
      <2> QED BY <1>8, <1>10, <2>1, <2>2, <2>3, <2>4, <2>5, ConcludeStep, ZenonT(30)
  <1> QED BY <1>1, <1>4, <1>6, <1>11

\* The receipts pass of jobs().
LEMMA ReceiptsPassStep ==
    ASSUME ReceiptsInv, NEW due, ReceiptsPass(due)
    PROVE  /\ Culled \union due \in SUBSET Open
           /\ ReceiptsInv' /\ Len(receipt)' = Len(receipt)
           /\ Sent' = Sent /\ Open' = Open \ (Culled \union due)
           /\ \A j \in Sent : /\ receipt'[j].for = receipt[j].for
                              /\ j \notin Culled \union due => receipt'[j] = receipt[j]
  <1> DEFINE R == Len(receipts)
             C == Culled \union due
             K == {k \in DOMAIN receipts : k > Excess /\ receipts[k] \notin due}
             st == [j \in C |-> IF j \in Culled THEN "CULLED" ELSE "FAILED"]
  <1>1. /\ DOMAIN receipts = 1 .. R /\ R \in Nat /\ DOMAIN told = Sent /\ Open \in SUBSET Sent
      BY SentFacts
  <1>2. receipts \in Seq(Sent) /\ IsInjective(receipts) /\ ToSet(receipts) = Open
      BY DEF ReceiptsInv, Listed
  <1>3. Excess \in Nat /\ Excess <= R
      BY <1>1, ReceiptsAssumption DEF Excess
  <1> HIDE DEF R
  <1>4. Culled = { receipts[k] : k \in 1 .. Excess }
      <2> DEFINE t == SubSeq(receipts, 1, Excess)
      <2>1. \A k \in 1 .. Excess : receipts[k] \in Sent
          BY <1>1, <1>2, <1>3 DEF R
      <2>2. Len(t) = Excess /\ DOMAIN t = 1 .. Excess /\ \A k \in 1 .. Excess : t[k] = receipts[k]
          BY <1>3, <2>1, SubSeqProperties
      <2> HIDE DEF t
      <2>3. ToSet(t) = { receipts[k] : k \in 1 .. Excess }
          BY <2>2 DEF ToSet
      <2> QED BY <2>3 DEF Culled, t
  <1>5. /\ due \subseteq Open
        /\ receipt' = [j \in Sent |->
                     IF j \in Culled THEN [receipt[j] EXCEPT !.status = "CULLED"]
                     ELSE IF j \in due THEN [receipt[j] EXCEPT !.status = "FAILED"]
                     ELSE receipt[j]]
        /\ receipts' = SubSeqAt(receipts, K)
        /\ told' = [j \in Sent |->
                  IF j \in C THEN [told[j] EXCEPT !.timed_out = @ + 1] ELSE told[j]]
        /\ proved' = proved
      BY <1>2 DEF ReceiptsPass, Remaining, Listed
  <1>6. C \in SUBSET Open
      <2>1. \A k \in 1 .. Excess : k \in 1 .. R
          BY <1>1, <1>3
      <2>2. \A k \in 1 .. R : receipts[k] \in ToSet(receipts)
          BY <1>1, Zenon DEF ToSet
      <2> QED BY <1>2, <1>4, <1>5, <2>1, <2>2
  <1>7. K \in SUBSET (1 .. R) /\ \A k \in 1 .. R : k \in K <=> receipts[k] \notin C
      <2>1. K \in SUBSET (1 .. R)
          BY <1>1
      <2>2. ASSUME NEW k \in 1 .. R PROVE k > Excess <=> receipts[k] \notin Culled
          <3>1. CASE k \in 1 .. Excess
              BY <1>1, <1>3, <1>4, <3>1
          <3>2. CASE k \notin 1 .. Excess
              <4>1. k > Excess
                  BY <1>1, <1>3, <3>2
              <4>2. ASSUME NEW m \in 1 .. Excess PROVE receipts[m] # receipts[k]
                  <5>1. m \in 1 .. R /\ m # k
                      BY <1>1, <1>3, <3>2
                  <5> QED BY <1>1, <1>2, <5>1 DEF IsInjective
              <4> QED BY <1>4, <4>1, <4>2
          <3> QED BY <3>1, <3>2
      <2>3. ASSUME NEW k \in 1 .. R PROVE k \in K <=> receipts[k] \notin C
          BY <1>1, <2>2
      <2> QED BY <2>1, <2>3
  <1> HIDE DEF K
  <1>8. \A j \in C : /\ st[j] \in {"DELIVERED", "FAILED", "CULLED"} /\ st[j] # "DELIVERED"
                     /\ ToldOf(st[j]) = [delivered |-> 0, timed_out |-> 1]
      BY DEF ToldOf
  <1>9. /\ IsTable(receipt', Sent)
        /\ \A j \in Sent : receipt'[j] = IF j \in C THEN WithStatus(receipt[j], st[j])
                                                ELSE receipt[j]
      BY <1>5 DEF IsTable, WithStatus
  <1>10. ASSUME NEW j \in Sent PROVE told'[j] = IF j \in C THEN ToldOf(st[j]) ELSE told[j]
      <2>1. CASE j \in C
          <3>1. told[j] = ToldOf("SENT")
              BY <1>6, <2>1 DEF ReceiptsInv, Open
          <3>2. told[j] = [delivered |-> 0, timed_out |-> 0]
              BY <3>1 DEF ToldOf
          <3>3. told'[j] = [delivered |-> 0, timed_out |-> 1]
              BY <1>5, <2>1, <3>2
          <3> QED BY <1>8, <2>1, <3>3
      <2> QED BY <1>5, <2>1
  <1> HIDE DEF st, C
  <1>11. proved' = proved \union { j \in C : st[j] = "DELIVERED" }
      BY <1>5, <1>8
  <1>12. IsTable(told', Sent)
      BY <1>5 DEF IsTable
  <1>13. /\ ReceiptsInv' /\ Len(receipt)' = Len(receipt)
         /\ Sent' = Sent /\ Open' = Open \ C
         /\ \A j \in Sent : /\ receipt'[j].for = receipt[j].for
                            /\ j \in C => receipt'[j].status = st[j]
                            /\ j \notin C => receipt'[j] = receipt[j]
      BY <1>5, <1>6, <1>7, <1>8, <1>9, <1>10, <1>11, <1>12, ConcludeStep, ZenonT(30) DEF R
  <1> QED BY <1>6, <1>13 DEF C

-----------------------------------------------------------------------------
(* The probes.                                                             *)

\* The type of what the probes keep; a probe is answered after it is sent.
ProbesTypeOK ==
    /\ stats \in [Neighbor -> NeighborStat]
    /\ via \in Neighbor \union {"none"}
    /\ verdict \in {"unknown", "responsive", "unresponsive"}
    /\ blamed \in SUBSET Neighbor /\ disturbed \in SUBSET Neighbor
    /\ answered \in [Neighbor -> 0 .. Len(receipt)]
    /\ events \in 0 .. MaxEvents

\* A probe is noted as pending only while one of the neighbour's is open.
NotedIsOpen ==
    \A n \in Neighbor : stats[n].pending => stats[n].tracked /\ OpenProbes(n) # {}

\* The scan has one probe of a neighbour open, sent after the last answer.
OneIsOpen ==
    \A n \in Neighbor \ disturbed : \A i \in OpenProbes(n) :
        /\ stats[n].pending /\ answered[n] < i
        /\ \A j \in OpenProbes(n) : i = j

\* The inductive invariant.
ProbeInv == ReceiptsInv /\ ProbesTypeOK /\ NotedIsOpen /\ DemotedIsBlamed /\ OneIsOpen

\* Most steps leave the probes alone: they change no flag of a neighbour that was
\* not disturbed.
LEMMA QuietStep ==
    ASSUME ProbeInv, ReceiptsInv', ProbesTypeOK', DemotedIsBlamed',
           \A n \in Neighbor : OpenProbes(n)' = OpenProbes(n),
           disturbed \subseteq disturbed', answered' = answered,
           \A n \in Neighbor : stats'[n].pending => stats[n].pending /\ stats'[n].tracked,
           \A n \in Neighbor \ disturbed' : stats[n].pending => stats'[n].pending
    PROVE  ProbeInv'
  <1>1. NotedIsOpen'
      <2> SUFFICES ASSUME NEW n \in Neighbor, stats'[n].pending
                   PROVE  stats'[n].tracked /\ OpenProbes(n)' # {}
          BY DEF NotedIsOpen
      <2>1. stats[n].pending /\ stats'[n].tracked
          OBVIOUS
      <2>2. OpenProbes(n) # {}
          BY <2>1 DEF ProbeInv, NotedIsOpen
      <2> QED BY <2>1, <2>2
  <1>2. OneIsOpen'
      <2>1. ASSUME NEW n \in Neighbor \ disturbed', NEW i \in OpenProbes(n)
            PROVE  /\ stats'[n].pending /\ answered'[n] < i
                   /\ \A j \in OpenProbes(n) : i = j
          <3>1. n \in Neighbor \ disturbed
              OBVIOUS
          <3>2. stats[n].pending /\ answered[n] < i /\ \A j \in OpenProbes(n) : i = j
              BY <3>1 DEF ProbeInv, OneIsOpen
          <3> QED BY <3>2
      <2> QED BY <2>1 DEF OneIsOpen
  <1> QED BY <1>1, <1>2 DEF ProbeInv

\* Where the receipts stay as they are, so do the open probes.
LEMMA SameReceipts ==
    ASSUME ProbeInv, UNCHANGED receiptVars
    PROVE  /\ ReceiptsInv' /\ Len(receipt)' = Len(receipt)
           /\ \A n \in Neighbor : OpenProbes(n)' = OpenProbes(n)
  <1>1. /\ receipt' = receipt /\ receipts' = receipts /\ told' = told /\ proved' = proved
      BY DEF receiptVars
  <1>2. Open' = Open
      BY <1>1 DEF Open, Sent
  <1>3. ReceiptsInv'
      BY <1>1, <1>2 DEF ProbeInv, ReceiptsInv, Sent, Listed
  <1>4. \A n \in Neighbor : OpenProbes(n)' = OpenProbes(n)
      BY <1>1, <1>2 DEF OpenProbes
  <1> QED BY <1>1, <1>3, <1>4

\* No statistics are statistics.
LEMMA AbsentFacts == Absent \in NeighborStat /\ ~Absent.pending
  BY ProbeAssumption DEF Absent, NeighborStat

\* outbound() of the application's packets: no probe among them.
LEMMA SendPacketStep ==
    ASSUME ProbeInv, NEW link \in BOOLEAN, SendPacket(link)
    PROVE  ProbeInv'
  <1> DEFINE L == Len(receipt)
             ps == <<"application">>
             routes == <<IF via = "none" THEN <<"end">> ELSE Route[via]>>
  <1>1. /\ ReceiptsInv /\ ProbesTypeOK /\ DemotedIsBlamed
      BY DEF ProbeInv
  <1>2. /\ via' = via /\ verdict' = verdict /\ blamed' = blamed /\ disturbed' = disturbed
        /\ answered' = answered /\ events' = events
        /\ NewReceipts(ps, link, routes)
      BY DEF SendPacket
  <1>3. ps \in Seq(Purpose) /\ Len(ps) = 1 /\ ps[1] = "application"
      BY ProbeAssumption
  <1>4. \A k \in 1 .. Len(ps) : Len(routes[k]) \in Nat \ {0}
      <2>1. via # "none" => via \in Neighbor
          BY <1>1 DEF ProbesTypeOK
      <2>2. Len(<<"end">>) \in Nat \ {0}
          OBVIOUS
      <2>3. Len(routes[1]) \in Nat \ {0}
          BY <2>1, <2>2, RouteFacts
      <2> QED BY <1>3, <2>3
  <1> HIDE DEF ps, routes
  <1>5. /\ ReceiptsInv'
        /\ Len(receipt)' = Len(receipt) + Len(ps)
        /\ \A i \in Sent : receipt'[i] = receipt[i]
        /\ \A k \in 1 .. Len(ps) : receipt'[Len(receipt) + k].for = ps[k]
        /\ Open' = Open \union { Len(receipt) + k : k \in 1 .. Len(ps) }
      BY <1>1, <1>2, <1>3, <1>4, NewReceiptsStep
  <1>6. L \in Nat /\ Sent = 1 .. L /\ Open \in SUBSET Sent
      BY <1>1, SentFacts
  <1>7. Len(receipt)' = L + 1 /\ receipt'[L + 1].for = "application" /\ Open' = Open \union {L + 1}
      BY <1>3, <1>5
  <1>8. ASSUME NEW n \in Neighbor PROVE OpenProbes(n)' = OpenProbes(n)
      <2>1. n # "application"
          BY ProbeAssumption
      <2>2. \A i \in Open : receipt'[i].for = receipt[i].for
          BY <1>5, <1>6
      <2> QED BY <1>7, <2>1, <2>2 DEF OpenProbes
  <1>9. /\ stats' \in [Neighbor -> NeighborStat]
        /\ \A n \in Neighbor : /\ stats'[n].pending = stats[n].pending
                               /\ stats[n].tracked => stats'[n].tracked
      <2>0. stats \in [Neighbor -> NeighborStat]
          BY <1>1 DEF ProbesTypeOK
      <2>1. CASE stats' = stats
          BY <2>0, <2>1
      <2>2. CASE ~(via = "none" \/ link)
          <3>1. via \in Neighbor
              BY <1>1, <2>2 DEF ProbesTypeOK
          <3>2. PICK credit \in {FALSE, stats[via].credit} :
                      stats' = [stats EXCEPT ![via] = Forwarded(@, credit)]
              BY <2>2 DEF SendPacket
          <3>3. stats[via] \in NeighborStat /\ credit \in BOOLEAN
              BY <2>0, <3>1, <3>2 DEF NeighborStat
          <3> DEFINE s == stats[via]
                     f == IF s.forwarded < MIN_PKTS THEN s.forwarded + 1 ELSE s.forwarded
                     t == [s EXCEPT !.tracked = TRUE, !.forwarded = f, !.age = "recent",
                                    !.credit = credit]
          <3>4. Forwarded(s, credit) = t
              BY DEF Forwarded
          <3>5. f \in 0 .. MIN_PKTS
              BY <3>3, ProbeAssumption DEF NeighborStat
          <3>6. t.pending = s.pending /\ t.tracked
              BY <3>3 DEF NeighborStat
          <3>7. t \in NeighborStat
              BY <3>3, <3>5 DEF NeighborStat
          <3> HIDE DEF t
          <3> QED BY <2>0, <3>1, <3>2, <3>4, <3>6, <3>7
      <2> QED BY <2>1, <2>2 DEF SendPacket
  <1>10. ProbesTypeOK'
      <2>1. answered \in [Neighbor -> 0 .. L + 1]
          <3>1. \A x \in 0 .. L : x \in 0 .. L + 1
              BY <1>6
          <3>2. answered \in [Neighbor -> 0 .. L]
              BY <1>1 DEF ProbesTypeOK
          <3> HIDE DEF L
          <3> QED BY <3>1, <3>2
      <2> QED BY <1>1, <1>2, <1>7, <1>9, <2>1 DEF ProbesTypeOK
  <1>11. DemotedIsBlamed'
      BY <1>1, <1>2 DEF DemotedIsBlamed
  <1>12. \A n \in Neighbor : stats'[n].pending => stats[n].pending /\ stats'[n].tracked
      BY <1>9 DEF ProbeInv, NotedIsOpen
  <1>13. \A n \in Neighbor \ disturbed' : stats[n].pending => stats'[n].pending
      BY <1>9
  <1> QED BY <1>2, <1>5, <1>8, <1>10, <1>11, <1>12, <1>13, QuietStep

\* The steps that change the statistics of one neighbour, or the path.
LEMMA QuietActions ==
    ASSUME ProbeInv,
           \/ \E n \in Neighbor : record_neighbor_proof(n) \/ Age(n) \/ DropStats(n)
           \/ \E n \in Neighbor \union {"none"} : InstallPath(n)
    PROVE  ProbeInv'
  <1>1. ReceiptsInv /\ ProbesTypeOK /\ DemotedIsBlamed /\ stats \in [Neighbor -> NeighborStat]
      BY DEF ProbeInv, ProbesTypeOK
  <1>2. ASSUME NEW n \in Neighbor, record_neighbor_proof(n) \/ Age(n) \/ DropStats(n)
        PROVE  ProbeInv'
      <2>1. /\ UNCHANGED receiptVars /\ via' = via /\ verdict' = verdict /\ blamed' = blamed
            /\ answered' = answered
            /\ disturbed' \in {disturbed, disturbed \union {n}}
            /\ events' \in 0 .. MaxEvents
          BY <1>1, <1>2, ProbeAssumption, SMTT(30)
             DEF record_neighbor_proof, Age, DropStats, Happens, ProbesTypeOK
      <2>2. PICK s \in NeighborStat :
                /\ stats' = [stats EXCEPT ![n] = s]
                /\ s.pending => stats[n].pending /\ s.tracked
                /\ n \notin disturbed' /\ stats[n].pending => s.pending
          <3> DEFINE o == stats[n]
          <3>0. o \in NeighborStat
              BY <1>1
          <3>1. CASE record_neighbor_proof(n)
              <4> DEFINE s == [o EXCEPT !.credit = TRUE]
              <4>1. stats' = [stats EXCEPT ![n] = s] /\ o.tracked
                  BY <3>1 DEF record_neighbor_proof
              <4>2. s \in NeighborStat
                  BY <3>0 DEF NeighborStat
              <4>3. s.pending = o.pending /\ s.tracked = o.tracked
                  BY <3>0 DEF NeighborStat
              <4> QED BY <4>1, <4>2, <4>3
          <3>2. CASE Age(n)
              <4> DEFINE a == IF o.age = "recent" THEN "idle" ELSE "stale"
                         s == [o EXCEPT !.age = a]
                         t == [o EXCEPT !.limited = FALSE]
              <4>1. o.tracked /\ (stats' = [stats EXCEPT ![n] = s] \/ stats' = [stats EXCEPT ![n] = t])
                  <5>1. \/ stats' = [stats EXCEPT ![n].age = IF @ = "recent" THEN "idle" ELSE "stale"]
                        \/ stats' = [stats EXCEPT ![n].limited = FALSE]
                      BY <3>2 DEF Age
                  <5>2. o.tracked
                      BY <3>2 DEF Age
                  <5> QED BY <5>1, <5>2
              <4>2. s \in NeighborStat /\ t \in NeighborStat
                  BY <3>0 DEF NeighborStat
              <4>3. /\ s.pending = o.pending /\ s.tracked = o.tracked
                    /\ t.pending = o.pending /\ t.tracked = o.tracked
                  BY <3>0 DEF NeighborStat
              <4> QED BY <4>1, <4>2, <4>3
          <3>3. CASE DropStats(n)
              <4>1. stats' = [stats EXCEPT ![n] = Absent] /\ n \in disturbed'
                  BY <3>3 DEF DropStats
              <4> QED BY <4>1, AbsentFacts
          <3> QED BY <1>2, <3>1, <3>2, <3>3
      <2>3. /\ ReceiptsInv' /\ Len(receipt)' = Len(receipt)
            /\ \A m \in Neighbor : OpenProbes(m)' = OpenProbes(m)
          BY <2>1, SameReceipts
      <2>4. ProbesTypeOK'
          BY <1>1, <2>1, <2>2, <2>3 DEF ProbesTypeOK
      <2>5. DemotedIsBlamed'
          BY <1>1, <2>1 DEF DemotedIsBlamed
      <2>6. \A m \in Neighbor : stats'[m].pending => stats[m].pending /\ stats'[m].tracked
          BY <1>1, <2>2 DEF ProbeInv, NotedIsOpen
      <2>7. \A m \in Neighbor \ disturbed' : stats[m].pending => stats'[m].pending
          BY <1>1, <2>2
      <2>8. disturbed \subseteq disturbed'
          BY <2>1
      <2> QED BY <2>1, <2>3, <2>4, <2>5, <2>6, <2>7, <2>8, QuietStep
  <1>3. ASSUME NEW n \in Neighbor \union {"none"}, InstallPath(n) PROVE ProbeInv'
      <2>1. /\ UNCHANGED receiptVars /\ via' = n /\ verdict' = "unknown" /\ blamed' = {}
            /\ answered' = answered /\ stats' = stats /\ disturbed' = disturbed
            /\ events' \in 0 .. MaxEvents
          BY <1>1, <1>3, ProbeAssumption DEF InstallPath, Happens, ProbesTypeOK
      <2>3. /\ ReceiptsInv' /\ Len(receipt)' = Len(receipt)
            /\ \A m \in Neighbor : OpenProbes(m)' = OpenProbes(m)
          BY <2>1, SameReceipts
      <2>4. ProbesTypeOK'
          BY <1>1, <2>1, <2>3 DEF ProbesTypeOK
      <2>5. DemotedIsBlamed'
          BY <2>1 DEF DemotedIsBlamed
      <2>6. \A m \in Neighbor : stats'[m].pending => stats[m].pending /\ stats'[m].tracked
          BY <2>1 DEF ProbeInv, NotedIsOpen
      <2>7. \A m \in Neighbor \ disturbed' : stats[m].pending => stats'[m].pending
          BY <2>1
      <2>8. disturbed \subseteq disturbed'
          BY <2>1
      <2> QED BY <2>1, <2>3, <2>4, <2>5, <2>6, <2>7, <2>8, QuietStep
  <1> QED BY <1>2, <1>3

\* _dispatch_neighbor_probe(): one probe for each of the neighbours that are known,
\* of which none is noted as pending but for those just disturbed.
LEMMA DispatchStep ==
    ASSUME ProbeInv, NEW base \in [Neighbor -> NeighborStat],
           \A n \in Neighbor : /\ base[n].pending = stats[n].pending
                               /\ base[n].tracked = stats[n].tracked,
           NEW ns \in SUBSET Neighbor, Dispatch(base, ns),
           via' = via, verdict' = verdict, blamed' = blamed, answered' = answered,
           disturbed \subseteq disturbed', disturbed' \in SUBSET Neighbor,
           events' \in 0 .. MaxEvents,
           \A n \in ns : n \in disturbed' \/ ~stats[n].pending
    PROVE  ProbeInv'
  <1> DEFINE L == Len(receipt)
             S == ns \intersect Known
             ps == SetToSeq(S)
             routes == [k \in DOMAIN ps |-> <<ps[k]>>]
  <1>1. ReceiptsInv /\ ProbesTypeOK /\ DemotedIsBlamed /\ stats \in [Neighbor -> NeighborStat]
      BY DEF ProbeInv, ProbesTypeOK
  <1>2. S \in SUBSET Neighbor /\ S \in SUBSET Purpose /\ S \in SUBSET ns
      BY ProbeAssumption
  <1>3. IsFiniteSet(S)
      <2>1. IsFiniteSet(Neighbor)
          BY ProbeAssumption
      <2> QED BY <1>2, <2>1, FS_Subset
  <1>4. ps \in Seq(S) /\ IsInjective(ps) /\ ToSet(ps) = S
      BY <1>3, SetToSeqFacts
  <1>5. /\ NewReceipts(ps, FALSE, routes)
        /\ stats' = [n \in Neighbor |->
                       IF n \in S
                       THEN [base[n] EXCEPT !.tracked = TRUE, !.pending = TRUE, !.limited = TRUE]
                       ELSE base[n]]
      BY <1>4 DEF Dispatch
  <1>6. DOMAIN ps = 1 .. Len(ps) /\ Len(ps) \in Nat
      BY <1>4
  <1> HIDE DEF S
  <1>7. ps \in Seq(Purpose)
      BY <1>2, <1>4
  <1>8. \A k \in 1 .. Len(ps) : Len(routes[k]) \in Nat \ {0}
      BY <1>6
  <1> HIDE DEF ps, routes
  <1>9. /\ ReceiptsInv'
        /\ Len(receipt)' = Len(receipt) + Len(ps)
        /\ \A i \in Sent : receipt'[i] = receipt[i]
        /\ \A k \in 1 .. Len(ps) : receipt'[Len(receipt) + k].for = ps[k]
        /\ Open' = Open \union { Len(receipt) + k : k \in 1 .. Len(ps) }
      BY <1>1, <1>5, <1>7, <1>8, NewReceiptsStep
  <1>10. L \in Nat /\ Sent = 1 .. L /\ Open \in SUBSET Sent
      BY <1>1, SentFacts
  <1>11. ASSUME NEW n \in Neighbor \ S PROVE OpenProbes(n)' = OpenProbes(n)
      <2>1. \A i \in Open : receipt'[i].for = receipt[i].for
          BY <1>9, <1>10
      <2>2. \A k \in 1 .. Len(ps) : ps[k] \in S
          BY <1>4
      <2>3. \A k \in 1 .. Len(ps) : receipt'[Len(receipt) + k].for # n
          BY <1>9, <2>2
      <2> QED BY <1>9, <2>1, <2>3 DEF OpenProbes
  <1>12. ASSUME NEW n \in S
         PROVE  \E m \in 1 .. Len(ps) : OpenProbes(n)' = OpenProbes(n) \union {L + m}
      <2>1. PICK m \in 1 .. Len(ps) : ps[m] = n
          BY <1>4, <1>6, Zenon DEF ToSet
      <2>2. \A k \in 1 .. Len(ps) : ps[k] = n <=> k = m
          BY <1>4, <1>6, <2>1 DEF IsInjective
      <2>3. \A i \in Open : receipt'[i].for = receipt[i].for
          BY <1>9, <1>10
      <2>4. \A k \in 1 .. Len(ps) : receipt'[Len(receipt) + k].for = n <=> k = m
          BY <1>9, <2>2
      <2>5. OpenProbes(n)' = OpenProbes(n) \union {Len(receipt) + m}
          <3>1. OpenProbes(n)' = { i \in Open' : receipt'[i].for = n }
              BY DEF OpenProbes
          <3>2. OpenProbes(n) = { i \in Open : receipt[i].for = n }
              BY DEF OpenProbes
          <3>3. ASSUME NEW i \in OpenProbes(n)' PROVE i \in OpenProbes(n) \union {Len(receipt) + m}
              <4>1. i \in Open \/ \E k \in 1 .. Len(ps) : i = Len(receipt) + k
                  BY <1>9, <3>1
              <4> QED BY <2>3, <2>4, <3>1, <3>2, <4>1
          <3>4. ASSUME NEW i \in OpenProbes(n) PROVE i \in OpenProbes(n)'
              BY <1>9, <2>3, <3>1, <3>2
          <3>5. Len(receipt) + m \in OpenProbes(n)'
              BY <1>9, <2>4, <3>1
          <3> QED BY <3>3, <3>4, <3>5
      <2> QED BY <2>5
  <1>13. ASSUME NEW n \in Neighbor
         PROVE  /\ stats'[n] \in NeighborStat
                /\ n \in S => stats'[n].tracked /\ stats'[n].pending
                /\ n \notin S => /\ stats'[n].tracked = stats[n].tracked
                                 /\ stats'[n].pending = stats[n].pending
      <2>1. base[n] \in NeighborStat
          OBVIOUS
      <2>2. CASE n \in S
          <3> DEFINE t == [base[n] EXCEPT !.tracked = TRUE, !.pending = TRUE, !.limited = TRUE]
          <3>1. stats'[n] = t
              BY <1>5, <2>2
          <3>2. t \in NeighborStat
              BY <2>1 DEF NeighborStat
          <3>3. t.tracked /\ t.pending
              BY <2>1 DEF NeighborStat
          <3> HIDE DEF t
          <3> QED BY <2>2, <3>1, <3>2, <3>3
      <2>3. CASE n \notin S
          BY <1>5, <2>1, <2>3
      <2> QED BY <2>2, <2>3
  <1>14. stats' \in [Neighbor -> NeighborStat]
      BY <1>5, <1>13
  <1>15. ProbesTypeOK'
      <2>1. answered \in [Neighbor -> 0 .. L + Len(ps)]
          <3>1. \A x \in 0 .. L : x \in 0 .. L + Len(ps)
              BY <1>6, <1>10
          <3>2. answered \in [Neighbor -> 0 .. L]
              BY <1>1 DEF ProbesTypeOK
          <3> HIDE DEF L
          <3> QED BY <3>1, <3>2
      <2> QED BY <1>1, <1>9, <1>14, <2>1 DEF ProbesTypeOK
  <1>16. NotedIsOpen'
      <2> SUFFICES ASSUME NEW n \in Neighbor, stats'[n].pending
                   PROVE  stats'[n].tracked /\ OpenProbes(n)' # {}
          BY DEF NotedIsOpen
      <2>1. CASE n \in S
          BY <1>12, <1>13, <2>1
      <2>2. CASE n \notin S
          <3>1. stats[n].tracked /\ OpenProbes(n) # {}
              BY <1>13, <2>2 DEF ProbeInv, NotedIsOpen
          <3> QED BY <1>11, <1>13, <2>2, <3>1
      <2> QED BY <2>1, <2>2
  <1>17. DemotedIsBlamed'
      BY <1>1 DEF DemotedIsBlamed
  <1>18. OneIsOpen'
      <2>1. ASSUME NEW n \in Neighbor \ disturbed'
            PROVE  \A i \in OpenProbes(n)' :
                       /\ stats'[n].pending /\ answered'[n] < i
                       /\ \A j \in OpenProbes(n)' : i = j
          <3>0. n \in Neighbor \ disturbed
              OBVIOUS
          <3>1. \A i \in OpenProbes(n) : /\ stats[n].pending /\ answered[n] < i
                                         /\ \A j \in OpenProbes(n) : i = j
              BY <3>0 DEF ProbeInv, OneIsOpen
          <3>2. CASE n \in S
              <4>1. ~stats[n].pending
                  BY <1>2, <3>2
              <4>2. OpenProbes(n) = {}
                  BY <3>1, <4>1
              <4>3. PICK m \in 1 .. Len(ps) : OpenProbes(n)' = OpenProbes(n) \union {L + m}
                  BY <1>12, <3>2
              <4>4. answered[n] \in 0 .. L
                  BY <1>1, <3>0 DEF ProbesTypeOK
              <4>5. answered[n] < L + m
                  BY <1>6, <1>10, <4>4
              <4> QED BY <1>13, <3>0, <3>2, <4>2, <4>3, <4>5
          <3>3. CASE n \notin S
              BY <1>11, <1>13, <3>0, <3>1, <3>3
          <3> QED BY <3>2, <3>3
      <2> QED BY <2>1 DEF OneIsOpen
  <1> QED BY <1>9, <1>15, <1>16, <1>17, <1>18 DEF ProbeInv

\* The scan probes neighbours of which no probe is noted as pending.
LEMMA ScanStep ==
    ASSUME ProbeInv, scan_neighbor_stats PROVE ProbeInv'
  <1> DEFINE base == [n \in Neighbor |->
                        IF stats[n].age = "stale"
                        THEN [stats[n] EXCEPT !.forwarded = 0] ELSE stats[n]]
             suspects == { n \in Neighbor : Suspicious(base[n]) }
  <1>1. /\ Dispatch(base, suspects) /\ via' = via /\ verdict' = verdict /\ blamed' = blamed
        /\ disturbed' = disturbed /\ answered' = answered /\ events' = events
      BY DEF scan_neighbor_stats
  <1>2. ProbesTypeOK /\ stats \in [Neighbor -> NeighborStat]
      BY DEF ProbeInv, ProbesTypeOK
  <1>3. ASSUME NEW n \in Neighbor
        PROVE  /\ base[n] \in NeighborStat /\ base[n].pending = stats[n].pending
               /\ base[n].tracked = stats[n].tracked
      <2>1. stats[n] \in NeighborStat /\ 0 \in 0 .. MIN_PKTS
          BY <1>2, ProbeAssumption
      <2> DEFINE t == [stats[n] EXCEPT !.forwarded = 0]
      <2>2. t \in NeighborStat
          BY <2>1 DEF NeighborStat
      <2>3. t.pending = stats[n].pending /\ t.tracked = stats[n].tracked
          BY <2>1 DEF NeighborStat
      <2>4. base[n] = t \/ base[n] = stats[n]
          OBVIOUS
      <2> HIDE DEF t, base
      <2> QED BY <2>1, <2>2, <2>3, <2>4
  <1>4. base \in [Neighbor -> NeighborStat]
      BY <1>3
  <1> HIDE DEF base
  <1>5. suspects \in SUBSET Neighbor /\ \A n \in suspects : ~stats[n].pending
      BY <1>3 DEF Suspicious
  <1> HIDE DEF suspects
  <1>6. disturbed' \in SUBSET Neighbor /\ events' \in 0 .. MaxEvents
      BY <1>1, <1>2 DEF ProbesTypeOK
  <1> QED BY <1>1, <1>3, <1>4, <1>5, <1>6, DispatchStep

\* A failed link has its next hop probed whatever probes are open.
LEMMA LinkFailsStep ==
    ASSUME ProbeInv, NEW n \in Neighbor, LinkFails(n) PROVE ProbeInv'
  <1>1. /\ Dispatch(stats, {n}) /\ via' = via /\ verdict' = verdict /\ blamed' = blamed
        /\ disturbed' = disturbed \union {n} /\ answered' = answered
        /\ events < MaxEvents /\ events' = events + 1
      BY DEF LinkFails, Happens
  <1>2. ProbesTypeOK /\ stats \in [Neighbor -> NeighborStat]
      BY DEF ProbeInv, ProbesTypeOK
  <1>3. disturbed' \in SUBSET Neighbor /\ events' \in 0 .. MaxEvents
      BY <1>1, <1>2, ProbeAssumption DEF ProbesTypeOK
  <1>4. disturbed \subseteq disturbed' /\ {n} \in SUBSET Neighbor /\ \A m \in {n} : m \in disturbed'
      BY <1>1
  <1> QED BY <1>1, <1>2, <1>3, <1>4, DispatchStep

\* Receipts that conclude leave the open probes of their neighbours.
LEMMA ConcludedProbes ==
    ASSUME NEW C, Open \in SUBSET Sent, Open' = Open \ C,
           \A j \in Sent : receipt'[j].for = receipt[j].for, NEW n
    PROVE  OpenProbes(n)' = OpenProbes(n) \ C
  <1>1. OpenProbes(n)' = { i \in Open' : receipt'[i].for = n }
      BY DEF OpenProbes
  <1>2. OpenProbes(n) = { i \in Open : receipt[i].for = n }
      BY DEF OpenProbes
  <1> QED BY <1>1, <1>2

\* A proof concludes at most the probe it is of, which clears the flag.
LEMMA ReceiveProofOfStep ==
    ASSUME ProbeInv, NEW i \in Sent, ReceiveProofOf(i) PROVE ProbeInv'
  <1> DEFINE n == receipt[i].for
  <1>0. PICK c \in { Proves(receipt[i].link, ProofOf(i, explicit)) : explicit \in BOOLEAN } :
            /\ ReceiveProof(i, c)
            /\ IF i \in c /\ n \in Neighbor
               THEN /\ stats' = IF stats[n].tracked
                                THEN [stats EXCEPT ![n].pending = FALSE,
                                                   ![n].forwarded = 0]
                                ELSE stats
                    /\ verdict' = IF via = n THEN "responsive" ELSE verdict
                    /\ answered' = [answered EXCEPT ![n] = i]
               ELSE UNCHANGED <<stats, verdict, answered>>
            /\ UNCHANGED <<via, blamed, disturbed, events>>
      BY DEF ReceiveProofOf
  <1>01. PICK e \in BOOLEAN : c = Proves(receipt[i].link, ProofOf(i, e))
      OBVIOUS
  <1>1. PICK C \in {Proves(receipt[i].link, ProofOf(i, e))} :
            /\ ReceiveProof(i, C)
            /\ IF i \in C /\ n \in Neighbor
               THEN /\ stats' = IF stats[n].tracked
                                THEN [stats EXCEPT ![n].pending = FALSE,
                                                   ![n].forwarded = 0]
                                ELSE stats
                    /\ verdict' = IF via = n THEN "responsive" ELSE verdict
                    /\ answered' = [answered EXCEPT ![n] = i]
               ELSE UNCHANGED <<stats, verdict, answered>>
            /\ UNCHANGED <<via, blamed, disturbed, events>>
      BY <1>0, <1>01
  <1>2. ReceiptsInv /\ ProbesTypeOK /\ DemotedIsBlamed /\ stats \in [Neighbor -> NeighborStat]
        /\ answered \in [Neighbor -> 0 .. Len(receipt)]
      BY DEF ProbeInv, ProbesTypeOK
  <1>3. /\ C \in SUBSET Open /\ (i \in C => C = {i})
        /\ i \notin C => C = {}
        /\ ReceiptsInv' /\ Len(receipt)' = Len(receipt)
        /\ Sent' = Sent /\ Open' = Open \ C
        /\ \A j \in Sent : /\ receipt'[j].for = receipt[j].for
                           /\ j \in C => receipt'[j].status = "DELIVERED"
                           /\ j \notin C => receipt'[j] = receipt[j]
      <2>1. ReceiveProof(i, C) /\ ReceiptsInv
          BY <1>1, <1>2
      <2>2. IsConcluded(C, i, e)
          BY DEF IsConcluded
      <2> QED BY <2>1, <2>2, ReceiveProofStep
  <1>4. Len(receipt) \in Nat /\ Sent = 1 .. Len(receipt) /\ Open \in SUBSET Sent
      BY <1>2, SentFacts
  <1>5. \A m : OpenProbes(m)' = OpenProbes(m) \ C
      BY <1>3, <1>4, ConcludedProbes
  <1>6. CASE ~(i \in C /\ n \in Neighbor)
      <2>1. UNCHANGED <<stats, verdict, answered, via, blamed, disturbed, events>>
          BY <1>1, <1>6
      <2>2. ProbesTypeOK'
          BY <1>2, <1>3, <2>1 DEF ProbesTypeOK
      <2>3. DemotedIsBlamed'
          BY <1>2, <2>1 DEF DemotedIsBlamed
      <2>4. ASSUME NEW m \in Neighbor PROVE OpenProbes(m)' = OpenProbes(m)
          <3>1. i \notin C \/ receipt[i].for # m
              BY <1>6
          <3>2. \A j \in OpenProbes(m) : receipt[j].for = m
              BY DEF OpenProbes
          <3>3. \A j \in OpenProbes(m) : j \notin C
              BY <1>3, <3>1, <3>2
          <3> QED BY <1>5, <3>3
      <2>5. \A m \in Neighbor : stats'[m].pending => stats[m].pending /\ stats'[m].tracked
          BY <2>1 DEF ProbeInv, NotedIsOpen
      <2>6. (\A m \in Neighbor \ disturbed' : stats[m].pending => stats'[m].pending)
            /\ disturbed \subseteq disturbed' /\ answered' = answered
          BY <2>1
      <2> QED BY <1>3, <2>2, <2>3, <2>4, <2>5, <2>6, QuietStep
  <1>7. CASE i \in C /\ n \in Neighbor
      <2>1. /\ C = {i} /\ i \in OpenProbes(n)
            /\ via' = via /\ blamed' = blamed /\ disturbed' = disturbed /\ events' = events
            /\ verdict' = IF via = n THEN "responsive" ELSE verdict
            /\ answered' = [answered EXCEPT ![n] = i]
          BY <1>1, <1>3, <1>7 DEF OpenProbes
      <2>2. PICK s \in NeighborStat :
                /\ stats' = [stats EXCEPT ![n] = s]
                /\ s.pending => s.tracked
                /\ s.pending => FALSE
          <3> DEFINE t == [stats[n] EXCEPT !.pending = FALSE, !.forwarded = 0]
          <3>1. stats[n] \in NeighborStat
              BY <1>2, <1>7
          <3>2. CASE stats[n].tracked
              <4>1. stats' = [stats EXCEPT ![n] = t]
                  BY <1>1, <1>7, <3>2
              <4>2. t \in NeighborStat /\ t.pending = FALSE
                  <5>1. 0 \in 0 .. MIN_PKTS
                      BY ProbeAssumption
                  <5> QED BY <3>1, <5>1 DEF NeighborStat
              <4> QED BY <4>1, <4>2
          <3>3. CASE ~stats[n].tracked
              <4>1. stats' = [stats EXCEPT ![n] = stats[n]]
                  BY <1>1, <1>2, <1>7, <3>3
              <4>2. ~stats[n].pending
                  BY <1>7, <3>3 DEF ProbeInv, NotedIsOpen
              <4> QED BY <3>1, <4>1, <4>2
          <3> QED BY <3>2, <3>3
      <2>3. ProbesTypeOK'
          <3>1. i \in 0 .. Len(receipt)
              BY <1>4
          <3> QED BY <1>2, <1>3, <1>7, <2>1, <2>2, <3>1 DEF ProbesTypeOK
      <2>4. DemotedIsBlamed'
          BY <1>2, <2>1 DEF DemotedIsBlamed
      <2> HIDE DEF n
      <2>5. ASSUME NEW m \in Neighbor, m # n
            PROVE  /\ OpenProbes(m)' = OpenProbes(m) /\ stats'[m] = stats[m]
                   /\ answered'[m] = answered[m]
          <3>1. \A j \in OpenProbes(m) : receipt[j].for = m
              BY DEF OpenProbes
          <3>2. i \notin OpenProbes(m)
              BY <2>5, <3>1 DEF n
          <3> QED BY <1>2, <1>5, <1>7, <2>1, <2>2, <2>5, <3>2
      <2>6. ~stats'[n].pending
          BY <1>2, <1>7, <2>2
      <2>7. NotedIsOpen'
          <3> SUFFICES ASSUME NEW m \in Neighbor, stats'[m].pending
                       PROVE  stats'[m].tracked /\ OpenProbes(m)' # {}
              BY DEF NotedIsOpen
          <3>1. m # n
              BY <2>6
          <3>2. stats[m].pending
              BY <2>5, <3>1
          <3> QED BY <2>5, <3>1, <3>2 DEF ProbeInv, NotedIsOpen
      <2>8. OneIsOpen'
          <3>1. ASSUME NEW m \in Neighbor \ disturbed'
                PROVE  \A k \in OpenProbes(m)' :
                           /\ stats'[m].pending /\ answered'[m] < k
                           /\ \A j \in OpenProbes(m)' : k = j
              <4>0. m \in Neighbor \ disturbed
                  BY <2>1
              <4>1. \A k \in OpenProbes(m) : /\ stats[m].pending /\ answered[m] < k
                                             /\ \A j \in OpenProbes(m) : k = j
                  BY <4>0 DEF ProbeInv, OneIsOpen
              <4>2. CASE m = n
                  <5>1. OpenProbes(m)' = {}
                      BY <1>5, <2>1, <4>1, <4>2
                  <5> QED BY <5>1
              <4>3. CASE m # n
                  BY <2>5, <4>1, <4>3
              <4> QED BY <4>2, <4>3
          <3> QED BY <3>1 DEF OneIsOpen
      <2> QED BY <1>3, <2>3, <2>4, <2>7, <2>8 DEF ProbeInv
  <1> QED BY <1>6, <1>7

\* The receipts pass clears the flag of every neighbour of which a probe concludes,
\* and holds the failure against the path that leads through it.
LEMMA PassStep ==
    ASSUME ProbeInv, receipts_pass PROVE ProbeInv'
  <1>1. PICK due \in SUBSET Listed :
            /\ ReceiptsPass(due)
            /\ \E ns \in {Neighbor \intersect ConcludedFor(due)} :
                  /\ stats' = [n \in Neighbor |->
                                 IF n \in ns THEN [stats[n] EXCEPT !.pending = FALSE]
                                             ELSE stats[n]]
                  /\ verdict' = Demoted(ns)
                  /\ blamed' = blamed \union ns
            /\ UNCHANGED <<via, disturbed, answered, events>>
      BY DEF receipts_pass
  <1> DEFINE C == Culled \union due
             ns == Neighbor \intersect { receipt[i].for : i \in C }
  <1>2. /\ stats' = [n \in Neighbor |->
                        IF n \in ns THEN [stats[n] EXCEPT !.pending = FALSE] ELSE stats[n]]
        /\ verdict' = IF via \in ns THEN "unresponsive" ELSE verdict
        /\ blamed' = blamed \union ns
        /\ via' = via /\ disturbed' = disturbed /\ answered' = answered /\ events' = events
      BY <1>1 DEF ConcludedFor, Demoted
  <1>3. ReceiptsInv /\ ProbesTypeOK /\ DemotedIsBlamed /\ stats \in [Neighbor -> NeighborStat]
      BY DEF ProbeInv, ProbesTypeOK
  <1>4. /\ C \in SUBSET Open
        /\ ReceiptsInv' /\ Len(receipt)' = Len(receipt)
        /\ Sent' = Sent /\ Open' = Open \ C
        /\ \A j \in Sent : /\ receipt'[j].for = receipt[j].for
                           /\ j \notin C => receipt'[j] = receipt[j]
      BY <1>1, <1>3, ReceiptsPassStep
  <1>5. Open \in SUBSET Sent
      BY <1>3, SentFacts
  <1> HIDE DEF C
  <1>6. \A m : OpenProbes(m)' = OpenProbes(m) \ C
      BY <1>4, <1>5, ConcludedProbes
  <1>7. ASSUME NEW m \in Neighbor
        PROVE  /\ m \in ns => OpenProbes(m) \intersect C # {}
               /\ m \notin ns => OpenProbes(m)' = OpenProbes(m)
      <2>1. OpenProbes(m) = { j \in Open : receipt[j].for = m }
          BY DEF OpenProbes
      <2>2. CASE m \in ns
          BY <1>4, <2>1, <2>2
      <2>3. CASE m \notin ns
          <3>1. \A j \in C : receipt[j].for # m
              BY <2>3
          <3> QED BY <1>6, <2>1, <2>3, <3>1
      <2> QED BY <2>2, <2>3
  <1>71. ns \in SUBSET Neighbor
      OBVIOUS
  <1> HIDE DEF ns
  <1>8. ASSUME NEW m \in Neighbor
        PROVE  /\ stats'[m] \in NeighborStat /\ stats'[m].tracked = stats[m].tracked
               /\ m \in ns => ~stats'[m].pending
               /\ m \notin ns => stats'[m].pending = stats[m].pending
      <2>1. stats[m] \in NeighborStat
          BY <1>3
      <2>2. CASE m \in ns
          <3> DEFINE t == [stats[m] EXCEPT !.pending = FALSE]
          <3>1. stats'[m] = t
              BY <1>2, <2>2
          <3>2. t \in NeighborStat /\ t.tracked = stats[m].tracked /\ t.pending = FALSE
              BY <2>1 DEF NeighborStat
          <3> HIDE DEF t
          <3> QED BY <2>2, <3>1, <3>2
      <2>3. CASE m \notin ns
          BY <1>2, <2>1, <2>3
      <2> QED BY <2>2, <2>3
  <1>9. ProbesTypeOK'
      <2>1. stats' \in [Neighbor -> NeighborStat]
          BY <1>2, <1>8
      <2>2. verdict' \in {"unknown", "responsive", "unresponsive"} /\ blamed' \in SUBSET Neighbor
          BY <1>2, <1>3, <1>71 DEF ProbesTypeOK
      <2> QED BY <1>2, <1>3, <1>4, <2>1, <2>2 DEF ProbesTypeOK
  <1>10. DemotedIsBlamed'
      BY <1>2, <1>3 DEF DemotedIsBlamed
  <1>11. NotedIsOpen'
      <2> SUFFICES ASSUME NEW m \in Neighbor, stats'[m].pending
                   PROVE  stats'[m].tracked /\ OpenProbes(m)' # {}
          BY DEF NotedIsOpen
      <2>1. m \notin ns /\ stats[m].pending
          BY <1>8
      <2>2. stats[m].tracked /\ OpenProbes(m) # {}
          BY <2>1 DEF ProbeInv, NotedIsOpen
      <2> QED BY <1>7, <1>8, <2>1, <2>2
  <1>12. OneIsOpen'
      <2>1. ASSUME NEW m \in Neighbor \ disturbed'
            PROVE  \A k \in OpenProbes(m)' :
                       /\ stats'[m].pending /\ answered'[m] < k
                       /\ \A j \in OpenProbes(m)' : k = j
          <3>0. m \in Neighbor \ disturbed
              BY <1>2
          <3>1. \A k \in OpenProbes(m) : /\ stats[m].pending /\ answered[m] < k
                                         /\ \A j \in OpenProbes(m) : k = j
              BY <3>0 DEF ProbeInv, OneIsOpen
          <3>2. CASE m \in ns
              <4>1. PICK k \in OpenProbes(m) : k \in C
                  BY <1>7, <3>0, <3>2
              <4>2. OpenProbes(m)' = {}
                  BY <1>6, <3>1, <4>1
              <4> QED BY <4>2
          <3>3. CASE m \notin ns
              BY <1>2, <1>7, <1>8, <3>0, <3>1, <3>3
          <3> QED BY <3>2, <3>3
      <2> QED BY <2>1 DEF OneIsOpen
  <1> QED BY <1>4, <1>9, <1>10, <1>11, <1>12 DEF ProbeInv

-----------------------------------------------------------------------------
(* The theorems.                                                           *)

\* At first nothing is sent.
LEMMA ProbeInvInit == Init => ProbeInv
  <1> SUFFICES ASSUME Init PROVE ProbeInv
      OBVIOUS
  <1>1. ReceiptsInv /\ Open = {} /\ Len(receipt) = 0
      BY ReceiptsInvInit DEF Init
  <1>2. /\ stats = [n \in Neighbor |-> Absent] /\ via \in Neighbor /\ verdict = "unknown"
        /\ blamed = {} /\ disturbed = {} /\ answered = [n \in Neighbor |-> 0] /\ events = 0
      BY DEF Init
  <1>3. ProbesTypeOK
      BY <1>1, <1>2, AbsentFacts, ProbeAssumption DEF ProbesTypeOK
  <1>4. NotedIsOpen
      BY <1>2, AbsentFacts DEF NotedIsOpen
  <1>5. OneIsOpen
      BY <1>1 DEF OneIsOpen, OpenProbes
  <1>6. DemotedIsBlamed
      BY <1>2 DEF DemotedIsBlamed
  <1> QED BY <1>1, <1>3, <1>4, <1>5, <1>6 DEF ProbeInv

\* Every step keeps the invariant.
LEMMA ProbeInvStep == ProbeInv /\ [Next]_vars => ProbeInv'
  <1> SUFFICES ASSUME ProbeInv, [Next]_vars PROVE ProbeInv'
      OBVIOUS
  <1>1. ASSUME NEW link \in BOOLEAN, SendPacket(link) \/ resend(link) PROVE ProbeInv'
      BY <1>1, SendPacketStep DEF resend
  <1>2. ASSUME NEW n \in Neighbor,
               record_neighbor_proof(n) \/ Age(n) \/ DropStats(n) \/ LinkFails(n)
        PROVE  ProbeInv'
      BY <1>2, QuietActions, LinkFailsStep
  <1>3. ASSUME NEW n \in Neighbor \union {"none"}, InstallPath(n) PROVE ProbeInv'
      BY <1>3, QuietActions
  <1>4. CASE scan_neighbor_stats
      BY <1>4, ScanStep
  <1>5. CASE receipts_pass
      BY <1>5, PassStep
  <1>6. ASSUME NEW i \in Sent, ReceiveProofOf(i) PROVE ProbeInv'
      BY <1>6, ReceiveProofOfStep
  <1>7. CASE UNCHANGED vars
      <2>1. /\ UNCHANGED receiptVars /\ stats' = stats /\ via' = via /\ verdict' = verdict
            /\ blamed' = blamed /\ disturbed' = disturbed /\ answered' = answered
            /\ events' = events
          BY <1>7 DEF vars, probeVars
      <2>2. /\ ReceiptsInv' /\ Len(receipt)' = Len(receipt)
            /\ \A m \in Neighbor : OpenProbes(m)' = OpenProbes(m)
          BY <2>1, SameReceipts
      <2>3. ProbesTypeOK' /\ DemotedIsBlamed'
          BY <2>1, <2>2 DEF ProbeInv, ProbesTypeOK, DemotedIsBlamed
      <2>4. \A m \in Neighbor : stats'[m].pending => stats[m].pending /\ stats'[m].tracked
          BY <2>1 DEF ProbeInv, NotedIsOpen
      <2>5. \A m \in Neighbor \ disturbed' : stats[m].pending => stats'[m].pending
          BY <2>1
      <2>6. disturbed \subseteq disturbed'
          BY <2>1
      <2> QED BY <2>1, <2>2, <2>3, <2>4, <2>5, <2>6, QuietStep
  <1> QED BY <1>1, <1>2, <1>3, <1>4, <1>5, <1>6, <1>7 DEF Next

\* The invariant holds in every state.
THEOREM ProbeInvariant == Spec => []ProbeInv
  BY ProbeInvInit, ProbeInvStep, PTL DEF Spec

\* What the books say follows from the invariant.
LEMMA ProbeInvAccounts == ProbeInv => Accounted
  <1> SUFFICES ASSUME ProbeInv PROVE Accounted
      OBVIOUS
  <1>1. ReceiptsTypeOK /\ ConcludedOnce /\ ProofIsRecognised
      BY ReceiptsInvImplies DEF ProbeInv
  <1>2. Len(receipt) \in Nat /\ Len(receipt) <= MaxSent
      BY SentFacts DEF ProbeInv, ReceiptsInv
  <1>3. answered \in [Neighbor -> 0 .. MaxSent]
      <2>1. \A x \in 0 .. Len(receipt) : x \in 0 .. MaxSent
          BY <1>2, ReceiptsAssumption
      <2>2. answered \in [Neighbor -> 0 .. Len(receipt)]
          BY DEF ProbeInv, ProbesTypeOK
      <2> QED BY <2>1, <2>2
  <1>4. TypeOK
      BY <1>1, <1>3 DEF ProbeInv, ProbesTypeOK, TypeOK
  <1>5. PendingIsOpen /\ DemotedIsBlamed
      BY DEF ProbeInv, NotedIsOpen, PendingIsOpen
  <1> QED BY <1>1, <1>4, <1>5 DEF Accounted

\* The books are right in every state: every receipt concludes once, by the proof
\* of its own packet whatever the relays have made of the header and however long
\* the way is, a pending probe is an open one, and an unresponsive path has a
\* failed probe of its own neighbour to show.
THEOREM AccountedHolds == Spec => []Accounted
  BY ProbeInvariant, ProbeInvAccounts, PTL

\* No step demotes a neighbour for a probe older than one it has answered, unless a
\* link through it failed or its statistics were dropped.
THEOREM NoStaleDemotionHolds == Spec => NoStaleDemotion
  <1> DEFINE A == \A n \in Neighbor \ disturbed, i \in Listed :
                     (receipt[i].for = n /\ receipt'[i].status \in {"FAILED", "CULLED"})
                         => answered[n] < i
  <1>1. ProbeInv => A
      <2> SUFFICES ASSUME ProbeInv, NEW n \in Neighbor \ disturbed, NEW i \in Listed,
                          receipt[i].for = n
                   PROVE  answered[n] < i
          OBVIOUS
      <2>1. Listed = Open
          BY DEF ProbeInv, ReceiptsInv
      <2>2. i \in OpenProbes(n)
          BY <2>1 DEF OpenProbes
      <2> QED BY <2>2 DEF ProbeInv, OneIsOpen
  <1> HIDE DEF A
  <1>2. []ProbeInv => [][A]_vars
      BY <1>1, PTL
  <1>3. Spec => [][A]_vars
      BY <1>2, ProbeInvariant, PTL
  <1> QED BY <1>3 DEF NoStaleDemotion, A

=============================================================================
