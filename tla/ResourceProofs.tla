--------------------------- MODULE ResourceProofs ---------------------------
(***************************************************************************)
(* Proofs about the transfer of a resource, for every number of parts,     *)
(* every slice length, every choice of windows and any number of faults.   *)
(*                                                                         *)
(* The invariant has three parts, each proved with the ones before it:     *)
(*   ReceiverInv  the filled prefix, the window, what the receiver waits   *)
(*                for, and that it proves only what it handed over;        *)
(*   OrderInv     on a carrier that keeps the order, no part and no slice  *)
(*                of the hashmap is ahead of an advertisement, so that a   *)
(*                repeated one never starts the transfer anew;             *)
(*   SequenceInv  the sender's account of the hashmap is a whole number of *)
(*                slices, at most one behind the receiver's, and at most a *)
(*                window ahead of the filled prefix, and a request under   *)
(*                way names a slice boundary between the two.              *)
(* StepFacts reduces the actions to five kinds of steps, and the parts are *)
(* proved about those.                                                     *)
(***************************************************************************)
EXTENDS Resource, SequenceTheorems, FiniteSetTheorems, WellFoundedInduction,
        TLAPS

-----------------------------------------------------------------------------
(* Numbers, slots and queues. *)

\* The least-number principle.
LEMMA LeastExists ==
    ASSUME NEW T \in SUBSET Nat, T # {}
    PROVE  \E x \in T : \A y \in T : x <= y
<1>1. IsWellFoundedOn(OpToRel(<, Nat), Nat)
  BY NatLessThanWellFounded
<1>2. PICK x \in T : \A y \in T : <<y, x>> \notin OpToRel(<, Nat)
  BY <1>1, WFMin
<1>3. ASSUME NEW y \in T PROVE x <= y
  <2>1. <<y, x>> \notin OpToRel(<, Nat)
    BY <1>2
  <2>2. ~(y < x)
    BY <2>1 DEF OpToRel
  <2> QED BY <2>2
<1> QED BY <1>3

\* Division undoes multiplication.
LEMMA Multiple ==
    ASSUME NEW m \in Nat, NEW len \in Nat \ {0}
    PROVE  (m * len) % len = 0 /\ (m * len) \div len = m
<1> DEFINE d == (m * len) \div len
           a == (m * len) % len
<1>1. m * len \in Nat /\ len \in Nat /\ len > 0
  OBVIOUS
<1>2. d \in Int /\ a \in 0 .. len - 1 /\ m * len = (len * d) + a
  BY <1>1
<1> HIDE DEF d, a
<1>3. len * (m - d) = a
  BY <1>1, <1>2
<1>4. ~(m - d >= 1)
  BY <1>1, <1>2, <1>3
<1>5. ~(m - d <= -1)
  BY <1>1, <1>2, <1>3
<1>6. m = d
  BY <1>2, <1>4, <1>5
<1>7. a = 0
  BY <1>1, <1>2, <1>6
<1> QED BY <1>6, <1>7 DEF d, a

\* Taking one element out of a sequence keeps the others in their order.
LEMMA RemoveAtFacts ==
    ASSUME NEW S, NEW q \in Seq(S), NEW i \in DOMAIN q
    PROVE  /\ RemoveAt(q, i) \in Seq(S)
           /\ DOMAIN RemoveAt(q, i) = 1 .. Len(q) - 1
           /\ \A j \in 1 .. Len(q) - 1 :
                 RemoveAt(q, i)[j] = q[IF j < i THEN j ELSE j + 1]
<1> DEFINE a == SubSeq(q, 1, i - 1)
           b == SubSeq(q, i + 1, Len(q))
<1>1. /\ Len(q) \in Nat /\ i \in 1 .. Len(q)
      /\ \A j \in 1 .. Len(q) : q[j] \in S
  BY LenProperties, ElementOfSeq
<1>2. /\ a \in Seq(S) /\ Len(a) = i - 1
      /\ \A j \in 1 .. i - 1 : a[j] = q[j]
  <2>1. \A j \in 1 .. i - 1 : q[j] \in S
    BY <1>1
  <2> HIDE <1>1
  <2>2. 1 \in Int /\ i - 1 \in Int /\ i >= 1
    BY <1>1
  <2>3. /\ a \in Seq(S)
        /\ Len(a) = IF 1 <= i - 1 THEN i - 1 - 1 + 1 ELSE 0
        /\ \A j \in 1 .. i - 1 - 1 + 1 : a[j] = q[1 + j - 1]
    BY <2>1, <2>2, SubSeqProperties
  <2> QED BY <2>2, <2>3
<1>3. /\ b \in Seq(S) /\ Len(b) = Len(q) - i
      /\ \A j \in 1 .. Len(q) - i : b[j] = q[i + j]
  <2>1. \A j \in i + 1 .. Len(q) : q[j] \in S
    BY <1>1
  <2>2. i + 1 \in Int /\ Len(q) \in Int /\ i <= Len(q)
    BY <1>1
  <2>3. /\ b \in Seq(S)
        /\ Len(b) = IF i + 1 <= Len(q) THEN Len(q) - (i + 1) + 1 ELSE 0
        /\ \A j \in 1 .. Len(q) - (i + 1) + 1 : b[j] = q[i + 1 + j - 1]
    BY <2>1, <2>2, SubSeqProperties
  <2> QED BY <2>2, <2>3
<1>4. /\ a \o b \in Seq(S) /\ Len(a \o b) = Len(a) + Len(b)
      /\ \A j \in 1 .. Len(a) + Len(b) :
            (a \o b)[j] = IF j <= Len(a) THEN a[j] ELSE b[j - Len(a)]
  BY <1>2, <1>3, ConcatProperties
<1>5. RemoveAt(q, i) = a \o b
  BY DEF RemoveAt
<1> HIDE DEF a, b
<1>6. Len(a) + Len(b) = Len(q) - 1
  BY <1>1, <1>2, <1>3
<1>7. DOMAIN (a \o b) = 1 .. Len(q) - 1
  BY <1>4, <1>6, LenProperties
<1>8. ASSUME NEW j \in 1 .. Len(q) - 1
      PROVE  (a \o b)[j] = q[IF j < i THEN j ELSE j + 1]
  <2>1. CASE j < i
    BY <2>1, <1>1, <1>2, <1>4, <1>6
  <2>2. CASE ~(j < i)
    <3>1. j - Len(a) \in 1 .. Len(q) - i
      BY <2>2, <1>1, <1>2, <1>8
    <3>2. (a \o b)[j] = b[j - Len(a)]
      BY <2>2, <1>1, <1>2, <1>4, <1>6, SMTT(30)
    <3>3. b[j - Len(a)] = q[i + (j - Len(a))]
      BY <3>1, <1>3
    <3>4. i + (j - Len(a)) = j + 1
      BY <1>1, <1>2
    <3> QED BY <2>2, <3>2, <3>3, <3>4
  <2> QED BY <2>1, <2>2
<1> QED BY <1>4, <1>5, <1>7, <1>8

\* The consecutive height ends the filled prefix: all slots up to it are
\* filled, and the next one is free.
LEMMA HeightFacts ==
    ASSUME NEW parts \in Slots
    PROVE  /\ Height(parts) \in -1 .. N - 1
           /\ \A i \in 0 .. Height(parts) : parts[i] # NoPart
           /\ Height(parts) < N - 1 => parts[Height(parts) + 1] = NoPart
<1> DEFINE P(h) == /\ \A i \in 0 .. h : parts[i] # NoPart
                   /\ h < N - 1 => parts[h + 1] = NoPart
           T == {i \in Part : parts[i] = NoPart}
<1>1. \E h \in -1 .. N - 1 : P(h)
  <2>1. CASE T = {}
    <3>1. P(N - 1)
      BY <2>1, SizeAssumption DEF Part
    <3> QED BY <3>1, SizeAssumption
  <2>2. CASE T # {}
    <3>1. T \in SUBSET Nat
      BY SizeAssumption DEF Part
    <3>2. PICK x \in T : \A y \in T : x <= y
      BY <2>2, <3>1, LeastExists
    <3>3. P(x - 1) /\ x - 1 \in -1 .. N - 1
      BY <3>2, SizeAssumption DEF Part
    <3> QED BY <3>3
  <2> QED BY <2>1, <2>2
<1>2. Height(parts) = CHOOSE h \in -1 .. N - 1 : P(h)
  BY DEF Height
<1> HIDE DEF P
<1>3. Height(parts) \in -1 .. N - 1 /\ P(Height(parts))
  BY <1>1, <1>2
<1> QED BY <1>3 DEF P

\* Send puts packets behind those under way, or loses them when the link of
\* that end is down.
LEMMA SendFacts ==
    ASSUME NEW S, NEW q \in Seq(S), NEW p \in Seq(S), NEW end
    PROVE  /\ Send(end, q, p) \in Seq(S)
           /\ Len(q) \in Nat /\ DOMAIN q = 1 .. Len(q)
           /\ \A i \in DOMAIN Send(end, q, p) :
                 /\ i \in Nat
                 /\ \/ i \in DOMAIN q /\ Send(end, q, p)[i] = q[i]
                    \/ /\ i > Len(q) /\ i - Len(q) \in DOMAIN p
                       /\ Send(end, q, p)[i] = p[i - Len(q)]
<1>1. /\ Len(q) \in Nat /\ DOMAIN q = 1 .. Len(q)
      /\ Len(p) \in Nat /\ DOMAIN p = 1 .. Len(p)
  BY LenProperties
<1>2. CASE ~active[end]
  BY <1>1, <1>2 DEF Send
<1>3. CASE active[end]
  <2>1. /\ q \o p \in Seq(S) /\ Len(q \o p) = Len(q) + Len(p)
        /\ \A i \in 1 .. Len(q) + Len(p) :
              (q \o p)[i] = IF i <= Len(q) THEN q[i] ELSE p[i - Len(q)]
    BY ConcatProperties
  <2>2. DOMAIN (q \o p) = 1 .. Len(q) + Len(p)
    BY <2>1, LenProperties
  <2>3. Send(end, q, p) = q \o p
    BY <1>3 DEF Send
  <2> QED BY <1>1, <2>1, <2>2, <2>3
<1> QED BY <1>2, <1>3

\* SendFacts for one packet.
LEMMA SendOneFacts ==
    ASSUME NEW S, NEW q \in Seq(S), NEW x \in S, NEW end
    PROVE  /\ Send(end, q, <<x>>) \in Seq(S)
           /\ Len(q) \in Nat /\ DOMAIN q = 1 .. Len(q)
           /\ \A i \in DOMAIN Send(end, q, <<x>>) :
                 \/ i \in DOMAIN q /\ Send(end, q, <<x>>)[i] = q[i]
                 \/ i = Len(q) + 1 /\ Send(end, q, <<x>>)[i] = x
<1> DEFINE p == <<x>>
<1>1. p \in Seq(S) /\ DOMAIN p = {1} /\ p[1] = x
  OBVIOUS
<1> HIDE DEF p
<1>2. /\ Send(end, q, p) \in Seq(S)
      /\ Len(q) \in Nat /\ DOMAIN q = 1 .. Len(q)
      /\ \A i \in DOMAIN Send(end, q, p) :
            /\ i \in Nat
            /\ \/ i \in DOMAIN q /\ Send(end, q, p)[i] = q[i]
               \/ /\ i > Len(q) /\ i - Len(q) \in DOMAIN p
                  /\ Send(end, q, p)[i] = p[i - Len(q)]
  BY <1>1, SendFacts
<1>3. ASSUME NEW i \in Nat, i - Len(q) \in DOMAIN p
      PROVE  i = Len(q) + 1 /\ p[i - Len(q)] = x
  BY <1>1, <1>2, <1>3
<1>4. /\ Send(end, q, p) \in Seq(S)
      /\ \A i \in DOMAIN Send(end, q, p) :
            \/ i \in DOMAIN q /\ Send(end, q, p)[i] = q[i]
            \/ i = Len(q) + 1 /\ Send(end, q, p)[i] = x
  BY <1>2, <1>3
<1> QED BY <1>2, <1>4 DEF p

\* Appending a packet keeps those under way.
LEMMA AppendFacts ==
    ASSUME NEW S, NEW q \in Seq(S), NEW x \in S
    PROVE  /\ Append(q, x) \in Seq(S)
           /\ Len(q) \in Nat /\ DOMAIN q = 1 .. Len(q)
           /\ \A i \in DOMAIN Append(q, x) :
                 \/ i \in DOMAIN q /\ Append(q, x)[i] = q[i]
                 \/ i = Len(q) + 1 /\ Append(q, x)[i] = x
  BY AppendProperties, LenProperties

-----------------------------------------------------------------------------
(* The receiver. *)

Shape(r) ==
    /\ \A i \in Part : i <= r.height => r.parts[i] # NoPart
    /\ r.height < N - 1 => r.parts[r.height + 1] = NoPart

Sized(r) ==
    /\ WINDOW_MIN <= r.min /\ r.min <= r.window
    /\ r.window <= WINDOW_MAX_FAST /\ r.max <= WINDOW_MAX_FAST

\* What request_next() and the window leave alone.
SameParts(r, s) ==
    /\ s.status = r.status /\ s.parts = r.parts /\ s.known = r.known
    /\ s.height = r.height

\* A transfer that accept() has just set up is in shape, and its window is
\* sound.
LEMMA FreshFacts ==
    Fresh \in Receiver /\ Shape(Fresh) /\ Sized(Fresh)
<1>1. Fresh \in Receiver
  BY SizeAssumption, WindowAssumption, BoundAssumption
  DEF Fresh, Receiver, ReceiverStatus, Slots, Part, NoPart
<1> QED BY <1>1, SizeAssumption, WindowAssumption
        DEF Fresh, Shape, Sized, Part, NoPart

\* Assignments to the rates and the window keep the receiver's record one.
LEMMA UpdateFacts ==
    ASSUME NEW r \in Receiver, NEW f \in Nat, NEW s \in Nat, NEW w \in Nat,
           NEW x \in Nat, NEW n \in Nat
    PROVE  /\ [r EXCEPT !.fast = f, !.max = x] \in Receiver
           /\ [r EXCEPT !.slow = s, !.max = x] \in Receiver
           /\ [r EXCEPT !.window = w, !.min = n] \in Receiver
           /\ [r EXCEPT !.window = w] \in Receiver
           /\ [r EXCEPT !.window = w, !.max = x] \in Receiver
  BY DEF Receiver

\* The types of the fields of a receiver.
LEMMA FieldFacts ==
    ASSUME NEW r \in Receiver
    PROVE  /\ r.fast \in Nat /\ r.slow \in Nat /\ r.window \in Nat
           /\ r.max \in Nat /\ r.min \in Nat /\ r.retries \in Nat
           /\ r.outstanding \in Nat /\ r.height \in -1 .. N - 1
           /\ r.parts \in Slots /\ r.known \in SUBSET Part
           /\ r.waiting \in BOOLEAN
  BY DEF Receiver

\* The round and the window are all that a round changes.
WindowOnly(r, s) ==
    /\ SameParts(r, s) /\ s.waiting = r.waiting /\ s.retries = r.retries
    /\ s.outstanding = r.outstanding

\* Counting a fast round changes the window's maximum at most.
LEMMA FastFacts ==
    ASSUME NEW r \in Receiver, Sized(r), NEW rate
    PROVE  LET s == FastRound(r, rate) IN
           /\ s \in Receiver /\ Sized(s) /\ WindowOnly(r, s)
           /\ s.window = r.window
<1> DEFINE f == r.fast + 1
           x == IF r.fast + 1 = FAST_RATE_THRESHOLD THEN WINDOW_MAX_FAST ELSE r.max
           s == [r EXCEPT !.fast = f, !.max = x]
<1>1. FastRound(r, rate) = s \/ FastRound(r, rate) = r
  BY DEF FastRound
<1>2. f \in Nat /\ x \in Nat /\ x <= WINDOW_MAX_FAST
  BY FieldFacts, WindowAssumption DEF Sized
<1> HIDE DEF f, x
<1>3. s \in Receiver
  BY <1>2, UpdateFacts
<1>4. WindowOnly(r, s) /\ s.window = r.window /\ s.min = r.min /\ s.max = x
  BY DEF WindowOnly, SameParts, Receiver
<1>5. Sized(s)
  BY <1>2, <1>4 DEF Sized
<1> QED BY <1>1, <1>3, <1>4, <1>5 DEF WindowOnly, SameParts

\* Counting a slow round changes the window's maximum at most.
LEMMA SlowFacts ==
    ASSUME NEW r \in Receiver, Sized(r), NEW rate
    PROVE  LET s == SlowRound(r, rate) IN
           /\ s \in Receiver /\ Sized(s) /\ WindowOnly(r, s)
           /\ s.window = r.window
<1> DEFINE f == r.slow + 1
           x == IF r.slow + 1 = VERY_SLOW_RATE_THRESHOLD
                THEN WINDOW_MAX_VERY_SLOW ELSE r.max
           s == [r EXCEPT !.slow = f, !.max = x]
<1>1. SlowRound(r, rate) = s \/ SlowRound(r, rate) = r
  BY DEF SlowRound
<1>2. f \in Nat /\ x \in Nat /\ x <= WINDOW_MAX_FAST
  BY FieldFacts, WindowAssumption DEF Sized
<1> HIDE DEF f, x
<1>3. s \in Receiver
  BY <1>2, UpdateFacts
<1>4. WindowOnly(r, s) /\ s.window = r.window /\ s.min = r.min /\ s.max = x
  BY DEF WindowOnly, SameParts, Receiver
<1>5. Sized(s)
  BY <1>2, <1>4 DEF Sized
<1> QED BY <1>1, <1>3, <1>4, <1>5 DEF WindowOnly, SameParts

\* The window grows only within its bounds.
LEMMA GrownFacts ==
    ASSUME NEW r \in Receiver, Sized(r)
    PROVE  LET s == Grown(r) IN
           /\ s \in Receiver /\ Sized(s) /\ WindowOnly(r, s)
           /\ s.window >= r.window
<1> DEFINE w == r.window + 1
           n == IF r.window + 1 - r.min > WINDOW_FLEXIBILITY - 1
                THEN r.min + 1 ELSE r.min
           s == [r EXCEPT !.window = w, !.min = n]
<1>1. r.window \in Nat /\ r.min \in Nat /\ r.max \in Nat
  BY FieldFacts
<1>2. CASE r.window >= r.max
  BY <1>1, <1>2 DEF Grown, WindowOnly, SameParts
<1>3. CASE r.window < r.max
  <2>1. Grown(r) = s
    BY <1>1, <1>3 DEF Grown
  <2>2. /\ w \in Nat /\ n \in Nat /\ w <= WINDOW_MAX_FAST /\ w >= r.window
        /\ WINDOW_MIN <= n /\ n <= w
    BY <1>1, <1>3, WindowAssumption DEF Sized
  <2> HIDE DEF w, n
  <2>3. s \in Receiver
    BY <2>2, UpdateFacts
  <2>4. WindowOnly(r, s) /\ s.window = w /\ s.min = n /\ s.max = r.max
    BY DEF WindowOnly, SameParts, Receiver
  <2>5. Sized(s)
    BY <2>2, <2>4 DEF Sized
  <2> QED BY <2>1, <2>2, <2>3, <2>4, <2>5
<1> QED BY <1>1, <1>2, <1>3

\* The window shrinks only within its bounds.
LEMMA ShrunkFacts ==
    ASSUME NEW r \in Receiver, Sized(r)
    PROVE  LET s == Shrunk(r) IN
           s \in Receiver /\ Sized(s) /\ WindowOnly(r, s)
<1> DEFINE w == r.window - 1
           x == IF r.max <= r.min THEN r.max
                ELSE IF (r.max - 1) - (r.window - 1) > WINDOW_FLEXIBILITY - 1
                     THEN r.max - 1 - 1 ELSE r.max - 1
           s == [r EXCEPT !.window = w, !.max = x]
<1>1. r.window \in Nat /\ r.min \in Nat /\ r.max \in Nat
  BY FieldFacts
<1>2. CASE r.window <= r.min
  BY <1>1, <1>2 DEF Shrunk, WindowOnly, SameParts
<1>3. CASE r.window > r.min
  <2>1. CASE r.max <= r.min
    <3>1. Shrunk(r) = [r EXCEPT !.window = w]
      BY <1>1, <1>3, <2>1 DEF Shrunk
    <3>2. /\ w \in Nat /\ WINDOW_MIN <= r.min /\ r.min <= w
          /\ w <= WINDOW_MAX_FAST
      BY <1>1, <1>3, WindowAssumption DEF Sized
    <3> HIDE DEF w
    <3>3. [r EXCEPT !.window = w] \in Receiver
      BY <3>2, UpdateFacts
    <3> QED BY <3>1, <3>2, <3>3
            DEF Sized, WindowOnly, SameParts, Receiver
  <2>2. CASE r.max > r.min
    <3>1. Shrunk(r) = s
      <4>1. ~(r.window <= r.min) /\ ~(r.max <= r.min)
        BY <1>1, <1>3, <2>2
      <4> QED BY <4>1, Zenon DEF Shrunk
    <3>2. /\ w \in Nat /\ x \in Nat /\ x <= WINDOW_MAX_FAST
          /\ WINDOW_MIN <= r.min /\ r.min <= w /\ w <= WINDOW_MAX_FAST
      BY <1>1, <1>3, <2>2, WindowAssumption DEF Sized
    <3> HIDE DEF w, x
    <3>3. s \in Receiver
      BY <3>2, UpdateFacts
    <3>4. WindowOnly(r, s) /\ s.window = w /\ s.min = r.min /\ s.max = x
      BY DEF WindowOnly, SameParts, Receiver
    <3>5. Sized(s)
      BY <3>2, <3>4 DEF Sized
    <3> QED BY <3>1, <3>3, <3>4, <3>5
  <2> QED BY <1>1, <2>1, <2>2
<1> QED BY <1>1, <1>2, <1>3

\* Filing a part never lowers the consecutive height, and unless the payload
\* is complete a slot above it is free.
LEMMA FiledFacts ==
    ASSUME NEW r \in Receiver, Shape(r), NEW n \in Part
    PROVE  LET f == Filed(r, n) IN
           /\ f \in Receiver /\ Shape(f) /\ f.height >= r.height
           /\ f.status = r.status /\ f.known = r.known
           /\ f.window = r.window /\ f.max = r.max /\ f.min = r.min
           /\ f.waiting = r.waiting
           /\ f.outstanding <= r.outstanding
           /\ ~Full(f) => f.height < N - 1
<1> DEFINE slots == Matching(r, n)
           parts == [i \in Part |-> IF i \in slots THEN n ELSE r.parts[i]]
           left  == r.outstanding - Cardinality(slots)
           f     == Filed(r, n)
<1>1. /\ parts \in Slots
      /\ \A i \in Part : r.parts[i] # NoPart => parts[i] # NoPart
  BY SizeAssumption DEF Receiver, Slots, Matching, NoPart, Part
<1>2. Cardinality(slots) \in Nat
  <2>1. IsFiniteSet(Part) /\ slots \in SUBSET Part
    BY SizeAssumption, FS_Interval DEF Part, Matching
  <2> QED BY <2>1, FS_Subset, FS_CardinalityType
<1>3. /\ Height(parts) \in -1 .. N - 1
      /\ \A i \in 0 .. Height(parts) : parts[i] # NoPart
      /\ Height(parts) < N - 1 => parts[Height(parts) + 1] = NoPart
  BY <1>1, HeightFacts
<1>4. f = [r EXCEPT !.parts = parts, !.height = Height(parts),
                    !.outstanding = IF left > 0 THEN left ELSE 0]
  BY DEF Filed
<1> HIDE DEF slots, parts, f
<1>5. r.outstanding \in Nat /\ r.height \in -1 .. N - 1
  BY DEF Receiver
<1>6. /\ left \in Int /\ left <= r.outstanding
  BY <1>2, <1>5
<1> HIDE DEF left
<1>7. f \in Receiver
  <2> DEFINE o == IF left > 0 THEN left ELSE 0
             h == Height(parts)
  <2>1. o \in Nat /\ h \in -1 .. N - 1
    BY <1>3, <1>6
  <2>2. f = [r EXCEPT !.parts = parts, !.height = h, !.outstanding = o]
    BY <1>4
  <2> HIDE DEF o, h
  <2> QED BY <1>1, <2>1, <2>2 DEF Receiver
<1>8. /\ f.status = r.status /\ f.known = r.known
      /\ f.window = r.window /\ f.max = r.max /\ f.min = r.min
      /\ f.waiting = r.waiting /\ f.parts = parts /\ f.height = Height(parts)
      /\ f.outstanding = IF left > 0 THEN left ELSE 0
  BY <1>4 DEF Receiver
<1>9. Shape(f)
  BY <1>3, <1>8, SizeAssumption DEF Shape, Part
<1>10. f.height >= r.height
  <2> SUFFICES ASSUME f.height < r.height PROVE FALSE
    BY <1>3, <1>5, <1>8
  <2>1. /\ Height(parts) + 1 \in Part /\ Height(parts) + 1 <= r.height
        /\ Height(parts) < N - 1
    BY <1>3, <1>5, <1>8, SizeAssumption DEF Part
  <2>2. parts[Height(parts) + 1] = NoPart
    BY <2>1, <1>3
  <2>3. r.parts[Height(parts) + 1] # NoPart
    BY <2>1 DEF Shape
  <2> QED BY <2>1, <2>2, <2>3, <1>1
<1>11. f.outstanding <= r.outstanding
  BY <1>5, <1>6, <1>8
<1>12. ~Full(f) => f.height < N - 1
  BY <1>3, <1>8, SizeAssumption DEF Full, Part
<1> QED BY <1>7, <1>8, <1>9, <1>10, <1>11, <1>12 DEF f

\* request_next() asks for something: parts within the window, or the next
\* slice of the hashmap after the last hash it knows.
LEMMA RequestNextFacts ==
    ASSUME NEW r \in Receiver, Shape(r), Sized(r), r.height < N - 1,
           r.waiting => r.outstanding <= r.window, mh \in [Part -> Hash]
    PROVE  LET n == request_next(r) IN
           /\ n.rx \in Receiver /\ SameParts(r, n.rx) /\ Sized(n.rx)
           /\ n.rx.window = r.window
           /\ n.rx.outstanding > 0 \/ n.rx.waiting
           /\ n.rx.outstanding <= n.rx.window
           /\ n.packets \in Seq(ToSender)
           /\ \A i \in DOMAIN n.packets :
                 /\ i = 1 /\ n.packets[i].t = "REQ"
                 /\ n.packets[i].more => /\ Unknown(r) # {}
                                         /\ n.packets[i].last = LastKnown(r)
<1>1. CASE r.waiting
  <2>1. request_next(r) = [rx |-> r, packets |-> <<>>]
    BY <1>1 DEF request_next
  <2> QED BY <2>1, <1>1 DEF SameParts
<1>2. CASE ~r.waiting
  <2> DEFINE nr == [r EXCEPT !.outstanding = Cardinality(Wanted(r)),
                             !.waiting = Unknown(r) # {},
                             !.answered = FALSE]
             x == [t |-> "REQ", more |-> Unknown(r) # {},
                   last |-> IF Unknown(r) # {} THEN LastKnown(r) ELSE NoPart,
                   want |-> {mh[i] : i \in Wanted(r)}]
  <2>1. request_next(r) = [rx |-> nr, packets |-> <<x>>]
    BY <1>2 DEF request_next
  <2>2. /\ r.height \in -1 .. N - 1 /\ r.window \in Nat \ {0}
        /\ r.known \in SUBSET Part
    BY WindowAssumption DEF Receiver, Sized
  <2>3. /\ IsFiniteSet(Searched(r)) /\ Cardinality(Searched(r)) <= r.window
        /\ Cardinality(Searched(r)) \in Nat
    <3>1. Searched(r) \subseteq r.height + 1 .. r.height + r.window
      BY <2>2, SizeAssumption DEF Searched, Part
    <3>2. /\ IsFiniteSet(r.height + 1 .. r.height + r.window)
          /\ Cardinality(r.height + 1 .. r.height + r.window) = r.window
      <4>1. r.height + 1 \in Int /\ r.height + r.window \in Int
        BY <2>2
      <4>2. /\ IsFiniteSet(r.height + 1 .. r.height + r.window)
            /\ Cardinality(r.height + 1 .. r.height + r.window) =
                  IF r.height + 1 > r.height + r.window THEN 0
                  ELSE (r.height + r.window) - (r.height + 1) + 1
        BY <4>1, FS_Interval
      <4> QED BY <4>2, <2>2
    <3>3. /\ IsFiniteSet(Searched(r))
          /\ Cardinality(Searched(r)) <= Cardinality(r.height + 1 .. r.height + r.window)
      BY <3>1, <3>2, FS_Subset
    <3> QED BY <3>2, <3>3, FS_CardinalityType
  <2>4. /\ Wanted(r) \in SUBSET Searched(r) /\ IsFiniteSet(Wanted(r))
        /\ Cardinality(Wanted(r)) <= Cardinality(Searched(r))
        /\ Cardinality(Wanted(r)) \in Nat
    <3>1. Wanted(r) \in SUBSET Searched(r)
      BY DEF Wanted
    <3>2. /\ IsFiniteSet(Wanted(r))
          /\ Cardinality(Wanted(r)) <= Cardinality(Searched(r))
      BY <3>1, <2>3, FS_Subset
    <3> QED BY <3>1, <3>2, FS_CardinalityType
  <2>5. Cardinality(Wanted(r)) > 0 \/ Unknown(r) # {}
    <3> SUFFICES ASSUME Unknown(r) = {} PROVE Cardinality(Wanted(r)) > 0
      OBVIOUS
    <3>1. r.height + 1 \in Searched(r)
      BY <2>2, SizeAssumption DEF Searched, Part
    <3>2. r.height + 1 \in Wanted(r)
      BY <3>1 DEF Wanted, Shape
    <3>3. Cardinality(Wanted(r)) # 0
      BY <3>2, <2>4, FS_EmptySet
    <3> QED BY <3>3, <2>4
  <2>6. LastKnown(r) \in Hash \union {NoPart}
    <3>1. CASE r.known = {}
      BY <3>1 DEF LastKnown
    <3>2. CASE r.known # {}
      <4>1. IsFiniteSet(Part) /\ Cardinality(Part) = N
        BY SizeAssumption, FS_Interval DEF Part
      <4>2. /\ IsFiniteSet(r.known) /\ Cardinality(r.known) \in Nat
            /\ Cardinality(r.known) <= N
        BY <4>1, <2>2, FS_Subset, FS_CardinalityType
      <4>3. Cardinality(r.known) # 0
        BY <3>2, <4>2, FS_EmptySet
      <4>4. Cardinality(r.known) - 1 \in Part
        BY <4>2, <4>3, SizeAssumption DEF Part
      <4> QED BY <3>2, <4>4 DEF LastKnown
    <3> QED BY <3>1, <3>2
  <2>7. {mh[i] : i \in Wanted(r)} \in SUBSET Hash
    BY <2>4 DEF Searched
  <2>8. x \in ToSender
    BY <2>6, <2>7 DEF ToSender
  <2>9. nr \in Receiver
    BY <2>4 DEF Receiver
  <2>10. /\ SameParts(r, nr) /\ Sized(nr) /\ nr.window = r.window
         /\ nr.outstanding > 0 \/ nr.waiting
         /\ nr.outstanding <= nr.window
    <3>1. SameParts(r, nr) /\ nr.window = r.window /\ nr.max = r.max
          /\ nr.min = r.min
      BY DEF SameParts, Receiver
    <3>2. nr.outstanding = Cardinality(Wanted(r))
      BY DEF Receiver
    <3>3. nr.waiting <=> Unknown(r) # {}
      BY DEF Receiver
    <3> HIDE DEF nr
    <3> QED BY <3>1, <3>2, <3>3, <2>2, <2>3, <2>4, <2>5 DEF Sized
  <2>11. /\ x.t = "REQ"
         /\ x.more => Unknown(r) # {} /\ x.last = LastKnown(r)
    OBVIOUS
  <2> HIDE DEF x, nr
  <2>12. <<x>> \in Seq(ToSender) /\ DOMAIN <<x>> = {1} /\ <<x>>[1] = x
    BY <2>8
  <2> QED BY <2>1, <2>9, <2>10, <2>11, <2>12
<1> QED BY <1>1, <1>2

\* A request is the only packet request_next() adds, and one for more of the
\* hashmap names the last map hash that is known.
Asks ==
    \A i \in DOMAIN up' :
        \/ i \in DOMAIN up /\ up'[i] = up[i]
        \/ /\ i = Len(up) + 1 /\ up'[i].t = "REQ"
           /\ up'[i].more => Unknown(rx') # {} /\ up'[i].last = LastKnown(rx')

\* NeverIdle, of one resource.
Waits(r) ==
    /\ r.outstanding > 0 \/ r.waiting
    /\ r.outstanding <= r.window

\* After request_next() the receiver waits for what it has just asked for.
LEMMA RequestsFacts ==
    ASSUME TypeOK, NEW r \in Receiver, Shape(r), Sized(r), r.height < N - 1,
           r.waiting => r.outstanding <= r.window, Requests(r)
    PROVE  /\ rx' \in Receiver /\ SameParts(r, rx') /\ Shape(rx') /\ Sized(rx')
           /\ rx'.window = r.window /\ Waits(rx')
           /\ up' \in Seq(ToSender) /\ Asks
<1> DEFINE n == request_next(r)
<1>1. /\ rx' = n.rx
      /\ up' = Send("R", up, n.packets)
  BY DEF Requests
<1>2. mh \in [Part -> Hash] /\ up \in Seq(ToSender)
  BY BoundAssumption DEF TypeOK, mh
<1>3. /\ n.rx \in Receiver /\ SameParts(r, n.rx) /\ Sized(n.rx)
      /\ n.rx.window = r.window
      /\ n.rx.outstanding > 0 \/ n.rx.waiting
      /\ n.rx.outstanding <= n.rx.window
      /\ n.packets \in Seq(ToSender)
      /\ \A i \in DOMAIN n.packets :
            /\ i = 1 /\ n.packets[i].t = "REQ"
            /\ n.packets[i].more => /\ Unknown(r) # {}
                                    /\ n.packets[i].last = LastKnown(r)
  BY <1>2, RequestNextFacts
<1> HIDE DEF n
<1>4. Unknown(rx') = Unknown(r) /\ LastKnown(rx') = LastKnown(r)
  BY <1>1, <1>3 DEF SameParts, Unknown, Searched, LastKnown
<1>5. Shape(rx')
  BY <1>1, <1>3 DEF SameParts, Shape
<1>6. /\ up' \in Seq(ToSender) /\ Len(up) \in Nat
      /\ \A i \in DOMAIN up' :
            /\ i \in Nat
            /\ \/ i \in DOMAIN up /\ up'[i] = up[i]
               \/ /\ i > Len(up) /\ i - Len(up) \in DOMAIN n.packets
                  /\ up'[i] = n.packets[i - Len(up)]
  BY <1>1, <1>2, <1>3, SendFacts, SMTT(30)
<1>7. Asks
  <2> SUFFICES ASSUME NEW i \in DOMAIN up', ~(i \in DOMAIN up /\ up'[i] = up[i])
               PROVE  /\ i = Len(up) + 1 /\ up'[i].t = "REQ"
                      /\ up'[i].more => /\ Unknown(rx') # {}
                                        /\ up'[i].last = LastKnown(rx')
    BY DEF Asks
  <2>1. /\ i \in Nat /\ i - Len(up) \in DOMAIN n.packets
        /\ up'[i] = n.packets[i - Len(up)]
    BY <1>6
  <2>2. i - Len(up) = 1
    BY <2>1, <1>3
  <2>3. i = Len(up) + 1
    BY <2>1, <2>2, <1>6
  <2> QED BY <2>1, <2>3, <1>3, <1>4
<1> QED BY <1>1, <1>3, <1>5, <1>6, <1>7 DEF Waits

-----------------------------------------------------------------------------
(* The sender. *)

Early == tx.status \in {"NONE", "QUEUED", "ADVERTISED"}
Data(x) == x.t \in {"PART", "HMU"}

\* The parts a request is answered with are sent as a sequence of part
\* packets.
LEMMA PartPacketsFacts ==
    ASSUME NEW S \in SUBSET Part, NEW parts \in PartPackets(S)
    PROVE  /\ parts \in Seq(ToReceiver)
           /\ \A i \in DOMAIN parts : parts[i].t = "PART"
<1>1. Cardinality(S) \in Nat
  <2>1. IsFiniteSet(Part)
    BY SizeAssumption, FS_Interval DEF Part
  <2> QED BY <2>1, FS_Subset, FS_CardinalityType
<1>2. [t: {"PART"}, n: S] \subseteq ToReceiver
  BY DEF ToReceiver
<1>3. parts \in [1 .. Cardinality(S) -> [t: {"PART"}, n: S]]
  BY DEF PartPackets
<1>4. parts \in [1 .. Cardinality(S) -> ToReceiver]
  BY <1>2, <1>3
<1>5. parts \in Seq(ToReceiver)
  BY <1>1, <1>4, SeqDef
<1> QED BY <1>3, <1>5

\* The sender's search finds the part a map hash names, if no other part in
\* its search range has that hash.
LEMMA PartIndexFacts ==
    ASSUME TypeOK, NEW last
    PROVE  /\ PartIndex(last) \in Nat
           /\ \A p \in SearchRange :
                 (/\ mh[p] = last
                  /\ \A i \in SearchRange : mh[i] = last => i = p)
                 => PartIndex(last) = p + 1
<1> DEFINE found == {i \in SearchRange : mh[i] = last}
<1>1. found \in SUBSET Nat /\ SearchRange \in SUBSET Part
  BY SizeAssumption DEF SearchRange, Part
<1>2. tx.min \in Nat
  BY DEF TypeOK, Sender
<1>3. Cardinality(SearchRange) \in Nat
  <2>1. IsFiniteSet(Part)
    BY SizeAssumption, FS_Interval DEF Part
  <2> QED BY <1>1, <2>1, FS_Subset, FS_CardinalityType
<1>4. CASE found = {}
  BY <1>2, <1>3, <1>4 DEF PartIndex
<1>5. CASE found # {}
  <2>1. \E x \in found : \A y \in found : x <= y
    BY <1>1, <1>5, LeastExists
  <2>2. Min(found) \in found
    BY <2>1 DEF Min
  <2>3. PartIndex(last) = Min(found) + 1
    BY <1>5 DEF PartIndex
  <2> QED BY <1>1, <2>2, <2>3
<1> QED BY <1>4, <1>5

\* request() sends parts, and a slice of the hashmap only when it is asked
\* for one at a slice boundary; off a boundary it cancels with a sequencing
\* error.
LEMMA RequestFacts ==
    ASSUME TypeOK, NEW x \in ToSender, x.t = "REQ", Outgoing, request(x)
    PROVE  LET index == PartIndex(x.last) IN
           /\ tx' \in Sender
           /\ tx'.status \in {"TRANSFERRING", "AWAITING_PROOF", "FAILED"}
           /\ down' \in Seq(ToReceiver)
           /\ \A i \in DOMAIN down' :
                 \/ i \in DOMAIN down /\ down'[i] = down[i]
                 \/ /\ i \in Nat /\ i > Len(down)
                    /\ down'[i].t \in {"PART", "HMU", "ICL"}
                    /\ down'[i].t = "HMU" =>
                          /\ x.more /\ index % HASHMAP_MAX_LEN = 0
                          /\ down'[i].seg = index \div HASHMAP_MAX_LEN
           /\ tx'.min = IF x.more THEN receiver_min_consecutive_height(index)
                        ELSE tx.min
           /\ tx'.why = "sequencing" =>
                 \/ tx.why = "sequencing"
                 \/ x.more /\ index % HASHMAP_MAX_LEN # 0
<1> DEFINE index  == PartIndex(x.last)
           wanted == {i \in SearchRange : mh[i] \in x.want}
           sent   == tx.sent \union wanted
           wrong  == x.more /\ index % HASHMAP_MAX_LEN # 0
           update == [t |-> "HMU", seg |-> index \div HASHMAP_MAX_LEN]
           min    == IF x.more THEN receiver_min_consecutive_height(index)
                     ELSE tx.min
           next   == [tx EXCEPT !.sent = sent, !.min = min,
                                !.status = "TRANSFERRING",
                                !.retries = MAX_RETRIES]
<1>1. index \in Nat
  BY PartIndexFacts
<1>2. x.more \in BOOLEAN
  BY DEF ToSender
<1>3. tx \in Sender /\ tx.min \in Nat /\ tx.sent \in SUBSET Part
  BY DEF TypeOK, Sender
<1>4. wanted \in SUBSET Part
  BY DEF SearchRange
<1>5. min \in Nat
  BY <1>1, <1>3, WindowAssumption DEF receiver_min_consecutive_height, WINDOW_MAX
<1>6. /\ tx' = IF wrong THEN Cancelled(next, "sequencing")
               ELSE IF sent = Part
               THEN [next EXCEPT !.status = "AWAITING_PROOF",
                                 !.retries = PROOF_RETRIES]
               ELSE next
      /\ \E parts \in PartPackets(wanted) :
            down' = Send("S", down,
                         IF wrong THEN parts \o CancelPacket
                         ELSE IF x.more THEN Append(parts, update) ELSE parts)
  BY DEF request
<1>7. update \in ToReceiver /\ update.t = "HMU"
      /\ update.seg = index \div HASHMAP_MAX_LEN
  <2>1. index \div HASHMAP_MAX_LEN \in Nat
    BY <1>1, SizeAssumption
  <2> QED BY <2>1 DEF ToReceiver
<1>8. sent \in SUBSET Part
  BY <1>3, <1>4
<1>9. /\ wrong => x.more /\ index % HASHMAP_MAX_LEN # 0
      /\ ~wrong /\ x.more => index % HASHMAP_MAX_LEN = 0
  OBVIOUS
<1>10. /\ \A i \in DOMAIN down' :
             \/ i \in DOMAIN down /\ down'[i] = down[i]
             \/ /\ i \in Nat /\ i > Len(down)
                /\ down'[i].t \in {"PART", "HMU", "ICL"}
                /\ down'[i].t = "HMU" =>
                      /\ x.more /\ index % HASHMAP_MAX_LEN = 0
                      /\ down'[i].seg = index \div HASHMAP_MAX_LEN
       /\ down' \in Seq(ToReceiver)
  <2> HIDE DEF wanted, wrong, update, index
  <2>1. PICK parts \in PartPackets(wanted) :
            down' = Send("S", down,
                         IF wrong THEN parts \o CancelPacket
                         ELSE IF x.more THEN Append(parts, update) ELSE parts)
    BY <1>6
  <2>2. /\ parts \in Seq(ToReceiver)
        /\ \A i \in DOMAIN parts : parts[i].t = "PART"
    BY <1>4, PartPacketsFacts
  <2> DEFINE p == IF wrong THEN parts \o CancelPacket
                  ELSE IF x.more THEN Append(parts, update) ELSE parts
  <2>3. /\ p \in Seq(ToReceiver)
        /\ \A i \in DOMAIN p :
              \/ p[i].t \in {"PART", "ICL"}
              \/ /\ p[i].t = "HMU" /\ x.more /\ ~wrong
                 /\ p[i].seg = index \div HASHMAP_MAX_LEN
    <3>1. CASE wrong
      <4> DEFINE c == [t |-> "ICL"]
      <4>1. c \in ToReceiver /\ c.t = "ICL"
        BY DEF ToReceiver
      <4> HIDE DEF c
      <4>2. p = Append(parts, c)
        BY <3>1, <2>2, <4>1, AppendIsConcat DEF CancelPacket, c
      <4> HIDE DEF p
      <4>3. /\ p \in Seq(ToReceiver)
            /\ \A i \in DOMAIN p : \/ i \in DOMAIN parts /\ p[i] = parts[i]
                                   \/ p[i] = c
        BY <2>2, <4>1, <4>2, AppendFacts
      <4> QED BY <4>1, <4>3, <2>2
    <3>2. CASE ~wrong /\ x.more
      <4>1. p = Append(parts, update)
        BY <3>2
      <4> HIDE DEF p
      <4>2. /\ p \in Seq(ToReceiver)
            /\ \A i \in DOMAIN p : \/ i \in DOMAIN parts /\ p[i] = parts[i]
                                   \/ p[i] = update
        BY <2>2, <1>7, <4>1, AppendFacts
      <4> QED BY <1>7, <3>2, <4>2, <2>2
    <3>3. CASE ~wrong /\ ~x.more
      BY <3>3, <2>2
    <3> QED BY <3>1, <3>2, <3>3
  <2> HIDE DEF p
  <2>4. down \in Seq(ToReceiver)
    BY DEF TypeOK
  <2>5. down' = Send("S", down, p)
    BY <2>1 DEF p
  <2>6. /\ down' \in Seq(ToReceiver)
        /\ \A i \in DOMAIN down' :
              /\ i \in Nat
              /\ \/ i \in DOMAIN down /\ down'[i] = down[i]
                 \/ /\ i > Len(down) /\ i - Len(down) \in DOMAIN p
                    /\ down'[i] = p[i - Len(down)]
    BY <2>3, <2>4, <2>5, SendFacts
  <2> QED BY <2>3, <2>6, <1>9
<1> HIDE DEF sent, min, index, wrong
<1>11. /\ next \in Sender /\ next.min = min /\ next.why = tx.why
       /\ next.status = "TRANSFERRING"
  BY <1>3, <1>5, <1>8, BoundAssumption DEF Sender, SenderStatus
<1> HIDE DEF next
<1>12. /\ tx' \in Sender /\ tx'.min = min
       /\ tx'.status \in {"TRANSFERRING", "AWAITING_PROOF", "FAILED"}
       /\ tx'.why = "sequencing" => tx.why = "sequencing" \/ wrong
  <2>1. CASE wrong
    <3>1. tx' = [next EXCEPT !.status = "FAILED", !.why = "sequencing"]
      BY <1>6, <2>1 DEF Cancelled
    <3> QED BY <2>1, <3>1, <1>11 DEF Sender, SenderStatus
  <2>2. CASE ~wrong /\ sent = Part
    <3>1. tx' = [next EXCEPT !.status = "AWAITING_PROOF",
                             !.retries = PROOF_RETRIES]
      BY <1>6, <2>2
    <3> QED BY <3>1, <1>11, BoundAssumption DEF Sender, SenderStatus
  <2>3. CASE ~wrong /\ sent # Part
    <3>1. tx' = next
      BY <1>6, <2>3
    <3> QED BY <3>1, <1>11
  <2> QED BY <2>1, <2>2, <2>3
<1> QED BY <1>9, <1>10, <1>12 DEF index, min

-----------------------------------------------------------------------------
(* What a step of the receiver does. *)

\* A resource that is being received has a slot to fill, and waits for
\* something.
Pending == Incoming => rx.height < N - 1 /\ Waits(rx)

\* The receiver proves only what it has handed over.
Proved == \A i \in DOMAIN up : up[i].t = "PRF" => delivered > 0

ReceiverInv == TypeOK /\ Shape(rx) /\ Sized(rx) /\ Pending /\ Proved

\* The receiver's part of ReceiverInv after a step.
Good ==
    /\ rx' \in Receiver /\ Shape(rx') /\ Sized(rx') /\ Pending'
    /\ up' \in Seq(ToSender) /\ Proved'
    /\ delivered' \in Nat /\ active' \in [{"S", "R"} -> BOOLEAN]

\* The resource is, or remains, being received.
Continues(known, height) ==
    /\ rx'.status = "TRANSFERRING" /\ rx'.known = known
    /\ rx'.height = height
    /\ Asks
    /\ delivered' = delivered

\* No packet of the receiver is a request.
AsksNothing ==
    \A i \in DOMAIN up' :
        \/ i \in DOMAIN up /\ up'[i] = up[i]
        \/ i > Len(up) /\ up'[i].t \in {"PRF", "RCL", "CLOSE"}

\* The resource is not being received any more.
Ends ==
    /\ rx'.status # "TRANSFERRING" /\ rx'.known = rx.known
    /\ rx'.height >= rx.height
    /\ AsksNothing
    /\ delivered' = delivered \/ (Incoming /\ delivered' = delivered + 1)

\* It is broken off.
Fails == Ends /\ rx'.height = rx.height /\ delivered' = delivered

\* Nothing happens.
Stays == rx' = rx /\ AsksNothing /\ delivered' = delivered

\* A step that leaves the receiver alone, or ends its transfer as failed or
\* corrupt, keeps it good.
LEMMA QuietFacts ==
    ASSUME ReceiverInv, up' = up, delivered' = delivered,
           active' \in [{"S", "R"} -> BOOLEAN],
           \/ rx' = rx
           \/ rx' = [rx EXCEPT !.status = "FAILED"]
           \/ rx' = [rx EXCEPT !.status = "CORRUPT"]
    PROVE  Good /\ (Fails \/ Stays)
<1>1. /\ rx \in Receiver /\ up \in Seq(ToSender) /\ delivered \in Nat
      /\ rx.height \in -1 .. N - 1
  BY DEF ReceiverInv, TypeOK, Receiver
<1>2. /\ AsksNothing /\ Proved'
  BY DEF AsksNothing, Proved, ReceiverInv
<1>3. CASE rx' = rx
  BY <1>1, <1>2, <1>3
  DEF Good, Stays, ReceiverInv, Pending, Incoming
<1>4. ASSUME NEW s \in {"FAILED", "CORRUPT"}, rx' = [rx EXCEPT !.status = s]
      PROVE  Good /\ Fails
  <2>1. /\ rx' \in Receiver /\ rx'.status = s
        /\ rx'.known = rx.known /\ rx'.height = rx.height
        /\ rx'.parts = rx.parts /\ rx'.window = rx.window /\ rx'.max = rx.max
        /\ rx'.min = rx.min
    BY <1>1, <1>4 DEF Receiver, ReceiverStatus
  <2>2. Shape(rx') /\ Sized(rx')
    BY <2>1 DEF ReceiverInv, Shape, Sized
  <2>3. s # "TRANSFERRING"
    OBVIOUS
  <2>4. Pending'
    BY <2>1, <2>3 DEF Pending, Incoming
  <2> QED BY <1>1, <1>2, <2>1, <2>2, <2>3, <2>4 DEF Good, Fails, Ends
<1> QED BY <1>3, <1>4

\* Asking again keeps a running transfer good.
LEMMA ContinueFacts ==
    ASSUME ReceiverInv, NEW r \in Receiver, Shape(r), Sized(r),
           r.status = "TRANSFERRING", r.height < N - 1,
           r.waiting => r.outstanding <= r.window, Requests(r),
           UNCHANGED <<active, delivered>>
    PROVE  Good /\ Continues(r.known, r.height)
<1>1. TypeOK /\ delivered \in Nat /\ r.height \in Int
  <2>1. TypeOK /\ delivered \in Nat
    BY DEF ReceiverInv, TypeOK
  <2>2. r.height \in Int
    BY SizeAssumption DEF Receiver
  <2> QED BY <2>1, <2>2
<1>2. /\ rx' \in Receiver /\ SameParts(r, rx') /\ Shape(rx') /\ Sized(rx')
      /\ rx'.window = r.window /\ Waits(rx')
      /\ up' \in Seq(ToSender) /\ Asks
  BY <1>1, RequestsFacts
<1>3. Proved'
  BY <1>2 DEF Asks, Proved, ReceiverInv
<1>4. Pending'
  BY <1>2 DEF Pending, SameParts
<1>5. active' \in [{"S", "R"} -> BOOLEAN]
  BY DEF ReceiverInv, TypeOK
<1> QED BY <1>1, <1>2, <1>3, <1>4, <1>5 DEF Good, Continues, SameParts

\* accept() starts a good transfer with the first slice of the hashmap.
LEMMA AcceptFacts ==
    ASSUME ReceiverInv, ~Incoming, hashmap_update(Fresh, 0),
           UNCHANGED <<active, delivered>>
    PROVE  Good /\ Continues(Slice(0), -1)
<1> DEFINE known == Fresh.known \union Slice(0)
           r == [Fresh EXCEPT !.known = known, !.waiting = FALSE]
<1>1. known = Slice(0) /\ known \in SUBSET Part
  BY DEF Fresh, Slice
<1>2. r \in Receiver /\ r.status = "TRANSFERRING" /\ r.height = -1
      /\ r.known = known /\ r.parts = Fresh.parts /\ r.outstanding = 0
      /\ r.window = Fresh.window /\ r.min = Fresh.min /\ r.max = Fresh.max
      /\ Fresh.height = -1
  <2> HIDE DEF known
  <2>1. r \in Receiver
    BY <1>1, FreshFacts DEF Receiver
  <2> QED BY <2>1 DEF Fresh
<1>3. Shape(r) /\ Sized(r)
  BY <1>2, FreshFacts DEF Shape, Sized
<1>4. Requests(r)
  BY DEF hashmap_update
<1> HIDE DEF r, known
<1>6. r.height < N - 1
  BY <1>2, SizeAssumption
<1>7. r.outstanding <= r.window
  BY <1>2, FieldFacts
<1>8. Good /\ Continues(r.known, r.height)
  BY <1>2, <1>3, <1>4, <1>6, <1>7, ContinueFacts
<1> QED BY <1>1, <1>2, <1>8

\* hashmap_update() keeps the transfer good and adds one slice to what is
\* known.
LEMMA UpdateIsGood ==
    ASSUME ReceiverInv, Incoming, NEW seg \in Nat,
           hashmap_update([rx EXCEPT !.retries = MAX_RETRIES], seg),
           UNCHANGED <<active, delivered>>
    PROVE  Good /\ Continues(rx.known \union Slice(seg), rx.height)
<1> DEFINE t == [rx EXCEPT !.retries = MAX_RETRIES]
           known == t.known \union Slice(seg)
           r == [t EXCEPT !.known = known, !.waiting = FALSE]
<1>1. rx \in Receiver /\ rx.status = "TRANSFERRING"
  BY DEF ReceiverInv, TypeOK, Incoming
<1>2. t \in Receiver /\ SameParts(rx, t) /\ t.window = rx.window
      /\ t.min = rx.min /\ t.max = rx.max /\ t.outstanding = rx.outstanding
  BY <1>1, BoundAssumption DEF Receiver, SameParts
<1> HIDE DEF t
<1>3. known \in SUBSET Part /\ known = rx.known \union Slice(seg)
  BY <1>2 DEF Receiver, Slice, SameParts
<1> HIDE DEF known
<1>4. r \in Receiver /\ r.status = t.status /\ r.height = t.height
      /\ r.known = known /\ r.parts = t.parts /\ r.outstanding = t.outstanding
      /\ r.window = t.window /\ r.min = t.min /\ r.max = t.max
  BY <1>2, <1>3 DEF Receiver
<1>5. Requests(r)
  BY DEF hashmap_update, t, known
<1> HIDE DEF r
<1>6. Shape(r) /\ Sized(r)
  BY <1>2, <1>4 DEF ReceiverInv, Shape, Sized, SameParts
<1>7. r.height < N - 1 /\ r.outstanding <= r.window
  BY <1>1, <1>2, <1>4 DEF ReceiverInv, Pending, Waits, SameParts, Incoming
<1>8. Good /\ Continues(r.known, r.height)
  BY <1>1, <1>2, <1>4, <1>5, <1>6, <1>7, ContinueFacts DEF SameParts
<1> QED BY <1>2, <1>3, <1>4, <1>8 DEF SameParts

\* A retry with a smaller window keeps the transfer good.
LEMMA RetryFacts ==
    ASSUME ReceiverInv, Incoming, rx.retries > 0, Requests(Retry(rx)),
           UNCHANGED <<active, delivered>>
    PROVE  Good /\ Continues(rx.known, rx.height)
<1> DEFINE t == Shrunk(rx)
           n == t.retries - 1
           r == [t EXCEPT !.retries = n, !.waiting = FALSE]
<1>1. rx \in Receiver /\ Sized(rx) /\ rx.status = "TRANSFERRING"
  BY DEF ReceiverInv, TypeOK, Incoming
<1>2. t \in Receiver /\ Sized(t) /\ WindowOnly(rx, t)
  BY <1>1, ShrunkFacts
<1>3. n \in Nat
  BY <1>1, <1>2, FieldFacts DEF WindowOnly
<1>4. r = Retry(rx)
  BY DEF Retry
<1> HIDE DEF t, n
<1>5. r \in Receiver /\ r.status = t.status /\ r.height = t.height
      /\ r.known = t.known /\ r.parts = t.parts /\ r.outstanding = t.outstanding
      /\ r.window = t.window /\ r.min = t.min /\ r.max = t.max /\ ~r.waiting
  BY <1>2, <1>3 DEF Receiver
<1>6. Shape(r) /\ Sized(r)
  BY <1>2, <1>5 DEF ReceiverInv, Shape, Sized, WindowOnly, SameParts
<1>7. r.height < N - 1
  BY <1>1, <1>2, <1>5
  DEF ReceiverInv, Pending, WindowOnly, SameParts, Incoming
<1>8. Requests(r)
  BY <1>4
<1> HIDE DEF r
<1>9. Good /\ Continues(r.known, r.height)
  BY <1>1, <1>2, <1>5, <1>6, <1>7, <1>8, ContinueFacts DEF WindowOnly, SameParts
<1> QED BY <1>2, <1>5, <1>9 DEF WindowOnly, SameParts

\* Measuring the rate of an answered request leaves parts, window and what is
\* outstanding alone.
LEMMA AnsweredFacts ==
    ASSUME ReceiverInv, Incoming, NEW rate
    PROVE  LET a == Answered(rate) IN
           /\ a \in Receiver /\ Sized(a) /\ Shape(a) /\ SameParts(rx, a)
           /\ a.window = rx.window /\ a.outstanding = rx.outstanding
           /\ a.waiting = rx.waiting
<1> DEFINE t == IF rx.answered THEN rx ELSE FastRound(rx, rate)
           a == [t EXCEPT !.retries = MAX_RETRIES, !.answered = TRUE]
<1>1. rx \in Receiver /\ Sized(rx)
  BY DEF ReceiverInv, TypeOK
<1>2. t \in Receiver /\ Sized(t) /\ WindowOnly(rx, t) /\ t.window = rx.window
  BY <1>1, FastFacts DEF WindowOnly, SameParts
<1>3. a = Answered(rate)
  BY DEF Answered
<1> HIDE DEF t
<1>4. /\ a \in Receiver /\ SameParts(t, a) /\ a.window = t.window
      /\ a.min = t.min /\ a.max = t.max
      /\ a.outstanding = t.outstanding /\ a.waiting = t.waiting
  BY <1>2, BoundAssumption DEF Receiver, SameParts
<1> HIDE DEF a
<1>5. Sized(a) /\ Shape(a)
  BY <1>2, <1>4 DEF ReceiverInv, Sized, Shape, WindowOnly, SameParts
<1> QED BY <1>2, <1>3, <1>4, <1>5 DEF WindowOnly, SameParts

\* assemble() ends the transfer: proved and handed over, or corrupt.
LEMMA AssembleFacts ==
    ASSUME ReceiverInv, Incoming, NEW r \in Receiver, Shape(r), Sized(r),
           r.known = rx.known, r.height >= rx.height, assemble(r)
    PROVE  Good /\ Ends
<1>1. /\ up \in Seq(ToSender) /\ delivered \in Nat
      /\ active \in [{"S", "R"} -> BOOLEAN]
  BY DEF ReceiverInv, TypeOK
<1>2. ASSUME NEW s \in {"CORRUPT", "COMPLETE"}, rx' = [r EXCEPT !.status = s],
             AsksNothing, up' \in Seq(ToSender), Proved',
             active' \in [{"S", "R"} -> BOOLEAN],
             delivered' \in {delivered, delivered + 1}
      PROVE  Good /\ Ends
  <2>1. /\ rx' \in Receiver /\ rx'.status = s
        /\ rx'.known = r.known /\ rx'.height = r.height
        /\ rx'.parts = r.parts /\ rx'.window = r.window /\ rx'.max = r.max
        /\ rx'.min = r.min
    BY <1>2 DEF Receiver, ReceiverStatus
  <2>2. Shape(rx') /\ Sized(rx')
    BY <2>1 DEF Shape, Sized
  <2>3. s # "TRANSFERRING"
    OBVIOUS
  <2>4. Pending'
    BY <2>1, <2>3 DEF Pending, Incoming
  <2> QED BY <1>1, <1>2, <2>1, <2>2, <2>3, <2>4 DEF Good, Ends
<1>3. CASE /\ offer.compressed
           /\ rx' = [r EXCEPT !.status = "CORRUPT"]
           /\ up' = Send("R", up, <<[t |-> "RCL"], [t |-> "CLOSE"]>>)
           /\ active' = [active EXCEPT !["R"] = FALSE]
           /\ UNCHANGED delivered
  <2> DEFINE p == <<[t |-> "RCL"], [t |-> "CLOSE"]>>
  <2>1. /\ p \in Seq(ToSender) /\ DOMAIN p = 1 .. 2
        /\ p[1].t = "RCL" /\ p[2].t = "CLOSE"
    <3>1. [t |-> "RCL"] \in ToSender /\ [t |-> "CLOSE"] \in ToSender
      BY DEF ToSender
    <3> QED BY <3>1
  <2> HIDE DEF p
  <2>2. /\ up' \in Seq(ToSender) /\ Len(up) \in Nat
        /\ \A i \in DOMAIN up' :
              /\ i \in Nat
              /\ \/ i \in DOMAIN up /\ up'[i] = up[i]
                 \/ /\ i > Len(up) /\ i - Len(up) \in DOMAIN p
                    /\ up'[i] = p[i - Len(up)]
    <3>1. up' = Send("R", up, p)
      BY <1>3 DEF p
    <3> QED BY <1>1, <3>1, <2>1, SendFacts
  <2>3. \A i \in DOMAIN up' :
            \/ i \in DOMAIN up /\ up'[i] = up[i]
            \/ i > Len(up) /\ up'[i].t \in {"RCL", "CLOSE"}
    BY <2>1, <2>2
  <2>4. AsksNothing /\ Proved'
    BY <1>3, <2>3 DEF AsksNothing, Proved, ReceiverInv
  <2>5. active' \in [{"S", "R"} -> BOOLEAN]
    BY <1>1, <1>3
  <2> QED BY <1>2, <1>3, <2>2, <2>4, <2>5
<1>4. CASE /\ rx' = [r EXCEPT !.status = "COMPLETE"]
           /\ up' = Send("R", up, <<[t |-> "PRF"]>>)
           /\ delivered' = delivered + 1
           /\ UNCHANGED active
  <2> DEFINE x == [t |-> "PRF"]
  <2>1. x \in ToSender /\ x.t = "PRF"
    BY DEF ToSender
  <2>2. /\ up' \in Seq(ToSender) /\ Len(up) \in Nat
        /\ \A i \in DOMAIN up' :
              \/ i \in DOMAIN up /\ up'[i] = up[i]
              \/ i = Len(up) + 1 /\ up'[i] = x
    <3> HIDE DEF x
    <3> QED BY <1>1, <1>4, <2>1, SendOneFacts DEF x
  <2> HIDE DEF x
  <2>3. AsksNothing
    BY <2>1, <2>2 DEF AsksNothing
  <2>4. Proved'
    BY <1>1, <1>4 DEF Proved
  <2> QED BY <1>1, <1>2, <1>4, <2>2, <2>3, <2>4
<1>5. CASE /\ rx' = [r EXCEPT !.status = "CORRUPT"]
           /\ UNCHANGED <<up, active, delivered>>
  <2>1. AsksNothing /\ Proved'
    BY <1>5 DEF AsksNothing, Proved, ReceiverInv
  <2> QED BY <1>1, <1>2, <1>5, <2>1
<1> QED BY <1>3, <1>4, <1>5 DEF assemble

\* receive_part() keeps the transfer good: it ends it, or goes on with the
\* filled prefix no shorter.
LEMMA PartIsGood ==
    ASSUME ReceiverInv, Incoming, NEW n \in Part, receive_part(n)
    PROVE  /\ Good
           /\ Ends \/ \E h \in rx.height .. N - 1 : Continues(rx.known, h)
<1>1. PICK first \in Rates, round \in Rates :
        \E r \in {Filed(Answered(first), n)} :
          \/ /\ Full(r)
             /\ assemble(r)
          \/ /\ ~Full(r) /\ r.outstanding = 0
             /\ Requests(SlowRound(FastRound(Grown(r), round), round))
             /\ UNCHANGED <<active, delivered>>
          \/ /\ ~Full(r) /\ r.outstanding > 0
             /\ rx' = r
             /\ UNCHANGED <<up, active, delivered>>
  BY DEF receive_part
<1> DEFINE a == Answered(first)
           r == Filed(a, n)
<1>2. /\ a \in Receiver /\ Sized(a) /\ Shape(a) /\ SameParts(rx, a)
      /\ a.window = rx.window /\ a.outstanding = rx.outstanding
      /\ a.waiting = rx.waiting
  BY AnsweredFacts
<1> HIDE DEF a
<1>3. /\ r \in Receiver /\ Shape(r) /\ r.height >= a.height
      /\ r.status = a.status /\ r.known = a.known
      /\ r.window = a.window /\ r.max = a.max /\ r.min = a.min
      /\ r.waiting = a.waiting
      /\ r.outstanding <= a.outstanding
      /\ ~Full(r) => r.height < N - 1
  BY <1>2, FiledFacts
<1>4. \/ /\ Full(r)
         /\ assemble(r)
      \/ /\ ~Full(r) /\ r.outstanding = 0
         /\ Requests(SlowRound(FastRound(Grown(r), round), round))
         /\ UNCHANGED <<active, delivered>>
      \/ /\ ~Full(r) /\ r.outstanding > 0
         /\ rx' = r
         /\ UNCHANGED <<up, active, delivered>>
  BY <1>1 DEF a
<1> HIDE DEF r
<1>5. /\ Sized(r) /\ r.height >= rx.height /\ r.known = rx.known
      /\ r.status = "TRANSFERRING" /\ r.outstanding <= r.window
      /\ r.outstanding \in Nat
  <2>1. rx.outstanding <= rx.window /\ rx.status = "TRANSFERRING"
    BY DEF ReceiverInv, Pending, Waits, Incoming
  <2>2. Sized(r) /\ r.height >= rx.height /\ r.known = rx.known
        /\ r.status = "TRANSFERRING"
    BY <1>2, <1>3, <2>1 DEF Sized, SameParts
  <2>3. r.outstanding \in Nat /\ a.outstanding \in Nat /\ r.window \in Nat
    BY <1>2, <1>3, FieldFacts
  <2> QED BY <1>2, <1>3, <2>1, <2>2, <2>3
<1>6. CASE Full(r) /\ assemble(r)
  BY <1>3, <1>5, <1>6, AssembleFacts
<1>7. CASE /\ ~Full(r) /\ r.outstanding = 0
           /\ Requests(SlowRound(FastRound(Grown(r), round), round))
           /\ UNCHANGED <<active, delivered>>
  <2> DEFINE g == Grown(r)
             f == FastRound(g, round)
             s == SlowRound(f, round)
  <2>1. g \in Receiver /\ Sized(g) /\ WindowOnly(r, g)
    BY <1>3, <1>5, GrownFacts
  <2> HIDE DEF g
  <2>2. f \in Receiver /\ Sized(f) /\ WindowOnly(g, f)
    BY <2>1, FastFacts
  <2> HIDE DEF f
  <2>3. s \in Receiver /\ Sized(s) /\ WindowOnly(f, s)
    BY <2>2, SlowFacts
  <2>4. Requests(s)
    BY <1>7 DEF g, f
  <2> HIDE DEF s
  <2>5. WindowOnly(r, s)
    BY <2>1, <2>2, <2>3 DEF WindowOnly, SameParts
  <2>6. Shape(s) /\ s.status = "TRANSFERRING" /\ s.height < N - 1
        /\ s.known = r.known /\ s.height = r.height
        /\ s.outstanding = 0
    BY <2>5, <1>3, <1>5, <1>7 DEF WindowOnly, SameParts, Shape
  <2>7. s.outstanding <= s.window
    BY <2>3, <2>6, FieldFacts
  <2>8. Good /\ Continues(s.known, s.height)
    BY <2>3, <2>4, <2>6, <2>7, <1>7, ContinueFacts
  <2>9. s.height \in rx.height .. N - 1
    BY <2>3, <2>6, <1>5, FieldFacts DEF ReceiverInv, TypeOK
  <2> QED BY <2>6, <2>8, <2>9, <1>5
<1>8. CASE /\ ~Full(r) /\ r.outstanding > 0
           /\ rx' = r
           /\ UNCHANGED <<up, active, delivered>>
  <2>1. /\ up \in Seq(ToSender) /\ delivered \in Nat
        /\ active \in [{"S", "R"} -> BOOLEAN]
    BY DEF ReceiverInv, TypeOK
  <2>2. Proved' /\ Asks
    BY <1>8 DEF ReceiverInv, Proved, Asks
  <2>3. Pending'
    BY <1>3, <1>5, <1>8 DEF Pending, Waits
  <2>4. Good /\ Continues(rx.known, r.height)
    BY <1>3, <1>5, <1>8, <2>1, <2>2, <2>3 DEF Good, Continues
  <2>5. r.height \in rx.height .. N - 1
    BY <1>3, <1>5, FieldFacts DEF ReceiverInv, TypeOK
  <2> QED BY <2>4, <2>5
<1> QED BY <1>4, <1>6, <1>7, <1>8

\* What the arrival of a packet does.
Arrives(x) ==
    \/ x.t = "ADV" /\ ~Incoming /\ Continues(Slice(0), -1)
    \/ /\ x.t = "PART" /\ Incoming
       /\ Ends \/ \E h \in rx.height .. N - 1 : Continues(rx.known, h)
    \/ /\ x.t = "HMU" /\ Incoming
       /\ Continues(rx.known \union Slice(x.seg), rx.height)
    \/ Fails
    \/ Stays

\* Whatever reaches the receiver keeps it good and touches nothing of the
\* sender.
LEMMA ReceiverReceivesFacts ==
    ASSUME ReceiverInv, ReceiverReceives
    PROVE  /\ Good
           /\ \E i \in DOMAIN down :
                 /\ Takes(down, i) /\ down' = RemoveAt(down, i)
                 /\ Arrives(down[i])
           /\ UNCHANGED <<tx, setting, breaks, busy>>
<1>1. PICK i \in DOMAIN down :
        /\ Takes(down, i)
        /\ down' = RemoveAt(down, i)
        /\ \/ /\ active["R"]
              /\ \/ ReceiveAdvertisement(down[i]) \/ ReceivePart(down[i])
                 \/ ReceiveHashmapUpdate(down[i]) \/ ReceiveCancel(down[i])
           \/ UNCHANGED <<rx, up, active, delivered>>
        /\ UNCHANGED <<tx, setting, breaks, busy>>
  BY Zenon DEF ReceiverReceives
<1> DEFINE x == down[i]
<1>2. x \in ToReceiver
  BY DEF ReceiverInv, TypeOK
<1>3. active \in [{"S", "R"} -> BOOLEAN]
  BY DEF ReceiverInv, TypeOK
<1>4. ASSUME ReceiveAdvertisement(x) PROVE Good /\ Arrives(x)
  <2>1. x.t = "ADV" /\ UNCHANGED <<active, delivered>>
    BY <1>4 DEF ReceiveAdvertisement
  <2>2. CASE UNCHANGED <<rx, up>>
    <3>1. Good /\ (Fails \/ Stays)
      BY <1>3, <2>1, <2>2, QuietFacts
    <3> QED BY <2>1, <3>1 DEF Arrives
  <2>3. CASE ~Incoming /\ hashmap_update(Fresh, 0)
    BY <2>1, <2>3, AcceptFacts DEF Arrives
  <2> QED BY <1>4, <2>2, <2>3 DEF ReceiveAdvertisement, accept
<1>5. ASSUME ReceivePart(x) PROVE Good /\ Arrives(x)
  <2>1. x.t = "PART" /\ Incoming /\ receive_part(x.n)
    BY <1>5 DEF ReceivePart
  <2>2. x.n \in Part
    BY <1>2, <2>1 DEF ToReceiver
  <2> QED BY <2>1, <2>2, PartIsGood DEF Arrives
<1>6. ASSUME ReceiveHashmapUpdate(x) PROVE Good /\ Arrives(x)
  <2>1. /\ x.t = "HMU" /\ Incoming
        /\ hashmap_update([rx EXCEPT !.retries = MAX_RETRIES], x.seg)
        /\ UNCHANGED <<active, delivered>>
    BY <1>6 DEF ReceiveHashmapUpdate
  <2>2. x.seg \in Nat
    BY <1>2, <2>1 DEF ToReceiver
  <2> QED BY <2>1, <2>2, UpdateIsGood DEF Arrives
<1>7. ASSUME ReceiveCancel(x) PROVE Good /\ Arrives(x)
  <2>1. active' \in [{"S", "R"} -> BOOLEAN] /\ UNCHANGED <<up, delivered>>
    BY <1>3, <1>7 DEF ReceiveCancel
  <2>2. rx' = rx \/ rx' = [rx EXCEPT !.status = "FAILED"]
    BY <1>7 DEF ReceiveCancel
  <2>3. Good /\ (Fails \/ Stays)
    BY <2>1, <2>2, QuietFacts
  <2> QED BY <2>1, <2>3 DEF Arrives
<1>8. ASSUME UNCHANGED <<rx, up, active, delivered>> PROVE Good /\ Arrives(x)
  <2>1. Good /\ (Fails \/ Stays)
    BY <1>3, <1>8, QuietFacts
  <2> QED BY <1>8, <2>1 DEF Arrives
<1> HIDE DEF x
<1>9. Good /\ Arrives(x)
  BY <1>1, <1>4, <1>5, <1>6, <1>7, <1>8 DEF x
<1> QED BY <1>1, <1>9 DEF x

\* The receiver's watchdog keeps it good: it asks again or gives up.
LEMMA PartTimeoutFacts ==
    ASSUME ReceiverInv, part_timeout
    PROVE  /\ Good
           /\ \/ Incoming /\ Continues(rx.known, rx.height)
              \/ Fails
              \/ Stays
           /\ UNCHANGED <<tx, down, setting, faults, busy>>
<1>1. /\ Incoming
      /\ UNCHANGED <<tx, down, active, delivered, setting, faults, busy>>
  BY DEF part_timeout, ReceiverWaits
<1>2. CASE rx.retries > 0 /\ Requests(Retry(rx))
  BY <1>1, <1>2, RetryFacts
<1>3. CASE rx' = [rx EXCEPT !.status = "FAILED"] /\ UNCHANGED up
  <2>1. active' \in [{"S", "R"} -> BOOLEAN]
    BY <1>1 DEF ReceiverInv, TypeOK
  <2>2. Good /\ (Fails \/ Stays)
    BY <1>1, <1>3, <2>1, QuietFacts
  <2> QED BY <1>1, <2>2
<1> QED BY <1>1, <1>2, <1>3 DEF part_timeout

-----------------------------------------------------------------------------
(* What a step of the sender does. *)

\* A step of the sender that serves no request.
Speaks ==
    /\ tx' \in Sender /\ tx'.min = tx.min
    /\ tx'.why = "sequencing" => tx.why = "sequencing"
    /\ Early' => Early
    /\ down' \in Seq(ToReceiver)
    /\ \A i \in DOMAIN down' :
          \/ i \in DOMAIN down /\ down'[i] = down[i]
          \/ /\ i > Len(down)
             /\ \/ down'[i].t \in {"ICL", "CLOSE"}
                \/ down'[i].t = "ADV" /\ Early /\ Early'

\* A sender that gives up for another reason has met no sequencing error.
LEMMA CancelledFacts ==
    ASSUME TypeOK, NEW why \in {"timeout", "cancelled"}
    PROVE  LET c == Cancelled(tx, why) IN
           /\ c \in Sender /\ c.status = "FAILED" /\ c.min = tx.min
           /\ c.why # "sequencing"
  BY DEF TypeOK, Cancelled, Sender, SenderStatus

\* All a sender does of its own accord is to advertise, to repeat itself, or
\* to give up.
LEMMA SpeaksFacts ==
    ASSUME TypeOK,
           \/ /\ tx' = tx \/ tx' = [tx EXCEPT !.retries = @ - 1]
              /\ tx.retries > 0 \/ tx' = tx
              /\ UNCHANGED down
           \/ /\ \/ tx' = Cancelled(tx, "timeout")
                 \/ tx' = Cancelled(tx, "cancelled")
              /\ \/ down' = down
                 \/ down' = Send("S", down, CancelPacket)
                 \/ down' = Append(down, [t |-> "CLOSE"])
           \/ tx' = tx /\ down' = Append(down, [t |-> "CLOSE"])
           \/ /\ tx.status = "ADVERTISED" /\ tx.retries > 0
              /\ tx' = [tx EXCEPT !.retries = @ - 1]
              /\ down' = Send("S", down, <<Advertisement>>)
           \/ tx.status = "NONE" /\ advertise_job
    PROVE  Speaks
<1>1. tx \in Sender /\ down \in Seq(ToReceiver) /\ tx.retries \in Nat
  BY DEF TypeOK, Sender
<1>2. ASSUME down' = down
      PROVE  /\ down' \in Seq(ToReceiver)
             /\ \A i \in DOMAIN down' : i \in DOMAIN down /\ down'[i] = down[i]
  BY <1>1, <1>2
<1>3. ASSUME NEW x \in ToReceiver,
             \/ down' = Send("S", down, <<x>>)
             \/ down' = Append(down, x)
      PROVE  /\ down' \in Seq(ToReceiver)
             /\ \A i \in DOMAIN down' :
                   \/ i \in DOMAIN down /\ down'[i] = down[i]
                   \/ i > Len(down) /\ down'[i] = x
  <2>1. /\ down' \in Seq(ToReceiver) /\ Len(down) \in Nat
        /\ \A i \in DOMAIN down' :
              \/ i \in DOMAIN down /\ down'[i] = down[i]
              \/ i = Len(down) + 1 /\ down'[i] = x
    <3>1. CASE down' = Send("S", down, <<x>>)
      BY <1>1, <3>1, SendOneFacts
    <3>2. CASE down' = Append(down, x)
      BY <1>1, <3>2, AppendFacts
    <3> QED BY <1>3, <3>1, <3>2
  <2> QED BY <2>1
<1>4. /\ [t |-> "ICL"] \in ToReceiver /\ [t |-> "CLOSE"] \in ToReceiver
      /\ [t |-> "ADV"] \in ToReceiver
  BY DEF ToReceiver
<1>30. ASSUME down' = Append(down, [t |-> "CLOSE"])
      PROVE  /\ down' \in Seq(ToReceiver)
             /\ \A i \in DOMAIN down' :
                   \/ i \in DOMAIN down /\ down'[i] = down[i]
                   \/ i > Len(down) /\ down'[i].t = "CLOSE"
  <2> DEFINE x == [t |-> "CLOSE"]
  <2>1. x \in ToReceiver /\ x.t = "CLOSE" /\ down' = Append(down, x)
    BY <1>4, <1>30
  <2> HIDE DEF x
  <2>2. /\ down' \in Seq(ToReceiver)
        /\ \A i \in DOMAIN down' :
              \/ i \in DOMAIN down /\ down'[i] = down[i]
              \/ i > Len(down) /\ down'[i] = x
    BY <1>3, <2>1
  <2> QED BY <2>1, <2>2
<1>5. ASSUME tx.retries > 0, tx' = [tx EXCEPT !.retries = @ - 1]
      PROVE  tx' \in Sender /\ tx'.min = tx.min /\ tx'.why = tx.why
             /\ tx'.status = tx.status
  <2> DEFINE n == tx.retries - 1
  <2>1. n \in Nat
    BY <1>1, <1>5
  <2>2. tx' = [tx EXCEPT !.retries = n]
    BY <1>5
  <2> HIDE DEF n
  <2> QED BY <1>1, <2>1, <2>2 DEF Sender
<1>6. CASE /\ tx' = tx \/ tx' = [tx EXCEPT !.retries = @ - 1]
           /\ tx.retries > 0 \/ tx' = tx
           /\ UNCHANGED down
  <2>1. tx' \in Sender /\ tx'.min = tx.min /\ tx'.why = tx.why
        /\ tx'.status = tx.status
    BY <1>1, <1>5, <1>6
  <2> QED BY <1>2, <1>6, <2>1 DEF Speaks, Early
<1>7. ASSUME NEW why \in {"timeout", "cancelled"}, tx' = Cancelled(tx, why),
             \/ down' = down
             \/ down' = Send("S", down, CancelPacket)
             \/ down' = Append(down, [t |-> "CLOSE"])
      PROVE  Speaks
  <2>1. /\ tx' \in Sender /\ tx'.status = "FAILED" /\ tx'.min = tx.min
        /\ tx'.why # "sequencing"
    BY <1>7, CancelledFacts
  <2>2. /\ down' \in Seq(ToReceiver)
        /\ \A i \in DOMAIN down' :
              \/ i \in DOMAIN down /\ down'[i] = down[i]
              \/ i > Len(down) /\ down'[i].t \in {"ICL", "CLOSE"}
    <3>1. CASE down' = down
      BY <1>2, <3>1
    <3>2. CASE down' = Send("S", down, CancelPacket)
      BY <1>3, <1>4, <3>2 DEF CancelPacket
    <3>3. CASE down' = Append(down, [t |-> "CLOSE"])
      BY <1>30, <3>3
    <3> QED BY <1>7, <3>1, <3>2, <3>3
  <2> QED BY <2>1, <2>2 DEF Speaks, Early
<1>8. CASE tx' = tx /\ down' = Append(down, [t |-> "CLOSE"])
  <2>1. /\ down' \in Seq(ToReceiver)
        /\ \A i \in DOMAIN down' :
              \/ i \in DOMAIN down /\ down'[i] = down[i]
              \/ i > Len(down) /\ down'[i].t = "CLOSE"
    BY <1>30, <1>8
  <2> QED BY <1>1, <1>8, <2>1 DEF Speaks, Early
<1>9. ASSUME down' = Send("S", down, <<Advertisement>>)
      PROVE  /\ down' \in Seq(ToReceiver)
             /\ \A i \in DOMAIN down' :
                   \/ i \in DOMAIN down /\ down'[i] = down[i]
                   \/ i > Len(down) /\ down'[i].t = "ADV"
  BY <1>3, <1>4, <1>9 DEF Advertisement
<1>10. CASE /\ tx.status = "ADVERTISED" /\ tx.retries > 0
            /\ tx' = [tx EXCEPT !.retries = @ - 1]
            /\ down' = Send("S", down, <<Advertisement>>)
  <2>1. Early /\ Early'
    BY <1>5, <1>10 DEF Early
  <2> QED BY <1>5, <1>9, <1>10, <2>1 DEF Speaks
<1>11. CASE tx.status = "NONE" /\ advertise_job
  <2>1. CASE tx' = [tx EXCEPT !.status = "QUEUED"] /\ UNCHANGED down
    <3>1. tx' \in Sender /\ tx'.min = tx.min /\ tx'.why = tx.why
          /\ tx'.status = "QUEUED"
      BY <1>1, <2>1 DEF Sender, SenderStatus
    <3> QED BY <1>2, <1>11, <2>1, <3>1 DEF Speaks, Early
  <2>2. CASE /\ tx' = [tx EXCEPT !.status = "ADVERTISED",
                                 !.retries = MAX_ADV_RETRIES]
             /\ down' = Send("S", down, <<Advertisement>>)
    <3>1. tx' \in Sender /\ tx'.min = tx.min /\ tx'.why = tx.why
          /\ tx'.status = "ADVERTISED"
      BY <1>1, <2>2, BoundAssumption DEF Sender, SenderStatus
    <3>2. Early /\ Early'
      BY <1>11, <3>1 DEF Early
    <3> QED BY <1>9, <2>2, <3>1, <3>2 DEF Speaks
  <2> QED BY <1>11, <2>1, <2>2 DEF advertise_job
<1> QED BY <1>6, <1>7, <1>8, <1>10, <1>11

-----------------------------------------------------------------------------
(* What a step does. *)

\* What no step changes, and what every step keeps within its bounds.
Bookkeeping ==
    /\ offer' = offer /\ inorder' = inorder /\ busy' \in BOOLEAN
    /\ active' \in [{"S", "R"} -> BOOLEAN]
    /\ hung' \subseteq {"S", "R"} /\ lost' \in BOOLEAN
    /\ faults' \in 0 .. MaxFaults /\ breaks' \in 0 .. Interruptions

SpeakingStep ==
    /\ Speaks
    /\ UNCHANGED <<rx, delivered>>
    /\ \/ up' = up
       \/ \E i \in DOMAIN up : Takes(up, i) /\ up' = RemoveAt(up, i)

RequestStep ==
    /\ Outgoing
    /\ \E i \in DOMAIN up :
          /\ Takes(up, i) /\ up' = RemoveAt(up, i)
          /\ up[i].t = "REQ" /\ request(up[i])
    /\ UNCHANGED <<rx, delivered>>

ReceivingStep ==
    /\ Good
    /\ \E i \in DOMAIN down :
          Takes(down, i) /\ down' = RemoveAt(down, i) /\ Arrives(down[i])
    /\ UNCHANGED tx

\* A step of the receiver that takes no packet.
LonelyStep ==
    /\ Good
    /\ \/ Incoming /\ Continues(rx.known, rx.height)
       \/ Fails
       \/ Stays
    /\ UNCHANGED <<tx, down>>

CarrierStep ==
    /\ \/ \E i \in DOMAIN down : down' = RemoveAt(down, i) /\ UNCHANGED up
       \/ \E i \in DOMAIN up : up' = RemoveAt(up, i) /\ UNCHANGED down
       \/ /\ \E i \in DOMAIN down : /\ down[i].t = "PART"
                                    /\ down' = Append(down, down[i])
          /\ UNCHANGED up
       \/ /\ \E i \in DOMAIN up : up[i].t = "PRF" /\ up' = Append(up, up[i])
          /\ UNCHANGED down
    /\ UNCHANGED <<tx, rx, delivered>>

\* No action exceeds the bounds on faults and interruptions.
LEMMA CountFacts ==
    ASSUME TypeOK
    PROVE  /\ faults' = faults \/ Faulty => faults' \in 0 .. MaxFaults
           /\ breaks' = breaks \/ Interrupts => breaks' \in 0 .. Interruptions
  BY BoundAssumption DEF TypeOK, Faulty, Interrupts

\* What reaches the sender makes it answer a request, or speak as it does of
\* its own accord.
LEMMA SenderReceivesFacts ==
    ASSUME ReceiverInv, SenderReceives
    PROVE  Bookkeeping /\ (SpeakingStep \/ RequestStep)
<1>1. PICK i \in DOMAIN up :
        /\ Takes(up, i)
        /\ up' = RemoveAt(up, i)
        /\ \/ /\ active["S"]
              /\ \/ ReceiveRequest(up[i]) \/ ReceiveProof(up[i])
                 \/ SenderClosed(up[i])
           \/ UNCHANGED <<tx, down, active>>
        /\ UNCHANGED <<rx, delivered, setting, breaks, busy>>
  BY Zenon DEF SenderReceives
<1>2. TypeOK
  BY DEF ReceiverInv
<1>3. ASSUME active' \in [{"S", "R"} -> BOOLEAN] PROVE Bookkeeping
  <2>1. faults' = faults \/ Faulty
    BY <1>1 DEF Takes
  <2>2. faults' \in 0 .. MaxFaults /\ breaks' \in 0 .. Interruptions
    BY <1>1, <1>2, <2>1, CountFacts
  <2> QED BY <1>1, <1>2, <1>3, <2>2 DEF Bookkeeping, setting, TypeOK
<1>4. active \in [{"S", "R"} -> BOOLEAN]
  BY <1>2 DEF TypeOK
<1>5. CASE ReceiveRequest(up[i])
  BY <1>1, <1>3, <1>4, <1>5 DEF ReceiveRequest, RequestStep
<1>6. CASE ReceiveProof(up[i])
  <2>1. /\ tx' \in Sender /\ tx'.min = tx.min /\ tx'.why = tx.why
        /\ tx'.status = "COMPLETE"
    BY <1>2, <1>6 DEF ReceiveProof, TypeOK, Sender, SenderStatus
  <2>2. Speaks
    BY <1>2, <1>6, <2>1 DEF ReceiveProof, Speaks, Early, TypeOK
  <2> QED BY <1>1, <1>3, <1>4, <1>6, <2>2 DEF ReceiveProof, SpeakingStep
<1>7. CASE SenderClosed(up[i])
  <2>1. active' \in [{"S", "R"} -> BOOLEAN]
    BY <1>4, <1>7 DEF SenderClosed
  <2>2. Speaks
    BY <1>2, <1>7, SpeaksFacts DEF SenderClosed
  <2> QED BY <1>1, <1>3, <2>1, <2>2 DEF SpeakingStep
<1>8. CASE UNCHANGED <<tx, down, active>>
  <2>1. Speaks
    BY <1>2, <1>8, SpeaksFacts
  <2> QED BY <1>1, <1>3, <1>4, <1>8, <2>1 DEF SpeakingStep
<1> QED BY <1>1, <1>5, <1>6, <1>7, <1>8

\* Every step is of one of five kinds: the sender speaks, it answers a
\* request, the receiver receives, the receiver acts alone, or the carrier
\* interferes.
LEMMA StepFacts ==
    ASSUME ReceiverInv, Next
    PROVE  /\ Bookkeeping
           /\ \/ SpeakingStep \/ RequestStep \/ ReceivingStep \/ LonelyStep
              \/ CarrierStep
<1>1. TypeOK
  BY DEF ReceiverInv
<1>2. /\ active \in [{"S", "R"} -> BOOLEAN] /\ busy \in BOOLEAN
      /\ hung \subseteq {"S", "R"} /\ lost \in BOOLEAN
      /\ faults \in 0 .. MaxFaults /\ breaks \in 0 .. Interruptions
      /\ tx.retries \in Nat
  BY <1>1 DEF TypeOK, Sender
<1>3. CASE start
  <2>1. Speaks
    BY <1>1, <1>3, SpeaksFacts DEF start
  <2>2. Bookkeeping
    BY <1>2, <1>3 DEF start, Bookkeeping, world, setting
  <2> QED BY <1>3, <2>1, <2>2 DEF start, SpeakingStep
<1>4. CASE OtherConcludes
  <2>1. Speaks
    BY <1>1, <1>4, SpeaksFacts DEF OtherConcludes
  <2>2. Bookkeeping
    BY <1>2, <1>4 DEF OtherConcludes, Bookkeeping, setting
  <2> QED BY <1>4, <2>1, <2>2 DEF OtherConcludes, SpeakingStep
<1>5. CASE SenderTimeout
  <2>1. /\ SenderWaits
        /\ UNCHANGED <<rx, up, active, delivered, setting, faults, busy>>
    BY <1>5 DEF SenderTimeout, advertisement_timeout, part_request_timeout,
                proof_timeout
  <2>2. breaks' = breaks \/ Interrupts
    BY <2>1 DEF SenderWaits
  <2>3. Bookkeeping
    BY <1>1, <1>2, <2>1, <2>2, CountFacts DEF Bookkeeping, setting
  <2>4. ASSUME advertisement_timeout PROVE Speaks
    <3>1. CASE tx.retries = 0
      <4>1. /\ tx' = Cancelled(tx, "timeout")
            /\ down' = Send("S", down, CancelPacket)
        BY <2>4, <3>1 DEF advertisement_timeout
      <4> QED BY <1>1, <4>1, SpeaksFacts, Zenon
    <3>2. CASE tx.retries # 0
      <4>1. /\ tx.status = "ADVERTISED" /\ tx.retries > 0
            /\ tx' = [tx EXCEPT !.retries = @ - 1]
            /\ down' = Send("S", down, <<Advertisement>>)
        BY <1>2, <2>4, <3>2 DEF advertisement_timeout
      <4> QED BY <1>1, <4>1, SpeaksFacts, Zenon
    <3> QED BY <3>1, <3>2
  <2>5. ASSUME part_request_timeout PROVE Speaks
    <3>1. /\ tx' = Cancelled(tx, "timeout")
          /\ down' = Send("S", down, CancelPacket)
      BY <2>5 DEF part_request_timeout
    <3> QED BY <1>1, <3>1, SpeaksFacts, Zenon
  <2>6. ASSUME proof_timeout PROVE Speaks
    <3>1. CASE tx.retries = 0
      <4>1. /\ tx' = Cancelled(tx, "timeout")
            /\ down' = Send("S", down, CancelPacket)
        BY <2>6, <3>1 DEF proof_timeout
      <4> QED BY <1>1, <4>1, SpeaksFacts, Zenon
    <3>2. CASE tx.retries # 0
      <4>1. /\ tx.retries > 0 /\ tx' = [tx EXCEPT !.retries = @ - 1]
            /\ UNCHANGED down
        BY <1>2, <2>6, <3>2 DEF proof_timeout
      <4> QED BY <1>1, <4>1, SpeaksFacts, Zenon
    <3> QED BY <3>1, <3>2
  <2> QED BY <1>5, <2>1, <2>3, <2>4, <2>5, <2>6
          DEF SenderTimeout, SpeakingStep
<1>6. CASE SenderReceives
  BY <1>6, SenderReceivesFacts
<1>7. CASE ReceiverReceives
  <2>1. /\ Good
        /\ \E i \in DOMAIN down :
              /\ Takes(down, i) /\ down' = RemoveAt(down, i)
              /\ Arrives(down[i])
        /\ UNCHANGED <<tx, setting, breaks, busy>>
    BY <1>7, ReceiverReceivesFacts
  <2>2. faults' = faults \/ Faulty
    BY <2>1 DEF Takes
  <2>3. Bookkeeping
    BY <1>1, <1>2, <2>1, <2>2, CountFacts DEF Good, Bookkeeping, setting
  <2> QED BY <2>1, <2>3 DEF ReceivingStep
<1>8. CASE part_timeout
  <2>1. /\ Good
        /\ \/ Incoming /\ Continues(rx.known, rx.height)
           \/ Fails
           \/ Stays
        /\ UNCHANGED <<tx, down, setting, faults, busy>>
    BY <1>8, PartTimeoutFacts
  <2>2. breaks' = breaks \/ Interrupts
    BY <1>8 DEF part_timeout, ReceiverWaits
  <2>3. Bookkeeping
    BY <1>1, <1>2, <2>1, <2>2, CountFacts DEF Good, Bookkeeping, setting
  <2> QED BY <2>1, <2>3 DEF LonelyStep
<1>9. CASE cancel
  <2>1. Bookkeeping
    BY <1>1, <1>2, <1>9, CountFacts DEF cancel, Bookkeeping, setting
  <2>2. CASE /\ tx' = Cancelled(tx, "cancelled")
             /\ down' = Send("S", down, CancelPacket)
             /\ UNCHANGED rx
    <3>1. Speaks
      BY <1>1, <2>2, SpeaksFacts
    <3> QED BY <1>9, <2>1, <2>2, <3>1 DEF cancel, SpeakingStep
  <2>3. CASE /\ rx' = [rx EXCEPT !.status = "FAILED"]
             /\ UNCHANGED <<tx, down>>
    <3>1. Good /\ (Fails \/ Stays)
      BY <1>2, <1>9, <2>3, QuietFacts DEF cancel
    <3> QED BY <1>9, <2>1, <2>3, <3>1 DEF cancel, LonelyStep
  <2> QED BY <1>9, <2>2, <2>3 DEF cancel
<1>10. ASSUME NEW end \in {"S", "R"}, teardown(end)
       PROVE  Bookkeeping /\ (SpeakingStep \/ LonelyStep)
  <2>1. Bookkeeping
    BY <1>1, <1>2, <1>10, CountFacts DEF teardown, Bookkeeping, setting
  <2>2. CASE end = "S"
    <3>1. Speaks
      BY <1>1, <1>10, <2>2, SpeaksFacts DEF teardown
    <3> QED BY <1>10, <2>1, <2>2, <3>1 DEF teardown, SpeakingStep
  <2>3. CASE end = "R"
    <3> DEFINE x == [t |-> "CLOSE"]
    <3>1. /\ up' = Append(up, x) /\ x \in ToSender /\ x.t = "CLOSE"
          /\ rx' = rx \/ rx' = [rx EXCEPT !.status = "FAILED"]
          /\ Incoming => rx' = [rx EXCEPT !.status = "FAILED"]
          /\ active' = [active EXCEPT ![end] = FALSE]
          /\ UNCHANGED <<tx, down, delivered>>
      BY <1>10, <2>3 DEF teardown, ToSender
    <3> HIDE DEF x
    <3>2. /\ up \in Seq(ToSender) /\ delivered \in Nat /\ rx \in Receiver
          /\ rx.height \in -1 .. N - 1
      BY <1>1 DEF TypeOK, Receiver
    <3>3. /\ up' \in Seq(ToSender)
          /\ \A i \in DOMAIN up' :
                \/ i \in DOMAIN up /\ up'[i] = up[i]
                \/ i > Len(up) /\ up'[i].t = "CLOSE"
      BY <3>1, <3>2, AppendFacts
    <3>4. AsksNothing /\ Proved'
      BY <3>1, <3>3 DEF AsksNothing, ReceiverInv, Proved
    <3>5. active' \in [{"S", "R"} -> BOOLEAN]
      BY <2>1 DEF Bookkeeping
    <3>9. delivered' = delivered /\ tx' = tx /\ down' = down
      BY <3>1
    <3>6. CASE rx' = rx
      BY <2>1, <3>9, <3>2, <3>3, <3>4, <3>5, <3>6
      DEF Good, LonelyStep, Stays, ReceiverInv, Pending, Incoming
    <3>7. CASE rx' = [rx EXCEPT !.status = "FAILED"]
      <4>1. /\ rx' \in Receiver /\ rx'.status = "FAILED"
            /\ rx'.known = rx.known /\ rx'.height = rx.height
            /\ rx'.parts = rx.parts /\ rx'.window = rx.window
            /\ rx'.max = rx.max /\ rx'.min = rx.min
        BY <3>2, <3>7 DEF Receiver, ReceiverStatus
      <4>2. Shape(rx') /\ Sized(rx') /\ Pending'
        BY <4>1 DEF ReceiverInv, Shape, Sized, Pending, Incoming
      <4>3. Good /\ Fails
        BY <2>1, <3>9, <3>2, <3>3, <3>4, <3>5, <4>1, <4>2 DEF Good, Fails, Ends
      <4> QED BY <2>1, <3>9, <4>3 DEF LonelyStep
    <3> QED BY <2>1, <3>1, <3>6, <3>7
  <2> QED BY <1>10, <2>2, <2>3
<1>11. CASE Lose \/ Double
  <2>1. Bookkeeping
    BY <1>1, <1>2, <1>11, CountFacts DEF Lose, Double, Bookkeeping, setting
  <2> QED BY <1>11, <2>1 DEF Lose, Double, CarrierStep
<1>12. ASSUME NEW end \in {"S", "R"}, Hangs(end)
       PROVE  Bookkeeping /\ SpeakingStep
  <2>1. Speaks
    BY <1>1, <1>12, SpeaksFacts DEF Hangs
  <2>2. breaks' = breaks \/ Interrupts
    BY <1>12 DEF Hangs, SenderWaits, ReceiverWaits
  <2>3. Bookkeeping
    BY <1>1, <1>2, <1>12, <2>2, CountFacts DEF Hangs, Bookkeeping
  <2> QED BY <1>12, <2>1, <2>3 DEF Hangs, SpeakingStep
<1> QED BY <1>3, <1>4, <1>5, <1>6, <1>7, <1>8, <1>9, <1>10, <1>11, <1>12 DEF Next

-----------------------------------------------------------------------------
(* The type invariant, what the receiver waits for, and what it proves. *)

\* A packet that is taken off a queue leaves the others, in their order.
LEMMA TakenFacts ==
    ASSUME NEW S, NEW q \in Seq(S), NEW i \in DOMAIN q
    PROVE  LET r == RemoveAt(q, i)
           IN  /\ r \in Seq(S)
               /\ \A j \in DOMAIN r : \E k \in DOMAIN q : r[j] = q[k]
               /\ \A j, n \in DOMAIN r :
                     j < n => \E k, m \in DOMAIN q :
                                 k < m /\ r[j] = q[k] /\ r[n] = q[m]
               /\ i = 1 => \A j \in DOMAIN r : \E k \in DOMAIN q :
                                 1 < k /\ r[j] = q[k]
<1>1. /\ Len(q) \in Nat /\ DOMAIN q = 1 .. Len(q)
  BY LenProperties
<1>2. /\ RemoveAt(q, i) \in Seq(S)
      /\ DOMAIN RemoveAt(q, i) = 1 .. Len(q) - 1
      /\ \A j \in 1 .. Len(q) - 1 :
            RemoveAt(q, i)[j] = q[IF j < i THEN j ELSE j + 1]
  BY RemoveAtFacts
<1> DEFINE r == RemoveAt(q, i)
           o(j) == IF j < i THEN j ELSE j + 1
<1>3. \A j \in DOMAIN r : o(j) \in DOMAIN q /\ r[j] = q[o(j)]
  BY <1>1, <1>2
<1>4. \A j, n \in DOMAIN r : j < n => o(j) < o(n)
  BY <1>1, <1>2
<1>5. i = 1 => \A j \in DOMAIN r : 1 < o(j)
  BY <1>1, <1>2
<1> HIDE DEF o
<1> QED BY <1>2, <1>3, <1>4, <1>5

\* The receiver's invariant holds before the transfer.
LEMMA ReceiverInit == Init => ReceiverInv
<1> SUFFICES ASSUME Init PROVE ReceiverInv
  OBVIOUS
<1>1. /\ rx \in Receiver /\ Shape(rx) /\ Sized(rx) /\ Pending
  <2>1. /\ rx \in Receiver /\ rx.status = "NONE"
        /\ rx.height = Fresh.height /\ rx.parts = Fresh.parts
        /\ rx.window = Fresh.window /\ rx.max = Fresh.max
        /\ rx.min = Fresh.min
    BY FreshFacts DEF Init, Receiver, ReceiverStatus
  <2> QED BY <2>1, FreshFacts DEF Shape, Sized, Pending, Incoming
<1>2. tx \in Sender
  BY DEF Init, Sender, SenderStatus
<1>3. down \in Seq(ToReceiver) /\ up \in Seq(ToSender) /\ Proved
  <2>1. down = <<>> /\ up = <<>>
    BY DEF Init
  <2>2. <<>> \in Seq(ToReceiver) /\ <<>> \in Seq(ToSender)
    BY EmptySeq
  <2>3. DOMAIN up = {}
    BY <2>1
  <2> QED BY <2>1, <2>2, <2>3 DEF Proved
<1>4. /\ active \in [{"S", "R"} -> BOOLEAN]
      /\ offer \in Offers /\ inorder \in InOrder /\ busy \in BOOLEAN
      /\ delivered \in Nat /\ hung \subseteq {"S", "R"} /\ lost \in BOOLEAN
      /\ faults \in 0 .. MaxFaults /\ breaks \in 0 .. Interruptions
  <2>1. active = [end \in {"S", "R"} |-> TRUE]
    BY DEF Init
  <2>2. /\ offer \in Offers /\ inorder \in InOrder /\ busy \in BOOLEAN
        /\ delivered = 0 /\ hung = {} /\ lost = FALSE
        /\ faults = 0 /\ breaks = 0
    BY DEF Init
  <2>3. active \in [{"S", "R"} -> BOOLEAN]
    BY <2>1
  <2>4. hung \subseteq {"S", "R"} /\ lost \in BOOLEAN
    BY DEF Init
  <2> QED BY <2>2, <2>3, <2>4, BoundAssumption
<1> QED BY <1>1, <1>2, <1>3, <1>4 DEF ReceiverInv, TypeOK

\* Every step keeps the receiver's invariant.
LEMMA ReceiverStep == ReceiverInv /\ [Next]_vars => ReceiverInv'
<1> SUFFICES ASSUME ReceiverInv, [Next]_vars PROVE ReceiverInv'
  OBVIOUS
<1>1. CASE UNCHANGED vars
  BY <1>1 DEF vars, ReceiverInv, TypeOK, Shape, Sized, Pending, Incoming, Waits,
              Proved
<1> SUFFICES ASSUME Next PROVE ReceiverInv'
  BY <1>1
<1>2. /\ tx \in Sender /\ down \in Seq(ToReceiver) /\ up \in Seq(ToSender)
      /\ offer \in Offers /\ inorder \in InOrder
      /\ rx \in Receiver /\ delivered \in Nat
      /\ TypeOK
  BY DEF ReceiverInv, TypeOK
<1>3. Bookkeeping
  BY StepFacts
<1>4. ASSUME tx' \in Sender, down' \in Seq(ToReceiver), Good PROVE ReceiverInv'
  BY <1>2, <1>3, <1>4 DEF Good, Bookkeeping, ReceiverInv, TypeOK
<1>5. ASSUME UNCHANGED <<rx, delivered>>, up' \in Seq(ToSender), Proved'
      PROVE  Good
  <2>1. Pending' /\ Shape(rx') /\ Sized(rx')
    BY <1>5 DEF ReceiverInv, Pending, Incoming
  <2> QED BY <1>2, <1>3, <1>5, <2>1 DEF Good, Bookkeeping
<1>6. ASSUME NEW i \in DOMAIN up, up' = RemoveAt(up, i), delivered' = delivered
      PROVE  up' \in Seq(ToSender) /\ Proved'
  <2>1. /\ up' \in Seq(ToSender)
        /\ \A j \in DOMAIN up' : \E k \in DOMAIN up : up'[j] = up[k]
    BY <1>2, <1>6, TakenFacts
  <2> QED BY <1>6, <2>1 DEF ReceiverInv, Proved
<1>7. ASSUME up' = up, delivered' = delivered
      PROVE  up' \in Seq(ToSender) /\ Proved'
  BY <1>2, <1>7 DEF ReceiverInv, Proved
<1>8. CASE SpeakingStep
  <2>1. tx' \in Sender /\ down' \in Seq(ToReceiver)
    BY <1>8 DEF SpeakingStep, Speaks
  <2>2. up' \in Seq(ToSender) /\ Proved'
    BY <1>6, <1>7, <1>8 DEF SpeakingStep
  <2> QED BY <1>4, <1>5, <1>8, <2>1, <2>2 DEF SpeakingStep
<1>9. CASE RequestStep
  <2>1. PICK i \in DOMAIN up :
          /\ up' = RemoveAt(up, i)
          /\ up[i].t = "REQ" /\ request(up[i])
    BY <1>9 DEF RequestStep
  <2>2. Outgoing /\ UNCHANGED <<rx, delivered>>
    BY <1>9 DEF RequestStep
  <2>3. up[i] \in ToSender
    BY <1>2
  <2>4. tx' \in Sender /\ down' \in Seq(ToReceiver)
    BY <1>2, <2>1, <2>2, <2>3, RequestFacts
  <2>5. up' \in Seq(ToSender) /\ Proved'
    BY <1>6, <2>1, <2>2
  <2> QED BY <1>4, <1>5, <2>2, <2>4, <2>5
<1>10. CASE ReceivingStep
  <2>1. PICK i \in DOMAIN down : down' = RemoveAt(down, i)
    BY <1>10 DEF ReceivingStep
  <2>2. down' \in Seq(ToReceiver)
    BY <1>2, <2>1, TakenFacts
  <2> QED BY <1>2, <1>4, <1>10, <2>2 DEF ReceivingStep
<1>11. CASE LonelyStep
  BY <1>2, <1>4, <1>11 DEF LonelyStep
<1>12. CASE CarrierStep
  <2>1. UNCHANGED <<tx, rx, delivered>>
    BY <1>12 DEF CarrierStep
  <2>2. CASE \E i \in DOMAIN down : down' = RemoveAt(down, i) /\ UNCHANGED up
    <3>1. down' \in Seq(ToReceiver)
      BY <1>2, <2>2, TakenFacts
    <3>2. up' \in Seq(ToSender) /\ Proved'
      BY <1>7, <2>1, <2>2
    <3> QED BY <1>2, <1>4, <1>5, <2>1, <3>1, <3>2
  <2>3. CASE \E i \in DOMAIN up : up' = RemoveAt(up, i) /\ UNCHANGED down
    <3>1. up' \in Seq(ToSender) /\ Proved'
      BY <1>6, <2>1, <2>3
    <3> QED BY <1>2, <1>4, <1>5, <2>1, <2>3, <3>1
  <2>4. CASE /\ \E i \in DOMAIN down : /\ down[i].t = "PART"
                                       /\ down' = Append(down, down[i])
             /\ UNCHANGED up
    <3>1. down' \in Seq(ToReceiver)
      BY <1>2, <2>4, AppendProperties
    <3>2. up' \in Seq(ToSender) /\ Proved'
      BY <1>7, <2>1, <2>4
    <3> QED BY <1>2, <1>4, <1>5, <2>1, <3>1, <3>2
  <2>5. CASE /\ \E i \in DOMAIN up : up[i].t = "PRF" /\ up' = Append(up, up[i])
             /\ UNCHANGED down
    <3>1. PICK i \in DOMAIN up : up[i].t = "PRF" /\ up' = Append(up, up[i])
      BY <2>5
    <3>2. up[i] \in ToSender
      BY <1>2
    <3>3. /\ up' \in Seq(ToSender)
          /\ \A j \in DOMAIN up' : \E k \in DOMAIN up : up'[j] = up[k]
      BY <1>2, <3>1, <3>2, AppendFacts
    <3>4. Proved'
      BY <2>1, <3>3 DEF ReceiverInv, Proved
    <3> QED BY <1>2, <1>4, <1>5, <2>1, <2>5, <3>3, <3>4
  <2> QED BY <1>12, <2>2, <2>3, <2>4, <2>5 DEF CarrierStep
<1> QED BY <1>8, <1>9, <1>10, <1>11, <1>12, StepFacts

\* The receiver is in order at all times: the types are right, the filled
\* prefix ends where height says, the window keeps its bounds, a resource
\* that is being received waits for something, and a proof is only under way
\* when the payload was handed over.
THEOREM ReceiverCorrect == Spec => []ReceiverInv
  BY ReceiverInit, ReceiverStep, PTL DEF Spec

-----------------------------------------------------------------------------
(* The order of the packets, and why the payload arrives once. *)

\* Nothing of the resource has come, but what the advertisement says.
Untouched == rx.height = -1 /\ rx.known \subseteq Slice(0) /\ delivered = 0

\* As long as an advertisement can be made or is under way, nothing was sent
\* that follows it.
OrderInv ==
    inorder =>
        /\ Early => Untouched /\ \A i \in DOMAIN down : ~Data(down[i])
        /\ \A i \in DOMAIN down : down[i].t = "ADV" => Untouched
        /\ \A i, j \in DOMAIN down :
              i < j /\ Data(down[i]) => down[j].t # "ADV"
        /\ delivered <= 1
        /\ Incoming => delivered = 0

\* Nothing is out of order before the transfer.
LEMMA OrderInit == Init => OrderInv
<1> SUFFICES ASSUME Init PROVE OrderInv
  OBVIOUS
<1>1. down = <<>> /\ delivered = 0
  BY DEF Init
<1>2. rx.height = -1 /\ rx.known = {}
  BY FreshFacts DEF Init, Fresh
<1>3. DOMAIN down = {}
  BY <1>1
<1> QED BY <1>1, <1>2, <1>3 DEF OrderInv, Untouched, Slice

\* Every step keeps the order of what is under way, on a carrier that keeps
\* it.
LEMMA OrderStep == ReceiverInv /\ OrderInv /\ [Next]_vars => OrderInv'
<1> SUFFICES ASSUME ReceiverInv, OrderInv, [Next]_vars PROVE OrderInv'
  OBVIOUS
<1>1. CASE UNCHANGED vars
  BY <1>1 DEF vars, OrderInv, Early, Untouched, Incoming
<1> SUFFICES ASSUME Next, inorder' PROVE OrderInv'
  BY <1>1 DEF OrderInv
<1>2. /\ down \in Seq(ToReceiver) /\ up \in Seq(ToSender) /\ delivered \in Nat
      /\ TypeOK
  BY DEF ReceiverInv, TypeOK
<1>3. inorder
  BY StepFacts DEF Bookkeeping
<1>4. /\ Early => Untouched /\ \A i \in DOMAIN down : ~Data(down[i])
      /\ \A i \in DOMAIN down : down[i].t = "ADV" => Untouched
      /\ \A i, j \in DOMAIN down :
            i < j /\ Data(down[i]) => down[j].t # "ADV"
      /\ delivered <= 1
      /\ Incoming => delivered = 0
  BY <1>3 DEF OrderInv
<1>5. Len(down) \in Nat /\ DOMAIN down = 1 .. Len(down)
  BY <1>2, LenProperties
<1>6. ASSUME UNCHANGED <<rx, delivered>>
      PROVE  /\ Untouched => Untouched'
             /\ delivered' <= 1
             /\ Incoming' => delivered' = 0
  BY <1>4, <1>6 DEF Untouched, Incoming
\* The steps of the sender, and of the carrier: the order of down.
<1>7. ASSUME UNCHANGED <<rx, delivered>>, Early' => Early,
             down' \in Seq(ToReceiver),
             \A i \in DOMAIN down' :
                \/ i \in DOMAIN down /\ down'[i] = down[i]
                \/ /\ i > Len(down)
                   /\ Data(down'[i]) => ~Early'
                   /\ down'[i].t = "ADV" => Early /\ Early'
      PROVE  OrderInv'
  <2>1. Early' => Untouched' /\ \A i \in DOMAIN down' : ~Data(down'[i])
    BY <1>4, <1>6, <1>7
  <2>2. \A i \in DOMAIN down' : down'[i].t = "ADV" => Untouched'
    BY <1>4, <1>6, <1>7
  <2>3. ASSUME NEW i \in DOMAIN down', NEW j \in DOMAIN down', i < j,
               Data(down'[i]), down'[j].t = "ADV"
        PROVE  FALSE
    <3>1. i \in Nat /\ j \in Nat
      BY <1>7, LenProperties
    <3>2. CASE j \in DOMAIN down /\ down'[j] = down[j]
      <4>1. i \in DOMAIN down /\ down'[i] = down[i]
        BY <1>5, <1>7, <2>3, <3>1, <3>2
      <4> QED BY <1>4, <2>3, <3>2, <4>1
    <3>3. CASE j > Len(down) /\ Early /\ Early'
      <4>1. i \in DOMAIN down /\ down'[i] = down[i]
        BY <1>7, <2>3, <3>3
      <4> QED BY <1>4, <2>3, <3>3, <4>1
    <3> QED BY <1>7, <2>3, <3>2, <3>3
  <2>4. \A i, j \in DOMAIN down' :
           i < j /\ Data(down'[i]) => down'[j].t # "ADV"
    BY <2>3
  <2>5. delivered' <= 1 /\ (Incoming' => delivered' = 0)
    BY <1>6, <1>7
  <2> QED BY <2>1, <2>2, <2>4, <2>5 DEF OrderInv, Data
<1>8. CASE SpeakingStep
  <2>1. \A i \in DOMAIN down' :
           \/ i \in DOMAIN down /\ down'[i] = down[i]
           \/ /\ i > Len(down)
              /\ Data(down'[i]) => ~Early'
              /\ down'[i].t = "ADV" => Early /\ Early'
    BY <1>8 DEF SpeakingStep, Speaks, Data
  <2> QED BY <1>7, <1>8, <2>1 DEF SpeakingStep, Speaks
<1>9. CASE RequestStep
  <2>1. PICK i \in DOMAIN up : up[i].t = "REQ" /\ request(up[i])
    BY <1>9 DEF RequestStep
  <2>2. Outgoing /\ UNCHANGED <<rx, delivered>> /\ up[i] \in ToSender
    BY <1>2, <1>9 DEF RequestStep
  <2>3. /\ tx'.status \in {"TRANSFERRING", "AWAITING_PROOF", "FAILED"}
        /\ down' \in Seq(ToReceiver)
        /\ \A j \in DOMAIN down' :
              \/ j \in DOMAIN down /\ down'[j] = down[j]
              \/ /\ j > Len(down)
                 /\ down'[j].t \in {"PART", "HMU", "ICL"}
    BY <1>2, <2>1, <2>2, RequestFacts
  <2>4. ~Early'
    BY <2>3 DEF Early
  <2> QED BY <1>7, <2>2, <2>3, <2>4
<1>10. CASE ReceivingStep
  <2>1. PICK i \in DOMAIN down :
          Takes(down, i) /\ down' = RemoveAt(down, i) /\ Arrives(down[i])
    BY <1>10 DEF ReceivingStep
  <2>2. i = 1 /\ UNCHANGED tx
    BY <1>3, <1>10, <2>1 DEF Takes, ReceivingStep
  <2> DEFINE x == down[1]
  <2>3. /\ \A j \in DOMAIN down' : \E k \in DOMAIN down :
              1 < k /\ down'[j] = down[k]
        /\ \A j, n \in DOMAIN down' :
              j < n => \E k, m \in DOMAIN down :
                          k < m /\ down'[j] = down[k] /\ down'[n] = down[m]
        /\ 1 \in DOMAIN down
    BY <1>2, <2>1, <2>2, TakenFacts, SMTT(30)
  <2>4. /\ Early' <=> Early
        /\ Early' => \A j \in DOMAIN down' : ~Data(down'[j])
        /\ \A j, n \in DOMAIN down' :
              j < n /\ Data(down'[j]) => down'[n].t # "ADV"
    BY <1>4, <2>2, <2>3 DEF Early
  <2>5. ASSUME Untouched => Untouched', delivered' <= 1,
               Incoming' => delivered' = 0
        PROVE  OrderInv'
    BY <1>4, <2>3, <2>4, <2>5 DEF OrderInv, Data
  <2>6. CASE x.t = "ADV" /\ Continues(Slice(0), -1)
    <3>1. Untouched
      BY <1>4, <2>3, <2>6
    <3>2. Untouched' /\ delivered' = 0
      BY <2>6, <3>1 DEF Untouched, Continues, Slice
    <3> QED BY <2>5, <3>2
  <2>7. CASE Data(x) /\ (Ends \/ \E known, h : Continues(known, h)) /\ Incoming
    <3>1. ~Early /\ delivered = 0
      BY <1>4, <2>3, <2>7
    <3>2. \A j \in DOMAIN down' : down'[j].t # "ADV"
      BY <1>4, <2>3, <2>7
    <3>3. delivered' <= 1 /\ (Incoming' => delivered' = 0)
      BY <2>7, <3>1 DEF Ends, Continues, Incoming
    <3> QED BY <2>4, <3>1, <3>2, <3>3 DEF OrderInv, Data
  <2>8. CASE Fails \/ Stays
    <3>1. Untouched => Untouched'
      BY <2>8 DEF Untouched, Fails, Ends, Stays, Slice
    <3>2. delivered' <= 1 /\ (Incoming' => delivered' = 0)
      BY <1>4, <2>8 DEF Fails, Ends, Stays, Incoming
    <3> QED BY <2>5, <3>1, <3>2
  <2>9. Arrives(x)
    BY <2>1, <2>2
  <2> QED BY <2>6, <2>7, <2>8, <2>9 DEF Arrives, Data
<1>11. CASE LonelyStep
  <2>1. UNCHANGED <<tx, down>>
    BY <1>11 DEF LonelyStep
  <2>2. ASSUME Untouched => Untouched', delivered' <= 1,
               Incoming' => delivered' = 0
        PROVE  OrderInv'
    BY <1>4, <2>1, <2>2 DEF OrderInv, Data, Early
  <2>3. CASE Incoming /\ Continues(rx.known, rx.height)
    <3>1. /\ Untouched => Untouched'
          /\ delivered' = delivered /\ delivered = 0
      BY <1>4, <2>3 DEF Untouched, Continues, Slice
    <3> QED BY <2>2, <3>1
  <2>4. CASE Fails \/ Stays
    <3>1. Untouched => Untouched'
      BY <2>4 DEF Untouched, Fails, Ends, Stays, Slice
    <3>2. delivered' <= 1 /\ (Incoming' => delivered' = 0)
      BY <1>4, <2>4 DEF Fails, Ends, Stays, Incoming
    <3> QED BY <2>2, <3>1, <3>2
  <2> QED BY <1>11, <2>3, <2>4 DEF LonelyStep
<1>12. CASE CarrierStep
  <2>1. UNCHANGED <<tx, rx, delivered>>
    BY <1>12 DEF CarrierStep
  <2>2. Early' <=> Early
    BY <2>1 DEF Early
  <2>3. CASE \E i \in DOMAIN down : down' = RemoveAt(down, i)
    <3>1. /\ \A j \in DOMAIN down' : \E k \in DOMAIN down : down'[j] = down[k]
          /\ \A j, n \in DOMAIN down' :
                j < n => \E k, m \in DOMAIN down :
                            k < m /\ down'[j] = down[k] /\ down'[n] = down[m]
      BY <1>2, <2>3, TakenFacts
    <3> QED BY <1>4, <1>6, <2>1, <2>2, <3>1 DEF OrderInv, Data
  <2>4. CASE down' = down
    BY <1>2, <1>7, <2>1, <2>2, <2>4
  <2>5. CASE \E i \in DOMAIN down : /\ down[i].t = "PART"
                                    /\ down' = Append(down, down[i])
    <3>1. PICK i \in DOMAIN down : /\ down[i].t = "PART"
                                   /\ down' = Append(down, down[i])
      BY <2>5
    <3>2. down[i] \in ToReceiver /\ ~Early
      BY <1>2, <1>4, <3>1 DEF Data
    <3>3. /\ down' \in Seq(ToReceiver)
          /\ \A j \in DOMAIN down' :
                \/ j \in DOMAIN down /\ down'[j] = down[j]
                \/ j > Len(down) /\ down'[j].t = "PART"
      BY <1>2, <1>5, <3>1, <3>2, AppendFacts
    <3> QED BY <1>7, <2>1, <2>2, <3>2, <3>3
  <2> QED BY <1>12, <2>3, <2>4, <2>5 DEF CarrierStep
<1> QED BY <1>8, <1>9, <1>10, <1>11, <1>12, StepFacts

-----------------------------------------------------------------------------
(* The hashmap, and where the two ends think the other one is. *)

\* A request for more of the hashmap.
More(x) == x.t = "REQ" /\ x.more

\* The receiver asked when it knew the first m slices of the hashmap: s is the
\* sender's account of what it knows, k the slices it knows now and h the end
\* of its filled prefix.
Genuine(x, s, k, h) ==
    \E m \in Nat :
        /\ m <= k /\ s <= m * HASHMAP_MAX_LEN
        /\ m * HASHMAP_MAX_LEN - 1 \in Part
        /\ x.last = mh[m * HASHMAP_MAX_LEN - 1]
        /\ m * HASHMAP_MAX_LEN <= h + WINDOW_MAX

\* Later requests name later map hashes.
Ascending ==
    \A i, j \in DOMAIN up :
        i < j /\ More(up[i]) /\ More(up[j]) =>
            \A p, q \in Part :
                up[i].last = mh[p] /\ up[j].last = mh[q] => p <= q

\* The first k slices are known, of which the sender has s parts on record,
\* one slice less at most; the record is at most a window ahead of the filled
\* prefix.
Aligned(s, k) ==
    /\ rx.known = {i \in Part : i < k * HASHMAP_MAX_LEN}
    /\ Incoming => k > 0
    /\ tx.min = receiver_min_consecutive_height(s)
    /\ s <= N /\ s <= k * HASHMAP_MAX_LEN
    /\ k * HASHMAP_MAX_LEN <= s + HASHMAP_MAX_LEN
    /\ s = 0 \/ s <= rx.height + WINDOW_MAX
    /\ \A i \in DOMAIN down :
          down[i].t = "HMU" => down[i].seg * HASHMAP_MAX_LEN <= s
    /\ \A i \in DOMAIN up : More(up[i]) => Genuine(up[i], s, k, rx.height)

SequenceInv ==
    inorder /\ Injective =>
        /\ tx.why # "sequencing"
        /\ Ascending
        /\ \E s, k \in Nat : Aligned(s, k)

\* Slice boundaries grow with the number of slices.
LEMMA Monotone ==
    ASSUME NEW m \in Nat, NEW k \in Nat, m <= k
    PROVE  /\ m * HASHMAP_MAX_LEN \in Nat /\ k * HASHMAP_MAX_LEN \in Nat
           /\ m * HASHMAP_MAX_LEN <= k * HASHMAP_MAX_LEN
           /\ k > 0 => k * HASHMAP_MAX_LEN >= HASHMAP_MAX_LEN
<1>1. HASHMAP_MAX_LEN \in Nat /\ HASHMAP_MAX_LEN > 0
  BY SizeAssumption
<1>2. /\ m * HASHMAP_MAX_LEN \in Nat /\ k * HASHMAP_MAX_LEN \in Nat
  BY <1>1
<1>3. m * HASHMAP_MAX_LEN <= k * HASHMAP_MAX_LEN
  <2>1. /\ k - m \in Nat
        /\ k * HASHMAP_MAX_LEN =
              m * HASHMAP_MAX_LEN + (k - m) * HASHMAP_MAX_LEN
    BY <1>1
  <2> DEFINE a == m * HASHMAP_MAX_LEN
             b == k * HASHMAP_MAX_LEN
             d == (k - m) * HASHMAP_MAX_LEN
  <2>2. d \in Nat
    BY <1>1, <2>1
  <2>3. a \in Nat /\ b = a + d
    BY <1>2, <2>1
  <2> HIDE DEF a, b, d
  <2>4. a <= b
    BY <2>2, <2>3
  <2> QED BY <2>4 DEF a, b
<1>4. k > 0 => k * HASHMAP_MAX_LEN >= HASHMAP_MAX_LEN
  <2> SUFFICES ASSUME k > 0 PROVE k * HASHMAP_MAX_LEN >= HASHMAP_MAX_LEN
    OBVIOUS
  <2>1. /\ k - 1 \in Nat
        /\ k * HASHMAP_MAX_LEN = HASHMAP_MAX_LEN + (k - 1) * HASHMAP_MAX_LEN
    BY <1>1
  <2>2. (k - 1) * HASHMAP_MAX_LEN >= 0
    BY <1>1, <2>1
  <2> QED BY <1>1, <1>2, <2>1, <2>2
<1> QED BY <1>2, <1>3, <1>4

\* When part of the window is beyond the hashmap, the last map hash that is
\* known is that of the end of the last slice.
LEMMA LastKnownFacts ==
    ASSUME NEW r \in Receiver, Sized(r), NEW k \in Nat \ {0},
           r.known = {i \in Part : i < k * HASHMAP_MAX_LEN}, Unknown(r) # {}
    PROVE  /\ k * HASHMAP_MAX_LEN - 1 \in Part
           /\ LastKnown(r) = mh[k * HASHMAP_MAX_LEN - 1]
           /\ k * HASHMAP_MAX_LEN <= r.height + WINDOW_MAX
<1> DEFINE len == k * HASHMAP_MAX_LEN
<1>1. len \in Nat /\ len >= HASHMAP_MAX_LEN /\ HASHMAP_MAX_LEN \in Nat \ {0}
  BY Monotone, SizeAssumption
<1>2. r.known = {i \in Part : i < len}
  OBVIOUS
<1> HIDE DEF len
<1>3. PICK i \in Part : i >= len /\ i <= r.height + r.window
  BY <1>1, <1>2 DEF Unknown, Searched, Part
<1>4. r.known = 0 .. len - 1
  BY <1>1, <1>2, <1>3, SizeAssumption DEF Part
<1>5. Cardinality(r.known) = len
  <2>1. Cardinality(0 .. len - 1) =
          IF 0 > len - 1 THEN 0 ELSE (len - 1) - 0 + 1
    BY <1>1, FS_Interval
  <2>2. ~(0 > len - 1) /\ (len - 1) - 0 + 1 = len
    BY <1>1
  <2>3. Cardinality(0 .. len - 1) = len
    BY <2>1, <2>2
  <2> QED BY <1>4, <2>3, Zenon
<1>6. r.known # {}
  BY <1>1, <1>4
<1>7. LastKnown(r) = mh[len - 1]
  BY <1>5, <1>6 DEF LastKnown
<1>8. len - 1 \in Part
  BY <1>1, <1>3, SizeAssumption DEF Part
<1>9. len <= r.height + WINDOW_MAX
  <2>1. r.window <= WINDOW_MAX /\ r.window \in Nat /\ r.height \in Int
        /\ WINDOW_MAX \in Nat
    BY WindowAssumption, FieldFacts DEF Sized, WINDOW_MAX
  <2> QED BY <1>1, <1>3, <2>1 DEF Part
<1> QED BY <1>7, <1>8, <1>9 DEF len

\* request() finds the end of the hashmap the receiver has named.
LEMMA IndexFacts ==
    ASSUME TypeOK, Injective, NEW s \in Nat, NEW k \in Nat, Aligned(s, k),
           NEW m \in Nat, m <= k, s <= m * HASHMAP_MAX_LEN,
           m * HASHMAP_MAX_LEN - 1 \in Part
    PROVE  LET index == PartIndex(mh[m * HASHMAP_MAX_LEN - 1]) IN
           /\ index = m * HASHMAP_MAX_LEN
           /\ index % HASHMAP_MAX_LEN = 0
           /\ index \div HASHMAP_MAX_LEN = m
<1> DEFINE len == m * HASHMAP_MAX_LEN
<1>1. /\ len \in Nat /\ len <= k * HASHMAP_MAX_LEN
      /\ k * HASHMAP_MAX_LEN \in Nat /\ HASHMAP_MAX_LEN \in Nat \ {0}
      /\ WINDOW_MAX_FAST \in Nat \ {0}
  BY Monotone, SizeAssumption, WindowAssumption
<1>2. /\ tx.min = receiver_min_consecutive_height(s)
      /\ k * HASHMAP_MAX_LEN <= s + HASHMAP_MAX_LEN
  BY DEF Aligned
<1>3. len - 1 \in Part /\ s <= len /\ len <= s + HASHMAP_MAX_LEN
  BY <1>1, <1>2
<1> HIDE DEF len
<1>4. len - 1 \in SearchRange
  BY <1>1, <1>2, <1>3, SizeAssumption
  DEF SearchRange, receiver_min_consecutive_height, COLLISION_GUARD_SIZE,
      WINDOW_MAX, Part
<1>5. \A i \in SearchRange : mh[i] = mh[len - 1] => i = len - 1
  BY <1>3 DEF Injective, SearchRange
<1>6. PartIndex(mh[len - 1]) = len - 1 + 1
  BY <1>4, <1>5, PartIndexFacts
<1>7. PartIndex(mh[len - 1]) = len
  BY <1>1, <1>6
<1>8. len % HASHMAP_MAX_LEN = 0 /\ len \div HASHMAP_MAX_LEN = m
  BY <1>1, Multiple DEF len
<1> QED BY <1>7, <1>8 DEF len

\* The requests under way, as far as SequenceInv speaks of them.
Orderly(s, k, h) ==
    Ascending /\ \A i \in DOMAIN up : More(up[i]) => Genuine(up[i], s, k, h)

\* The same of the requests after a step.
OrderlyNext(s, k, h) ==
    /\ \A i, j \in DOMAIN up' :
          i < j /\ More(up'[i]) /\ More(up'[j]) =>
              \A p, q \in Part :
                  up'[i].last = mh[p] /\ up'[j].last = mh[q] => p <= q
    /\ \A i \in DOMAIN up' : More(up'[i]) => Genuine(up'[i], s, k, h)

\* A request that was genuine for an earlier state of the transfer still is.
LEMMA GenuineFacts ==
    ASSUME NEW x, NEW s \in Nat, NEW k \in Nat, NEW h \in Int,
           NEW k2 \in Nat, NEW h2 \in Int, k <= k2, h <= h2,
           Genuine(x, s, k, h)
    PROVE  Genuine(x, s, k2, h2)
<1>1. PICK m \in Nat :
        /\ m <= k /\ s <= m * HASHMAP_MAX_LEN
        /\ m * HASHMAP_MAX_LEN - 1 \in Part
        /\ x.last = mh[m * HASHMAP_MAX_LEN - 1]
        /\ m * HASHMAP_MAX_LEN <= h + WINDOW_MAX
  BY DEF Genuine
<1>2. m <= k2
  BY <1>1
<1>3. m * HASHMAP_MAX_LEN <= h2 + WINDOW_MAX
  <2>1. m * HASHMAP_MAX_LEN \in Nat /\ WINDOW_MAX \in Nat
    BY Monotone, WindowAssumption DEF WINDOW_MAX
  <2> DEFINE len == m * HASHMAP_MAX_LEN
  <2>2. len \in Nat /\ len <= h + WINDOW_MAX
    BY <1>1, <2>1
  <2> HIDE DEF len
  <2>3. len <= h2 + WINDOW_MAX
    BY <2>1, <2>2
  <2> QED BY <2>3 DEF len
<1> QED BY <1>1, <1>2, <1>3 DEF Genuine

\* Packets that leave, and packets that are no requests, change nothing.
LEMMA KeepsOrder ==
    ASSUME up \in Seq(ToSender), NEW s \in Nat, NEW k \in Nat, NEW h \in Int,
           NEW h2 \in Int, h <= h2, Orderly(s, k, h),
           \/ up' = up
           \/ \E i \in DOMAIN up : up' = RemoveAt(up, i)
           \/ up' \in Seq(ToSender) /\ AsksNothing
    PROVE  OrderlyNext(s, k, h2)
<1>1. \A i \in DOMAIN up : More(up[i]) => Genuine(up[i], s, k, h2)
  BY GenuineFacts DEF Orderly
<1>2. Ascending /\ Len(up) \in Nat /\ DOMAIN up = 1 .. Len(up)
  BY LenProperties DEF Orderly
<1>3. CASE up' = up
  BY <1>1, <1>2, <1>3 DEF OrderlyNext, Ascending
<1>4. CASE \E i \in DOMAIN up : up' = RemoveAt(up, i)
  <2>1. /\ \A j \in DOMAIN up' : \E n \in DOMAIN up : up'[j] = up[n]
        /\ \A j, l \in DOMAIN up' :
              j < l => \E n, m \in DOMAIN up :
                          n < m /\ up'[j] = up[n] /\ up'[l] = up[m]
    BY <1>4, TakenFacts
  <2>2. ASSUME NEW i \in DOMAIN up', NEW j \in DOMAIN up', i < j,
               More(up'[i]), More(up'[j]), NEW p \in Part, NEW q \in Part,
               up'[i].last = mh[p], up'[j].last = mh[q]
        PROVE  p <= q
    <3>1. PICK n \in DOMAIN up, m \in DOMAIN up :
            n < m /\ up'[i] = up[n] /\ up'[j] = up[m]
      BY <2>1, <2>2
    <3> QED BY <1>2, <2>2, <3>1 DEF Ascending
  <2>3. \A i \in DOMAIN up' : More(up'[i]) => Genuine(up'[i], s, k, h2)
    BY <1>1, <2>1
  <2> QED BY <2>2, <2>3 DEF OrderlyNext
<1>5. CASE up' \in Seq(ToSender) /\ AsksNothing
  <2>1. \A i \in DOMAIN up' :
           More(up'[i]) => i \in DOMAIN up /\ up'[i] = up[i]
    BY <1>5 DEF AsksNothing, More
  <2> QED BY <1>1, <1>2, <2>1 DEF OrderlyNext, Ascending
<1> QED BY <1>3, <1>4, <1>5

\* A request that is sent is a genuine one.
LEMMA AsksInOrder ==
    ASSUME up \in Seq(ToSender), up' \in Seq(ToSender), Injective,
           rx' \in Receiver, Sized(rx'),
           NEW s \in Nat, NEW k \in Nat, NEW k2 \in Nat \ {0}, k <= k2,
           NEW h \in Int, h <= rx'.height, Orderly(s, k, h),
           rx'.known = {i \in Part : i < k2 * HASHMAP_MAX_LEN},
           s <= k2 * HASHMAP_MAX_LEN, Asks
    PROVE  OrderlyNext(s, k2, rx'.height)
<1>1. Len(up) \in Nat /\ DOMAIN up = 1 .. Len(up) /\ rx'.height \in Int
  BY LenProperties, FieldFacts
<1>2. ASSUME NEW i \in DOMAIN up', ~(i \in DOMAIN up /\ up'[i] = up[i]),
             More(up'[i])
      PROVE  /\ i = Len(up) + 1
             /\ k2 * HASHMAP_MAX_LEN - 1 \in Part
             /\ up'[i].last = mh[k2 * HASHMAP_MAX_LEN - 1]
             /\ k2 * HASHMAP_MAX_LEN <= rx'.height + WINDOW_MAX
  <2>1. /\ i = Len(up) + 1
        /\ Unknown(rx') # {} /\ up'[i].last = LastKnown(rx')
    BY <1>2 DEF Asks, More
  <2> QED BY <2>1, LastKnownFacts
<1>3. \A i \in DOMAIN up' : More(up'[i]) => Genuine(up'[i], s, k2, rx'.height)
  <2> SUFFICES ASSUME NEW i \in DOMAIN up', More(up'[i])
               PROVE  Genuine(up'[i], s, k2, rx'.height)
    OBVIOUS
  <2>1. CASE i \in DOMAIN up /\ up'[i] = up[i]
    <3>1. Genuine(up[i], s, k, h)
      BY <2>1 DEF Orderly
    <3> QED BY <1>1, <2>1, <3>1, GenuineFacts
  <2>2. CASE ~(i \in DOMAIN up /\ up'[i] = up[i])
    <3>1. k2 \in Nat /\ k2 <= k2
      OBVIOUS
    <3> QED BY <1>2, <2>2, <3>1 DEF Genuine
  <2> QED BY <2>1, <2>2
<1>4. ASSUME NEW i \in DOMAIN up', NEW j \in DOMAIN up', i < j,
             More(up'[i]), More(up'[j]), NEW p \in Part, NEW q \in Part,
             up'[i].last = mh[p], up'[j].last = mh[q]
      PROVE  p <= q
  <2>1. CASE j \in DOMAIN up /\ up'[j] = up[j]
    <3>1. i \in DOMAIN up /\ up'[i] = up[i]
      BY <1>1, <1>2, <1>4, <2>1
    <3> QED BY <1>4, <2>1, <3>1 DEF Orderly, Ascending
  <2>2. CASE ~(j \in DOMAIN up /\ up'[j] = up[j])
    <3>1. PICK m \in Nat : /\ m <= k2 /\ m * HASHMAP_MAX_LEN - 1 \in Part
                           /\ up'[i].last = mh[m * HASHMAP_MAX_LEN - 1]
      BY <1>3, <1>4 DEF Genuine
    <3>2. p = m * HASHMAP_MAX_LEN - 1
      BY <1>4, <3>1 DEF Injective
    <3>3. q = k2 * HASHMAP_MAX_LEN - 1
      BY <1>2, <1>4, <2>2 DEF Injective
    <3>4. /\ m * HASHMAP_MAX_LEN \in Nat /\ k2 * HASHMAP_MAX_LEN \in Nat
          /\ m * HASHMAP_MAX_LEN <= k2 * HASHMAP_MAX_LEN
      BY <3>1, Monotone
    <3> QED BY <3>2, <3>3, <3>4
  <2> QED BY <2>1, <2>2
<1> QED BY <1>3, <1>4 DEF OrderlyNext

\* Both accounts of the hashmap agree before the transfer.
LEMMA SequenceInit == Init => SequenceInv
<1> SUFFICES ASSUME Init PROVE SequenceInv
  OBVIOUS
<1>1. down = <<>> /\ up = <<>>
  BY DEF Init
<1>2. DOMAIN down = {} /\ DOMAIN up = {}
  BY <1>1
<1>3. tx.why = "" /\ tx.min = 0
  BY DEF Init
<1>4. rx.status = "NONE" /\ rx.known = {} /\ rx.height = -1
  BY FreshFacts DEF Init, Fresh
<1>5. receiver_min_consecutive_height(0) = 0
  BY WindowAssumption DEF receiver_min_consecutive_height, WINDOW_MAX
<1>6. 0 * HASHMAP_MAX_LEN = 0 /\ HASHMAP_MAX_LEN \in Nat /\ N \in Nat
  BY SizeAssumption
<1>7. rx.known = {i \in Part : i < 0 * HASHMAP_MAX_LEN}
  BY <1>4, <1>6, SizeAssumption DEF Part
<1>8. Aligned(0, 0)
  <2>1. 0 <= N /\ 0 <= 0 * HASHMAP_MAX_LEN
        /\ 0 * HASHMAP_MAX_LEN <= 0 + HASHMAP_MAX_LEN
    BY <1>6
  <2>2. ~Incoming
    BY <1>4 DEF Incoming
  <2>3. tx.min = receiver_min_consecutive_height(0)
    BY <1>3, <1>5
  <2> QED BY <1>2, <1>7, <2>1, <2>2, <2>3 DEF Aligned
<1>9. Ascending
  BY <1>2 DEF Ascending
<1>10. \E s, k \in Nat : Aligned(s, k)
  <2> HIDE <1>2, <1>3, <1>4, <1>5, <1>6, <1>7
  <2> QED BY <1>8
<1> QED BY <1>3, <1>9, <1>10 DEF SequenceInv

\* Every step keeps the two accounts of the hashmap at most a slice apart.
LEMMA SequenceStep ==
    ReceiverInv /\ ReceiverInv' /\ OrderInv /\ SequenceInv /\ [Next]_vars
        => SequenceInv'
<1> SUFFICES ASSUME ReceiverInv, ReceiverInv', OrderInv, SequenceInv,
                    [Next]_vars
             PROVE  SequenceInv'
  OBVIOUS
<1>1. CASE UNCHANGED vars
  <2>1. Ascending' <=> Ascending
    BY <1>1 DEF vars, Ascending, mh
  <2>2. \A s, k \in Nat : Aligned(s, k)' <=> Aligned(s, k)
    BY <1>1 DEF vars, Aligned, Genuine, mh, Incoming
  <2> QED BY <1>1, <2>1, <2>2 DEF vars, SequenceInv, Injective, mh
<1> SUFFICES ASSUME Next, inorder', Injective' PROVE SequenceInv'
  BY <1>1 DEF SequenceInv
<1>2. inorder /\ mh' = mh
  BY StepFacts DEF Bookkeeping, mh
<1>3. Injective
  BY <1>2 DEF Injective
<1>4. /\ tx.why # "sequencing" /\ Ascending
      /\ \E s, k \in Nat : Aligned(s, k)
  BY <1>2, <1>3 DEF SequenceInv
<1>5. PICK s \in Nat, k \in Nat : Aligned(s, k)
  BY <1>4
<1>6. /\ down \in Seq(ToReceiver) /\ up \in Seq(ToSender)
      /\ rx \in Receiver /\ TypeOK /\ Sized(rx)
      /\ down' \in Seq(ToReceiver) /\ up' \in Seq(ToSender)
      /\ rx' \in Receiver /\ Sized(rx')
  BY DEF ReceiverInv, TypeOK
<1>7. /\ rx.height \in Int /\ rx'.height \in Int /\ WINDOW_MAX \in Nat \ {0}
      /\ N \in Nat /\ HASHMAP_MAX_LEN \in Nat \ {0}
      /\ k * HASHMAP_MAX_LEN \in Nat
  <2>1. /\ rx.height \in -1 .. N - 1 /\ rx'.height \in -1 .. N - 1
    BY <1>6, FieldFacts
  <2>2. N \in Nat /\ HASHMAP_MAX_LEN \in Nat \ {0}
    BY SizeAssumption
  <2>3. WINDOW_MAX \in Nat \ {0}
    BY WindowAssumption DEF WINDOW_MAX
  <2>4. k * HASHMAP_MAX_LEN \in Nat
    BY Monotone
  <2> QED BY <2>1, <2>2, <2>3, <2>4
<1>8. /\ rx.known = {i \in Part : i < k * HASHMAP_MAX_LEN}
      /\ Incoming => k > 0
      /\ tx.min = receiver_min_consecutive_height(s)
      /\ s <= N /\ s <= k * HASHMAP_MAX_LEN
      /\ k * HASHMAP_MAX_LEN <= s + HASHMAP_MAX_LEN
      /\ s = 0 \/ s <= rx.height + WINDOW_MAX
      /\ \A i \in DOMAIN down :
            down[i].t = "HMU" => down[i].seg * HASHMAP_MAX_LEN <= s
  BY <1>5 DEF Aligned
<1>9. Orderly(s, k, rx.height)
  BY <1>4, <1>5 DEF Aligned, Orderly
<1>10. ASSUME NEW s2 \in Nat, NEW k2 \in Nat,
              rx'.known = {i \in Part : i < k2 * HASHMAP_MAX_LEN},
              Incoming' => k2 > 0,
              tx'.min = receiver_min_consecutive_height(s2),
              s2 <= N, s2 <= k2 * HASHMAP_MAX_LEN,
              k2 * HASHMAP_MAX_LEN <= s2 + HASHMAP_MAX_LEN,
              s2 = 0 \/ s2 <= rx'.height + WINDOW_MAX,
              \A i \in DOMAIN down' :
                 down'[i].t = "HMU" => down'[i].seg * HASHMAP_MAX_LEN <= s2,
              OrderlyNext(s2, k2, rx'.height),
              tx'.why # "sequencing"
       PROVE  SequenceInv'
  <2>1. Ascending'
    BY <1>2, <1>10 DEF Ascending, OrderlyNext, More
  <2>2. Aligned(s2, k2)'
    BY <1>2, <1>10 DEF Aligned, OrderlyNext, Genuine, More
  <2> QED BY <1>10, <2>1, <2>2 DEF SequenceInv
\* Only what the receiver knows and where it stands is the same, or down
\* loses packets, or gets such as are no updates.
<1>11. ASSUME rx'.known = rx.known, Incoming' => Incoming,
              rx.height <= rx'.height,
              tx'.min = tx.min, tx'.why # "sequencing",
              \A i \in DOMAIN down' :
                 down'[i].t = "HMU" => \E j \in DOMAIN down : down'[i] = down[j],
              OrderlyNext(s, k, rx'.height)
       PROVE  SequenceInv'
  <2>1. s = 0 \/ s <= rx'.height + WINDOW_MAX
    BY <1>7, <1>8, <1>11
  <2>2. \A i \in DOMAIN down' :
           down'[i].t = "HMU" => down'[i].seg * HASHMAP_MAX_LEN <= s
    BY <1>8, <1>11
  <2> QED BY <1>8, <1>10, <1>11, <2>1, <2>2
<1>12. ASSUME \/ up' = up
              \/ \E i \in DOMAIN up : up' = RemoveAt(up, i)
              \/ AsksNothing,
              rx.height <= rx'.height
       PROVE  OrderlyNext(s, k, rx'.height)
  BY <1>6, <1>7, <1>9, <1>12, KeepsOrder
<1>13. ASSUME NEW known, NEW height \in Int, Continues(known, height),
              NEW k2 \in Nat \ {0}, k <= k2, rx.height <= height,
              s <= k2 * HASHMAP_MAX_LEN,
              known = {i \in Part : i < k2 * HASHMAP_MAX_LEN}
       PROVE  OrderlyNext(s, k2, rx'.height)
  <2>1. /\ rx'.known = {i \in Part : i < k2 * HASHMAP_MAX_LEN} /\ Asks
        /\ rx.height <= rx'.height
    BY <1>13 DEF Continues
  <2> QED BY <1>3, <1>6, <1>7, <1>9, <1>13, <2>1, AsksInOrder
<1>14. CASE SpeakingStep
  <2>1. /\ tx'.min = tx.min /\ tx'.why # "sequencing" /\ rx' = rx
        /\ up' = up \/ \E i \in DOMAIN up : up' = RemoveAt(up, i)
        /\ \A i \in DOMAIN down' :
              \/ i \in DOMAIN down /\ down'[i] = down[i]
              \/ down'[i].t \in {"ICL", "CLOSE", "ADV"}
    BY <1>4, <1>14 DEF SpeakingStep, Speaks
  <2>2. OrderlyNext(s, k, rx'.height)
    BY <1>7, <1>12, <2>1
  <2> QED BY <1>7, <1>11, <2>1, <2>2 DEF Incoming
<1>15. CASE CarrierStep
  <2>1. UNCHANGED <<tx, rx>>
    BY <1>15 DEF CarrierStep
  <2>2. \/ up' = up
        \/ \E i \in DOMAIN up : up' = RemoveAt(up, i)
        \/ AsksNothing
    <3>1. ASSUME NEW i \in DOMAIN up, up[i].t = "PRF", up' = Append(up, up[i])
          PROVE  AsksNothing
      <4>1. up[i] \in ToSender
        BY <1>6
      <4>2. /\ Len(up) \in Nat
            /\ \A j \in DOMAIN up' :
                 \/ j \in DOMAIN up /\ up'[j] = up[j]
                 \/ j = Len(up) + 1 /\ up'[j] = up[i]
        BY <1>6, <3>1, <4>1, AppendFacts
      <4> QED BY <3>1, <4>2 DEF AsksNothing
    <3> QED BY <1>15, <3>1 DEF CarrierStep
  <2>3. OrderlyNext(s, k, rx'.height)
    BY <1>7, <1>12, <2>1, <2>2
  <2>4. \A i \in DOMAIN down' : \E j \in DOMAIN down : down'[i] = down[j]
    <3>1. CASE down' = down
      BY <3>1
    <3>2. CASE \E i \in DOMAIN down : down' = RemoveAt(down, i)
      BY <1>6, <3>2, TakenFacts
    <3>3. ASSUME NEW i \in DOMAIN down, down' = Append(down, down[i])
          PROVE  \A j \in DOMAIN down' : \E l \in DOMAIN down : down'[j] = down[l]
      <4>1. down[i] \in ToReceiver
        BY <1>6
      <4> QED BY <1>6, <3>3, <4>1, AppendFacts
    <3> QED BY <1>15, <3>1, <3>2, <3>3 DEF CarrierStep
  <2> QED BY <1>4, <1>7, <1>11, <2>1, <2>3, <2>4 DEF Incoming
<1>16. CASE LonelyStep
  <2>1. UNCHANGED <<tx, down>>
    BY <1>16 DEF LonelyStep
  <2>2. CASE Incoming /\ Continues(rx.known, rx.height)
    <3>1. rx'.known = rx.known /\ rx'.height = rx.height
      BY <2>2 DEF Continues
    <3>2. k \in Nat \ {0} /\ k <= k
      BY <1>8, <2>2
    <3>3. OrderlyNext(s, k, rx'.height)
      BY <1>7, <1>8, <1>13, <2>2, <3>2
    <3> QED BY <1>4, <1>7, <1>11, <2>1, <2>2, <3>1, <3>3
  <2>3. CASE Fails \/ Stays
    <3>1. /\ rx'.known = rx.known /\ rx'.height = rx.height /\ AsksNothing
          /\ Incoming' => Incoming
      BY <2>3 DEF Fails, Ends, Stays, Incoming
    <3> QED BY <1>4, <1>7, <1>11, <1>12, <2>1, <3>1
  <2> QED BY <1>16, <2>2, <2>3 DEF LonelyStep
<1>17. CASE RequestStep
  <2>1. PICK i \in DOMAIN up :
          /\ Takes(up, i) /\ up' = RemoveAt(up, i)
          /\ up[i].t = "REQ" /\ request(up[i])
    BY <1>17 DEF RequestStep
  <2>2. i = 1 /\ Outgoing /\ rx' = rx
    BY <1>2, <1>17, <2>1 DEF Takes, RequestStep
  <2> DEFINE x     == up[1]
             index == PartIndex(x.last)
  <2>3. 1 \in DOMAIN up /\ x \in ToSender /\ x.t = "REQ" /\ request(x)
    BY <1>6, <2>1, <2>2
  <2>4. /\ \A j \in DOMAIN down' :
              \/ j \in DOMAIN down /\ down'[j] = down[j]
              \/ /\ down'[j].t \in {"PART", "HMU", "ICL"}
                 /\ down'[j].t = "HMU" =>
                       /\ x.more
                       /\ down'[j].seg = index \div HASHMAP_MAX_LEN
        /\ tx'.min = IF x.more THEN receiver_min_consecutive_height(index)
                     ELSE tx.min
        /\ tx'.why = "sequencing" =>
              \/ tx.why = "sequencing"
              \/ x.more /\ index % HASHMAP_MAX_LEN # 0
    <3> HIDE DEF x
    <3> QED BY <1>6, <2>2, <2>3, RequestFacts
  <2>5. OrderlyNext(s, k, rx'.height)
    BY <1>7, <1>12, <2>1, <2>2
  <2>6. CASE ~x.more
    BY <1>4, <1>7, <1>11, <2>2, <2>4, <2>5, <2>6 DEF Incoming
  <2>7. CASE x.more
    <3>1. PICK m \in Nat :
            /\ m <= k /\ s <= m * HASHMAP_MAX_LEN
            /\ m * HASHMAP_MAX_LEN - 1 \in Part
            /\ x.last = mh[m * HASHMAP_MAX_LEN - 1]
            /\ m * HASHMAP_MAX_LEN <= rx.height + WINDOW_MAX
      BY <1>9, <2>3, <2>7 DEF Orderly, More, Genuine
    <3> DEFINE len == m * HASHMAP_MAX_LEN
    <3>2. /\ index = len /\ index % HASHMAP_MAX_LEN = 0
          /\ index \div HASHMAP_MAX_LEN = m
      BY <1>3, <1>5, <1>6, <3>1, IndexFacts
    <3>3. len \in Nat /\ len <= k * HASHMAP_MAX_LEN
      BY <3>1, Monotone
    <3>4. tx'.min = receiver_min_consecutive_height(len)
          /\ tx'.why # "sequencing"
      BY <1>4, <2>4, <2>7, <3>2
    <3>5. /\ len <= N /\ k * HASHMAP_MAX_LEN <= len + HASHMAP_MAX_LEN
          /\ s <= len /\ len <= rx'.height + WINDOW_MAX
      <4>1. /\ s <= len /\ len - 1 \in Part
            /\ len <= rx'.height + WINDOW_MAX
        BY <3>1, <2>2
      <4> HIDE DEF len
      <4> QED BY <1>7, <1>8, <3>3, <4>1 DEF Part
    <3>6. \A j \in DOMAIN down' :
             down'[j].t = "HMU" => down'[j].seg * HASHMAP_MAX_LEN <= len
      <4> SUFFICES ASSUME NEW j \in DOMAIN down', down'[j].t = "HMU"
                   PROVE  down'[j].seg * HASHMAP_MAX_LEN <= len
        OBVIOUS
      <4>1. CASE j \in DOMAIN down /\ down'[j] = down[j]
        <5>1. down[j].seg * HASHMAP_MAX_LEN <= s
          BY <1>8, <4>1
        <5>2. down[j].seg \in Nat
          BY <1>6, <4>1, SMTT(30) DEF ToReceiver
        <5> DEFINE a == down[j].seg * HASHMAP_MAX_LEN
        <5>3. a \in Nat
          BY <1>7, <5>2
        <5>4. a <= s
          BY <5>1
        <5>5. s <= len
          BY <3>5
        <5> HIDE DEF a, len
        <5>6. a <= len
          BY <3>3, <5>3, <5>4, <5>5
        <5> QED BY <4>1, <5>6 DEF a
      <4>2. CASE down'[j].seg = index \div HASHMAP_MAX_LEN
        <5>1. down'[j].seg = m
          BY <3>2, <4>2
        <5> QED BY <3>3, <5>1
      <4> QED BY <2>4, <4>1, <4>2
    <3>7. OrderlyNext(len, k, rx'.height)
      <4>1. ASSUME NEW j \in DOMAIN up', More(up'[j])
            PROVE  Genuine(up'[j], len, k, rx'.height)
        <5>1. PICK n \in DOMAIN up : 1 < n /\ up'[j] = up[n]
          BY <1>6, <2>1, <2>2, TakenFacts
        <5>2. PICK l \in Nat :
                /\ l <= k /\ s <= l * HASHMAP_MAX_LEN
                /\ l * HASHMAP_MAX_LEN - 1 \in Part
                /\ up[n].last = mh[l * HASHMAP_MAX_LEN - 1]
                /\ l * HASHMAP_MAX_LEN <= rx.height + WINDOW_MAX
          BY <1>9, <4>1, <5>1 DEF Orderly, Genuine
        <5>3. len - 1 <= l * HASHMAP_MAX_LEN - 1
          BY <1>9, <2>3, <2>7, <3>1, <4>1, <5>1, <5>2
          DEF Orderly, Ascending, More
        <5>4. l * HASHMAP_MAX_LEN \in Nat
          BY <1>7
        <5> DEFINE a == l * HASHMAP_MAX_LEN
        <5>5. a \in Nat /\ len - 1 <= a - 1
          BY <5>3, <5>4
        <5> HIDE DEF a, len
        <5>6. len <= a
          BY <3>3, <5>5
        <5> QED BY <2>2, <5>1, <5>2, <5>6 DEF Genuine, a
      <4> QED BY <2>5, <4>1 DEF OrderlyNext
    <3>8. /\ rx'.known = {j \in Part : j < k * HASHMAP_MAX_LEN}
          /\ Incoming' => k > 0
      BY <1>8, <2>2 DEF Incoming
    <3> HIDE DEF len
    <3> QED BY <1>10, <3>3, <3>4, <3>5, <3>6, <3>7, <3>8
  <2> QED BY <2>6, <2>7
<1>18. CASE ReceivingStep
  <2>1. PICK i \in DOMAIN down :
          Takes(down, i) /\ down' = RemoveAt(down, i) /\ Arrives(down[i])
    BY <1>18 DEF ReceivingStep
  <2>2. UNCHANGED tx
    BY <1>18 DEF ReceivingStep
  <2> DEFINE x == down[i]
  <2>3. \A j \in DOMAIN down' : \E n \in DOMAIN down : down'[j] = down[n]
    BY <1>6, <2>1, TakenFacts
  <2>4. \A j \in DOMAIN down' :
           down'[j].t = "HMU" => down'[j].seg * HASHMAP_MAX_LEN <= s
    BY <1>8, <2>3
  <2>5. CASE x.t = "ADV" /\ ~Incoming /\ Continues(Slice(0), -1)
    <3>1. rx.height = -1 /\ rx.known \subseteq Slice(0)
      BY <1>2, <2>5 DEF OrderInv, Untouched
    <3>2. Slice(0) = {j \in Part : j < 1 * HASHMAP_MAX_LEN}
      BY <1>7, SizeAssumption DEF Slice, Part
    <3>3. PICK k2 \in Nat \ {0} :
            /\ k <= k2 /\ s <= k2 * HASHMAP_MAX_LEN
            /\ k2 * HASHMAP_MAX_LEN <= s + HASHMAP_MAX_LEN
            /\ Slice(0) = {j \in Part : j < k2 * HASHMAP_MAX_LEN}
      <4>1. CASE k = 0
        <5>1. k <= 1 /\ s = 0 /\ 1 * HASHMAP_MAX_LEN = HASHMAP_MAX_LEN
          BY <1>7, <1>8, <4>1
        <5>2. s <= 1 * HASHMAP_MAX_LEN
              /\ 1 * HASHMAP_MAX_LEN <= s + HASHMAP_MAX_LEN
          BY <1>7, <5>1
        <5> QED BY <3>2, <5>1, <5>2
      <4>2. CASE k > 0
        <5>1. k * HASHMAP_MAX_LEN >= 1 * HASHMAP_MAX_LEN
          BY <1>7, <4>2, Monotone
        <5>2. Slice(0) \subseteq rx.known
          BY <1>7, <1>8, <3>2, <5>1, SizeAssumption DEF Part
        <5>3. Slice(0) = {j \in Part : j < k * HASHMAP_MAX_LEN}
          BY <1>8, <3>1, <5>2
        <5> QED BY <1>8, <4>2, <5>3
      <4> QED BY <4>1, <4>2
    <3>4. rx'.known = Slice(0) /\ rx'.height = -1
      BY <2>5 DEF Continues
    <3>5. OrderlyNext(s, k2, rx'.height)
      BY <1>7, <1>13, <2>5, <3>1, <3>3
    <3>6. s = 0 \/ s <= rx'.height + WINDOW_MAX
      BY <1>8, <3>1, <3>4
    <3> QED BY <1>4, <1>8, <1>10, <2>2, <2>4, <3>3, <3>4, <3>5, <3>6
  <2>6. CASE Incoming /\ \E h \in rx.height .. N - 1 : Continues(rx.known, h)
    <3>1. PICK h \in rx.height .. N - 1 : Continues(rx.known, h)
      BY <2>6
    <3>2. h \in Int /\ rx.height <= h /\ rx'.height = h /\ rx'.known = rx.known
      BY <1>7, <3>1 DEF Continues
    <3>3. k \in Nat \ {0} /\ k <= k
      BY <1>8, <2>6
    <3>4. OrderlyNext(s, k, rx'.height)
      BY <1>7, <1>8, <1>13, <3>1, <3>2, <3>3
    <3> QED BY <1>4, <1>11, <2>2, <2>3, <2>6, <3>2, <3>4
  <2>7. CASE Ends \/ Stays
    <3>1. /\ rx'.known = rx.known /\ rx'.height >= rx.height /\ AsksNothing
          /\ Incoming' => Incoming
      BY <1>7, <2>7 DEF Ends, Stays, Incoming
    <3> QED BY <1>4, <1>7, <1>11, <1>12, <2>2, <2>3, <3>1
  <2>8. CASE /\ x.t = "HMU" /\ Incoming
             /\ Continues(rx.known \union Slice(x.seg), rx.height)
    <3> DEFINE seg == x.seg
               known == rx.known \union Slice(seg)
    <3>1. seg \in Nat /\ seg * HASHMAP_MAX_LEN <= s
      <4>1. x \in ToReceiver
        BY <1>6
      <4> QED BY <1>8, <2>8, <4>1 DEF ToReceiver
    <3>2. /\ seg * HASHMAP_MAX_LEN \in Nat
          /\ (seg + 1) * HASHMAP_MAX_LEN = seg * HASHMAP_MAX_LEN + HASHMAP_MAX_LEN
      BY <1>7, <3>1
    <3>3. known = {j \in Part : \/ j < k * HASHMAP_MAX_LEN
                                \/ j < (seg + 1) * HASHMAP_MAX_LEN}
      <4> DEFINE a == seg * HASHMAP_MAX_LEN
                 b == (seg + 1) * HASHMAP_MAX_LEN
                 c == k * HASHMAP_MAX_LEN
      <4>1. /\ a \in Nat /\ b \in Nat /\ c \in Nat /\ a <= s /\ s <= c
            /\ b = a + HASHMAP_MAX_LEN
        BY <1>7, <1>8, <3>1, <3>2
      <4>2. known = {j \in Part : j < c} \union
                    {j \in Part : a <= j /\ j < b}
        BY <1>8 DEF Slice
      <4> HIDE DEF a, b, c, known
      <4>3. a <= c
        BY <4>1
      <4>4. known = {j \in Part : j < c \/ j < b}
        BY <4>1, <4>2, <4>3, SizeAssumption DEF Part
      <4> QED BY <4>4 DEF b, c
    <3> HIDE DEF seg
    <3>4. PICK k2 \in Nat \ {0} :
            /\ k <= k2 /\ s <= k2 * HASHMAP_MAX_LEN
            /\ k2 * HASHMAP_MAX_LEN <= s + HASHMAP_MAX_LEN
            /\ known = {j \in Part : j < k2 * HASHMAP_MAX_LEN}
      <4> HIDE DEF known
      <4>1. CASE seg + 1 <= k
        <5>1. (seg + 1) * HASHMAP_MAX_LEN <= k * HASHMAP_MAX_LEN
              /\ (seg + 1) * HASHMAP_MAX_LEN \in Nat
          BY <3>1, <4>1, Monotone
        <5> DEFINE b == (seg + 1) * HASHMAP_MAX_LEN
                   c == k * HASHMAP_MAX_LEN
        <5>2. b <= c /\ b \in Nat /\ c \in Nat
          BY <1>7, <5>1
        <5>3. known = {j \in Part : j < c \/ j < b}
          BY <3>3
        <5> HIDE DEF b, c
        <5>4. known = {j \in Part : j < c}
          BY <5>2, <5>3, SizeAssumption DEF Part
        <5>5. k \in Nat \ {0}
          BY <3>1, <4>1
        <5> QED BY <1>8, <5>4, <5>5 DEF c
      <4>2. CASE k <= seg + 1
        <5>1. k * HASHMAP_MAX_LEN <= (seg + 1) * HASHMAP_MAX_LEN
              /\ (seg + 1) * HASHMAP_MAX_LEN \in Nat
          BY <3>1, <4>2, Monotone
        <5> DEFINE a == seg * HASHMAP_MAX_LEN
                   b == (seg + 1) * HASHMAP_MAX_LEN
                   c == k * HASHMAP_MAX_LEN
        <5>2. /\ c <= b /\ b \in Nat /\ c \in Nat /\ a \in Nat
              /\ b = a + HASHMAP_MAX_LEN /\ a <= s /\ s <= c
          BY <1>7, <1>8, <3>1, <3>2, <5>1
        <5>3. known = {j \in Part : j < c \/ j < b}
          BY <3>3
        <5> HIDE DEF a, b, c
        <5>4. known = {j \in Part : j < b}
          BY <5>2, <5>3, SizeAssumption DEF Part
        <5>5. s <= b /\ b <= s + HASHMAP_MAX_LEN
          BY <1>7, <5>2
        <5>6. seg + 1 \in Nat \ {0}
          BY <3>1
        <5> QED BY <4>2, <5>4, <5>5, <5>6 DEF b
      <4> QED BY <3>1, <4>1, <4>2
    <3>5. Continues(known, rx.height)
      BY <2>8 DEF seg
    <3> HIDE DEF known
    <3>6. rx'.known = known /\ rx'.height = rx.height
      BY <3>5 DEF Continues
    <3>7. OrderlyNext(s, k2, rx'.height)
      BY <1>7, <1>13, <3>4, <3>5
    <3>8. s = 0 \/ s <= rx'.height + WINDOW_MAX
      BY <1>8, <3>6
    <3> QED BY <1>4, <1>8, <1>10, <2>2, <2>4, <3>4, <3>6, <3>7, <3>8
  <2>9. Arrives(x)
    BY <2>1
  <2> HIDE DEF x
  <2> QED BY <2>5, <2>6, <2>7, <2>8, <2>9 DEF Arrives, Fails
<1> QED BY <1>14, <1>15, <1>16, <1>17, <1>18, StepFacts

ResourceInv == ReceiverInv /\ OrderInv /\ SequenceInv

\* The three parts of the invariant hold in every reachable state.
LEMMA ResourceCorrect == Spec => []ResourceInv
<1>1. Init => ResourceInv
  BY ReceiverInit, OrderInit, SequenceInit DEF ResourceInv
<1>2. ResourceInv /\ [Next]_vars => ResourceInv'
  BY ReceiverStep, OrderStep, SequenceStep DEF ResourceInv
<1> QED BY <1>1, <1>2, PTL DEF Spec

\* "Resource sequencing error" is never met: on a carrier that keeps the order
\* of packets, no request, however late or repeated, makes request() take a
\* slice boundary for something else.
THEOREM NoSequencingErrorHolds == Spec => []NoSequencingError
<1>1. ResourceInv => NoSequencingError
  BY DEF ResourceInv, SequenceInv, NoSequencingError
<1> QED BY <1>1, ResourceCorrect, PTL

\* The search range of the sender's request() covers every slot that the
\* receiver may ask for.
LEMMA Serves == ResourceInv => Servable
<1> SUFFICES ASSUME ResourceInv, inorder, Injective,
                    NEW i \in Searched(rx), i \in rx.known
             PROVE  i \in SearchRange
  BY DEF Servable
<1>1. PICK s \in Nat, k \in Nat : Aligned(s, k)
  BY DEF ResourceInv, SequenceInv
<1>2. /\ i \in Part /\ i < k * HASHMAP_MAX_LEN
      /\ tx.min = receiver_min_consecutive_height(s)
      /\ k * HASHMAP_MAX_LEN <= s + HASHMAP_MAX_LEN
      /\ s = 0 \/ s <= rx.height + WINDOW_MAX
  BY <1>1 DEF Aligned
<1>3. rx.height < i
  BY DEF Searched
<1>4. /\ rx.height \in Int /\ i \in Nat /\ k * HASHMAP_MAX_LEN \in Nat
      /\ HASHMAP_MAX_LEN \in Nat /\ WINDOW_MAX \in Nat \ {0}
  <2>1. rx \in Receiver
    BY DEF ResourceInv, ReceiverInv, TypeOK
  <2> QED BY <1>2, <2>1, FieldFacts, SizeAssumption, WindowAssumption
          DEF Part, WINDOW_MAX
<1> DEFINE known == k * HASHMAP_MAX_LEN
<1>5. known \in Nat /\ i < known /\ known <= s + HASHMAP_MAX_LEN
  BY <1>2, <1>4
<1> HIDE DEF known
<1>6. tx.min \in Nat /\ tx.min <= i
  BY <1>2, <1>3, <1>4 DEF receiver_min_consecutive_height
<1>7. i < tx.min + COLLISION_GUARD_SIZE
  BY <1>2, <1>4, <1>5 DEF receiver_min_consecutive_height, COLLISION_GUARD_SIZE
<1> QED BY <1>2, <1>6, <1>7 DEF SearchRange

\* The receiver always waits for something it asked for, within its window,
\* the sender's search range holds whatever it may ask for next, and, while
\* packets keep their order, the payload is handed over once.
THEOREM SoundHolds == Spec => []Sound
<1>1. ResourceInv => TypeOK
  BY DEF ResourceInv, ReceiverInv
<1>2. ResourceInv => AtMostOnce
  BY DEF ResourceInv, OrderInv, AtMostOnce
<1>3. ResourceInv => NeverIdle
  BY DEF ResourceInv, ReceiverInv, Pending, Waits, Sized, NeverIdle
<1>4. ResourceInv => Sound
  BY <1>1, <1>2, <1>3, Serves DEF Sound
<1> QED BY <1>4, ResourceCorrect, PTL

-----------------------------------------------------------------------------
(* What the applications are promised. *)

\* The sender's application has been told how the transfer went.
Concluded == tx.status \in {"COMPLETE", "FAILED"}

\* A concluded resource is never concluded again, and only a proof completes
\* one.
Tells ==
    /\ Concluded => tx'.status = tx.status
    /\ tx'.status = "COMPLETE" /\ ~Concluded =>
          \E i \in DOMAIN up : up[i].t = "PRF"

\* A sender that has concluded stays as it is, and it concludes as complete
\* only on a proof.
LEMMA TellsFacts ==
    ASSUME TypeOK, Next
    PROVE  Tells
<1>1. tx \in Sender
  BY DEF TypeOK
<1>2. ASSUME tx' = tx PROVE Tells
  BY <1>2 DEF Tells, Concluded
<1>3. ASSUME ~Concluded, tx'.status # "COMPLETE" PROVE Tells
  BY <1>3 DEF Tells
<1>4. ASSUME ~Concluded, NEW why, tx' = Cancelled(tx, why) PROVE Tells
  <2>1. tx'.status = "FAILED"
    BY <1>1, <1>4 DEF Cancelled, Sender
  <2> QED BY <1>3, <1>4, <2>1
<1>5. Outgoing => ~Concluded
  BY DEF Outgoing, Concluded
<1>6. CASE start
  <2>1. tx'.status \in {"QUEUED", "ADVERTISED"}
    BY <1>1, <1>6 DEF start, advertise_job, Sender
  <2> QED BY <1>3, <1>6, <2>1 DEF start, Concluded
<1>7. CASE SenderTimeout
  <2>1. ~Concluded
    BY <1>7 DEF SenderTimeout, advertisement_timeout, part_request_timeout,
                proof_timeout, Concluded
  <2>2. \/ tx' = Cancelled(tx, "timeout")
        \/ tx' = [tx EXCEPT !.retries = @ - 1]
    BY <1>7 DEF SenderTimeout, advertisement_timeout, part_request_timeout,
                proof_timeout
  <2>3. ASSUME tx' = [tx EXCEPT !.retries = @ - 1] PROVE tx'.status = tx.status
    BY <1>1, <2>3 DEF Sender
  <2> QED BY <1>3, <1>4, <2>1, <2>2, <2>3 DEF Concluded
<1>8. CASE SenderReceives
  <2>1. PICK i \in DOMAIN up :
          \/ ReceiveRequest(up[i]) \/ ReceiveProof(up[i]) \/ SenderClosed(up[i])
          \/ UNCHANGED <<tx, down, active>>
    BY <1>8, Zenon DEF SenderReceives
  <2>2. CASE ReceiveRequest(up[i])
    <3>1. up[i] \in ToSender
      BY ElementOfSeq, LenProperties DEF TypeOK
    <3>2. tx'.status # "COMPLETE"
      BY <2>2, <3>1, RequestFacts DEF ReceiveRequest
    <3> QED BY <1>3, <1>5, <2>2, <3>2 DEF ReceiveRequest
  <2>3. CASE ReceiveProof(up[i])
    BY <1>5, <2>3 DEF ReceiveProof, validate_proof, Tells
  <2>4. CASE SenderClosed(up[i])
    BY <1>2, <1>4, <1>5, <2>4 DEF SenderClosed
  <2> QED BY <1>2, <2>1, <2>2, <2>3, <2>4
<1>9. CASE cancel
  BY <1>2, <1>4, <1>5, <1>9 DEF cancel
<1>10. CASE \E end \in {"S", "R"} : teardown(end)
  BY <1>2, <1>4, <1>5, <1>10 DEF teardown
<1>11. CASE \/ OtherConcludes \/ ReceiverReceives \/ part_timeout \/ Lose \/ Double
             \/ \E end \in {"S", "R"} : Hangs(end)
  BY <1>2, <1>11
  DEF OtherConcludes, ReceiverReceives, part_timeout, Lose, Double, Hangs
<1> QED BY <1>6, <1>7, <1>8, <1>9, <1>10, <1>11 DEF Next

\* What was handed over stays handed over; the sender's steps hand nothing
\* over, and the receiver's conclude nothing.
LEMMA HandsOver ==
    ASSUME ReceiverInv, Next
    PROVE  /\ delivered \in Nat
           /\ delivered' = delivered \/ (delivered' = delivered + 1 /\ tx' = tx)
<1>1. delivered \in Nat
  BY DEF ReceiverInv, TypeOK
<1>2. CASE ReceivingStep
  <2>1. PICK i \in DOMAIN down : Arrives(down[i])
    BY <1>2 DEF ReceivingStep
  <2>2. delivered' = delivered \/ delivered' = delivered + 1
    BY <2>1 DEF Arrives, Continues, Ends, Fails, Stays
  <2> QED BY <1>1, <1>2, <2>2 DEF ReceivingStep
<1>3. CASE LonelyStep
  BY <1>1, <1>3 DEF LonelyStep, Continues, Fails, Stays
<1>4. CASE SpeakingStep \/ RequestStep \/ CarrierStep
  BY <1>1, <1>4 DEF SpeakingStep, RequestStep, CarrierStep
<1> QED BY <1>2, <1>3, <1>4, StepFacts

\* The transfer implements Transfer: the sender's application is told once,
\* and "complete" only when the receiver's has been handed the payload.
THEOREM PromisesKeptHolds == Spec => PromisesKept
<1>1. Init => Abstract!Init
  <2> SUFFICES ASSUME Init PROVE Abstract!Init
    OBVIOUS
  <2>1. tx.status = "NONE" /\ delivered = 0
    BY DEF Init
  <2>2. (delivered > 0) = FALSE
    BY <2>1
  <2> QED BY <2>1, <2>2 DEF Abstract!Init
<1>2. ReceiverInv /\ [Next]_vars
        => [Abstract!Next]_<<CASE tx.status = "COMPLETE" -> "complete"
                               [] tx.status = "FAILED" -> "failed"
                               [] OTHER -> "open", delivered > 0>>
  <2> DEFINE outcome == CASE tx.status = "COMPLETE" -> "complete"
                          [] tx.status = "FAILED" -> "failed"
                          [] OTHER -> "open"
             holds == delivered > 0
  <2> SUFFICES ASSUME ReceiverInv, [Next]_vars
               PROVE  Abstract!Next \/ UNCHANGED <<outcome, holds>>
    BY DEF Abstract!Next
  <2>1. CASE UNCHANGED vars
    BY <2>1 DEF vars
  <2>2. CASE Next
    <3>1. Tells
      BY <2>2, TellsFacts DEF ReceiverInv
    <3>2. /\ delivered \in Nat
          /\ delivered' = delivered \/ (delivered' = delivered + 1 /\ tx' = tx)
      BY <2>2, HandsOver
    <3>3. CASE delivered' = delivered + 1 /\ tx' = tx
      <4>1. holds' = TRUE /\ UNCHANGED outcome
        BY <3>2, <3>3
      <4> QED BY <4>1 DEF Abstract!Next, Abstract!Deliver
    <3>4. CASE delivered' = delivered
      <4>1. UNCHANGED holds
        BY <3>4
      <4>2. CASE tx'.status = tx.status
        <5>1. UNCHANGED outcome
          BY <4>2
        <5> QED BY <4>1, <5>1
      <4>3. CASE tx'.status # tx.status /\ tx'.status = "COMPLETE"
        <5>1. ~Concluded /\ holds
          BY <3>1, <4>3 DEF Tells, ReceiverInv, Proved
        <5>2. outcome = "open" /\ outcome' = "complete"
          BY <4>3, <5>1 DEF Concluded
        <5> QED BY <4>1, <5>1, <5>2 DEF Abstract!Next, Abstract!Confirm
      <4>4. CASE tx'.status # tx.status /\ tx'.status = "FAILED"
        <5>1. ~Concluded
          BY <3>1, <4>4 DEF Tells
        <5>2. outcome = "open" /\ outcome' = "failed"
          BY <4>4, <5>1 DEF Concluded
        <5> QED BY <4>1, <5>2 DEF Abstract!Next, Abstract!GiveUp
      <4>5. CASE tx'.status # tx.status /\ tx'.status \notin {"COMPLETE", "FAILED"}
        <5>1. ~Concluded
          BY <3>1, <4>5 DEF Tells
        <5>2. outcome = "open" /\ outcome' = "open"
          BY <4>5, <5>1 DEF Concluded
        <5> QED BY <4>1, <5>2
      <4> QED BY <4>2, <4>3, <4>4, <4>5
    <3> QED BY <3>2, <3>3, <3>4
  <2> QED BY <2>1, <2>2
<1> QED BY <1>1, <1>2, ReceiverCorrect, PTL DEF Spec, PromisesKept, Abstract!Spec

=============================================================================
