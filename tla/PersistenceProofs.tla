------------------------- MODULE PersistenceProofs -------------------------
(***************************************************************************)
(* Proofs about the two parts of a node that keep a file of their own and  *)
(* read it back at a start: the settings (Provisioning) and the blackhole  *)
(* list (Blackhole).                                                       *)
(*                                                                         *)
(* Settings, for any registry, fields, values and numbers of failures:     *)
(* a file gives back what the node says its settings are, a change that    *)
(* waits for a restart is flagged, and the drafts shown are changes.       *)
(* Blackholes, for any identities and destinations: the path table holds   *)
(* no path of a blackholed identity but the ones start() loads behind its  *)
(* purge and the ones recall() could not name, and a restart keeps the     *)
(* list.                                                                   *)
(***************************************************************************)
EXTENDS Provisioning, Blackhole, FiniteSetTheorems, WellFoundedInduction, TLAPS

-----------------------------------------------------------------------------
(* Numbers, fields and values.                                             *)

\* The least-number principle.
LEMMA LeastExists ==
    ASSUME NEW T \in SUBSET Nat, T # {}
    PROVE  \E x \in T : \A y \in T : x <= y
  <1>1. IsWellFoundedOn(OpToRel(<, Nat), Nat)
      BY NatLessThanWellFounded
  <1>2. PICK x \in T : \A y \in T : <<y, x>> \notin OpToRel(<, Nat)
      BY <1>1, WFMin
  <1>3. ASSUME NEW y \in T PROVE x <= y
      <2>1. <<y, x>> \notin OpToRel(<, Nat)
          BY <1>2
      <2>2. ~(y < x)
          BY <2>1 DEF OpToRel
      <2> QED BY <2>2
  <1> QED BY <1>3

\* A bounded set of numbers has a largest one.
LEMMA LargestExists ==
    ASSUME NEW n \in Nat, NEW S \in SUBSET (1 .. n), S # {}
    PROVE  Max(S) \in S /\ \A y \in S : Max(S) >= y
  <1> DEFINE T == {n - y : y \in S}
  <1>0. \A y \in S : n - y \in Nat
      OBVIOUS
  <1>1. T \in SUBSET Nat /\ T # {}
      BY <1>0
  <1>2. PICK t \in T : \A u \in T : t <= u
      BY <1>1, LeastExists
  <1>3. PICK x \in S : t = n - x
      OBVIOUS
  <1>4. ASSUME NEW y \in S PROVE x >= y
      <2>1. n - x <= n - y
          BY <1>2, <1>3
      <2> QED BY <2>1
  <1>5. \E z \in S : \A y \in S : z >= y
      BY <1>4
  <1> QED BY <1>5 DEF Max

\* The bounds are numbers.
LEMMA NumberFacts == MaxNumber \in Nat /\ UINT16 \in Nat \ {0}
  BY DEF MaxNumber, UINT16

\* What is known of the declaration of a field.
LEMMA FieldFacts ==
    ASSUME version \in 1..MaxVersion, NEW f \in Field
    PROVE  /\ F(f).default \in Value /\ F(f).default.type = F(f).type
           /\ F(f).default.v < F(f).width
           /\ F(f).initial = F(f).default
           /\ F(f).fits \subseteq Numbers
           /\ F(f).width \in Nat \ {0}
           /\ F(f).getter \in BOOLEAN
           /\ Stateful(f) => F(f).default.v \in F(f).fits
           /\ Reboots(f) => Stateful(f) /\ ~Live(f)
           /\ f[1] \in Namespace /\ f[2] \in 0..(UINT16 - 1)
  <1>1. /\ F(f).default \in Value /\ F(f).default.type = F(f).type
        /\ F(f).default.v < F(f).width /\ F(f).initial = F(f).default
        /\ F(f).fits \subseteq Numbers /\ F(f).width \in Nat \ {0}
        /\ F(f).getter \in BOOLEAN
        /\ F(f).flags \intersect {"READ_ONLY", "WRITE_ONLY"} = {} => F(f).default.v \in F(f).fits
      BY SchemaAssumption DEF F
  <1>2. Stateful(f) => F(f).default.v \in F(f).fits
      BY <1>1 DEF Stateful, Has
  <1>3. "REBOOT_REQUIRED" \in F(f).flags =>
            F(f).flags \intersect {"LIVE_APPLY", "READ_ONLY", "WRITE_ONLY"} = {}
      BY FlagsAssumption DEF F
  <1>4. Reboots(f) => Stateful(f) /\ ~Live(f)
      BY <1>3 DEF Reboots, Stateful, Live, Has
  <1>5. f[1] \in Namespace /\ f[2] \in 0..(UINT16 - 1)
      BY FieldAssumption DEF Namespace
  <1> QED BY <1>1, <1>2, <1>4, <1>5

\* A value is its type and its number.
LEMMA ValueFacts ==
    ASSUME NEW x \in Value
    PROVE  x = [type |-> x.type, v |-> x.v] /\ x.v \in Numbers
  BY DEF Value

\* A static has room for its default, and what it keeps of a value is a value of
\* the same type.
LEMMA CastFacts ==
    ASSUME version \in 1..MaxVersion, NEW f \in Field, NEW x \in Value
    PROVE  /\ Cast(f, x) \in Value /\ Cast(f, x).type = x.type
           /\ Cast(f, F(f).default) = F(f).default
  <1> DEFINE w == F(f).width
             d == F(f).default
  <1>1. w \in Nat \ {0} /\ d \in Value /\ d.v < w
      BY FieldFacts
  <1>2. x.v \in 0 .. MaxNumber /\ d.v \in 0 .. MaxNumber /\ MaxNumber \in Nat
      BY <1>1, ValueFacts, NumberFacts DEF Numbers
  <1>3. x.v % w \in 0 .. MaxNumber
      <2>1. x.v % w \in Nat /\ x.v % w <= x.v
          BY <1>1, <1>2
      <2> QED BY <1>2, <2>1
  <1>4. d.v % w = d.v
      BY <1>1, <1>2
  <1>5. Cast(f, x) = [type |-> x.type, v |-> x.v % w] /\ Cast(f, d) = [type |-> d.type, v |-> d.v % w]
      BY DEF Cast, Val
  <1> HIDE DEF w, d
  <1>6. Cast(f, x) \in Value /\ Cast(f, x).type = x.type
      BY <1>3, <1>5 DEF Value, Numbers
  <1>7. Cast(f, d) = d
      BY <1>1, <1>4, <1>5, ValueFacts
  <1>8. Cast(f, F(f).default) = F(f).default
      BY <1>7 DEF d
  <1> QED BY <1>6, <1>8

-----------------------------------------------------------------------------
(* Reading a map.                                                          *)

\* What is read at a position is a value of the field's type.
LEMMA ValueAtFacts ==
    ASSUME NEW sch, NEW s, NEW i, NEW ns, NEW e \in ValueAt(sch, s, i, ns)
    PROVE  e.f \in FieldsOf(ns) /\ e.x = [type |-> sch[e.f].type, v |-> s[i + 1].v]
  <1>1. PICK f \in Named(s, i, ns) : e = [f |-> f, x |-> Val(sch[f].type, s[i + 1].v)]
      BY DEF ValueAt
  <1>2. f \in FieldsOf(ns)
      BY DEF Named
  <1> QED BY <1>1, <1>2 DEF Val

\* A map with a valid value for a field has a last one, and it is a value.
LEMMA LastFittingFacts ==
    ASSUME version \in 1..MaxVersion, NEW c, Len(c) \in Nat, NEW f \in Field,
           Fitting(Schema[version], c, f) # {}
    PROVE  /\ LastFitting(Schema[version], c, f) \in Value
           /\ validate(f, LastFitting(Schema[version], c, f))
  <1>0. PICK sch : sch = Schema[version]
      OBVIOUS
  <1>01. sch[f] = F(f)
      BY <1>0 DEF F
  <1>1. Fitting(sch, c, f) \in SUBSET (1 .. Len(c)) /\ Fitting(sch, c, f) # {}
      BY <1>0 DEF Fitting
  <1>2. PICK k : k = Max(Fitting(sch, c, f))
      OBVIOUS
  <1>3. k \in Fitting(sch, c, f)
      BY <1>1, <1>2, LargestExists
  <1>4. k \in 1 .. Len(c) /\ \E e \in ReadMap(sch, c, f[1])[k] : e.f = f /\ Fits(sch[f], e.x)
      BY <1>3 DEF Fitting
  <1>5. PICK p : ReadMap(sch, c, f[1])[k] = ValueAt(sch, Stream(c), p, f[1])
      BY <1>4 DEF ReadMap
  <1>6. PICK e \in ValueAt(sch, Stream(c), p, f[1]) : e.f = f /\ Fits(sch[f], e.x)
      BY <1>4, <1>5
  <1>7. ASSUME NEW d \in ValueAt(sch, Stream(c), p, f[1]), d.f = f PROVE d.x = e.x
      <2>1. d.x = [type |-> sch[d.f].type, v |-> Stream(c)[p + 1].v]
          BY ValueAtFacts
      <2>2. e.x = [type |-> sch[e.f].type, v |-> Stream(c)[p + 1].v]
          BY ValueAtFacts
      <2> QED BY <1>6, <1>7, <2>1, <2>2
  <1>8. PICK d : d = CHOOSE z \in ValueAt(sch, Stream(c), p, f[1]) : z.f = f
      OBVIOUS
  <1>9. LastFitting(sch, c, f) = e.x
      <2>1. d \in ValueAt(sch, Stream(c), p, f[1]) /\ d.f = f
          BY <1>6, <1>8
      <2>2. LastFitting(sch, c, f) = d.x
          BY <1>2, <1>5, <1>8 DEF LastFitting
      <2> QED BY <1>7, <2>1, <2>2
  <1>10. e.x = [type |-> F(f).type, v |-> Stream(c)[p + 1].v]
      BY <1>01, <1>6, ValueAtFacts
  <1>11. validate(f, e.x)
      BY <1>01, <1>6 DEF validate
  <1>12. e.x.v \in Numbers
      BY <1>11, FieldFacts DEF validate, Fits
  <1>13. F(f).default \in Value /\ F(f).default.type = F(f).type
      BY FieldFacts
  <1>14. e.x \in Value
      BY <1>10, <1>12, <1>13 DEF Value
  <1> QED BY <1>0, <1>9, <1>11, <1>14

-----------------------------------------------------------------------------
(* What is saved is read back.                                             *)

\* The elements of a finite set, counted by their places, are numbered from 1.
LEMMA Ranking ==
    ASSUME NEW S, IsFiniteSet(S), NEW p \in [S -> Nat],
           \A f, g \in S : p[f] = p[g] => f = g,
           NEW r \in [S -> Nat],
           \A f \in S : r[f] = Cardinality({g \in S : p[g] <= p[f]})
    PROVE  /\ Cardinality(S) \in Nat
           /\ \A f \in S : r[f] \in 1 .. Cardinality(S)
           /\ \A f, g \in S : r[f] = r[g] => f = g
           /\ \A i \in 1 .. Cardinality(S) : \E f \in S : r[f] = i
  <1> DEFINE B(f) == {g \in S : p[g] <= p[f]}
             N == Cardinality(S)
  <1>1. N \in Nat
      BY FS_CardinalityType
  <1>2. ASSUME NEW f \in S
        PROVE  /\ IsFiniteSet(B(f)) /\ Cardinality(B(f)) \in Nat /\ r[f] = Cardinality(B(f))
               /\ Cardinality(B(f)) <= N /\ Cardinality(B(f)) # 0
      <2>1. B(f) \in SUBSET S /\ f \in B(f)
          OBVIOUS
      <2>2. IsFiniteSet(B(f)) /\ Cardinality(B(f)) <= N
          BY <2>1, FS_Subset
      <2>3. Cardinality(B(f)) \in Nat /\ Cardinality(B(f)) # 0
          BY <2>1, <2>2, FS_CardinalityType, FS_EmptySet
      <2> QED BY <2>2, <2>3
  <1>3. ASSUME NEW f \in S PROVE r[f] \in 1 .. N
      <2> DEFINE b == Cardinality(B(f))
      <2>1. b \in Nat /\ r[f] = b /\ b <= N /\ b # 0
          BY <1>2
      <2> HIDE DEF b, N
      <2> QED BY <1>1, <2>1
  <1>4. ASSUME NEW f \in S, NEW g \in S, p[f] < p[g] PROVE r[f] # r[g]
      <2>1. B(f) \in SUBSET B(g) /\ g \in B(g) /\ g \notin B(f)
          BY <1>4
      <2>2. Cardinality(B(g)) # Cardinality(B(f))
          BY <1>2, <2>1, FS_Subset
      <2> QED BY <1>2, <2>2
  <1>5. \A f, g \in S : r[f] = r[g] => f = g
      <2> SUFFICES ASSUME NEW f \in S, NEW g \in S, f # g PROVE r[f] # r[g]
          OBVIOUS
      <2>1. p[f] < p[g] \/ p[g] < p[f]
          OBVIOUS
      <2> QED BY <1>4, <2>1
  <1>6. ASSUME NEW i \in 1 .. N, ~\E f \in S : r[f] = i PROVE FALSE
      <2> DEFINE T == (1 .. N) \ {i}
      <2>1. IsFiniteSet(1 .. N) /\ Cardinality(1 .. N) = N
          BY <1>1, FS_Interval
      <2>2. IsFiniteSet(T) /\ Cardinality(T) = N - 1
          BY <2>1, FS_RemoveElement
      <2>3. r \in [S -> T]
          BY <1>3, <1>6
      <2>4. \E f, g \in S : f # g /\ r[f] = r[g]
          BY <1>1, <2>2, <2>3, FS_PigeonHole
      <2> QED BY <1>5, <2>4
  <1> QED BY <1>1, <1>3, <1>5, <1>6

\* The saved fields of a namespace, each at its rank.
LEMMA SavedFacts ==
    ASSUME version \in 1..MaxVersion, NEW ns \in Namespace
    PROVE  /\ Cardinality(Kept(ns)) \in Nat
           /\ Saved(ns) \in Seq(Kept(ns)) /\ Len(Saved(ns)) = Cardinality(Kept(ns))
           /\ \A i \in 1 .. Cardinality(Kept(ns)) : Saved(ns)[i] \in Kept(ns)
           /\ \A f \in Kept(ns) :
                 /\ Rank(f) \in 1 .. Cardinality(Kept(ns))
                 /\ \A i \in 1 .. Cardinality(Kept(ns)) : Saved(ns)[i] = f <=> i = Rank(f)
  <1> DEFINE S == Kept(ns)
             N == Cardinality(S)
             p == [f \in S |-> Place[version][f]]
             r == [f \in S |-> Cardinality({g \in S : p[g] <= p[f]})]
  <1>1. S \in SUBSET Field /\ \A f \in S : f[1] = ns
      BY DEF Kept, FieldsOf
  <1>2. IsFiniteSet(S)
      BY <1>1, FieldAssumption, FS_Subset
  <1>3. \A f \in S : Place[version][f] \in Nat
      BY <1>1, SchemaAssumption
  <1>4. \A f, g \in S : Place[version][f] = Place[version][g] => f = g
      BY <1>1, SchemaAssumption
  <1>5. p \in [S -> Nat] /\ \A f, g \in S : p[f] = p[g] => f = g
      BY <1>3, <1>4
  <1>6. ASSUME NEW f \in S PROVE Cardinality({g \in S : p[g] <= p[f]}) \in Nat
      <2>1. {g \in S : p[g] <= p[f]} \in SUBSET S
          OBVIOUS
      <2> HIDE DEF p, S
      <2> QED BY <1>2, <2>1, FS_Subset, FS_CardinalityType
  <1>7. r \in [S -> Nat] /\ \A f \in S : r[f] = Cardinality({g \in S : p[g] <= p[f]})
      BY <1>6
  <1>8. \A f \in S : r[f] = Rank(f)
      <2> SUFFICES ASSUME NEW f \in S PROVE r[f] = Rank(f)
          OBVIOUS
      <2>1. {g \in S : p[g] <= p[f]} = {g \in Kept(f[1]) : Place[version][g] <= Place[version][f]}
          BY <1>1
      <2> QED BY <2>1 DEF Rank
  <1>9. Saved(ns) = [i \in 1 .. N |-> CHOOSE f \in S : Rank(f) = i]
      BY DEF Saved
  <1> HIDE DEF S, N, p, r
  <1>10. /\ N \in Nat
         /\ \A f \in S : r[f] \in 1 .. N
         /\ \A f, g \in S : r[f] = r[g] => f = g
         /\ \A i \in 1 .. N : \E f \in S : r[f] = i
      BY <1>2, <1>5, <1>7, Ranking DEF N
  <1>11. ASSUME NEW i \in 1 .. N PROVE Saved(ns)[i] \in S /\ Rank(Saved(ns)[i]) = i
      <2>1. Saved(ns)[i] = CHOOSE f \in S : Rank(f) = i
          BY <1>9
      <2>2. \E f \in S : Rank(f) = i
          BY <1>8, <1>10
      <2> QED BY <2>1, <2>2
  <1>12. Saved(ns) \in Seq(S) /\ Len(Saved(ns)) = N
      <2>1. Saved(ns) \in [1 .. N -> S]
          BY <1>9, <1>11
      <2> QED BY <1>10, <2>1
  <1>13. ASSUME NEW f \in S, NEW i \in 1 .. N PROVE Saved(ns)[i] = f <=> i = Rank(f)
      BY <1>8, <1>10, <1>11
  <1>14. \A f \in S : Rank(f) \in 1 .. N
      BY <1>8, <1>10
  <1> QED BY <1>10, <1>11, <1>12, <1>13, <1>14 DEF S, N

\* The keys of a map are at the odd positions of its stream, the values at the even.
LEMMA StreamFacts ==
    ASSUME NEW c, Len(c) \in Nat
    PROVE  /\ Len(Stream(c)) = 2 * Len(c)
           /\ \A k \in 1 .. Len(c) : /\ Stream(c)[2 * k - 1] = Val("Int", c[k].id)
                                     /\ Stream(c)[2 * k] = c[k].x
  <1> DEFINE n == Len(c)
             G(i) == IF i % 2 = 1 THEN Val("Int", c[(i + 1) \div 2].id) ELSE c[i \div 2].x
  <1>1. Stream(c) = [i \in 1 .. (2 * n) |-> G(i)]
      BY DEF Stream
  <1> HIDE DEF n, G
  <1>2. n \in Nat
      BY DEF n
  <1>3. Len(Stream(c)) = 2 * n
      BY <1>1, <1>2
  <1>4. ASSUME NEW k \in 1 .. n
        PROVE  Stream(c)[2 * k - 1] = Val("Int", c[k].id) /\ Stream(c)[2 * k] = c[k].x
      <2>1. 2 * k - 1 \in 1 .. (2 * n) /\ 2 * k \in 1 .. (2 * n)
          BY <1>2
      <2>2. Stream(c)[2 * k - 1] = G(2 * k - 1) /\ Stream(c)[2 * k] = G(2 * k)
          BY <1>1, <2>1
      <2>3. (2 * k - 1) % 2 = 1 /\ (2 * k - 1 + 1) \div 2 = k /\ (2 * k) % 2 # 1 /\ (2 * k) \div 2 = k
          BY <1>2
      <2> QED BY <2>2, <2>3 DEF G
  <1> QED BY <1>3, <1>4 DEF n

\* A value is read as the type it was written with.
LEMMA ReadsOwn ==
    ASSUME NEW x \in Value
    PROVE  WireType(x) \in Reads(x.type)
  BY DEF WireType, Reads, Value

\* A key of a field and a value of its type after it are read, and the cursor
\* moves behind them.
LEMMA EntryRead ==
    ASSUME NEW sch, NEW s, NEW ns, NEW i \in Nat, Len(s) \in Nat, i + 1 <= Len(s),
           NEW f \in FieldsOf(ns), s[i] = Val("Int", f[2]),
           NEW x \in Value, s[i + 1] = x, x.type = sch[f].type
    PROVE  ValueAt(sch, s, i, ns) = {[f |-> f, x |-> x]} /\ Advance(sch, s, i, ns) = 2
  <1>1. f \in Field /\ f[1] = ns
      BY DEF FieldsOf
  <1>2. IsInt(s, i)
      BY DEF IsInt, WireType, Val
  <1>3. Key(s, i) = f[2]
      <2>1. f[2] \in 0 .. (UINT16 - 1)
          BY <1>1, FieldAssumption
      <2>2. f[2] % UINT16 = f[2]
          BY <2>1, NumberFacts, SMTT(30)
      <2> QED BY <2>2 DEF Key, Val
  <1>4. Named(s, i, ns) = {f}
      <2>1. ASSUME NEW g \in Named(s, i, ns) PROVE g = f
          <3>1. g \in Field /\ g[1] = ns /\ g[2] = Key(s, i)
              BY DEF Named, FieldsOf
          <3> QED BY <1>1, <1>3, <3>1, FieldAssumption
      <2>2. f \in Named(s, i, ns)
          BY <1>2, <1>3 DEF Named
      <2> QED BY <2>1, <2>2
  <1>5. Unpacks(sch[f], s, i + 1)
      BY ReadsOwn DEF Unpacks
  <1>6. ValueAt(sch, s, i, ns) = {[f |-> f, x |-> Val(sch[f].type, s[i + 1].v)]}
      BY <1>4, <1>5 DEF ValueAt
  <1>7. Val(sch[f].type, s[i + 1].v) = x
      BY ValueFacts DEF Val
  <1> QED BY <1>6, <1>7 DEF Advance

\* The cursor of a map whose entries are all read.
LEMMA CursorRead ==
    ASSUME NEW sch, NEW s, NEW ns, NEW n \in Nat,
           \A k \in 1 .. n : Advance(sch, s, 2 * k - 1, ns) = 2
    PROVE  \A k \in 0 .. n : Cursor(sch, s, n, ns)[k] = 2 * k + 1
  <1> DEFINE E(g) == [i \in 0 .. n |-> IF i = 0 THEN 1 ELSE g[i - 1] + Advance(sch, s, g[i - 1], ns)]
             h == [i \in 0 .. n |-> 2 * i + 1]
  <1>1. h = E(h)
      <2>1. ASSUME NEW i \in 0 .. n PROVE h[i] = E(h)[i]
          <3>1. CASE i = 0
              BY <3>1
          <3>2. CASE i # 0
              <4>1. i - 1 \in 0 .. n /\ i \in 1 .. n
                  BY <3>2
              <4>2. h[i - 1] = 2 * i - 1
                  BY <4>1
              <4>3. E(h)[i] = h[i - 1] + Advance(sch, s, h[i - 1], ns)
                  BY <3>2
              <4>4. Advance(sch, s, 2 * i - 1, ns) = 2
                  BY <4>1
              <4>5. h[i] = 2 * i + 1
                  OBVIOUS
              <4> HIDE DEF h, E
              <4>6. E(h)[i] = 2 * i - 1 + 2
                  BY <4>2, <4>3, <4>4
              <4> QED BY <4>5, <4>6
          <3> QED BY <3>1, <3>2
      <2> QED BY <2>1
  <1>2. PICK at : at = CHOOSE g : g = E(g)
      OBVIOUS
  <1>3. Cursor(sch, s, n, ns) = at
      BY <1>2 DEF Cursor
  <1>4. at = E(at)
      <2> HIDE DEF E, h
      <2> QED BY <1>1, <1>2
  <1>5. at[0] = 1 /\ \A i \in 1 .. n : at[i] = at[i - 1] + Advance(sch, s, at[i - 1], ns)
      BY <1>4
  <1>6. ASSUME NEW T, T = {k \in 0 .. n : at[k] # 2 * k + 1}, T # {} PROVE FALSE
      <2>1. PICK k \in T : \A j \in T : k <= j
          BY <1>6, LeastExists
      <2>2. k \in 1 .. n
          BY <1>5, <1>6
      <2>3. k - 1 \in 0 .. n /\ k - 1 \notin T
          BY <2>1, <2>2, <1>6
      <2>4. at[k - 1] = 2 * k - 1
          BY <1>6, <2>2, <2>3
      <2>5. at[k] = 2 * k - 1 + Advance(sch, s, 2 * k - 1, ns)
          BY <1>5, <2>2, <2>4
      <2>6. at[k] = 2 * k + 1
          BY <2>2, <2>5
      <2> QED BY <1>6, <2>6
  <1> QED BY <1>3, <1>6

\* The map c has an entry of the right type for each of the fields q.
Entries(sch, ns, c, q, val) ==
    /\ Len(c) \in Nat
    /\ \A i \in 1 .. Len(c) : /\ q[i] \in FieldsOf(ns)
                              /\ c[i] = [id |-> q[i][2], x |-> val[i]]
                              /\ val[i] \in Value /\ val[i].type = sch[q[i]].type

\* Such a map is read as it was written.
LEMMA MapReadBack ==
    ASSUME NEW sch, NEW ns, NEW c, NEW q, NEW val, Entries(sch, ns, c, q, val)
    PROVE  \A i \in 1 .. Len(c) : ReadMap(sch, c, ns)[i] = {[f |-> q[i], x |-> val[i]]}
  <1>1. PICK s : s = Stream(c)
      OBVIOUS
  <1>2. PICK n : n = Len(c) /\ n \in Nat
      BY DEF Entries
  <1>3. Len(s) = 2 * n /\ \A k \in 1 .. n : s[2 * k - 1] = Val("Int", c[k].id) /\ s[2 * k] = c[k].x
      BY <1>1, <1>2, StreamFacts
  <1>4. ASSUME NEW k \in 1 .. n
        PROVE  /\ ValueAt(sch, s, 2 * k - 1, ns) = {[f |-> q[k], x |-> val[k]]}
               /\ Advance(sch, s, 2 * k - 1, ns) = 2
      <2>1. PICK i : i = 2 * k - 1
          OBVIOUS
      <2>2. i \in Nat /\ i + 1 = 2 * k /\ i + 1 <= Len(s) /\ Len(s) \in Nat
          BY <1>2, <1>3, <2>1
      <2>3. s[i] = Val("Int", c[k].id) /\ s[i + 1] = c[k].x
          BY <1>3, <2>1, <2>2
      <2>4. PICK f, x : f = q[k] /\ x = val[k]
          OBVIOUS
      <2>5. f \in FieldsOf(ns) /\ c[k] = [id |-> f[2], x |-> x] /\ x \in Value /\ x.type = sch[f].type
          BY <1>2, <2>4 DEF Entries
      <2>6. s[i] = Val("Int", f[2]) /\ s[i + 1] = x
          BY <2>3, <2>5
      <2>7. ValueAt(sch, s, i, ns) = {[f |-> f, x |-> x]} /\ Advance(sch, s, i, ns) = 2
          BY <2>2, <2>5, <2>6, EntryRead
      <2> QED BY <2>1, <2>4, <2>7
  <1>5. \A k \in 0 .. n : Cursor(sch, s, n, ns)[k] = 2 * k + 1
      <2>1. n \in Nat /\ \A k \in 1 .. n : Advance(sch, s, 2 * k - 1, ns) = 2
          BY <1>2, <1>4
      <2> QED BY <2>1, CursorRead
  <1>6. ASSUME NEW i \in 1 .. n PROVE ReadMap(sch, c, ns)[i] = {[f |-> q[i], x |-> val[i]]}
      <2>1. ReadMap(sch, c, ns)[i] = ValueAt(sch, s, Cursor(sch, s, n, ns)[i - 1], ns)
          BY <1>1, <1>2 DEF ReadMap
      <2>2. Cursor(sch, s, n, ns)[i - 1] = 2 * i - 1
          BY <1>2, <1>5
      <2> QED BY <1>4, <2>1, <2>2
  <1> QED BY <1>2, <1>6

\* Every saved field of ns has a value of its type.
WellTyped(ns) ==
    \A f \in Kept(ns) : state_value(f) \in Value /\ state_value(f).type = F(f).type

\* pack_namespace_working() and unpack_namespace_working(): each field whose
\* value is valid is read back from the file that is written.
LEMMA PackedReadBack ==
    ASSUME version \in 1..MaxVersion, NEW ns \in Namespace, WellTyped(ns)
    PROVE  /\ Len(Packed(ns)) \in Nat
           /\ \A f \in Kept(ns) : validate(f, state_value(f)) =>
                 /\ Fitting(Schema[version], Packed(ns), f) # {}
                 /\ LastFitting(Schema[version], Packed(ns), f) = state_value(f)
  <1>1. PICK sch : sch = Schema[version]
      OBVIOUS
  <1>2. PICK q : q = Saved(ns)
      OBVIOUS
  <1>3. PICK N : N = Cardinality(Kept(ns))
      OBVIOUS
  <1>4. /\ N \in Nat /\ Len(q) = N
        /\ \A i \in 1 .. N : q[i] \in Kept(ns)
        /\ \A f \in Kept(ns) : Rank(f) \in 1 .. N /\ \A i \in 1 .. N : q[i] = f <=> i = Rank(f)
      BY <1>2, <1>3, SavedFacts
  <1>5. PICK val : val = [i \in 1 .. N |-> state_value(q[i])]
      OBVIOUS
  <1>6. PICK c : c = Packed(ns)
      OBVIOUS
  <1>7. c = [i \in 1 .. N |-> [id |-> q[i][2], x |-> state_value(q[i])]]
      BY <1>2, <1>4, <1>6 DEF Packed
  <1>8. Len(c) = N
      BY <1>4, <1>7
  <1>9. \A f \in Kept(ns) : f \in FieldsOf(ns) /\ f \in Field /\ f[1] = ns /\ sch[f] = F(f)
      BY <1>1 DEF Kept, FieldsOf, F
  <1>10. ASSUME NEW i \in 1 .. N
         PROVE  /\ q[i] \in FieldsOf(ns)
                /\ c[i] = [id |-> q[i][2], x |-> val[i]]
                /\ val[i] \in Value /\ val[i].type = sch[q[i]].type
      <2>1. PICK g \in Kept(ns) : g = q[i]
          BY <1>4
      <2>2. val[i] = state_value(g) /\ c[i] = [id |-> g[2], x |-> state_value(g)]
          BY <1>5, <1>7, <2>1
      <2>3. state_value(g) \in Value /\ state_value(g).type = sch[g].type /\ g \in FieldsOf(ns)
          BY <1>9 DEF WellTyped
      <2> QED BY <2>1, <2>2, <2>3
  <1>11. \A i \in 1 .. N : ReadMap(sch, c, ns)[i] = {[f |-> q[i], x |-> val[i]]}
      <2>1. Entries(sch, ns, c, q, val)
          BY <1>4, <1>8, <1>10 DEF Entries
      <2>2. \A i \in 1 .. Len(c) : ReadMap(sch, c, ns)[i] = {[f |-> q[i], x |-> val[i]]}
          BY <2>1, MapReadBack
      <2> QED BY <1>8, <2>2
  <1>12. ASSUME NEW f \in Kept(ns), validate(f, state_value(f))
         PROVE  Fitting(sch, c, f) # {} /\ LastFitting(sch, c, f) = state_value(f)
      <2>1. PICK k : k = Rank(f)
          OBVIOUS
      <2>2. k \in 1 .. N /\ \A i \in 1 .. N : q[i] = f <=> i = k
          BY <1>4, <2>1
      <2>3. PICK x : x = state_value(f)
          OBVIOUS
      <2>4. q[k] = f /\ val[k] = x /\ Fits(sch[f], x)
          BY <1>5, <1>9, <1>12, <2>2, <2>3 DEF validate
      <2>5. f[1] = ns
          BY <1>9
      <2>6. \A i \in 1 .. N : (\E e \in ReadMap(sch, c, f[1])[i] : e.f = f /\ Fits(sch[f], e.x)) <=> i = k
          <3> SUFFICES ASSUME NEW i \in 1 .. N
                       PROVE  (\E e \in ReadMap(sch, c, f[1])[i] : e.f = f /\ Fits(sch[f], e.x)) <=> i = k
              OBVIOUS
          <3>1. ReadMap(sch, c, f[1])[i] = {[f |-> q[i], x |-> val[i]]}
              BY <1>11, <2>5
          <3>2. CASE i = k
              BY <2>4, <3>1, <3>2
          <3>3. CASE i # k
              <4>1. q[i] # f
                  BY <2>2, <3>3
              <4> QED BY <3>1, <3>3, <4>1
          <3> QED BY <3>2, <3>3
      <2>7. Fitting(sch, c, f) = {k}
          BY <1>8, <2>2, <2>6 DEF Fitting
      <2>8. Max(Fitting(sch, c, f)) = k
          <3>1. {k} \in SUBSET (1 .. N) /\ {k} # {}
              BY <2>2
          <3>2. Max({k}) \in {k}
              BY <1>4, <3>1, LargestExists
          <3> QED BY <2>7, <3>2
      <2>9. LastFitting(sch, c, f) = (CHOOSE e \in {[f |-> f, x |-> x]} : e.f = f).x
          <3>1. ReadMap(sch, c, f[1])[k] = {[f |-> f, x |-> x]}
              BY <1>11, <2>2, <2>4, <2>5
          <3> QED BY <2>8, <3>1 DEF LastFitting
      <2>10. PICK d : d = [f |-> f, x |-> x]
          OBVIOUS
      <2>11. (CHOOSE e \in {d} : e.f = f) = d
          BY <2>10
      <2> QED BY <2>3, <2>7, <2>9, <2>10, <2>11
  <1> QED BY <1>1, <1>4, <1>6, <1>8, <1>12

-----------------------------------------------------------------------------
(* Facts about one state, and about two with the same firmware.            *)

\* The value a field counts as having is of its type.
LEMMA StateValueFacts ==
    ASSUME TypeOK, Valued, up, NEW f \in Field
    PROVE  /\ state_value(f) \in Value /\ state_value(f).type = F(f).type
           /\ Committed(f) => state_value(f) = working[f]
  <1>1. /\ working[f] \in Value /\ working[f].type = F(f).type
        /\ runtime[f] \in Value /\ runtime[f].type = F(f).type
      BY DEF Valued
  <1>2. state_value(f) \in {working[f], runtime[f]}
      BY DEF state_value, effective
  <1>3. Committed(f) => state_value(f) = working[f]
      BY DEF state_value, effective, Committed
  <1> QED BY <1>1, <1>2, <1>3

\* What a map gives a field is a valid value.
LEMMA UnpackedFacts ==
    ASSUME version \in 1..MaxVersion, NEW f \in Field
    PROVE  /\ Seed(f) = F(f).default
           /\ Seed(f) \in Value /\ Seed(f).type = F(f).type
           /\ Stateful(f) => validate(f, Seed(f))
           /\ \A c : Len(c) \in Nat =>
                 /\ Unpacked(c, f) \in Value /\ Unpacked(c, f).type = F(f).type
                 /\ Stateful(f) => validate(f, Unpacked(c, f))
  <1>1. Seed(f) = F(f).default
      BY FieldFacts DEF Seed
  <1>2. Seed(f) \in Value /\ Seed(f).type = F(f).type /\ (Stateful(f) => validate(f, Seed(f)))
      BY <1>1, FieldFacts DEF validate, Fits
  <1>3. ASSUME NEW c, Len(c) \in Nat
        PROVE  /\ Unpacked(c, f) \in Value /\ Unpacked(c, f).type = F(f).type
               /\ Stateful(f) => validate(f, Unpacked(c, f))
      <2>1. CASE Fitting(Schema[version], c, f) = {}
          <3>1. Unpacked(c, f) = Seed(f)
              BY <2>1 DEF Unpacked
          <3> QED BY <1>2, <3>1
      <2>2. CASE Fitting(Schema[version], c, f) # {}
          <3>1. Unpacked(c, f) = LastFitting(Schema[version], c, f)
              BY <2>2 DEF Unpacked
          <3>2. Unpacked(c, f) \in Value /\ validate(f, Unpacked(c, f))
              BY <1>3, <2>2, <3>1, LastFittingFacts
          <3> QED BY <3>2 DEF validate, Fits
      <2> QED BY <2>1, <2>2
  <1> QED BY <1>1, <1>2, <1>3

\* What depends on the firmware only.
LEMMA SameFirmware ==
    ASSUME version' = version
    PROVE  /\ \A f : /\ F(f)' = F(f) /\ Seed(f)' = Seed(f)
                     /\ Stateful(f)' = Stateful(f) /\ Reboots(f)' = Reboots(f)
                     /\ Has(f, "READ_ONLY")' = Has(f, "READ_ONLY")
                     /\ Committed(f)' = Committed(f)
           /\ \A f, x : validate(f, x)' = validate(f, x) /\ Cast(f, x)' = Cast(f, x)
           /\ \A c, f : Unpacked(c, f)' = Unpacked(c, f)
  <1> USE DEF F, Has
  <1>1. \A f : F(f)' = F(f) /\ Seed(f)' = Seed(f)
      BY DEF Seed
  <1>2. \A f : /\ Stateful(f)' = Stateful(f) /\ Reboots(f)' = Reboots(f)
               /\ Has(f, "READ_ONLY")' = Has(f, "READ_ONLY")
               /\ Committed(f)' = Committed(f)
      BY DEF Stateful, Reboots, Committed
  <1>3. \A f, x : validate(f, x)' = validate(f, x)
      BY DEF validate
  <1>4. \A f, x : Cast(f, x)' = Cast(f, x)
      BY DEF Cast
  <1>5. \A c, f : Unpacked(c, f)' = Unpacked(c, f)
      BY DEF Unpacked, Seed
  <1> QED BY <1>1, <1>2, <1>3, <1>4, <1>5

\* A namespace is given back as long as its working map is the same.
LEMMA SameGivesBack ==
    ASSUME version' = version, NEW ns, NEW c,
           \A f \in FieldsOf(ns) : working'[f] = working[f], GivesBack(c, ns)
    PROVE  GivesBack(c, ns)'
  BY SameFirmware DEF GivesBack

\* Cardinalities of what can fail.
LEMMA FailureFacts ==
    /\ \A S \in SUBSET Field : IsFiniteSet(S) /\ Cardinality(S) \in Nat
    /\ \A S \in SUBSET Namespace : IsFiniteSet(S) /\ Cardinality(S) \in Nat
  <1>1. IsFiniteSet(Field)
      BY FieldAssumption
  <1>2. IsFiniteSet(Namespace)
      <2> DEFINE h == [f \in Field |-> f[1]]
      <2>1. Namespace = {h[f] : f \in Field}
          BY DEF Namespace
      <2>2. h \in Surjection(Field, Namespace)
          BY <2>1 DEF Surjection
      <2> QED BY <1>1, <2>2, FS_Surjection
  <1>3. \A S \in SUBSET Field : IsFiniteSet(S) /\ Cardinality(S) \in Nat
      BY <1>1, FS_Subset, FS_CardinalityType
  <1>4. \A S \in SUBSET Namespace : IsFiniteSet(S) /\ Cardinality(S) \in Nat
      BY <1>2, FS_Subset, FS_CardinalityType
  <1> QED BY <1>3, <1>4

\* The steps of a commit, and a commit at another one.
Steps == {"idle", "fields", "write", "rename", "again"}
At(c, st) == [c EXCEPT !.step = st]
FlaggedAt(c, b, st) == [c EXCEPT !.reboot = b, !.step = st]

\* A commit keeps its form.
LEMMA FormFacts ==
    ASSUME NEW c, Form(c)
    PROVE  \E t : \E s \in Steps, w \in BOOLEAN, r \in BOOLEAN :
              c = [todo |-> t, step |-> s, wire |-> w, reboot |-> r]
  <1>1. PICK T : T = {c.todo}
      OBVIOUS
  <1>2. \E t \in T : \E s \in Steps, w \in BOOLEAN, r \in BOOLEAN :
            c = [todo |-> t, step |-> s, wire |-> w, reboot |-> r]
      BY <1>1 DEF Form, Steps
  <1> QED BY <1>2

\* Moving a commit on to another step changes nothing else of it.
LEMMA AtFacts ==
    ASSUME NEW c, Form(c), NEW st \in Steps
    PROVE  /\ Form(At(c, st)) /\ At(c, st).step = st /\ At(c, st).todo = c.todo
           /\ At(c, st).reboot = c.reboot
  BY FormFacts DEF Form, Steps, At

\* Moving a commit on with another reboot flag changes nothing else of it.
LEMMA FlaggedAtFacts ==
    ASSUME NEW c, Form(c), NEW st \in Steps, NEW b \in BOOLEAN
    PROVE  /\ Form(FlaggedAt(c, b, st)) /\ FlaggedAt(c, b, st).step = st
           /\ FlaggedAt(c, b, st).todo = c.todo /\ FlaggedAt(c, b, st).reboot = b
  BY FormFacts DEF Form, Steps, FlaggedAt

\* The form of a new commit.
LEMMA FormIntro ==
    ASSUME NEW t, NEW s \in {"idle", "fields", "write", "rename", "again"},
           NEW w \in BOOLEAN, NEW r \in BOOLEAN
    PROVE  Form([todo |-> t, step |-> s, wire |-> w, reboot |-> r])
  BY DEF Form

\* The end of a namespace: the flag of the commit is kept or handed over.
LEMMA NextNamespaceFacts ==
    ASSUME NEW c, Form(c), needs_reboot \in BOOLEAN, NextNamespace(c)
    PROVE  /\ Form(commit') /\ commit'.step \in {"idle", "fields"}
           /\ needs_reboot' \in BOOLEAN
           /\ needs_reboot => needs_reboot'
           /\ c.reboot => needs_reboot' \/ commit'.reboot
  <1>0. c.wire \in BOOLEAN /\ c.reboot \in BOOLEAN
      BY DEF Form
  <1>1. PICK rest : rest = Tail(c.todo)
      OBVIOUS
  <1>2. needs_reboot' = (needs_reboot \/ (c.reboot /\ (~c.wire \/ rest = <<>>)))
      BY <1>1 DEF NextNamespace
  <1>3. CASE rest = <<>>
      <2>1. commit' = [todo |-> <<>>, step |-> "idle", wire |-> FALSE, reboot |-> FALSE]
          BY <1>1, <1>3 DEF NextNamespace, NoCommit
      <2>2. Form(commit') /\ commit'.step = "idle"
          BY <2>1, FormIntro
      <2> QED BY <1>0, <1>2, <1>3, <2>2
  <1>4. CASE rest # <<>>
      <2>1. PICK b \in BOOLEAN : b = (c.wire /\ c.reboot)
          BY <1>0
      <2>2. commit' = [todo |-> rest, step |-> "fields", wire |-> c.wire, reboot |-> b]
          BY <1>1, <1>4, <2>1 DEF NextNamespace
      <2>3. Form(commit') /\ commit'.step = "fields" /\ commit'.reboot = b
          BY <1>0, <2>2, FormIntro
      <2> QED BY <1>0, <1>2, <1>4, <2>1, <2>3
  <1> QED BY <1>3, <1>4

-----------------------------------------------------------------------------
(* The invariant: staging.                                                 *)

\* Bounds and types that every step needs.
LEMMA BoundFacts ==
    MaxVersion \in Nat \ {0} /\ MaxEdits \in Nat /\ MaxFaults \in Nat /\ None \notin Value
  BY BoundAssumption

\* A step that leaves the working map, the files and the commit alone.
LEMMA Untouched ==
    ASSUME SettingsInv, UNCHANGED <<version, up, working, dirty, commit, file, tmp, adrift>>
    PROVE  Shape' /\ Stored'
  <1>1. Shape'
      BY DEF SettingsInv, Shape, Saving, Ns
  <1>2. Stored'
      <2>1. \A c, ns : GivesBack(c, ns) => GivesBack(c, ns)'
          BY SameGivesBack
      <2> QED BY <2>1 DEF SettingsInv, Stored, Ns
  <1> QED BY <1>1, <1>2

\* The same for the values.
LEMMA UntouchedValues ==
    ASSUME SettingsInv, UNCHANGED <<version, up, working, runtime>>
    PROVE  Valued'
  BY SameFirmware DEF SettingsInv, Valued

\* And for the flag.
LEMMA UntouchedFlag ==
    ASSUME SettingsInv, UNCHANGED <<version, up, needs_reboot, escaped, unapplied, commit>>,
           \A f \in Field : Reboots(f) => working'[f] = working[f] /\ runtime'[f] = runtime[f]
    PROVE  Flagged'
  BY SameFirmware DEF SettingsInv, Flagged

\* What set_draft() stages.
LEMMA DraftFacts ==
    ASSUME TypeOK, NEW f \in Field, NEW x
    PROVE  /\ set_draft(f, x) \in {None, x}
           /\ Reboots(f) /\ set_draft(f, x) # None => x # working[f]
  <1>1. Reboots(f) => Stateful(f) /\ state_value(f) = working[f]
      BY FieldFacts DEF TypeOK, state_value
  <1> QED BY <1>1 DEF set_draft

\* Drafts that are staged by set_draft() with a valid value, or dropped, or kept.
LEMMA StagedDrafts ==
    ASSUME SettingsInv, up, UNCHANGED <<version, up, working>>, NEW x \in [Field -> Value],
           draft' \in [Field -> Value \union {None}],
           \A f \in Field :
              \/ draft'[f] \in {None, draft[f]}
              \/ draft'[f] = set_draft(f, x[f]) /\ validate(f, x[f]) /\ ~Has(f, "READ_ONLY")
    PROVE  Pending'
  <1> SUFFICES ASSUME NEW f \in Field, draft'[f] # None
               PROVE  validate(f, draft'[f]) /\ ~Has(f, "READ_ONLY")
                      /\ (Reboots(f) => draft'[f] # working[f])
      BY SameFirmware DEF Pending
  <1>1. CASE draft'[f] = draft[f]
      BY <1>1 DEF SettingsInv, Pending
  <1>2. CASE draft'[f] = set_draft(f, x[f]) /\ validate(f, x[f]) /\ ~Has(f, "READ_ONLY")
      <2>1. draft'[f] = x[f] /\ (Reboots(f) => x[f] # working[f])
          BY <1>2, DraftFacts DEF SettingsInv
      <2> QED BY <1>2, <2>1
  <1> QED BY <1>1, <1>2

\* Provisioner::field().
LEMMA StageStep ==
    ASSUME SettingsInv, NEW f \in Field, NEW x \in Value, Stage(f, x)
    PROVE  SettingsInv'
  <1>1. /\ UNCHANGED <<version, up, working, dirty, commit, file, tmp, adrift>>
        /\ UNCHANGED <<runtime, needs_reboot, escaped, unapplied, faults>>
        /\ up /\ edits < MaxEdits /\ edits' = edits + 1
        /\ ~Has(f, "READ_ONLY") /\ validate(f, x)
        /\ draft' = [draft EXCEPT ![f] = set_draft(f, x)]
      BY DEF Stage, Idle, Settable
  <1>2. set_draft(f, x) \in {None, x}
      BY DraftFacts DEF SettingsInv
  <1>3. draft \in [Field -> Value \union {None}]
      BY DEF SettingsInv, TypeOK
  <1>4. draft' \in [Field -> Value \union {None}]
      BY <1>1, <1>2, <1>3
  <1>5. TypeOK'
      BY <1>1, <1>4, BoundFacts DEF SettingsInv, TypeOK
  <1>6. Pending'
      <2>1. PICK y : y = [g \in Field |-> x]
          OBVIOUS
      <2>2. y \in [Field -> Value] /\ \A g \in Field : y[g] = x
          BY <2>1
      <2>3. \A g \in Field :
              \/ draft'[g] \in {None, draft[g]}
              \/ draft'[g] = set_draft(g, y[g]) /\ validate(g, y[g]) /\ ~Has(g, "READ_ONLY")
          BY <1>1, <1>3, <2>2
      <2> QED BY <1>1, <1>4, <2>2, <2>3, StagedDrafts
  <1> QED BY <1>1, <1>5, <1>6, Untouched, UntouchedValues, UntouchedFlag DEF SettingsInv

\* SET_STATE.
LEMMA SetStateStep ==
    ASSUME SettingsInv, NEW ns, NEW c, Len(c) \in Nat, op_set_state(ns, c)
    PROVE  SettingsInv'
  <1>1. /\ UNCHANGED <<version, up, working, dirty, commit, file, tmp, adrift>>
        /\ UNCHANGED <<runtime, needs_reboot, escaped, unapplied, faults>>
        /\ up /\ edits < MaxEdits /\ edits' = edits + 1
        /\ draft' = [f \in Field |-> IF f \in Staged(ns, c)
                                     THEN set_draft(f, LastFitting(Schema[version], c, f))
                                     ELSE draft[f]]
      BY DEF op_set_state, Idle
  <1>2. version \in 1..MaxVersion /\ draft \in [Field -> Value \union {None}]
      BY DEF SettingsInv, TypeOK
  <1>3. PICK y : y = [f \in Field |-> IF f \in Staged(ns, c)
                                     THEN LastFitting(Schema[version], c, f) ELSE F(f).default]
      OBVIOUS
  <1>4. ASSUME NEW f \in Staged(ns, c)
        PROVE  f \in Field /\ y[f] \in Value /\ validate(f, y[f]) /\ ~Has(f, "READ_ONLY")
      <2>1. f \in Field /\ ~Has(f, "READ_ONLY") /\ Fitting(Schema[version], c, f) # {}
          BY DEF Staged, FieldsOf
      <2> QED BY <1>2, <1>3, <2>1, LastFittingFacts
  <1>5. y \in [Field -> Value]
      <2>1. \A f \in Field : y[f] \in Value
          BY <1>2, <1>3, <1>4, FieldFacts
      <2> QED BY <1>3, <2>1
  <1>6. \A f \in Field :
            \/ draft'[f] = draft[f]
            \/ draft'[f] = set_draft(f, y[f]) /\ validate(f, y[f]) /\ ~Has(f, "READ_ONLY")
      <2> SUFFICES ASSUME NEW f \in Field
                   PROVE  \/ draft'[f] = draft[f]
                          \/ draft'[f] = set_draft(f, y[f]) /\ validate(f, y[f]) /\ ~Has(f, "READ_ONLY")
          OBVIOUS
      <2>1. CASE f \in Staged(ns, c)
          <3>1. y[f] = LastFitting(Schema[version], c, f)
              BY <1>3, <2>1
          <3>2. draft'[f] = set_draft(f, y[f])
              BY <1>1, <2>1, <3>1
          <3> QED BY <1>4, <2>1, <3>2
      <2>2. CASE f \notin Staged(ns, c)
          BY <1>1, <2>2
      <2> QED BY <2>1, <2>2
  <1>7. draft' \in [Field -> Value \union {None}]
      <2>1. \A f \in Field : draft'[f] \in Value \union {None}
          BY <1>2, <1>5, <1>6, DraftFacts DEF SettingsInv
      <2> QED BY <1>1, <2>1
  <1>8. TypeOK'
      BY <1>1, <1>7, BoundFacts DEF SettingsInv, TypeOK
  <1>9. Pending'
      BY <1>1, <1>5, <1>6, <1>7, StagedDrafts
  <1> QED BY <1>1, <1>8, <1>9, Untouched, UntouchedValues, UntouchedFlag DEF SettingsInv

\* discard().
LEMMA DiscardStep ==
    ASSUME SettingsInv, NEW nss, discard(nss)
    PROVE  SettingsInv'
  <1>1. /\ UNCHANGED <<version, up, working, dirty, commit, file, tmp, adrift>>
        /\ UNCHANGED <<runtime, needs_reboot, escaped, unapplied, faults, edits>>
        /\ up /\ draft' = [f \in Field |-> IF f[1] \in nss THEN None ELSE draft[f]]
      BY DEF discard, Idle
  <1>2. draft \in [Field -> Value \union {None}]
      BY DEF SettingsInv, TypeOK
  <1>3. draft' \in [Field -> Value \union {None}] /\ \A f \in Field : draft'[f] \in {None, draft[f]}
      BY <1>1, <1>2
  <1>4. TypeOK'
      BY <1>1, <1>3 DEF SettingsInv, TypeOK
  <1>5. Pending'
      BY <1>1, <1>3, SameFirmware DEF SettingsInv, Pending
  <1> QED BY <1>1, <1>4, <1>5, Untouched, UntouchedValues, UntouchedFlag DEF SettingsInv

\* A static is changed behind its field.
LEMMA DirectSetStep ==
    ASSUME SettingsInv, NEW f \in Field, NEW x \in Value, DirectSet(f, x)
    PROVE  SettingsInv'
  <1>1. /\ UNCHANGED <<version, up, working, dirty, commit, file, tmp, adrift>>
        /\ UNCHANGED <<draft, needs_reboot, escaped, unapplied, faults>>
        /\ up /\ edits < MaxEdits /\ edits' = edits + 1
        /\ Live(f) /\ validate(f, x)
        /\ runtime' = [runtime EXCEPT ![f] = Cast(f, x)]
      BY DEF DirectSet, Idle
  <1>2. version \in 1..MaxVersion /\ runtime \in [Field -> Value \union {None}]
      BY DEF SettingsInv, TypeOK
  <1>3. Cast(f, x) \in Value /\ Cast(f, x).type = F(f).type
      <2>1. Cast(f, x) \in Value /\ Cast(f, x).type = x.type
          BY <1>2, CastFacts
      <2> QED BY <1>1, <2>1 DEF validate, Fits
  <1>4. TypeOK'
      <2>1. runtime' \in [Field -> Value \union {None}]
          BY <1>1, <1>2, <1>3
      <2> QED BY <1>1, <2>1, BoundFacts DEF SettingsInv, TypeOK
  <1>5. Valued'
      <2>1. \A g \in Field : runtime'[g] \in Value /\ runtime'[g].type = F(g).type
          BY <1>1, <1>2, <1>3 DEF SettingsInv, Valued
      <2> QED BY <1>1, <2>1, SameFirmware DEF SettingsInv, Valued
  <1>6. Pending'
      BY <1>1, SameFirmware DEF SettingsInv, Pending
  <1>7. Flagged'
      <2>1. ~Reboots(f)
          BY <1>1, <1>2, FieldFacts
      <2>2. \A g \in Field : Reboots(g) => runtime'[g] = runtime[g]
          BY <1>1, <1>2, <2>1
      <2> QED BY <1>1, <2>2, UntouchedFlag
  <1> QED BY <1>1, <1>4, <1>5, <1>6, <1>7, Untouched DEF SettingsInv

\* The start of a commit.
LEMMA BeginCommitStep ==
    ASSUME SettingsInv, NEW todo, NEW wire \in BOOLEAN, BeginCommit(todo, wire)
    PROVE  SettingsInv'
  <1>1. /\ UNCHANGED <<version, up, working, dirty, file, tmp, adrift>>
        /\ UNCHANGED <<draft, runtime, needs_reboot, escaped, unapplied, faults, edits>>
        /\ up /\ commit = NoCommit
        /\ commit' = [todo |-> todo, step |-> "fields", wire |-> wire, reboot |-> FALSE]
      BY DEF BeginCommit, Idle
  <1>2. Form(commit') /\ commit'.step = "fields" /\ ~commit'.reboot /\ ~commit.reboot
      BY <1>1, FormIntro DEF NoCommit
  <1>3. TypeOK'
      BY <1>1 DEF SettingsInv, TypeOK
  <1>4. Shape'
      BY <1>1, <1>2 DEF SettingsInv, Shape, Saving
  <1>5. Pending'
      BY <1>1, SameFirmware DEF SettingsInv, Pending
  <1>6. Stored'
      BY <1>1, <1>2, SameGivesBack DEF SettingsInv, Stored
  <1>7. Flagged'
      BY <1>1, <1>2, SameFirmware DEF SettingsInv, Flagged
  <1> QED BY <1>1, <1>3, <1>4, <1>5, <1>6, <1>7, UntouchedValues DEF SettingsInv

-----------------------------------------------------------------------------
(* The invariant: the commit.                                              *)

\* What the hooks and the order of the fields leave to a commit.
LEMMA ReachedFacts ==
    ASSUME SettingsInv, up, NEW d \in Hooked(Ns), NEW thrower, NEW done,
           done = Reached(d, Ns, thrower)
    PROVE  /\ d \in [Field -> Value \union {None}]
           /\ \A f \in Field : d[f] \in {None, draft[f]}
           /\ \A f \in done : /\ f \in Field /\ f[1] = Ns /\ Ns \in Namespace
                              /\ d[f] \in Value /\ validate(f, d[f])
  <1>1. draft \in [Field -> Value \union {None}]
      BY DEF SettingsInv, TypeOK
  <1>2. d \in [Field -> Value \union {None}] /\ \A f \in Field : d[f] \in {None, draft[f]}
      <2>1. CASE d = draft
          BY <1>1, <2>1
      <2>2. CASE d # draft
          <3>1. PICK g \in FieldsOf(Ns) : d = [draft EXCEPT ![g] = None]
              BY <2>2 DEF Hooked
          <3> QED BY <1>1, <3>1
      <2> QED BY <2>1, <2>2
  <1>3. ASSUME NEW f \in done
        PROVE  /\ f \in Field /\ f[1] = Ns /\ Ns \in Namespace
               /\ d[f] \in Value /\ validate(f, d[f])
      <2>1. f \in Field /\ f[1] = Ns /\ d[f] # None
          BY DEF Reached, FieldsOf
      <2>2. Ns \in Namespace
          BY <2>1 DEF Namespace
      <2>3. d[f] = draft[f] /\ draft[f] # None /\ d[f] \in Value
          BY <1>2, <2>1
      <2>4. validate(f, draft[f])
          BY <2>1, <2>3 DEF SettingsInv, Pending
      <2> QED BY <2>1, <2>2, <2>3, <2>4
  <1> QED BY <1>2, <1>3

\* commit_one() for the drafts of a namespace.
LEMMA CommitFieldsStep ==
    ASSUME SettingsInv, CommitFields
    PROVE  SettingsInv'
  <1>1. /\ UNCHANGED <<version, up, edits, unapplied>>
        /\ commit.step = "fields" /\ up /\ Form(commit)
      BY DEF CommitFields, SettingsInv, Shape
  <1>2. /\ version \in 1..MaxVersion /\ faults \in 0 .. MaxFaults
        /\ needs_reboot \in BOOLEAN /\ escaped \in BOOLEAN
        /\ dirty \subseteq Namespace /\ adrift \subseteq Namespace
        /\ working \in [Field -> Value \union {None}]
        /\ runtime \in [Field -> Value \union {None}]
      BY DEF SettingsInv, TypeOK
  <1>3. PICK d \in Hooked(Ns) :
          \E thrower \in {f \in FieldsOf(Ns) : d[f] # None /\ ~Reboots(f)} \union {None},
             refused \in SUBSET {f \in FieldsOf(Ns) : d[f] # None /\ Live(f)} :
          \E done \in {Reached(d, Ns, thrower)} :
          \E new \in {{f \in done : Stateful(f)}},
             live \in {{f \in done : Live(f)} \ (refused \union {thrower})} :
             CommitOne(d, thrower, refused, done, new, live)
      BY DEF CommitFields
  <1>4. PICK thrower, refused, done, new, live :
          /\ refused \in SUBSET Field
          /\ done = Reached(d, Ns, thrower)
          /\ new = {f \in done : Stateful(f)}
          /\ live \subseteq {f \in done : Live(f)}
          /\ CommitOne(d, thrower, refused, done, new, live)
      BY <1>3 DEF FieldsOf
  <1>5. /\ d \in [Field -> Value \union {None}]
        /\ \A f \in Field : d[f] \in {None, draft[f]}
        /\ \A f \in done : /\ f \in Field /\ f[1] = Ns /\ Ns \in Namespace
                           /\ d[f] \in Value /\ validate(f, d[f])
      BY <1>1, <1>4, ReachedFacts
  <1>6. /\ draft' = [f \in Field |-> IF f \in done THEN None ELSE d[f]]
        /\ working' = [f \in Field |-> IF f \in new THEN d[f] ELSE working[f]]
        /\ runtime' = [f \in Field |-> IF f \in live THEN Cast(f, d[f]) ELSE runtime[f]]
        /\ dirty' = IF new = {} THEN dirty ELSE dirty \union {Ns}
      BY <1>4 DEF CommitOne
  <1>7. faults' \in 0 .. MaxFaults
      <2>1. Cardinality(refused) \in Nat
          BY <1>4, FailureFacts
      <2>2. Count(thrower # None) \in Nat
          BY DEF Count
      <2>3. /\ faults + Cardinality(refused) + Count(thrower # None) <= MaxFaults
            /\ faults' = faults + Cardinality(refused) + Count(thrower # None)
          BY <1>4 DEF CommitOne
      <2> QED BY <1>2, <2>1, <2>2, <2>3, BoundFacts
  <1>8. \/ UNCHANGED <<file, tmp, adrift>>
        \/ /\ file' = [ns \in Namespace |-> None] /\ tmp' = [ns \in Namespace |-> None]
           /\ adrift' \subseteq adrift
      BY <1>4 DEF CommitOne, RemoveFiles
  <1>9. /\ Form(commit') /\ commit'.step \in {"idle", "fields", "write"}
        /\ commit'.step = "write" => Ns' = Ns /\ Ns \in dirty'
        /\ needs_reboot' \in BOOLEAN /\ escaped' \in BOOLEAN
        /\ escaped => escaped'
        /\ ~escaped' => /\ needs_reboot => needs_reboot'
                        /\ (commit.reboot \/ \E f \in new : Reboots(f)) =>
                              needs_reboot' \/ commit'.reboot
      <2>1. CASE thrower # None
          <3>1. commit' = NoCommit /\ escaped' = TRUE /\ needs_reboot' = needs_reboot
              BY <1>4, <2>1 DEF CommitOne
          <3>2. Form(commit') /\ commit'.step = "idle"
              BY <3>1, FormIntro DEF NoCommit
          <3> QED BY <1>2, <3>1, <3>2
      <2>2. CASE thrower = None
          <3>1. PICK b \in BOOLEAN : b = (commit.reboot \/ \E f \in new : Reboots(f))
              <4>1. commit.reboot \in BOOLEAN
                  BY <1>1 DEF Form
              <4> QED BY <4>1
          <3>2. PICK c : c = FlaggedAt(commit, b, "write")
              OBVIOUS
          <3>3. Form(c) /\ c.step = "write" /\ c.todo = commit.todo /\ c.reboot = b
              <4>1. "write" \in Steps
                  BY DEF Steps
              <4> QED BY <1>1, <3>2, <4>1, FlaggedAtFacts
          <3>4. /\ escaped' = escaped
                /\ IF Ns \in dirty' THEN commit' = c /\ needs_reboot' = needs_reboot
                   ELSE NextNamespace(c)
              BY <1>4, <2>2, <3>1, <3>2 DEF CommitOne, FlaggedAt
          <3>5. CASE Ns \in dirty'
              BY <1>2, <3>1, <3>3, <3>4, <3>5 DEF Ns
          <3>6. CASE Ns \notin dirty'
              <4>1. NextNamespace(c)
                  BY <3>4, <3>6
              <4> QED BY <1>2, <3>1, <3>3, <3>4, <4>1, NextNamespaceFacts
          <3> QED BY <3>5, <3>6
      <2> QED BY <2>1, <2>2
  <1>10. dirty' \subseteq Namespace /\ dirty \subseteq dirty' /\ (new # {} => Ns \in dirty')
      BY <1>2, <1>4, <1>5, <1>6
  <1>11. ASSUME NEW f \in Field, f \in live
         PROVE  Cast(f, d[f]) \in Value /\ Cast(f, d[f]).type = F(f).type
      <2>1. d[f] \in Value /\ validate(f, d[f])
          BY <1>4, <1>5, <1>11
      <2>2. Cast(f, d[f]) \in Value /\ Cast(f, d[f]).type = d[f].type
          BY <1>2, <2>1, CastFacts
      <2> QED BY <2>1, <2>2 DEF validate, Fits
  <1>12. TypeOK'
      <2>1. draft' \in [Field -> Value \union {None}]
          BY <1>5, <1>6
      <2>2. working' \in [Field -> Value \union {None}]
          BY <1>2, <1>5, <1>6
      <2>3. runtime' \in [Field -> Value \union {None}]
          BY <1>2, <1>6, <1>11
      <2>4. adrift' \subseteq Namespace
          BY <1>2, <1>8
      <2> QED BY <1>1, <1>7, <1>9, <1>10, <2>1, <2>2, <2>3, <2>4 DEF SettingsInv, TypeOK
  <1>13. Shape'
      <2>1. Saving' => Ns' \in Namespace
          BY <1>9, <1>10 DEF Saving
      <2>2. DOMAIN file' = Namespace /\ DOMAIN tmp' = Namespace
          BY <1>8 DEF SettingsInv, Shape
      <2>3. \A ns \in Namespace : file'[ns] # None => Len(file'[ns]) \in Nat
          BY <1>8 DEF SettingsInv, Shape
      <2> QED BY <1>1, <1>9, <2>1, <2>2, <2>3 DEF Shape
  <1>14. Valued'
      <2> SUFFICES ASSUME NEW f \in Field
                   PROVE  /\ working'[f] \in Value /\ working'[f].type = F(f).type
                          /\ runtime'[f] \in Value /\ runtime'[f].type = F(f).type
                          /\ Stateful(f) => validate(f, working'[f])
          BY <1>1, SameFirmware DEF Valued
      <2>1. /\ working[f] \in Value /\ working[f].type = F(f).type
            /\ runtime[f] \in Value /\ runtime[f].type = F(f).type
            /\ Stateful(f) => validate(f, working[f])
          BY <1>1 DEF SettingsInv, Valued
      <2>2. runtime'[f] \in Value /\ runtime'[f].type = F(f).type
          BY <1>6, <1>11, <2>1
      <2>3. CASE f \in new
          <3>1. working'[f] = d[f] /\ d[f] \in Value /\ validate(f, d[f])
              BY <1>4, <1>5, <1>6, <2>3
          <3> QED BY <2>2, <3>1 DEF validate, Fits
      <2>4. CASE f \notin new
          <3>1. working'[f] = working[f]
              BY <1>6, <2>4
          <3> QED BY <2>1, <2>2, <3>1
      <2> QED BY <2>3, <2>4
  <1>15. Pending'
      <2> SUFFICES ASSUME NEW f \in Field, draft'[f] # None
                   PROVE  /\ validate(f, draft'[f]) /\ ~Has(f, "READ_ONLY")
                          /\ Reboots(f) => draft'[f] # working'[f]
          BY <1>1, SameFirmware DEF Pending
      <2>1. f \notin done /\ draft'[f] = draft[f]
          BY <1>5, <1>6
      <2>2. working'[f] = working[f]
          BY <1>4, <1>6, <2>1
      <2> QED BY <1>1, <2>1, <2>2 DEF SettingsInv, Pending
  <1>16. Stored'
      <2> SUFFICES ASSUME NEW ns \in Namespace \ (dirty' \union adrift'), file'[ns] # None
                   PROVE  GivesBack(file[ns], ns)'
          BY <1>9 DEF Stored
      <2>1. file' = file /\ adrift' = adrift
          BY <1>8
      <2>2. GivesBack(file[ns], ns)
          BY <1>1, <1>10, <2>1 DEF SettingsInv, Stored
      <2>3. ASSUME NEW f \in FieldsOf(ns) PROVE working'[f] = working[f]
          <3>1. f \in Field /\ f[1] = ns
              BY DEF FieldsOf
          <3>2. f \notin new
              BY <1>4, <1>5, <1>10, <3>1
          <3> QED BY <1>6, <3>1, <3>2
      <2>4. PICK c : c = file[ns]
          OBVIOUS
      <2>5. GivesBack(c, ns)'
          BY <1>1, <2>2, <2>3, <2>4, SameGivesBack
      <2> QED BY <2>1, <2>4, <2>5 DEF GivesBack
  <1>17. Flagged'
      <2> SUFFICES ASSUME ~needs_reboot', ~escaped', ~commit'.reboot,
                          NEW f \in Field \ unapplied, Reboots(f)
                   PROVE  runtime'[f] = Cast(f, working'[f])
          BY <1>1, SameFirmware DEF Flagged
      <2>1. ~needs_reboot /\ ~escaped /\ ~commit.reboot /\ f \notin new
          BY <1>9
      <2>2. runtime[f] = Cast(f, working[f])
          BY <1>1, <2>1 DEF SettingsInv, Flagged
      <2>3. f \notin live
          BY <1>2, <1>4, FieldFacts
      <2> QED BY <1>6, <2>1, <2>2, <2>3
  <1> QED BY <1>12, <1>13, <1>14, <1>15, <1>16, <1>17 DEF SettingsInv

\* A commit moves on without any value changing, and the flag is kept.
LEMMA MovedOn ==
    ASSUME SettingsInv, UNCHANGED <<version, up, working, draft, runtime, unapplied, escaped>>,
           needs_reboot => needs_reboot', commit.reboot => needs_reboot' \/ commit'.reboot
    PROVE  Valued' /\ Pending' /\ Flagged'
  <1>1. Valued' /\ Pending'
      BY SameFirmware DEF SettingsInv, Valued, Pending
  <1>2. Flagged'
      BY SameFirmware DEF SettingsInv, Flagged
  <1> QED BY <1>1, <1>2

\* save_namespace_force(): the .tmp file is written.
LEMMA SaveWriteStep ==
    ASSUME SettingsInv, SaveWrite
    PROVE  SettingsInv'
  <1>1. /\ UNCHANGED <<version, up, working, draft, runtime, dirty>>
        /\ UNCHANGED <<file, edits, unapplied, escaped, adrift>>
        /\ commit.step = "write"
      BY DEF SaveWrite
  <1>2. up /\ Form(commit) /\ Ns \in Namespace /\ DOMAIN tmp = Namespace
      BY <1>1 DEF SettingsInv, Shape, Saving
  <1>3. version \in 1..MaxVersion /\ needs_reboot \in BOOLEAN /\ faults \in 0 .. MaxFaults
      BY DEF SettingsInv, TypeOK
  <1>4. \A c, ns : GivesBack(c, ns) => GivesBack(c, ns)'
      BY <1>1, SameGivesBack
  <1>5. CASE /\ tmp' = [tmp EXCEPT ![Ns] = Packed(Ns)]
             /\ commit' = [commit EXCEPT !.step = "rename"]
             /\ UNCHANGED <<needs_reboot, faults>>
      <2>1. commit' = At(commit, "rename") /\ "rename" \in Steps
          BY <1>5 DEF At, Steps
      <2>2. /\ Form(commit') /\ commit'.step = "rename" /\ commit'.todo = commit.todo
            /\ commit'.reboot = commit.reboot
          BY <1>2, <2>1, AtFacts
      <2>3. Ns' = Ns
          BY <2>2 DEF Ns
      <2>4. PICK m : m = Ns
          OBVIOUS
      <2>5. WellTyped(m)
          <3> SUFFICES ASSUME NEW f \in Kept(m)
                       PROVE  state_value(f) \in Value /\ state_value(f).type = F(f).type
              BY DEF WellTyped
          <3>1. f \in Field
              BY DEF Kept, FieldsOf
          <3> QED BY <1>2, <3>1, StateValueFacts DEF SettingsInv
      <2>6. Len(Packed(m)) \in Nat /\ GivesBack(Packed(m), m)
          <3>1. /\ Len(Packed(m)) \in Nat
                /\ \A f \in Kept(m) : validate(f, state_value(f)) =>
                      /\ Fitting(Schema[version], Packed(m), f) # {}
                      /\ LastFitting(Schema[version], Packed(m), f) = state_value(f)
              <4>1. m \in Namespace
                  BY <1>2, <2>4
              <4> QED BY <1>3, <2>5, <4>1, PackedReadBack
          <3>2. ASSUME NEW f \in FieldsOf(m), Committed(f)
                PROVE  Unpacked(Packed(m), f) = working[f]
              <4>1. f \in Kept(m) /\ f \in Field /\ Stateful(f)
                  BY <3>2 DEF Committed, Kept, FieldsOf
              <4>2. state_value(f) = working[f] /\ validate(f, working[f])
                  <5>1. validate(f, working[f])
                      BY <1>2, <4>1 DEF SettingsInv, Valued
                  <5>2. state_value(f) = working[f]
                      BY <1>2, <3>2, <4>1, StateValueFacts DEF SettingsInv
                  <5> QED BY <5>1, <5>2
              <4> QED BY <3>1, <4>1, <4>2 DEF Unpacked
          <3> QED BY <3>1, <3>2 DEF GivesBack
      <2>7. tmp'[Ns'] = Packed(m) /\ DOMAIN tmp' = Namespace
          BY <1>2, <1>5, <2>3, <2>4
      <2>8. TypeOK'
          BY <1>1, <1>5 DEF SettingsInv, TypeOK
      <2>9. Shape'
          BY <1>1, <1>2, <2>2, <2>3, <2>7 DEF SettingsInv, Shape, Saving
      <2>10. Stored'
          <3>1. \A ns \in Namespace \ (dirty' \union adrift') :
                    file'[ns] # None => GivesBack(file[ns], ns)'
              BY <1>1, <1>2, <1>4 DEF SettingsInv, Stored
          <3>2. PICK c : c = Packed(m)
              OBVIOUS
          <3>3. GivesBack(c, m)' /\ tmp'[Ns'] = c /\ Ns' = m /\ Len(c) \in Nat
              BY <1>4, <2>3, <2>4, <2>6, <2>7, <3>2
          <3> QED BY <1>1, <3>1, <3>3 DEF Stored
      <2>11. Valued' /\ Pending' /\ Flagged'
          BY <1>1, <1>5, <2>2, MovedOn
      <2> QED BY <2>8, <2>9, <2>10, <2>11 DEF SettingsInv
  <1>6. CASE /\ faults < MaxFaults /\ faults' = faults + 1
             /\ tmp' = [tmp EXCEPT ![Ns] = None]
             /\ NextNamespace(commit)
      <2>1. /\ Form(commit') /\ commit'.step \in {"idle", "fields"} /\ needs_reboot' \in BOOLEAN
            /\ needs_reboot => needs_reboot'
            /\ commit.reboot => needs_reboot' \/ commit'.reboot
          BY <1>2, <1>3, <1>6, NextNamespaceFacts
      <2>2. DOMAIN tmp' = Namespace
          BY <1>2, <1>6
      <2>3. TypeOK'
          BY <1>1, <1>6, <2>1, BoundFacts DEF SettingsInv, TypeOK
      <2>4. Shape'
          BY <1>1, <1>2, <2>1, <2>2 DEF SettingsInv, Shape, Saving
      <2>5. Stored'
          BY <1>1, <1>4, <2>1 DEF SettingsInv, Stored
      <2>6. Valued' /\ Pending' /\ Flagged'
          BY <1>1, <2>1, MovedOn
      <2> QED BY <2>3, <2>4, <2>5, <2>6 DEF SettingsInv
  <1> QED BY <1>5, <1>6 DEF SaveWrite

\* The .tmp file takes the place of the file.
LEMMA SaveRenameStep ==
    ASSUME SettingsInv, SaveRename
    PROVE  SettingsInv'
  <1>1. /\ UNCHANGED <<version, up, working, draft, runtime, edits, unapplied, escaped>>
        /\ commit.step \in {"rename", "again"}
      BY DEF SaveRename
  <1>2. /\ up /\ Form(commit) /\ Ns \in Namespace
        /\ DOMAIN tmp = Namespace /\ DOMAIN file = Namespace
        /\ \A ns \in Namespace : file[ns] # None => Len(file[ns]) \in Nat
      BY <1>1 DEF SettingsInv, Shape, Saving
  <1>3. /\ needs_reboot \in BOOLEAN /\ faults \in 0 .. MaxFaults
        /\ dirty \subseteq Namespace /\ adrift \subseteq Namespace
      BY DEF SettingsInv, TypeOK
  <1>4. \A c, ns : GivesBack(c, ns) => GivesBack(c, ns)'
      BY <1>1, SameGivesBack
  <1>5. /\ Len(tmp[Ns]) \in Nat /\ GivesBack(tmp[Ns], Ns)
        /\ \A ns \in Namespace \ (dirty \union adrift) :
              file[ns] # None => GivesBack(file[ns], ns)
      BY <1>1, <1>2 DEF SettingsInv, Stored
  <1>6. CASE Renamed /\ UNCHANGED faults
      <2>1. /\ file' = [file EXCEPT ![Ns] = tmp[Ns]]
            /\ tmp' = [tmp EXCEPT ![Ns] = None]
            /\ dirty' = dirty \ {Ns}
            /\ adrift' = adrift \ {Ns}
            /\ NextNamespace(commit)
          BY <1>6 DEF Renamed
      <2>2. /\ Form(commit') /\ commit'.step \in {"idle", "fields"} /\ needs_reboot' \in BOOLEAN
            /\ needs_reboot => needs_reboot'
            /\ commit.reboot => needs_reboot' \/ commit'.reboot
          BY <1>2, <1>3, <2>1, NextNamespaceFacts
      <2>3. TypeOK'
          <3>1. dirty' \subseteq Namespace /\ adrift' \subseteq Namespace
              BY <1>3, <2>1
          <3>2. faults' \in 0 .. MaxFaults
              BY <1>3, <1>6
          <3>3. /\ version' \in 1..MaxVersion /\ up' \in BOOLEAN /\ escaped' \in BOOLEAN
                /\ working' \in [Field -> Value \union {None}]
                /\ draft' \in [Field -> Value \union {None}]
                /\ runtime' \in [Field -> Value \union {None}]
                /\ unapplied' \subseteq Field /\ edits' \in 0 .. MaxEdits
              BY <1>1 DEF SettingsInv, TypeOK
          <3> QED BY <2>2, <3>1, <3>2, <3>3 DEF TypeOK
      <2>4. Shape'
          <3>1. DOMAIN tmp' = Namespace /\ DOMAIN file' = Namespace
              BY <1>2, <2>1
          <3>2. ASSUME NEW ns \in Namespace, file'[ns] # None PROVE Len(file'[ns]) \in Nat
              <4>1. PICK c : c = tmp[Ns] /\ Len(c) \in Nat
                  BY <1>5
              <4>2. file'[ns] = IF ns = Ns THEN c ELSE file[ns]
                  BY <1>2, <2>1, <4>1
              <4> QED BY <1>2, <3>2, <4>1, <4>2
          <3>3. commit'.step # "idle" => up'
              BY <1>1, <1>2
          <3>4. ~Saving'
              BY <2>2 DEF Saving
          <3> QED BY <2>2, <3>1, <3>2, <3>3, <3>4 DEF Shape
      <2>5. Stored'
          <3>1. ASSUME NEW ns \in Namespace \ (dirty' \union adrift'), NEW c, c = file'[ns], c # None
                PROVE  GivesBack(c, ns)'
              <4>1. CASE ns = Ns
                  BY <1>2, <1>4, <1>5, <2>1, <3>1, <4>1
              <4>2. CASE ns # Ns
                  BY <1>2, <1>4, <1>5, <2>1, <3>1, <4>2
              <4> QED BY <4>1, <4>2
          <3>2. \A ns \in Namespace \ (dirty' \union adrift') :
                    file'[ns] # None => GivesBack(file[ns], ns)'
              BY <3>1
          <3> QED BY <2>2, <3>2 DEF Stored
      <2>6. Valued' /\ Pending' /\ Flagged'
          BY <1>1, <2>2, MovedOn
      <2> QED BY <2>3, <2>4, <2>5, <2>6 DEF SettingsInv
  <1>7. CASE /\ commit' = [commit EXCEPT !.step = "again"]
             /\ file' = [file EXCEPT ![Ns] = None]
             /\ UNCHANGED <<tmp, dirty, needs_reboot, faults, adrift>>
      <2>1. commit' = At(commit, "again") /\ "again" \in Steps
          BY <1>7 DEF At, Steps
      <2>2. /\ Form(commit') /\ commit'.step = "again" /\ commit'.todo = commit.todo
            /\ commit'.reboot = commit.reboot
          BY <1>2, <2>1, AtFacts
      <2>3. Ns' = Ns
          BY <2>2 DEF Ns
      <2>4. TypeOK'
          BY <1>1, <1>7 DEF SettingsInv, TypeOK
      <2>5. Shape'
          BY <1>1, <1>2, <1>7, <2>2, <2>3 DEF Shape, Saving
      <2>6. Stored'
          <3>1. ASSUME NEW ns \in Namespace \ (dirty' \union adrift'), NEW c, c = file'[ns], c # None
                PROVE  GivesBack(c, ns)'
              <4>1. ns # Ns /\ file'[ns] = file[ns]
                  BY <1>2, <1>7, <3>1
              <4> QED BY <1>4, <1>5, <1>7, <3>1, <4>1
          <3>2. \A ns \in Namespace \ (dirty' \union adrift') :
                    file'[ns] # None => GivesBack(file[ns], ns)'
              BY <3>1
          <3>3. PICK c, m : c = tmp[Ns] /\ m = Ns
              OBVIOUS
          <3>4. GivesBack(c, m)' /\ tmp'[Ns'] = c /\ Ns' = m /\ Len(c) \in Nat
              BY <1>4, <1>5, <1>7, <2>3, <3>3
          <3> QED BY <3>2, <3>4 DEF Stored
      <2>7. Valued' /\ Pending' /\ Flagged'
          BY <1>1, <1>7, <2>2, MovedOn
      <2> QED BY <2>4, <2>5, <2>6, <2>7 DEF SettingsInv
  <1>8. CASE /\ faults < MaxFaults /\ faults' = faults + 1
             /\ tmp' = [tmp EXCEPT ![Ns] = None]
             /\ NextNamespace(commit)
             /\ UNCHANGED <<file, dirty, adrift>>
      <2>1. /\ Form(commit') /\ commit'.step \in {"idle", "fields"} /\ needs_reboot' \in BOOLEAN
            /\ needs_reboot => needs_reboot'
            /\ commit.reboot => needs_reboot' \/ commit'.reboot
          BY <1>2, <1>3, <1>8, NextNamespaceFacts
      <2>2. DOMAIN tmp' = Namespace
          BY <1>2, <1>8
      <2>3. TypeOK'
          BY <1>1, <1>8, <2>1, BoundFacts DEF SettingsInv, TypeOK
      <2>4. Shape'
          BY <1>1, <1>2, <1>8, <2>1, <2>2 DEF Shape, Saving
      <2>5. Stored'
          BY <1>1, <1>4, <1>8, <2>1 DEF SettingsInv, Stored
      <2>6. Valued' /\ Pending' /\ Flagged'
          BY <1>1, <2>1, MovedOn
      <2> QED BY <2>3, <2>4, <2>5, <2>6 DEF SettingsInv
  <1> QED BY <1>6, <1>7, <1>8 DEF SaveRename

-----------------------------------------------------------------------------
(* The invariant: reset, power loss and start.                             *)

\* Provisioner::factory_reset().
LEMMA ResetStep ==
    ASSUME SettingsInv, NEW refused \in SUBSET Field, NEW stuck \in SUBSET Namespace,
           factory_reset(refused, stuck)
    PROVE  SettingsInv'
  <1>1. /\ UNCHANGED <<version, up, commit, edits, escaped>>
        /\ up /\ commit = NoCommit
        /\ faults + Cardinality(refused) + Cardinality(stuck) <= MaxFaults
        /\ faults' = faults + Cardinality(refused) + Cardinality(stuck)
        /\ draft' = [f \in Field |-> None]
        /\ working' = [f \in Field |-> F(f).default]
        /\ runtime' = [f \in Field |-> IF Stateful(f) /\ f \notin refused
                                       THEN Cast(f, F(f).default) ELSE runtime[f]]
        /\ dirty' = {} /\ needs_reboot' = FALSE /\ unapplied' = refused
      BY DEF factory_reset, Idle
  <1>2. /\ file' = [ns \in Namespace |-> IF ns \in stuck THEN file[ns] ELSE None]
        /\ tmp' = [ns \in Namespace |-> IF ns \in stuck THEN tmp[ns] ELSE None]
        /\ adrift' = (adrift \ {ns \in Namespace : file'[ns] = None}) \union stuck
      BY DEF factory_reset, RemoveFiles
  <1>3. /\ version \in 1..MaxVersion /\ faults \in 0 .. MaxFaults
        /\ adrift \subseteq Namespace /\ escaped \in BOOLEAN /\ edits \in 0 .. MaxEdits
        /\ runtime \in [Field -> Value \union {None}]
      BY DEF SettingsInv, TypeOK
  <1>4. ASSUME NEW f \in Field
        PROVE  /\ F(f).default \in Value /\ F(f).default.type = F(f).type
               /\ Cast(f, F(f).default) = F(f).default
               /\ Stateful(f) => validate(f, F(f).default)
               /\ Reboots(f) => Stateful(f)
      <2>1. F(f).default \in Value /\ F(f).default.type = F(f).type
          BY <1>3, FieldFacts
      <2>2. Stateful(f) => validate(f, F(f).default)
          BY <1>3, FieldFacts DEF validate, Fits
      <2>3. Reboots(f) => Stateful(f)
          BY <1>3, FieldFacts
      <2> QED BY <1>3, <2>1, <2>2, <2>3, CastFacts
  <1>5. ASSUME NEW f \in Field
        PROVE  /\ working'[f] = F(f).default /\ draft'[f] = None
               /\ runtime'[f] \in Value /\ runtime'[f].type = F(f).type
               /\ Reboots(f) /\ f \notin refused => runtime'[f] = F(f).default
      <2>1. runtime[f] \in Value /\ runtime[f].type = F(f).type
          BY <1>1 DEF SettingsInv, Valued
      <2>2. runtime'[f] = IF Stateful(f) /\ f \notin refused THEN F(f).default ELSE runtime[f]
          BY <1>1, <1>4
      <2>3. working'[f] = F(f).default /\ draft'[f] = None
          BY <1>1
      <2> QED BY <1>4, <2>1, <2>2, <2>3
  <1>6. TypeOK'
      <2>1. faults' \in 0 .. MaxFaults
          <3>1. Cardinality(refused) \in Nat /\ Cardinality(stuck) \in Nat
              BY FailureFacts
          <3> QED BY <1>1, <1>3, <3>1, BoundFacts
      <2>2. working' \in [Field -> Value \union {None}] /\ draft' \in [Field -> Value \union {None}]
          BY <1>1, <1>4
      <2>3. runtime' \in [Field -> Value \union {None}]
          BY <1>1, <1>5
      <2>4. adrift' \subseteq Namespace
          BY <1>2, <1>3
      <2> QED BY <1>1, <1>3, <2>1, <2>2, <2>3, <2>4 DEF TypeOK
  <1>7. Shape'
      <2>1. Form(commit) /\ commit.step = "idle"
          BY <1>1, FormIntro DEF NoCommit
      <2>2. \A ns \in Namespace : file'[ns] # None => Len(file'[ns]) \in Nat
          BY <1>2 DEF SettingsInv, Shape
      <2> QED BY <1>1, <1>2, <2>1, <2>2 DEF Shape, Saving
  <1>8. Valued'
      BY <1>1, <1>4, <1>5, SameFirmware DEF Valued
  <1>9. Pending'
      BY <1>5 DEF Pending
  <1>10. Stored'
      <2>1. commit'.step = "idle"
          BY <1>1 DEF NoCommit
      <2>2. \A ns \in Namespace \ (dirty' \union adrift') : file'[ns] = None
          BY <1>2
      <2> QED BY <2>1, <2>2 DEF Stored
  <1>11. Flagged'
      BY <1>1, <1>4, <1>5, SameFirmware DEF Flagged
  <1> QED BY <1>6, <1>7, <1>8, <1>9, <1>10, <1>11 DEF SettingsInv

\* Power fails, and a newer firmware may follow.
LEMMA PowerLossStep ==
    ASSUME SettingsInv, PowerLoss
    PROVE  SettingsInv'
  <1>1. /\ up' = FALSE
        /\ version' \in {version} \union {v \in {version + 1} : v <= MaxVersion}
        /\ tmp' \in {tmp} \union {[tmp EXCEPT ![ns] = Torn] :
                        ns \in {n \in Namespace : commit.step = "write" /\ n = Ns}}
        /\ working' = [f \in Field |-> None]
        /\ draft' = [f \in Field |-> None]
        /\ runtime' = [f \in Field |-> None]
        /\ dirty' = {} /\ needs_reboot' = FALSE /\ commit' = NoCommit
        /\ unapplied' = {} /\ escaped' = FALSE /\ adrift' = {}
        /\ UNCHANGED <<file, faults, edits>>
      BY DEF PowerLoss
  <1>2. version \in 1..MaxVersion /\ faults \in 0 .. MaxFaults /\ edits \in 0 .. MaxEdits
      BY DEF SettingsInv, TypeOK
  <1>3. TypeOK'
      <2>1. version' \in 1..MaxVersion
          BY <1>1, <1>2, BoundFacts
      <2> QED BY <1>1, <1>2, <2>1 DEF TypeOK
  <1>4. Shape'
      <2>1. Form(commit') /\ commit'.step = "idle"
          BY <1>1, FormIntro DEF NoCommit
      <2>2. DOMAIN tmp' = Namespace
          BY <1>1 DEF SettingsInv, Shape
      <2> QED BY <1>1, <2>1, <2>2 DEF SettingsInv, Shape, Saving
  <1>5. Valued' /\ Pending' /\ Stored' /\ Flagged'
      BY <1>1 DEF Valued, Pending, Stored, Flagged
  <1> QED BY <1>3, <1>4, <1>5 DEF SettingsInv

\* begin().
LEMMA BeginStep ==
    ASSUME SettingsInv, NEW refused \in SUBSET Field, NEW unread \in SUBSET Namespace,
           begin(unread, refused)
    PROVE  SettingsInv'
  <1>1. /\ ~up /\ up' = TRUE
        /\ faults + Cardinality(unread) + Cardinality(refused) <= MaxFaults
        /\ faults' = faults + Cardinality(unread) + Cardinality(refused)
        /\ draft' = [f \in Field |-> None]
        /\ dirty' = {} /\ needs_reboot' = FALSE
        /\ tmp' = [ns \in Namespace |-> None]
        /\ unapplied' = refused /\ escaped' = FALSE /\ adrift' = unread
        /\ UNCHANGED <<version, commit, file, edits>>
      BY DEF begin
  <1>2. PICK w, set :
          /\ w = Loaded(unread)
          /\ set = {f \in Field : Stateful(f) /\ w[f] # Seed(f)}
          /\ working' = w
          /\ runtime' = [f \in Field |->
                            IF f \in set \ refused THEN Cast(f, w[f]) ELSE F(f).initial]
      BY DEF begin
  <1>3. /\ version \in 1..MaxVersion /\ faults \in 0 .. MaxFaults /\ edits \in 0 .. MaxEdits
        /\ Form(commit) /\ commit.step = "idle" /\ DOMAIN file = Namespace
        /\ \A ns \in Namespace : file[ns] # None => Len(file[ns]) \in Nat
      BY <1>1 DEF SettingsInv, TypeOK, Shape
  <1>4. ASSUME NEW f \in Field
        PROVE  /\ w[f] \in Value /\ w[f].type = F(f).type
               /\ Stateful(f) => validate(f, w[f])
               /\ f[1] \notin unread /\ file[f[1]] # None => w[f] = Unpacked(file[f[1]], f)
      <2>1. f[1] \in Namespace
          BY DEF Namespace
      <2>2. w[f] = IF f[1] \in unread \/ file[f[1]] = None THEN Seed(f) ELSE Unpacked(file[f[1]], f)
          BY <1>2 DEF Loaded, load_namespace
      <2>3. CASE f[1] \in unread \/ file[f[1]] = None
          <3>1. w[f] = Seed(f)
              BY <2>2, <2>3
          <3> QED BY <1>3, <2>3, <3>1, UnpackedFacts
      <2>4. CASE ~(f[1] \in unread \/ file[f[1]] = None)
          <3>1. PICK c : c = file[f[1]] /\ Len(c) \in Nat
              BY <1>3, <2>1, <2>4
          <3>2. w[f] = Unpacked(c, f)
              BY <2>2, <2>4, <3>1
          <3> QED BY <1>3, <3>1, <3>2, UnpackedFacts
      <2> QED BY <2>3, <2>4
  <1>5. ASSUME NEW f \in Field
        PROVE  /\ runtime'[f] \in Value /\ runtime'[f].type = F(f).type
               /\ Reboots(f) /\ f \notin refused => runtime'[f] = Cast(f, w[f])
      <2>1. F(f).initial \in Value /\ F(f).initial.type = F(f).type /\ F(f).initial = F(f).default
          BY <1>3, FieldFacts
      <2>2. Cast(f, w[f]) \in Value /\ Cast(f, w[f]).type = F(f).type
          BY <1>3, <1>4, CastFacts
      <2>3. runtime'[f] = IF f \in set \ refused THEN Cast(f, w[f]) ELSE F(f).initial
          BY <1>2
      <2>4. ASSUME Reboots(f), f \notin refused PROVE runtime'[f] = Cast(f, w[f])
          <3>1. CASE f \in set
              BY <2>3, <2>4, <3>1
          <3>2. CASE f \notin set
              <4>1. w[f] = Seed(f)
                  BY <1>2, <1>3, <2>4, <3>2, FieldFacts
              <4>2. w[f] = F(f).default /\ Cast(f, F(f).default) = F(f).default
                  BY <1>3, <1>4, <2>1, <4>1, UnpackedFacts, CastFacts
              <4> QED BY <2>1, <2>3, <3>2, <4>2
          <3> QED BY <3>1, <3>2
      <2> QED BY <2>1, <2>2, <2>3, <2>4
  <1>6. TypeOK'
      <2>1. faults' \in 0 .. MaxFaults
          <3>1. Cardinality(refused) \in Nat /\ Cardinality(unread) \in Nat
              BY FailureFacts
          <3> QED BY <1>1, <1>3, <3>1, BoundFacts
      <2>2. working' \in [Field -> Value \union {None}] /\ draft' \in [Field -> Value \union {None}]
          <3>1. working' = [f \in Field |-> w[f]]
              BY <1>2 DEF Loaded
          <3> QED BY <1>1, <1>4, <3>1
      <2>3. runtime' \in [Field -> Value \union {None}]
          BY <1>2, <1>5
      <2> QED BY <1>1, <1>3, <2>1, <2>2, <2>3 DEF TypeOK
  <1>7. Shape'
      BY <1>1, <1>3 DEF Shape, Saving
  <1>8. Valued'
      BY <1>1, <1>2, <1>4, <1>5, SameFirmware DEF Valued
  <1>9. Pending'
      BY <1>1 DEF Pending
  <1>10. Stored'
      <2>1. ASSUME NEW ns \in Namespace, ns \notin unread, NEW c, c = file[ns], c # None
            PROVE  GivesBack(c, ns)'
          <3>1. ASSUME NEW f \in FieldsOf(ns) PROVE Unpacked(c, f) = working'[f]
              <4>1. f \in Field /\ f[1] = ns
                  BY DEF FieldsOf
              <4> QED BY <1>2, <1>4, <2>1, <4>1
          <3> QED BY <1>1, <3>1, SameFirmware DEF GivesBack
      <2>2. \A ns \in Namespace \ (dirty' \union adrift') :
                file'[ns] # None => GivesBack(file[ns], ns)'
          BY <1>1, <2>1
      <2> QED BY <1>1, <1>3, <2>2 DEF Stored
  <1>11. Flagged'
      BY <1>1, <1>2, <1>5, SameFirmware DEF Flagged
  <1> QED BY <1>6, <1>7, <1>8, <1>9, <1>10, <1>11 DEF SettingsInv

-----------------------------------------------------------------------------
(* The theorems.                                                           *)

\* A node that has never started.
LEMMA InitInv == Init => SettingsInv
  <1> SUFFICES ASSUME Init PROVE SettingsInv
      OBVIOUS
  <1>1. TypeOK
      <2>1. 1 \in 1..MaxVersion /\ 0 \in 0..MaxFaults /\ 0 \in 0..MaxEdits
          BY BoundFacts
      <2>2. [f \in Field |-> None] \in [Field -> Value \union {None}]
          OBVIOUS
      <2> QED BY <2>1, <2>2 DEF Init, TypeOK
  <1>2. Form(commit) /\ commit.step = "idle"
      BY FormIntro DEF Init, NoCommit
  <1>3. Shape
      BY <1>2 DEF Init, Shape, Saving
  <1>4. Valued /\ Pending /\ Stored /\ Flagged
      BY DEF Init, Valued, Pending, Stored, Flagged
  <1> QED BY <1>1, <1>3, <1>4 DEF SettingsInv

\* Every step keeps the invariant.
LEMMA NextInv == SettingsInv /\ [Next]_vars => SettingsInv'
  <1> SUFFICES ASSUME SettingsInv, [Next]_vars PROVE SettingsInv'
      OBVIOUS
  <1>1. ASSUME NEW f \in Field, NEW x \in Inputs, Stage(f, x) \/ DirectSet(f, x)
        PROVE  SettingsInv'
      BY <1>1, BoundAssumption, StageStep, DirectSetStep
  <1>2. ASSUME NEW nss, discard(nss) \/ BeginCommit(InOrder(nss), FALSE)
        PROVE  SettingsInv'
      BY <1>2, DiscardStep, BeginCommitStep
  <1>3. CASE Reset
      BY <1>3, ResetStep DEF Reset
  <1>4. CASE PowerLoss
      BY <1>4, PowerLossStep
  <1>5. ASSUME NEW m \in Messages, handle_message(m)
        PROVE  SettingsInv'
      <2>1. CASE m.op = "SetState" /\ op_set_state(m.ns, m.state)
          <3>1. Len(m.state) \in Nat
              BY <2>1, BoundAssumption
          <3> QED BY <2>1, <3>1, SetStateStep
      <2>2. CASE BeginCommit(Selected(m.filter), TRUE)
          BY <2>2, BeginCommitStep
      <2>3. CASE discard(Chosen(m.filter))
          BY <2>3, DiscardStep
      <2>4. CASE op_reboot
          BY <1>4, <2>4 DEF op_reboot
      <2> QED BY <1>3, <1>5, <2>1, <2>2, <2>3, <2>4 DEF handle_message
  <1>6. CASE CommitFields \/ SaveWrite \/ SaveRename
      BY <1>6, CommitFieldsStep, SaveWriteStep, SaveRenameStep
  <1>7. ASSUME NEW refused \in SUBSET {f \in Field : Stateful(f)}, NEW unread \in SUBSET Namespace,
               begin(unread, refused)
        PROVE  SettingsInv'
      <2>1. refused \in SUBSET Field
          OBVIOUS
      <2> QED BY <1>7, <2>1, BeginStep
  <1>8. CASE UNCHANGED vars
      <2>1. /\ UNCHANGED <<version, up, working, draft, runtime, dirty, needs_reboot, commit>>
            /\ UNCHANGED <<file, tmp, faults, edits, unapplied, escaped, adrift>>
          BY <1>8 DEF vars, ram
      <2>2. TypeOK'
          BY <2>1 DEF SettingsInv, TypeOK
      <2>3. Pending'
          BY <2>1, SameFirmware DEF SettingsInv, Pending
      <2> QED BY <2>1, <2>2, <2>3, Untouched, UntouchedValues, UntouchedFlag DEF SettingsInv
  <1> QED BY <1>1, <1>2, <1>3, <1>4, <1>5, <1>6, <1>7, <1>8 DEF Next

\* The settings keep their types, the files their shape, every draft is valid,
\* every file of a clean namespace gives it back and every change that waits
\* for a restart is flagged, whichever setter or file operation fails and
\* whenever power does.
THEOREM SettingsCorrect == Spec => []SettingsInv
  BY InitInv, NextInv, PTL DEF Spec

\* The replies to GET_STATE, with drafts, and to GET_SCHEMA for one namespace.
LEMMA ReplyFacts ==
    ASSUME NEW ns \in Namespace
    PROVE  /\ State(ns).Values[ns] = pack_ns_values(ns)
           /\ DOMAIN State(ns).Drafts \subseteq {ns}
           /\ ns \in DOMAIN State(ns).Drafts => State(ns).Drafts[ns] = pack_ns_drafts(ns)
           /\ Limits(ns) = pack_namespace_schema(ns)
  <1>1. Chosen(<<ns>>) = {ns}
      <2>1. <<ns>> # None
          BY BoundAssumption
      <2>2. ToSet(<<ns>>) = {ns}
          BY DEF ToSet
      <2> QED BY <2>1, <2>2 DEF Chosen
  <1>2. State(ns).Values = [n \in {ns} |-> pack_ns_values(n)]
      BY <1>1 DEF State, op_get_state, pack_response
  <1>3. State(ns).Drafts = [n \in {m \in {ns} : TRUE /\ has_any_draft(m)} |-> pack_ns_drafts(n)]
      BY <1>1 DEF State, op_get_state, pack_response
  <1>4. Limits(ns) = pack_namespace_schema(ns)
      BY <1>1 DEF Limits, op_get_schema, pack_response
  <1> QED BY <1>2, <1>3, <1>4

\* What a start would bring back is what the node says its settings are, of
\* every namespace with a file that is neither dirty nor adrift: save and load
\* agree through every failure of a setter, of the file system and of power.
THEOREM DurableHolds == Spec => []Durable
  <1>1. SettingsInv => Durable
      <2> SUFFICES ASSUME SettingsInv, Idle, NEW ns \in Namespace \ (dirty \union adrift),
                          file[ns] # None, NEW f \in FieldsOf(ns),
                          Committed(f)
                   PROVE  /\ Loaded({})[f] = working[f]
                          /\ f \in DOMAIN State(ns).Values[ns] => State(ns).Values[ns][f] = working[f]
          BY DEF Durable
      <2>1. up /\ f \in Field /\ f[1] = ns 
          BY DEF Idle, FieldsOf
      <2>2. Unpacked(file[ns], f) = working[f]
          BY <2>1 DEF SettingsInv, Stored, GivesBack
      <2>3. Loaded({})[f] = working[f]
          BY <2>1, <2>2 DEF Loaded, load_namespace
      <2>4. state_value(f) = working[f]
          BY <2>1, StateValueFacts DEF SettingsInv
      <2>5. f \in DOMAIN pack_ns_values(ns) => pack_ns_values(ns)[f] = working[f]
          BY <2>4 DEF pack_ns_values
      <2> QED BY <2>3, <2>5, ReplyFacts
  <1> QED BY <1>1, SettingsCorrect, PTL

\* GET_INFO: a setting that waits for a restart is behind the flag, unless its
\* setter failed or an exception left the commit early.
THEOREM RebootIsFlaggedHolds == Spec => []RebootIsFlagged
  <1>1. SettingsInv => RebootIsFlagged
      <2> SUFFICES ASSUME SettingsInv, Idle, ~op_get_info.payload.NeedsReboot, ~escaped,
                          NEW f \in Field \ unapplied, Reboots(f)
                   PROVE  runtime[f] = Cast(f, working[f])
          BY DEF RebootIsFlagged
      <2>1. op_get_info.payload.NeedsReboot = needs_reboot
          BY DEF op_get_info, pack_response
      <2>2. up /\ ~commit.reboot
          BY DEF Idle, NoCommit
      <2> QED BY <2>1, <2>2 DEF SettingsInv, Flagged
  <1> QED BY <1>1, SettingsCorrect, PTL

\* GET_STATE with drafts: every draft fits the schema the client was given, and
\* one of a field that takes effect at the next start is a change.
THEOREM DraftIsPendingHolds == Spec => []DraftIsPending
  <1>1. SettingsInv => DraftIsPending
      <2> SUFFICES ASSUME SettingsInv, up
                   PROVE  /\ \A ns \in Namespace :
                             ns \in DOMAIN State(ns).Drafts => \A f \in DOMAIN State(ns).Drafts[ns] :
                                /\ State(ns).Drafts[ns][f].type = Limits(ns)[f].type
                                /\ State(ns).Drafts[ns][f].v \in Limits(ns)[f].fits
                                /\ "READ_ONLY" \notin Limits(ns)[f].flags
                                /\ Reboots(f) /\ f \in DOMAIN State(ns).Values[ns] =>
                                      State(ns).Drafts[ns][f] # State(ns).Values[ns][f]
                          /\ draft_has_reboot => \E f \in Field : draft[f] \notin {None, working[f]}
          BY DEF DraftIsPending, SettingsInv
      <2>1. \A f \in Field : draft[f] # None =>
                /\ validate(f, draft[f]) /\ ~Has(f, "READ_ONLY")
                /\ Reboots(f) => draft[f] # working[f]
          BY DEF SettingsInv, Pending
      <2>2. ASSUME NEW ns \in Namespace, ns \in DOMAIN State(ns).Drafts,
                   NEW f \in DOMAIN State(ns).Drafts[ns]
            PROVE  /\ State(ns).Drafts[ns][f].type = Limits(ns)[f].type
                   /\ State(ns).Drafts[ns][f].v \in Limits(ns)[f].fits
                   /\ "READ_ONLY" \notin Limits(ns)[f].flags
                   /\ Reboots(f) /\ f \in DOMAIN State(ns).Values[ns] =>
                         State(ns).Drafts[ns][f] # State(ns).Values[ns][f]
          <3>1. /\ State(ns).Values[ns] = pack_ns_values(ns)
                /\ State(ns).Drafts[ns] = pack_ns_drafts(ns)
                /\ Limits(ns) = pack_namespace_schema(ns)
              BY <2>2, ReplyFacts
          <3>2. f \in FieldsOf(ns) /\ f \in Field /\ draft[f] # None /\ pack_ns_drafts(ns)[f] = draft[f]
              BY <3>1 DEF pack_ns_drafts, FieldsOf
          <3>3. /\ Limits(ns)[f].type = F(f).type /\ Limits(ns)[f].fits = F(f).fits
                /\ Limits(ns)[f].flags = F(f).flags
              BY <3>1, <3>2 DEF pack_namespace_schema, pack_field_schema
          <3>4. draft[f].type = F(f).type /\ draft[f].v \in F(f).fits /\ "READ_ONLY" \notin F(f).flags
              BY <2>1, <3>2 DEF validate, Fits, Has
          <3>5. ASSUME Reboots(f), f \in DOMAIN pack_ns_values(ns)
                PROVE  draft[f] # pack_ns_values(ns)[f]
              <4>1. pack_ns_values(ns)[f] = state_value(f)
                  BY <3>5 DEF pack_ns_values
              <4>2. state_value(f) = working[f]
                  BY <3>5 DEF state_value
              <4> QED BY <2>1, <3>2, <3>5, <4>1, <4>2
          <3> QED BY <3>1, <3>2, <3>3, <3>4, <3>5
      <2>3. draft_has_reboot => \E f \in Field : draft[f] \notin {None, working[f]}
          BY <2>1 DEF draft_has_reboot
      <2> QED BY <2>2, <2>3
  <1> QED BY <1>1, SettingsCorrect, PTL

-----------------------------------------------------------------------------
(* The blackhole list, whose file is blackhole_local.                      *)

\* The initial state is well typed.
LEMMA BlackholeTypeInit == BlackholeInit => BlackholeTypeOK
  BY TimeAssumption DEF BlackholeInit, BlackholeTypeOK, Times

\* Every step preserves the type invariant.
LEMMA BlackholeTypeNext ==
    BlackholeTypeOK /\ [BlackholeNext]_blackholeVars => BlackholeTypeOK'
  <1> SUFFICES ASSUME BlackholeTypeOK, [BlackholeNext]_blackholeVars PROVE BlackholeTypeOK'
      OBVIOUS
  <1> USE TimeAssumption DEF BlackholeTypeOK, Times
  <1>1. ASSUME NEW i \in Identity, NEW t \in Times, blackhole_identity(i, t)
        PROVE  BlackholeTypeOK'
      BY <1>1 DEF blackhole_identity, persist_blackhole, remove_blackholed_paths, Drop
  <1>2. ASSUME NEW i \in Identity, unblackhole_identity(i) PROVE BlackholeTypeOK'
      <2>1. list' \in SUBSET Identity /\ until' \in [Identity -> Times]
          BY <1>2 DEF unblackhole_identity
      <2>2. blackhole_local' \in SUBSET Identity /\ funtil' = until' /\ whole' \in BOOLEAN
          BY <1>2, <2>1 DEF unblackhole_identity, persist_blackhole
      <2> QED BY <1>2, <2>1, <2>2 DEF unblackhole_identity
  <1>3. CASE ExpirySweep
      BY <1>3 DEF ExpirySweep
  <1>4. ASSUME NEW d \in Dest, NEW remembered \in BOOLEAN, AcceptAnnounce(d, remembered)
        PROVE  BlackholeTypeOK'
      BY <1>4 DEF AcceptAnnounce
  <1>5. ASSUME NEW d \in Dest, PathLost(d) PROVE BlackholeTypeOK'
      BY <1>5 DEF PathLost, Drop
  <1>6. ASSUME NEW kept \in SUBSET paths, Restart(kept) PROVE BlackholeTypeOK'
      BY <1>6 DEF Restart
  <1>7. CASE Tick
      BY <1>7 DEF Tick
  <1>8. CASE UNCHANGED blackholeVars
      BY <1>8 DEF blackholeVars
  <1> QED BY <1>1, <1>2, <1>3, <1>4, <1>5, <1>6, <1>7, <1>8 DEF BlackholeNext

\* The blackhole list, its file and the path table keep their types.
THEOREM BlackholeTypeCorrect == BlackholeSpec => []BlackholeTypeOK
  BY BlackholeTypeInit, BlackholeTypeNext, PTL DEF BlackholeSpec

-----------------------------------------------------------------------------

\* Every step preserves NoBlackholedPath: listing an identity purges its
\* paths, and the announce filter keeps new ones out.
LEMMA NextNoBlackholedPath ==
    BlackholeTypeOK /\ NoBlackholedPath /\ [BlackholeNext]_blackholeVars => NoBlackholedPath'
  <1> SUFFICES ASSUME BlackholeTypeOK, NoBlackholedPath, [BlackholeNext]_blackholeVars
               PROVE  NoBlackholedPath'
      OBVIOUS
  <1> USE DEF BlackholeTypeOK, NoBlackholedPath, is_blackholed
  <1>1. ASSUME NEW i \in Identity, NEW t \in Times, blackhole_identity(i, t)
        PROVE  NoBlackholedPath'
      BY <1>1 DEF blackhole_identity, remove_blackholed_paths, Drop, Blackholed
  <1>2. ASSUME NEW i \in Identity, unblackhole_identity(i) PROVE NoBlackholedPath'
      BY <1>2 DEF unblackhole_identity
  <1>3. CASE ExpirySweep
      BY <1>3 DEF ExpirySweep
  <1>4. ASSUME NEW d \in Dest, NEW remembered \in BOOLEAN, AcceptAnnounce(d, remembered)
        PROVE  NoBlackholedPath'
      BY <1>4 DEF AcceptAnnounce
  <1>5. ASSUME NEW d \in Dest, PathLost(d) PROVE NoBlackholedPath'
      BY <1>5 DEF PathLost, Drop
  <1>6. ASSUME NEW kept \in SUBSET paths, Restart(kept) PROVE NoBlackholedPath'
      BY <1>6 DEF Restart
  <1>7. CASE Tick
      BY <1>7 DEF Tick
  <1>8. CASE UNCHANGED blackholeVars
      BY <1>8 DEF blackholeVars
  <1> QED BY <1>1, <1>2, <1>3, <1>4, <1>5, <1>6, <1>7, <1>8 DEF BlackholeNext

\* blackhole_identity(), the expiry sweep, the announce filter of inbound()
\* and the paths restored at a restart together leave no path to a
\* blackholed identity but the two kinds the property names.
THEOREM NoBlackholedPathHolds == BlackholeSpec => []NoBlackholedPath
  <1>1. BlackholeInit => NoBlackholedPath
      BY DEF BlackholeInit, NoBlackholedPath
  <1> QED BY <1>1, BlackholeTypeInit, BlackholeTypeNext, NextNoBlackholedPath, PTL DEF BlackholeSpec

-----------------------------------------------------------------------------

\* Every step preserves FileMatches.  An entry the sweep removes from the
\* list but not from the file is expired, and stays so as time passes.
LEMMA NextFileMatches ==
    BlackholeTypeOK /\ FileMatches /\ [BlackholeNext]_blackholeVars => FileMatches'
  <1> SUFFICES ASSUME BlackholeTypeOK, FileMatches, [BlackholeNext]_blackholeVars
               PROVE  FileMatches'
      OBVIOUS
  <1> USE TimeAssumption DEF BlackholeTypeOK, FileMatches, is_blackholed
  <1>1. ASSUME NEW i \in Identity, NEW t \in Times, blackhole_identity(i, t)
        PROVE  FileMatches'
      BY <1>1 DEF blackhole_identity, persist_blackhole
  <1>2. ASSUME NEW i \in Identity, unblackhole_identity(i) PROVE FileMatches'
      BY <1>2 DEF unblackhole_identity, persist_blackhole
  <1>3. CASE ExpirySweep
      BY <1>3 DEF ExpirySweep, Expired
  <1>4. ASSUME NEW d \in Dest, NEW remembered \in BOOLEAN, AcceptAnnounce(d, remembered)
        PROVE  FileMatches'
      BY <1>4 DEF AcceptAnnounce, Expired
  <1>5. ASSUME NEW d \in Dest, PathLost(d) PROVE FileMatches'
      BY <1>5 DEF PathLost, Expired
  <1>6. ASSUME NEW kept \in SUBSET paths, Restart(kept) PROVE FileMatches'
      BY <1>6 DEF Restart, Expired
  <1>7. CASE Tick
      BY <1>7 DEF Tick, Expired, Times
  <1>8. CASE UNCHANGED blackholeVars
      BY <1>8 DEF blackholeVars, Expired
  <1> QED BY <1>1, <1>2, <1>3, <1>4, <1>5, <1>6, <1>7, <1>8 DEF BlackholeNext

\* start() restores exactly the blackholes that are in force, with their
\* expiry times, although the sweep of jobs() does not rewrite the file.
THEOREM RestartKeepsListHolds == BlackholeSpec => RestartKeepsList
  <1>1. BlackholeInit => FileMatches
      BY DEF BlackholeInit, FileMatches
  <1>2. BlackholeTypeOK /\ FileMatches =>
          [\A kept \in SUBSET paths :
              Restart(kept) /\ whole =>
                  /\ list' = {i \in list : ~ Expired(until[i])}
                  /\ \A i \in list' : until'[i] = until[i]]_blackholeVars
      BY DEF BlackholeTypeOK, FileMatches, Restart, Expired
  <1> QED BY <1>1, <1>2, BlackholeTypeInit, BlackholeTypeNext, NextFileMatches, PTL
          DEF BlackholeSpec, RestartKeepsList
=============================================================================
