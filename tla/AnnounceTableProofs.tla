------------------------ MODULE AnnounceTableProofs ------------------------
(* Proofs, for every set of destinations and every table size, that the    *)
(* announce table stays within its limit and that announces are not        *)
(* amplified.                                                              *)
EXTENDS AnnounceTable, FiniteSetTheorems, TLAPS

Tables == [Dest -> Entry \union {NoEntry}]

\* Culling only erases entries, and erases at least one when the table is
\* larger than its limit.
LEMMA CullFacts ==
    ASSUME NEW t \in Tables, NEW u \in cull_announce_table(t)
    PROVE  \/ u = t /\ Cardinality(Queued(t)) <= announce_table_maxsize
           \/ \E ds \in SUBSET Queued(t) : ds # {} /\ u = MapErase(t, ds)
  BY DEF cull_announce_table

\* So a culled table is a table, and what is left in it was there before.
LEMMA CullShrinks ==
    ASSUME NEW t \in Tables, NEW u \in cull_announce_table(t)
    PROVE  /\ u \in Tables
           /\ \A d \in Dest : u[d] = t[d] \/ u[d] = NoEntry
  BY CullFacts DEF Tables, MapErase

\* An entry's remaining credit is at most two transmissions.
LEMMA CreditFacts ==
    ASSUME NEW e \in Entry \union {NoEntry}
    PROVE  /\ Credit(e) \in 0 .. 2
           /\ e # NoEntry => Credit(e) = 2 - e.retries
           /\ e = NoEntry => Credit(e) = 0
  <1>1. CASE e = NoEntry
      BY <1>1 DEF Credit
  <1>2. CASE e # NoEntry
      <2>1. e.retries \in 0 .. 2
          BY <1>2, RetryAssumption DEF Entry
      <2> QED BY <1>2, <2>1 DEF Credit
  <1> QED BY <1>1, <1>2

\* Hearing an announce again erases d's entry or leaves its credit.
LEMMA HeardAgainFacts ==
    ASSUME NEW t \in Tables, NEW d \in Dest, NEW h \in HopCounts
    PROVE  /\ HeardAgain(t, d, h) \in Tables
           /\ \A x \in Dest : Credit(HeardAgain(t, d, h)[x]) <= Credit(t[x])
           /\ Queued(HeardAgain(t, d, h)) \subseteq Queued(t)
  <1> DEFINE e == t[d]
             counted == [e EXCEPT !.local_rebroadcasts = @ + 1]
             u == HeardAgain(t, d, h)
  <1>1. e \in Entry \union {NoEntry} /\ \A x \in Dest : Credit(t[x]) \in 0 .. 2
      BY CreditFacts DEF Tables
  <1>2. \/ u = t
        \/ u = MapErase(t, {d})
        \/ /\ u = [t EXCEPT ![d] = counted] /\ e # NoEntry
           /\ ~ (counted.local_rebroadcasts >= LOCAL_REBROADCASTS_MAX)
      BY DEF HeardAgain
  <1>3. CASE u = t
      BY <1>1, <1>3 DEF Tables
  <1>4. CASE u = MapErase(t, {d})
      <2>1. u \in Tables /\ \A x \in Dest : u[x] = t[x] \/ u[x] = NoEntry
          BY <1>4 DEF Tables, MapErase
      <2>2. Credit(NoEntry) = 0
          BY CreditFacts
      <2> QED BY <1>1, <2>1, <2>2 DEF Queued
  <1>5. CASE /\ u = [t EXCEPT ![d] = counted] /\ e # NoEntry
             /\ ~ (counted.local_rebroadcasts >= LOCAL_REBROADCASTS_MAX)
      <2>1. e \in Entry
          BY <1>1, <1>5
      <2>2. counted.local_rebroadcasts = e.local_rebroadcasts + 1 /\ counted.retries = e.retries
          BY <2>1 DEF Entry
      <2>3. e.local_rebroadcasts + 1 \in 0 .. LOCAL_REBROADCASTS_MAX - 1
          BY <1>5, <2>1, <2>2, RetryAssumption DEF Entry
      <2>4. counted \in Entry
          BY <2>1, <2>3 DEF Entry
      <2>5. counted # NoEntry
          BY <2>4, NoEntryAssumption
      <2>6. Credit(counted) = Credit(e)
          BY <1>5, <2>2, <2>5 DEF Credit
      <2> HIDE DEF counted
      <2>7. u \in Tables /\ \A x \in Dest : u[x] = IF x = d THEN counted ELSE t[x]
          BY <1>5, <2>4 DEF Tables
      <2>8. \A x \in Dest : Credit(u[x]) <= Credit(t[x])
          BY <1>1, <2>6, <2>7
      <2>9. Queued(u) \subseteq Queued(t)
          BY <1>5, <2>7 DEF Queued
      <2> HIDE DEF u
      <2> QED BY <2>7, <2>8, <2>9 DEF u
  <1> HIDE DEF u
  <1> QED BY <1>2, <1>3, <1>4, <1>5 DEF u

\* A new entry is an entry.
LEMMA NewEntryFacts ==
    ASSUME NEW g \in Gen, NEW h \in HopCounts, NEW r \in 0 .. 1,
           NEW b \in BOOLEAN, NEW s \in Nat
    PROVE  /\ NewEntry(g, h, r, b, s) \in Entry
           /\ NewEntry(g, h, r, b, s) # NoEntry
           /\ NewEntry(g, h, r, b, s).retries = r
  <1>1. NewEntry(g, h, r, b, s) \in Entry
      BY SizeAssumption, RetryAssumption DEF NewEntry, Entry
  <1> QED BY <1>1, NoEntryAssumption DEF NewEntry

-----------------------------------------------------------------------------

\* The initial state is well typed.
LEMMA InitTypeOK == Init => TypeOK
  BY SizeAssumption DEF Init, TypeOK

\* Every step preserves the type invariant.
LEMMA NextTypeOK == TypeOK /\ [Next]_vars => TypeOK'
  <1> SUFFICES ASSUME TypeOK, [Next]_vars PROVE TypeOK'
      OBVIOUS
  <1>0. table \in Tables /\ held \in Tables /\ now \in Nat
      BY SizeAssumption DEF TypeOK, Tables
  <1>1. ASSUME NEW d \in Dest, NEW g \in Gen, NEW h \in HopCounts,
               NEW relayed \in BOOLEAN, NEW response \in BOOLEAN, NEW blocked \in BOOLEAN,
               Announce(d, g, h, relayed, response, blocked)
        PROVE  TypeOK'
      <2> DEFINE t == IF relayed THEN HeardAgain(table, d, h) ELSE table
                 e == NewEntry(g, h, 0, FALSE, now)
      <2>1. t \in Tables
          BY <1>0, HeardAgainFacts
      <2>2. e \in Entry
          <3>1. 0 \in 0 .. 1 /\ FALSE \in BOOLEAN
              OBVIOUS
          <3> QED BY <1>0, <3>1, NewEntryFacts, Zenon
      <2> HIDE DEF e
      <2>3. MapInsert(t, d, e) \in Tables
          BY <2>1, <2>2 DEF MapInsert, Tables
      <2>4. table' = t \/ table' \in cull_announce_table(MapInsert(t, d, e))
          BY <1>1 DEF Announce, e
      <2> HIDE DEF t
      <2>5. table' \in Tables
          BY <2>1, <2>3, <2>4, CullShrinks
      <2>6. pgen' \in [Dest -> 0 .. MaxGen] /\ known' \in SUBSET Dest
          BY <1>1, SizeAssumption DEF Announce, TypeOK, Gen
      <2>7. now' \in 0 .. MaxEvents
          BY <1>1, SizeAssumption DEF Announce, TypeOK
      <2>8. acc' \in [Dest -> Nat]
          BY <1>1 DEF Announce, TypeOK
      <2>9. UNCHANGED <<held, req, sent>>
          BY <1>1 DEF Announce
      <2> QED BY <2>5, <2>6, <2>7, <2>8, <2>9 DEF TypeOK, Tables
  <1>2. ASSUME NEW d \in Dest, NEW h \in HopCounts, PathRequest(d, h) PROVE TypeOK'
      <2> DEFINE e == NewEntry(pgen[d], h, PATHFINDER_R, TRUE, now)
      <2>1. e \in Entry
          <3>1. pgen[d] \in Gen
              BY <1>2, SizeAssumption DEF PathRequest, TypeOK, Gen
          <3>2. PATHFINDER_R \in 0 .. 1 /\ TRUE \in BOOLEAN
              BY RetryAssumption
          <3> QED BY <1>0, <3>1, <3>2, NewEntryFacts, Zenon
      <2> HIDE DEF e
      <2>2. MapInsert(table, d, e) \in Tables
          BY <1>0, <2>1 DEF MapInsert, Tables
      <2>3. table' \in Tables
          BY <1>2, <2>2, CullShrinks DEF PathRequest, e
      <2>4. held' \in Tables
          BY <1>0, <1>2 DEF PathRequest, MapInsert, Tables
      <2>5. now' \in 0 .. MaxEvents
          BY <1>2, SizeAssumption DEF PathRequest, TypeOK
      <2>6. req' \in [Dest -> Nat]
          BY <1>2 DEF PathRequest, TypeOK
      <2>7. UNCHANGED <<pgen, known, acc, sent>>
          BY <1>2 DEF PathRequest
      <2> QED BY <2>3, <2>4, <2>5, <2>6, <2>7 DEF TypeOK, Tables
  <1>3. ASSUME NEW d \in Dest, CompleteAnnounce(d) \/ DropAnnounce(d) PROVE TypeOK'
      <2>1. table' = MapErase(table, {d}) /\ UNCHANGED <<held, pgen, known, now, acc, req, sent>>
          BY <1>3 DEF CompleteAnnounce, DropAnnounce
      <2>2. table' \in Tables
          BY <1>0, <2>1 DEF MapErase, Tables
      <2> QED BY <2>1, <2>2 DEF TypeOK, Tables
  <1>4. ASSUME NEW d \in Dest, RetransmitAnnounce(d) PROVE TypeOK'
      <2>1. table[d] \in Entry /\ ~ Completed(table[d])
          BY <1>4 DEF RetransmitAnnounce, TypeOK
      <2>2. table[d].retries \in 0 .. 1
          BY <2>1, RetryAssumption DEF Completed, Entry
      <2>3. /\ sent' \in [Dest -> Nat] /\ known' \in SUBSET Dest
            /\ UNCHANGED <<pgen, now, acc, req>>
          BY <1>4 DEF RetransmitAnnounce, TypeOK
      <2>4. CASE held[d] # NoEntry
          <3>1. [table EXCEPT ![d] = held[d]] \in Tables
              BY <1>0 DEF Tables
          <3>2. table' \in Tables
              BY <1>4, <2>4, <3>1, CullShrinks DEF RetransmitAnnounce
          <3>3. held' \in Tables
              BY <1>0, <1>4, <2>4 DEF RetransmitAnnounce, MapErase, Tables
          <3> QED BY <2>3, <3>2, <3>3 DEF TypeOK, Tables
      <2>5. CASE held[d] = NoEntry
          <3>1. table' = [table EXCEPT ![d] = [table[d] EXCEPT !.retries = @ + 1, !.due = FALSE]]
              BY <1>0, <1>4, <2>1, <2>5 DEF RetransmitAnnounce, Tables
          <3>2. [table[d] EXCEPT !.retries = @ + 1, !.due = FALSE] \in Entry
              <4>1. table[d].retries + 1 \in 0 .. LOCAL_REBROADCASTS_MAX
                  BY <2>2, RetryAssumption
              <4> QED BY <2>1, <4>1 DEF Entry
          <3>3. table' \in Tables /\ held' = held
              BY <1>0, <1>4, <2>5, <3>1, <3>2 DEF RetransmitAnnounce, Tables
          <3> QED BY <2>3, <3>3 DEF TypeOK, Tables
      <2> QED BY <2>4, <2>5
  <1>5. ASSUME NEW d \in Dest, TimeoutPasses(d) PROVE TypeOK'
      <2>1. table[d] \in Entry
          BY <1>5 DEF TimeoutPasses, TypeOK
      <2>2. [table[d] EXCEPT !.due = TRUE] \in Entry
          BY <2>1 DEF Entry
      <2>3. table' = [table EXCEPT ![d] = [table[d] EXCEPT !.due = TRUE]]
          BY <1>0, <1>5, <2>1 DEF TimeoutPasses, Tables
      <2>4. table' \in Tables
          BY <1>0, <2>2, <2>3 DEF Tables
      <2> QED BY <1>5, <2>4 DEF TimeoutPasses, TypeOK, Tables
  <1>6. ASSUME NEW d \in Dest, PathLost(d) \/ IdentityLost(d) PROVE TypeOK'
      BY <1>6, SizeAssumption DEF PathLost, IdentityLost, TypeOK
  <1>7. CASE UNCHANGED vars
      BY <1>7 DEF vars, TypeOK
  <1> QED BY <1>1, <1>2, <1>3, <1>4, <1>5, <1>6, <1>7 DEF Next

\* The announce table, the held announces and their counters keep their
\* types; no entry counts more retries or rebroadcasts than the limits allow
\* (TypeOK).
THEOREM TypeCorrect == Spec => []TypeOK
  BY InitTypeOK, NextTypeOK, PTL DEF Spec

-----------------------------------------------------------------------------
(* The size of the table.                                                  *)

\* The queued destinations are finitely many.
LEMMA QueuedFinite ==
    ASSUME NEW t
    PROVE  IsFiniteSet(Queued(t)) /\ Cardinality(Queued(t)) \in Nat
  <1>1. Queued(t) \in SUBSET Dest
      BY DEF Queued
  <1> QED BY <1>1, SizeAssumption, FS_Subset, FS_CardinalityType

\* A table with no more entries than another is no larger.
LEMMA QueuedMonotone ==
    ASSUME NEW t, NEW u, Queued(u) \subseteq Queued(t)
    PROVE  Cardinality(Queued(u)) <= Cardinality(Queued(t))
  BY QueuedFinite, FS_Subset

\* A table that was at most one over the limit is within it once culled.
LEMMA CullBound ==
    ASSUME NEW t \in Tables, NEW u \in cull_announce_table(t),
           Cardinality(Queued(t)) <= announce_table_maxsize + 1
    PROVE  Cardinality(Queued(u)) <= announce_table_maxsize
  <1>1. CASE u = t /\ Cardinality(Queued(t)) <= announce_table_maxsize
      BY <1>1
  <1>2. CASE \E ds \in SUBSET Queued(t) : ds # {} /\ u = MapErase(t, ds)
      <2>1. PICK ds \in SUBSET Queued(t) : ds # {} /\ u = MapErase(t, ds)
          BY <1>2
      <2>2. PICK x \in ds : x \in Queued(t)
          BY <2>1
      <2>3. Queued(u) \in SUBSET (Queued(t) \ {x})
          BY <2>1, <2>2 DEF Queued, MapErase
      <2>4. /\ IsFiniteSet(Queued(t) \ {x})
            /\ Cardinality(Queued(t) \ {x}) = Cardinality(Queued(t)) - 1
          BY <2>2, QueuedFinite, FS_RemoveElement
      <2>5. Cardinality(Queued(u)) <= Cardinality(Queued(t)) - 1
          BY <2>3, <2>4, FS_Subset
      <2> QED BY <2>5, QueuedFinite, SizeAssumption
  <1> QED BY <1>1, <1>2, CullFacts

\* Inserting into a table that is within the limit, and culling it, leaves
\* it within the limit.
LEMMA InsertBound ==
    ASSUME NEW t \in Tables, NEW d \in Dest, NEW e \in Entry,
           NEW u \in cull_announce_table(MapInsert(t, d, e)),
           Cardinality(Queued(t)) <= announce_table_maxsize
    PROVE  Cardinality(Queued(u)) <= announce_table_maxsize
  <1>1. MapInsert(t, d, e) \in Tables
      BY DEF MapInsert, Tables
  <1>2. Queued(MapInsert(t, d, e)) \in SUBSET (Queued(t) \union {d})
      BY DEF Queued, MapInsert, Tables
  <1>3. /\ IsFiniteSet(Queued(t) \union {d})
        /\ Cardinality(Queued(t) \union {d}) <= Cardinality(Queued(t)) + 1
      <2>1. IsFiniteSet(Queued(t)) /\ Cardinality(Queued(t)) \in Nat
          BY QueuedFinite
      <2>2. /\ IsFiniteSet(Queued(t) \union {d})
            /\ \/ Cardinality(Queued(t) \union {d}) = Cardinality(Queued(t))
               \/ Cardinality(Queued(t) \union {d}) = Cardinality(Queued(t)) + 1
          BY <2>1, FS_AddElement
      <2> QED BY <2>1, <2>2
  <1>4. Cardinality(Queued(MapInsert(t, d, e))) <= Cardinality(Queued(t)) + 1
      <2>1. Cardinality(Queued(MapInsert(t, d, e))) <= Cardinality(Queued(t) \union {d})
          BY <1>2, <1>3, FS_Subset
      <2>2. Cardinality(Queued(t) \union {d}) \in Nat
          BY <1>3, FS_CardinalityType
      <2> QED BY <2>1, <2>2, <1>3, QueuedFinite
  <1>5. Cardinality(Queued(MapInsert(t, d, e))) <= announce_table_maxsize + 1
      BY <1>4, QueuedFinite, SizeAssumption
  <1> QED BY <1>1, <1>5, CullBound

\* Every step preserves the bound.
LEMMA NextTableBound == TypeOK /\ TableBound /\ [Next]_vars => TableBound'
  <1> SUFFICES ASSUME TypeOK, TableBound, [Next]_vars
               PROVE  Cardinality(Queued(table')) <= announce_table_maxsize
      BY DEF TableBound, Queued
  <1>0. /\ table \in Tables /\ held \in Tables /\ now \in Nat
        /\ Cardinality(Queued(table)) <= announce_table_maxsize
        /\ Cardinality(Queued(table)) \in Nat /\ announce_table_maxsize \in Nat
      BY SizeAssumption, QueuedFinite DEF TypeOK, Tables, TableBound
  <1>1. ASSUME Queued(table') \subseteq Queued(table)
        PROVE  Cardinality(Queued(table')) <= announce_table_maxsize
      <2>1. Cardinality(Queued(table')) <= Cardinality(Queued(table)) /\ Cardinality(Queued(table')) \in Nat
          BY <1>1, QueuedMonotone, QueuedFinite
      <2> QED BY <2>1, <1>0
  <1>2. ASSUME NEW d \in Dest, NEW g \in Gen, NEW h \in HopCounts,
               NEW relayed \in BOOLEAN, NEW response \in BOOLEAN, NEW blocked \in BOOLEAN,
               Announce(d, g, h, relayed, response, blocked)
        PROVE  Cardinality(Queued(table')) <= announce_table_maxsize
      <2> DEFINE t == IF relayed THEN HeardAgain(table, d, h) ELSE table
                 e == NewEntry(g, h, 0, FALSE, now)
      <2>1. t \in Tables /\ Queued(t) \subseteq Queued(table)
          BY <1>0, HeardAgainFacts
      <2>2. e \in Entry
          <3>1. 0 \in 0 .. 1 /\ FALSE \in BOOLEAN
              OBVIOUS
          <3> QED BY <1>0, <3>1, NewEntryFacts, Zenon
      <2>3. table' = t \/ table' \in cull_announce_table(MapInsert(t, d, e))
          BY <1>2 DEF Announce
      <2> HIDE DEF t, e
      <2>4. Cardinality(Queued(t)) <= announce_table_maxsize
          <3>1. Cardinality(Queued(t)) <= Cardinality(Queued(table)) /\ Cardinality(Queued(t)) \in Nat
              BY <2>1, QueuedMonotone, QueuedFinite
          <3> QED BY <3>1, <1>0
      <2> QED BY <2>1, <2>2, <2>3, <2>4, InsertBound
  <1>3. ASSUME NEW d \in Dest, NEW h \in HopCounts, PathRequest(d, h)
        PROVE  Cardinality(Queued(table')) <= announce_table_maxsize
      <2> DEFINE e == NewEntry(pgen[d], h, PATHFINDER_R, TRUE, now)
      <2>1. e \in Entry
          <3>1. pgen[d] \in Gen
              BY <1>3, SizeAssumption DEF PathRequest, TypeOK, Gen
          <3>2. PATHFINDER_R \in 0 .. 1 /\ TRUE \in BOOLEAN
              BY RetryAssumption
          <3> QED BY <1>0, <3>1, <3>2, NewEntryFacts, Zenon
      <2>2. table' \in cull_announce_table(MapInsert(table, d, e))
          BY <1>3 DEF PathRequest
      <2> HIDE DEF e
      <2> QED BY <1>0, <2>1, <2>2, InsertBound
  <1>4. ASSUME NEW d \in Dest, CompleteAnnounce(d) \/ DropAnnounce(d)
        PROVE  Cardinality(Queued(table')) <= announce_table_maxsize
      <2>1. Queued(table') \subseteq Queued(table)
          BY <1>4 DEF CompleteAnnounce, DropAnnounce, MapErase, Queued
      <2> QED BY <2>1, <1>1
  <1>5. ASSUME NEW d \in Dest, RetransmitAnnounce(d)
        PROVE  Cardinality(Queued(table')) <= announce_table_maxsize
      <2>1. CASE held[d] = NoEntry
          <3>1. Queued(table') \subseteq Queued(table)
              BY <1>0, <1>5, <2>1 DEF RetransmitAnnounce, Queued, Tables
          <3> QED BY <3>1, <1>1
      <2>2. CASE held[d] # NoEntry
          <3> DEFINE t == [table EXCEPT ![d] = held[d]]
          <3>1. t \in Tables /\ table' \in cull_announce_table(t)
              BY <1>0, <1>5, <2>2 DEF RetransmitAnnounce, Tables
          <3>2. Queued(t) = Queued(table)
              BY <1>0, <1>5, <2>2 DEF RetransmitAnnounce, Queued, Tables
          <3> HIDE DEF t
          <3>3. Cardinality(Queued(t)) <= announce_table_maxsize + 1
              BY <3>2, <1>0
          <3> QED BY <3>1, <3>3, CullBound
      <2> QED BY <2>1, <2>2
  <1>6. ASSUME NEW d \in Dest, TimeoutPasses(d)
        PROVE  Cardinality(Queued(table')) <= announce_table_maxsize
      <2>1. Queued(table') \subseteq Queued(table)
          BY <1>0, <1>6 DEF TimeoutPasses, Queued, Tables
      <2> QED BY <2>1, <1>1
  <1>7. CASE UNCHANGED table
      BY <1>1, <1>7
  <1>8. ASSUME NEW d \in Dest, PathLost(d) \/ IdentityLost(d) PROVE UNCHANGED table
      BY <1>8 DEF PathLost, IdentityLost
  <1> QED BY <1>2, <1>3, <1>4, <1>5, <1>6, <1>7, <1>8 DEF Next, vars

\* The announce table never outgrows announce_table_maxsize, for any number
\* of destinations and any interleaving of announces, path requests and
\* retransmissions (TableBound).
THEOREM TableBoundHolds == Spec => []TableBound
  <1>1. Init => TableBound
      <2> SUFFICES ASSUME Init PROVE TableBound
          OBVIOUS
      <2>1. Queued(table) = {}
          BY DEF Init, Queued
      <2> QED BY <2>1, FS_EmptySet, SizeAssumption DEF TableBound
  <1> QED BY <1>1, NextTableBound, TypeCorrect, PTL DEF Spec

-----------------------------------------------------------------------------
(* No amplification.                                                       *)

\* A step that does not pay or send, and leaves no entry more credit, keeps
\* the account balanced.
LEMMA PaidMonotone ==
    ASSUME TypeOK, TypeOK', Paid, NEW d \in Dest,
           acc'[d] = acc[d], req'[d] = req[d], sent'[d] = sent[d],
           held'[d] = held[d], Credit(table'[d]) <= Credit(table[d])
    PROVE  sent'[d] + Potential(d)' <= 2 * acc'[d] + req'[d]
  <1>1. /\ Credit(table[d]) \in 0 .. 2 /\ Credit(table'[d]) \in 0 .. 2
        /\ Credit(held[d]) \in 0 .. 2
      BY CreditFacts DEF TypeOK
  <1>2. acc[d] \in Nat /\ req[d] \in Nat /\ sent[d] \in Nat
      BY DEF TypeOK
  <1>3. sent[d] + Potential(d) <= 2 * acc[d] + req[d]
      BY DEF Paid
  <1>4. Potential(d)' = IF held'[d] = NoEntry THEN Credit(table'[d])
                        ELSE Credit(held'[d]) + (IF Credit(table'[d]) > 0 THEN 1 ELSE 0)
      BY DEF Potential, Credit
  <1> QED BY <1>1, <1>2, <1>3, <1>4 DEF Potential

\* Every step keeps the account balanced.
LEMMA NextPaid == TypeOK /\ TypeOK' /\ Paid /\ [Next]_vars => Paid'
  <1> SUFFICES ASSUME TypeOK, TypeOK', Paid, [Next]_vars, NEW x \in Dest
               PROVE  sent'[x] + Potential(x)' <= 2 * acc'[x] + req'[x]
      BY DEF Paid
  <1>0. /\ table \in Tables /\ held \in Tables /\ table' \in Tables /\ held' \in Tables
        /\ now \in Nat
      BY SizeAssumption DEF TypeOK, Tables
  <1>1. /\ Credit(table[x]) \in 0 .. 2 /\ Credit(table'[x]) \in 0 .. 2
        /\ Credit(held[x]) \in 0 .. 2 /\ Credit(held'[x]) \in 0 .. 2
        /\ Credit(NoEntry) = 0
      BY <1>0, CreditFacts DEF Tables
  <1>2. /\ acc[x] \in Nat /\ req[x] \in Nat /\ sent[x] \in Nat
        /\ sent[x] + Potential(x) <= 2 * acc[x] + req[x]
      BY DEF TypeOK, Paid
  <1>3. Potential(x)' = IF held'[x] = NoEntry THEN Credit(table'[x])
                        ELSE Credit(held'[x]) + (IF Credit(table'[x]) > 0 THEN 1 ELSE 0)
      BY DEF Potential, Credit
  <1>4. ASSUME NEW d \in Dest, NEW g \in Gen, NEW h \in HopCounts,
               NEW relayed \in BOOLEAN, NEW response \in BOOLEAN, NEW blocked \in BOOLEAN,
               Announce(d, g, h, relayed, response, blocked)
        PROVE  sent'[x] + Potential(x)' <= 2 * acc'[x] + req'[x]
      <2> DEFINE t == IF relayed THEN HeardAgain(table, d, h) ELSE table
                 e == NewEntry(g, h, 0, FALSE, now)
                 queues == g > pgen[d] /\ ~ response /\ ~ blocked
      <2>1. t \in Tables /\ Credit(t[x]) <= Credit(table[x])
          BY <1>0, <1>1, HeardAgainFacts
      <2>2. e \in Entry
          <3>1. 0 \in 0 .. 1 /\ FALSE \in BOOLEAN
              OBVIOUS
          <3> QED BY <1>0, <3>1, NewEntryFacts, Zenon
      <2>3. /\ IF queues THEN table' \in cull_announce_table(MapInsert(t, d, e)) ELSE table' = t
            /\ acc' = IF queues /\ t[d] = NoEntry THEN [acc EXCEPT ![d] = @ + 1] ELSE acc
            /\ held' = held /\ req' = req /\ sent' = sent
          BY <1>4 DEF Announce
      <2> HIDE DEF t, e, queues
      <2>4. CASE queues /\ t[d] = NoEntry /\ d = x
          <3>1. acc'[x] = acc[x] + 1 /\ held'[x] = held[x] /\ req'[x] = req[x] /\ sent'[x] = sent[x]
              BY <2>3, <2>4 DEF TypeOK
          <3> QED BY <1>1, <1>2, <1>3, <3>1 DEF Potential
      <2>5. CASE ~ (queues /\ t[d] = NoEntry /\ d = x)
          <3>1. acc'[x] = acc[x]
              BY <2>3, <2>5 DEF TypeOK
          <3>2. CASE ~ queues
              BY <2>1, <2>3, <3>1, <3>2, PaidMonotone
          <3>3. CASE queues
              <4>1. MapInsert(t, d, e) \in Tables /\ MapInsert(t, d, e)[x] = t[x]
                  BY <2>1, <2>2, <2>5, <3>3 DEF MapInsert, Tables
              <4>2. table'[x] = t[x] \/ table'[x] = NoEntry
                  BY <2>3, <3>3, <4>1, CullShrinks
              <4>3. Credit(table'[x]) <= Credit(table[x])
                  BY <1>1, <2>1, <4>2
              <4> QED BY <2>3, <3>1, <4>3, PaidMonotone
          <3> QED BY <3>2, <3>3
      <2> QED BY <2>4, <2>5
  <1>5. ASSUME NEW d \in Dest, NEW h \in HopCounts, PathRequest(d, h)
        PROVE  sent'[x] + Potential(x)' <= 2 * acc'[x] + req'[x]
      <2> DEFINE e == NewEntry(pgen[d], h, PATHFINDER_R, TRUE, now)
      <2>0. e \in Entry /\ e # NoEntry /\ e.retries = PATHFINDER_R
          <3>1. pgen[d] \in Gen
              BY <1>5, SizeAssumption DEF PathRequest, TypeOK, Gen
          <3>2. PATHFINDER_R \in 0 .. 1 /\ TRUE \in BOOLEAN
              BY RetryAssumption
          <3>3. now \in Nat
              BY SizeAssumption DEF TypeOK
          <3>4. e \in Entry
              BY <3>1, <3>2, <3>3, NewEntryFacts, Zenon
          <3>5. e.retries = PATHFINDER_R
              BY DEF NewEntry
          <3> QED BY <3>4, <3>5, NoEntryAssumption
      <2>3. /\ held' = IF table[d] = NoEntry THEN held ELSE MapInsert(held, d, table[d])
            /\ table' \in cull_announce_table(MapInsert(table, d, e))
            /\ req' = [req EXCEPT ![d] = @ + 1]
            /\ acc' = acc /\ sent' = sent
          BY <1>5 DEF PathRequest
      <2> HIDE DEF e
      <2>1. e \in Entry /\ e # NoEntry /\ e.retries = 1
          BY <2>0, RetryAssumption
      <2>2. Credit(e) = 1
          BY <2>1, CreditFacts
      <2>4. MapInsert(table, d, e) \in Tables
          BY <1>0, <2>1 DEF MapInsert, Tables
      <2>5. table'[x] = MapInsert(table, d, e)[x] \/ table'[x] = NoEntry
          BY <2>3, <2>4, CullShrinks
      <2>6. CASE d # x
          <3>1. MapInsert(table, d, e)[x] = table[x] /\ held'[x] = held[x] /\ req'[x] = req[x]
              BY <1>0, <2>3, <2>6 DEF MapInsert, Tables, TypeOK
          <3>2. Credit(table'[x]) <= Credit(table[x])
              BY <1>1, <2>5, <3>1
          <3> QED BY <2>3, <3>1, <3>2, PaidMonotone
      <2>7. CASE d = x /\ table[x] = NoEntry
          <3>1. MapInsert(table, d, e)[x] = e /\ held'[x] = held[x] /\ req'[x] = req[x] + 1
              BY <1>0, <2>3, <2>7 DEF MapInsert, Tables, TypeOK
          <3>2. Credit(table'[x]) <= 1
              BY <1>1, <2>2, <2>5, <3>1
          <3> QED BY <1>1, <1>2, <1>3, <2>3, <2>7, <3>1, <3>2 DEF Potential
      <2>8. CASE d = x /\ table[x] # NoEntry
          <3>1. MapInsert(table, d, e)[x] = table[x] /\ req'[x] = req[x] + 1
              BY <1>0, <2>3, <2>8 DEF MapInsert, Tables, TypeOK
          <3>2. Credit(table'[x]) <= Credit(table[x])
              BY <1>1, <2>5, <3>1
          <3>3. held'[x] = IF held[x] = NoEntry THEN table[x] ELSE held[x]
              BY <1>0, <2>3, <2>8 DEF MapInsert, Tables
          <3>4. CASE held[x] = NoEntry
              <4>1. Credit(held'[x]) = Credit(table[x]) /\ Potential(x) = Credit(table[x])
                  BY <3>3, <3>4 DEF Potential
              <4>2. Potential(x)' <= Credit(table[x]) + 1
                  BY <1>1, <1>3, <3>2, <4>1
              <4>3. Potential(x)' \in Int
                  BY <1>1, <1>3
              <4> QED BY <1>1, <1>2, <2>3, <3>1, <4>1, <4>2, <4>3
          <3>5. CASE held[x] # NoEntry
              <4>1. Potential(x)' <= Potential(x)
                  BY <1>1, <1>3, <3>2, <3>3, <3>5 DEF Potential
              <4>2. Potential(x)' \in Int /\ Potential(x) \in Int
                  BY <1>1, <1>3 DEF Potential
              <4> QED BY <1>2, <2>3, <3>1, <4>1, <4>2
          <3> QED BY <3>4, <3>5
      <2> QED BY <2>6, <2>7, <2>8
  <1>6. ASSUME NEW d \in Dest, CompleteAnnounce(d) \/ DropAnnounce(d)
        PROVE  sent'[x] + Potential(x)' <= 2 * acc'[x] + req'[x]
      <2>1. table' = MapErase(table, {d}) /\ UNCHANGED <<held, acc, req, sent>>
          BY <1>6 DEF CompleteAnnounce, DropAnnounce
      <2>2. table'[x] = table[x] \/ table'[x] = NoEntry
          BY <2>1 DEF MapErase
      <2>3. Credit(table'[x]) <= Credit(table[x])
          BY <1>1, <2>2
      <2> QED BY <2>1, <2>3, PaidMonotone
  <1>7. ASSUME NEW d \in Dest, RetransmitAnnounce(d)
        PROVE  sent'[x] + Potential(x)' <= 2 * acc'[x] + req'[x]
      <2>1. table[d] \in Entry /\ table[d] # NoEntry /\ ~ Completed(table[d])
          BY <1>7 DEF RetransmitAnnounce, TypeOK
      <2>2. table[d].retries \in 0 .. 1
          BY <2>1, RetryAssumption DEF Completed, Entry
      <2>3. Credit(table[d]) = 2 - table[d].retries
          BY <2>1, CreditFacts
      <2>4. sent' = [sent EXCEPT ![d] = @ + 1] /\ acc' = acc /\ req' = req
          BY <1>7 DEF RetransmitAnnounce
      <2>5. CASE held[d] = NoEntry
          <3> DEFINE e == [table[d] EXCEPT !.retries = @ + 1, !.due = FALSE]
          <3>1. table' = [table EXCEPT ![d] = e] /\ held' = held
              BY <1>0, <1>7, <2>1, <2>5 DEF RetransmitAnnounce, Tables
          <3>2. e.retries = table[d].retries + 1
              BY <2>1 DEF Entry
          <3>3. table'[d] = e
              BY <1>0, <3>1 DEF Tables
          <3> HIDE DEF e
          <3>4. Credit(table'[d]) = Credit(table[d]) - 1
              <4>1. table'[d] \in Entry \union {NoEntry}
                  BY <1>0 DEF Tables
              <4>2. Credit(e) = IF e = NoEntry \/ e.retries >= 2 THEN 0 ELSE 2 - e.retries
                  BY DEF Credit
              <4>3. e # NoEntry
                  <5>1. [table[d] EXCEPT !.retries = @ + 1, !.due = FALSE] \in Entry
                      <6>1. table[d].retries + 1 \in 0 .. LOCAL_REBROADCASTS_MAX
                          BY <2>2, RetryAssumption
                      <6> QED BY <2>1, <6>1 DEF Entry
                  <5> QED BY <5>1, NoEntryAssumption DEF e
              <4> QED BY <2>2, <2>3, <3>2, <3>3, <4>2, <4>3
          <3>5. CASE d = x
              <4>1. sent'[x] = sent[x] + 1
                  BY <2>4, <3>5 DEF TypeOK
              <4>2. Potential(x)' = Credit(table[x]) - 1 /\ Potential(x) = Credit(table[x])
                  BY <1>3, <2>5, <3>1, <3>4, <3>5 DEF Potential
              <4> QED BY <1>1, <1>2, <2>4, <4>1, <4>2
          <3>6. CASE d # x
              <4>1. table'[x] = table[x] /\ sent'[x] = sent[x]
                  BY <1>0, <2>4, <3>1, <3>6 DEF Tables, TypeOK
              <4> QED BY <1>1, <2>4, <3>1, <4>1, PaidMonotone
          <3> QED BY <3>5, <3>6
      <2>6. CASE held[d] # NoEntry
          <3> DEFINE t == [table EXCEPT ![d] = held[d]]
          <3>1. t \in Tables /\ table' \in cull_announce_table(t) /\ held' = MapErase(held, {d})
              BY <1>0, <1>7, <2>6 DEF RetransmitAnnounce, Tables
          <3>2. t[x] = IF x = d THEN held[d] ELSE table[x]
              BY <1>0 DEF Tables
          <3> HIDE DEF t
          <3>3. table'[x] = t[x] \/ table'[x] = NoEntry
              BY <3>1, CullShrinks
          <3>4. CASE d = x
              <4>1. held'[x] = NoEntry /\ sent'[x] = sent[x] + 1
                  BY <2>4, <3>1, <3>4 DEF MapErase, TypeOK
              <4>2. Credit(table'[x]) <= Credit(held[x])
                  BY <1>1, <3>2, <3>3, <3>4
              <4>3. Credit(table[x]) > 0
                  BY <2>2, <2>3, <3>4
              <4>4. Potential(x) = Credit(held[x]) + 1 /\ Potential(x)' = Credit(table'[x])
                  BY <1>3, <2>6, <3>4, <4>1, <4>3 DEF Potential
              <4> QED BY <1>1, <1>2, <2>4, <4>1, <4>2, <4>4
          <3>5. CASE d # x
              <4>1. held'[x] = held[x] /\ sent'[x] = sent[x]
                  BY <2>4, <3>1, <3>5 DEF MapErase, TypeOK
              <4>2. Credit(table'[x]) <= Credit(table[x])
                  BY <1>1, <3>2, <3>3, <3>5
              <4> QED BY <2>4, <4>1, <4>2, PaidMonotone
          <3> QED BY <3>4, <3>5
      <2> QED BY <2>5, <2>6
  <1>8. ASSUME NEW d \in Dest, TimeoutPasses(d)
        PROVE  sent'[x] + Potential(x)' <= 2 * acc'[x] + req'[x]
      <2>1. table[d] \in Entry /\ UNCHANGED <<held, acc, req, sent>>
          BY <1>8 DEF TimeoutPasses, TypeOK
      <2>2. table' = [table EXCEPT ![d] = [table[d] EXCEPT !.due = TRUE]]
          BY <1>0, <1>8, <2>1 DEF TimeoutPasses, Tables
      <2>3. [table[d] EXCEPT !.due = TRUE] \in Entry /\ [table[d] EXCEPT !.due = TRUE].retries = table[d].retries
          BY <2>1 DEF Entry
      <2>4. Credit([table[d] EXCEPT !.due = TRUE]) = Credit(table[d])
          BY <2>1, <2>3, CreditFacts, NoEntryAssumption
      <2>5. Credit(table'[x]) <= Credit(table[x])
          BY <1>0, <1>1, <2>2, <2>4 DEF Tables
      <2> QED BY <2>1, <2>5, PaidMonotone
  <1>9. CASE UNCHANGED <<table, held, acc, req, sent>>
      BY <1>1, <1>9, PaidMonotone
  <1>10. ASSUME NEW d \in Dest, PathLost(d) \/ IdentityLost(d)
         PROVE  UNCHANGED <<table, held, acc, req, sent>>
      BY <1>10 DEF PathLost, IdentityLost
  <1> QED BY <1>4, <1>5, <1>6, <1>7, <1>8, <1>9, <1>10 DEF Next, vars

\* jobs() transmits for a destination at most twice per announce that entered
\* the table and once more per path request that was answered
\* (NoAmplification).
THEOREM NoAmplificationHolds == Spec => []NoAmplification
  <1>1. Init => Paid
      <2> SUFFICES ASSUME Init, NEW d \in Dest
                   PROVE  sent[d] + Potential(d) <= 2 * acc[d] + req[d]
          BY DEF Paid
      <2>1. Potential(d) = 0
          BY CreditFacts DEF Init, Potential
      <2> QED BY <2>1 DEF Init
  <1>2. TypeOK /\ Paid => NoAmplification
      <2> SUFFICES ASSUME TypeOK, Paid, NEW d \in Dest
                   PROVE  sent[d] <= 2 * acc[d] + req[d]
          BY DEF NoAmplification
      <2>1. Credit(table[d]) \in 0 .. 2 /\ Credit(held[d]) \in 0 .. 2
          BY CreditFacts DEF TypeOK
      <2>2. Potential(d) \in Nat
          BY <2>1 DEF Potential
      <2>3. sent[d] + Potential(d) <= 2 * acc[d] + req[d]
          BY DEF Paid
      <2>4. acc[d] \in Nat /\ req[d] \in Nat /\ sent[d] \in Nat
          BY DEF TypeOK
      <2> QED BY <2>2, <2>3, <2>4
  <1> QED BY <1>1, <1>2, NextPaid, TypeCorrect, PTL DEF Spec
=============================================================================
