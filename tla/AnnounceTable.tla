--------------------------- MODULE AnnounceTable ---------------------------
(***************************************************************************)
(* The rebroadcast of announces by a transport node (Transport.cpp): the   *)
(* announce table inbound() and path_request() fill and jobs() drains, and *)
(* the announces held while a path request is answered.                    *)
(*                                                                         *)
(* An announce is its destination and generation; which announces the path *)
(* table accepts is the subject of PathTable, here it is any newer one.    *)
(* now counts the announces and path requests that were handled, and       *)
(* stands for the clock in _timestamp; whether _retransmit_timeout has     *)
(* passed is the flag due.  _local_client_interfaces is never filled, so   *)
(* the branches for local clients are left out.                            *)
(*                                                                         *)
(* acc, req and sent are history variables no action reads.                *)
(***************************************************************************)
EXTENDS Naturals, FiniteSets

CONSTANTS
    Dest,                     \* destination hashes
    MaxGen,                   \* bound on the generations of an announce
    HopCounts,                \* hop counts of announces, as received
    announce_table_maxsize,
    path_table_maxsize,
    PATHFINDER_R,
    LOCAL_REBROADCASTS_MAX,
    MaxEvents,                \* bound on announces and path requests handled
    NoEntry

ASSUME SizeAssumption ==
    /\ announce_table_maxsize \in Nat
    /\ path_table_maxsize \in Nat
    /\ MaxGen \in Nat
    /\ MaxEvents \in Nat
    /\ HopCounts \subseteq Nat
    /\ IsFiniteSet(Dest)
\* The values of Type.h: at most two transmissions per entry.
ASSUME RetryAssumption == PATHFINDER_R = 1 /\ LOCAL_REBROADCASTS_MAX = 2

VARIABLES
    table,     \* _announce_table
    held,      \* _held_announces
    pgen,      \* generation of the announce in d's path entry, 0 for no path
    known,     \* Identity::_known_destinations
    now,       \* OS::time(), as a count of the events that stamp entries
    acc,       \* history: announces for d that entered the table
    req,       \* history: path requests for d that were answered
    sent       \* history: transmissions jobs() made for d

vars == <<table, held, pgen, known, now, acc, req, sent>>

-----------------------------------------------------------------------------

Gen == 1 .. MaxGen

Entry ==
    [gen: Gen, hops: Nat,
     retries: 0 .. LOCAL_REBROADCASTS_MAX,
     local_rebroadcasts: 0 .. LOCAL_REBROADCASTS_MAX - 1,
     block_rebroadcasts: BOOLEAN, timestamp: Nat, due: BOOLEAN]

ASSUME NoEntryAssumption == NoEntry \notin Entry

Queued(t) == {d \in Dest : t[d] # NoEntry}

NewEntry(g, h, retries, block, stamp) ==
    [gen |-> g, hops |-> h, retries |-> retries, local_rebroadcasts |-> 0,
     block_rebroadcasts |-> block, timestamp |-> stamp, due |-> FALSE]

\* std::map::insert: an entry that is there stays.
MapInsert(t, d, e) == IF t[d] = NoEntry THEN [t EXCEPT ![d] = e] ELSE t

\* Identity::recall(): the known destinations first, then the announce kept
\* with the path; that one is remembered again.
recall(d) == d \in known \/ pgen[d] # 0

MapErase(t, ds) == [d \in Dest |-> IF d \in ds THEN NoEntry ELSE t[d]]

Oldest(t, ds) ==
    \A d \in ds, k \in Queued(t) \ ds : t[d].timestamp <= t[k].timestamp

\* A plausible slip: the table is culled one entry too late.
CullLate(t) ==
    IF Cardinality(Queued(t)) <= announce_table_maxsize + 1
      THEN {t}
      ELSE {MapErase(t, ds) : ds \in {s \in SUBSET Queued(t) :
              Oldest(t, s) /\ Cardinality(s) = 1}}

\* cull_announce_table(): when the table has grown past its limit the oldest
\* entries are erased, at least one, until path_table_maxsize are left; just
\* one when there is no memory for the index.  Entries of equal age are in
\* the order of their keys, which is left open.
cull_announce_table(t) ==
    LET size == Cardinality(Queued(t))
        Erased(s) ==
            \/ Cardinality(s) = 1
            \/ size - Cardinality(s) = path_table_maxsize
    IN IF size <= announce_table_maxsize
         THEN {t}
         ELSE {MapErase(t, ds) :
                 ds \in {s \in SUBSET Queued(t) :
                           s # {} /\ Oldest(t, s) /\ Erased(s)}}

\* A plausible slip: > for >=, one rebroadcast too many is waited for.
HeardAgainLate(t, d, h) ==
    LET e == t[d]
        counted == [e EXCEPT !.local_rebroadcasts = @ + 1]
    IN CASE e = NoEntry -> t
         [] e # NoEntry /\ h = e.hops + 1 ->
              IF counted.local_rebroadcasts > LOCAL_REBROADCASTS_MAX
                THEN MapErase(t, {d})
                ELSE [t EXCEPT ![d] = counted]
         [] OTHER -> t

\* inbound(), an announce with a transport id: our own rebroadcast heard back
\* from a neighbour, or passed on by one.  _timestamp is the time the entry
\* was made, so the second condition asks for a clock that went back.
HeardAgain(t, d, h) ==
    LET e == t[d]
        counted == [e EXCEPT !.local_rebroadcasts = @ + 1]
    IN CASE e = NoEntry -> t
         [] e # NoEntry /\ h = e.hops + 1 ->
              IF counted.local_rebroadcasts >= LOCAL_REBROADCASTS_MAX
                THEN MapErase(t, {d})
                ELSE [t EXCEPT ![d] = counted]
         [] e # NoEntry /\ h = e.hops + 2 /\ e.retries > 0 /\ now < e.timestamp ->
              MapErase(t, {d})
         [] OTHER -> t

-----------------------------------------------------------------------------

Init ==
    /\ table = [d \in Dest |-> NoEntry]
    /\ held = [d \in Dest |-> NoEntry]
    /\ pgen = [d \in Dest |-> 0]
    /\ known = {}
    /\ now = 0
    /\ acc = [d \in Dest |-> 0]
    /\ req = [d \in Dest |-> 0]
    /\ sent = [d \in Dest |-> 0]

\* inbound(), ANNOUNCE.  relayed: it carries a transport id; response: it is
\* a PATH_RESPONSE; blocked: the rate limit of the interface holds it back.
Announce(d, g, h, relayed, response, blocked) ==
    LET t == IF relayed THEN HeardAgain(table, d, h) ELSE table
        accepted == g > pgen[d]
        queues == accepted /\ ~ response /\ ~ blocked
    IN  /\ now < MaxEvents
        /\ now' = now + 1
        /\ known' = known \union {d}
        /\ pgen' = IF accepted THEN [pgen EXCEPT ![d] = g] ELSE pgen
        /\ IF queues
             THEN table' \in cull_announce_table(MapInsert(t, d, NewEntry(g, h, 0, FALSE, now)))
             ELSE table' = t
        /\ acc' = IF queues /\ t[d] = NoEntry THEN [acc EXCEPT ![d] = @ + 1] ELSE acc
        /\ UNCHANGED <<held, req, sent>>

\* A plausible slip: the answer to a path request starts with no retry used.
PathRequestRetried(d, h) ==
    /\ now < MaxEvents
    /\ pgen[d] # 0
    /\ now' = now + 1
    /\ held' = IF table[d] = NoEntry THEN held ELSE MapInsert(held, d, table[d])
    /\ table' \in cull_announce_table(
                    MapInsert(table, d, NewEntry(pgen[d], h, 0, TRUE, now)))
    /\ req' = [req EXCEPT ![d] = @ + 1]
    /\ UNCHANGED <<pgen, known, acc, sent>>

\* path_request() for a destination we have a path to, from a requestor that
\* is to be answered: an entry that is queued for d is copied to the held
\* announces, and the answer is inserted.
PathRequest(d, h) ==
    /\ now < MaxEvents
    /\ pgen[d] # 0
    /\ now' = now + 1
    /\ held' = IF table[d] = NoEntry THEN held ELSE MapInsert(held, d, table[d])
    /\ table' \in cull_announce_table(
                    MapInsert(table, d, NewEntry(pgen[d], h, PATHFINDER_R, TRUE, now)))
    /\ req' = [req EXCEPT ![d] = @ + 1]
    /\ UNCHANGED <<pgen, known, acc, sent>>

Completed(e) ==
    \/ e.retries > 0 /\ e.retries >= LOCAL_REBROADCASTS_MAX
    \/ e.retries > PATHFINDER_R

\* jobs(), announce pass, one entry.  Erasing and reinserting the entry the
\* loop stands on leaves it with an invalid iterator: a pass that ends early
\* is one that takes no further step of this kind.
CompleteAnnounce(d) ==
    /\ table[d] # NoEntry
    /\ Completed(table[d])
    /\ table' = MapErase(table, {d})
    /\ UNCHANGED <<held, pgen, known, now, acc, req, sent>>

\* A plausible slip: the failed recall is logged, the entry stays.
DropLogged(d) ==
    /\ table[d] # NoEntry
    /\ ~ Completed(table[d]) /\ table[d].due
    /\ ~ recall(d)
    /\ UNCHANGED vars

\* The retransmission is due, but neither the identity nor the path is known
\* any more.
DropAnnounce(d) ==
    /\ table[d] # NoEntry
    /\ ~ Completed(table[d]) /\ table[d].due
    /\ ~ recall(d)
    /\ table' = MapErase(table, {d})
    /\ UNCHANGED <<held, pgen, known, now, acc, req, sent>>

\* The retransmission is due: the announce is sent; a held announce takes
\* the place of the entry, with the timeout and the retries it was held with.
RetransmitAnnounce(d) ==
    /\ table[d] # NoEntry
    /\ ~ Completed(table[d]) /\ table[d].due
    /\ recall(d)
    /\ known' = known \union {d}
    /\ sent' = [sent EXCEPT ![d] = @ + 1]
    /\ IF held[d] # NoEntry
         THEN /\ table' \in cull_announce_table([table EXCEPT ![d] = held[d]])
              /\ held' = MapErase(held, {d})
         ELSE /\ table' = [table EXCEPT ![d].retries = @ + 1, ![d].due = FALSE]
              /\ UNCHANGED held
    /\ UNCHANGED <<pgen, now, acc, req>>

\* _retransmit_timeout passes.
TimeoutPasses(d) ==
    /\ table[d] # NoEntry
    /\ ~ table[d].due
    /\ table' = [table EXCEPT ![d].due = TRUE]
    /\ UNCHANGED <<held, pgen, known, now, acc, req, sent>>

\* The path expires, is removed or is evicted.
PathLost(d) ==
    /\ pgen[d] # 0
    /\ pgen' = [pgen EXCEPT ![d] = 0]
    /\ UNCHANGED <<table, held, known, now, acc, req, sent>>

\* External: the known-destinations store evicts the identity.
IdentityLost(d) ==
    /\ d \in known
    /\ known' = known \ {d}
    /\ UNCHANGED <<table, held, pgen, now, acc, req, sent>>

Jobs(d) == CompleteAnnounce(d) \/ DropAnnounce(d) \/ RetransmitAnnounce(d)

Next ==
    \E d \in Dest :
        \/ \E g \in Gen, h \in HopCounts, relayed, response, blocked \in BOOLEAN :
              Announce(d, g, h, relayed, response, blocked)
        \/ \E h \in HopCounts : PathRequest(d, h)
        \/ CompleteAnnounce(d)
        \/ DropAnnounce(d)
        \/ RetransmitAnnounce(d)
        \/ TimeoutPasses(d)
        \/ PathLost(d)
        \/ IdentityLost(d)

Spec == Init /\ [][Next]_vars

\* The main loop calls jobs() for ever, and time passes.
Fairness == \A d \in Dest : WF_vars(Jobs(d)) /\ WF_vars(TimeoutPasses(d))

FairSpec == Spec /\ Fairness

-----------------------------------------------------------------------------

\* Type invariant.  The retry and rebroadcast counters stay within the limits
\* at which entries are dropped.
TypeOK ==
    /\ table \in [Dest -> Entry \union {NoEntry}]
    /\ held \in [Dest -> Entry \union {NoEntry}]
    /\ pgen \in [Dest -> 0 .. MaxGen]
    /\ known \in SUBSET Dest
    /\ now \in 0 .. MaxEvents
    /\ acc \in [Dest -> Nat] /\ req \in [Dest -> Nat] /\ sent \in [Dest -> Nat]

\* The announce table never outgrows announce_table_maxsize, also when a
\* held announce is reinserted.
TableBound == Cardinality(Queued(table)) <= announce_table_maxsize

\* Announces are not amplified: jobs() transmits for a destination at most
\* twice for each announce that entered the table and once more for each path
\* request that was answered, however the two interleave, and although a
\* held announce is put back with the retries it had left.
NoAmplification ==
    \A d \in Dest : sent[d] <= 2 * acc[d] + req[d]

\* Once the announces and path requests stop (MaxEvents), every entry leaves
\* the announce table, though held announces are put back into it with the
\* retries they had.  (While they do not stop it need not: each path request
\* can renew the entry it is answered by.)
Drains == \A d \in Dest : table[d] # NoEntry ~> table[d] = NoEntry

-----------------------------------------------------------------------------
(* What comments of the code say, and the code does not do.                *)

\* "In such a case the actual announce is temporarily held, and then
\* reinserted when the path request has been served to the peer": while an
\* announce is held, the queued entry is the answer it waits for.
HeldWhileServing ==
    \A d \in Dest :
        held[d] # NoEntry => table[d] # NoEntry /\ table[d].block_rebroadcasts

\* "Check if this is a next retransmission from another node. If it is,
\* we're removing the announce in question from our pending table": an entry
\* we have sent, whose next retransmission is not due, is removed when a
\* neighbour is heard to have passed it on.
PassedOnIsRemoved ==
    [][\A d \in Dest, h \in HopCounts :
          /\ Announce(d, pgen[d], h, TRUE, FALSE, FALSE)
          /\ table[d] # NoEntry /\ ~ table[d].block_rebroadcasts
          /\ h = table[d].hops + 2 /\ table[d].retries > 0 /\ ~ table[d].due
          => table'[d] = NoEntry]_vars

-----------------------------------------------------------------------------
(* The potential behind NoAmplification.                                   *)

\* The transmissions an entry has left.
Credit(e) == IF e = NoEntry \/ e.retries >= 2 THEN 0 ELSE 2 - e.retries

\* A queued entry in whose place a held announce will be put is sent at most
\* once more before that.
Potential(d) ==
    IF held[d] = NoEntry THEN Credit(table[d])
    ELSE Credit(held[d]) + (IF Credit(table[d]) > 0 THEN 1 ELSE 0)

\* The transmissions made and those still possible are paid for.
Paid == \A d \in Dest : sent[d] + Potential(d) <= 2 * acc[d] + req[d]
=============================================================================
