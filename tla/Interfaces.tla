----------------------------- MODULE Interfaces ------------------------------
(***************************************************************************)
(* The interfaces of the nodes (Interface.h) and what decides whether an   *)
(* announce is sent on one: the modes and the announce cap in outbound(),  *)
(* and the announce rate limit in inbound() (Transport.cpp).               *)
(*                                                                         *)
(* Times are kept as what is asked of them: an interface in capped has     *)
(* sent something that counts against the cap, so the time its next        *)
(* announce is allowed may be ahead.  Nothing takes an announce out of a   *)
(* queue but drop_announce_queues(): process_announce_queue() is empty.    *)
(***************************************************************************)
EXTENDS Naturals, Sequences, FiniteSets, SequencesExt

CONSTANTS
    Node, Medium,
    None,             \* no interface, no path, no entry
    On,               \* [Node -> SUBSET Medium]
    Mode,             \* the mode of each interface
    Limited,          \* interfaces with an announce rate target
    Grace,            \* announce_rate_grace
    MAX_QUEUED_ANNOUNCES

\* A node has one interface to each medium it is on.
Interface == { i \in Node \X Medium : i[2] \in On[i[1]] }

InterfaceMode == {"NONE", "FULL", "POINT_TO_POINT", "ACCESS_POINT", "ROAMING",
                  "BOUNDARY", "GATEWAY"}

\* The modes whose interfaces paths are searched for.
DISCOVER_PATHS_FOR == {"ACCESS_POINT", "GATEWAY", "ROAMING"}

ASSUME InterfacesAssumption ==
    /\ On \in [Node -> SUBSET Medium]
    /\ Mode \in [Interface -> InterfaceMode]
    /\ Limited \subseteq Interface
    /\ Grace \in Nat /\ MAX_QUEUED_ANNOUNCES \in Nat

VARIABLES
    announce_queue,   \* of each interface
    capped,           \* interfaces whose announce_allowed_at may be ahead
    rate              \* the entry of the destination in each node's
                      \* _announce_rate_table

interfaceVars == <<announce_queue, capped, rate>>

Of(n) == { i \in Interface : i[1] = n }

InterfacesInit ==
    /\ announce_queue = [i \in Interface |-> <<>>]
    /\ capped = {}
    /\ rate = [n \in Node |-> None]

-----------------------------------------------------------------------------
(* Modes. *)

\* Does the mode of interface i let an announce out that came in through from?
\* One of a destination of the node itself passes everywhere but on an access
\* point.
LetsOut(i, from, local) ==
    CASE Mode[i] = "ACCESS_POINT" -> FALSE
      [] Mode[i] = "ROAMING" ->
            local \/ (from # None
                      /\ Mode[from] \notin {"NONE", "ROAMING", "BOUNDARY"})
      [] Mode[i] = "BOUNDARY" ->
            local \/ (from # None /\ Mode[from] \notin {"NONE", "ROAMING"})
      [] OTHER -> TRUE

-----------------------------------------------------------------------------
(* The announce cap, when announce_allowed_at is ahead on the interfaces in *)
(* early.                                                                   *)

\* The cap is for announces that are passed on.
CapApplies(i, hops) ==
    hops > 0 /\ Mode[i] \notin {"ACCESS_POINT", "ROAMING", "BOUNDARY"}

Blocked(i, early) == announce_queue[i] # <<>> \/ i \in early

\* A queue has one entry for a destination, its newest announce, unless the
\* queue is full, when nothing changes.
add_announce(q, a) ==
    IF Len(q) >= MAX_QUEUED_ANNOUNCES THEN q
    ELSE IF \A k \in DOMAIN q : q[k].dest # a.dest THEN Append(q, a)
    ELSE [k \in DOMAIN q |-> IF q[k].dest = a.dest /\ a.emission > q[k].emission
                             THEN a ELSE q[k]]

\* Where node n sends the announce a that came in through from.
SentOn(n, a, from, local, early) ==
    { i \in Of(n) : LetsOut(i, from, local)
                    /\ ~(CapApplies(i, a.hops) /\ Blocked(i, early)) }

\* The branch of outbound() for an announce.
outbound_announce(n, a, from, local, early) ==
    LET capping == { i \in Of(n) : LetsOut(i, from, local) /\ CapApplies(i, a.hops) }
    IN  /\ announce_queue' = [i \in Interface |->
              IF i \in capping /\ Blocked(i, early)
              THEN add_announce(announce_queue[i], a) ELSE announce_queue[i]]
        /\ capped' = capped \union { i \in capping : ~Blocked(i, early) }

\* Where request_path() sends a request that is passed on: announces that wait
\* or were just sent block it.
RequestedOn(n, early) == { i \in Of(n) : ~Blocked(i, early) }

drop_announce_queues(n) ==
    /\ \E i \in Of(n) : announce_queue[i] # <<>>
    /\ announce_queue' = [i \in Interface |->
                            IF i[1] = n THEN <<>> ELSE announce_queue[i]]
    /\ UNCHANGED <<capped, rate>>

-----------------------------------------------------------------------------
(* The announce rate limit. *)

\* RateEntry
NewRate == [violations |-> 0, blocked |-> FALSE]

\* The entry after an announce that came sooner than the rate target or not.
Judged(entry, fast) ==
    LET v == IF fast THEN entry.violations + 1
             ELSE IF entry.violations > 0 THEN entry.violations - 1 ELSE 0
    IN  [violations |-> v, blocked |-> v > Grace]

\* The entries that may follow an accepted announce at node n on interface i;
\* a block may have ended, or not.
Rated(n, i, response) ==
    IF response \/ i \notin Limited THEN {rate[n]}
    ELSE IF rate[n] = None THEN {NewRate}
    ELSE { Judged(rate[n], fast) : fast \in BOOLEAN }
         \union IF rate[n].blocked THEN {rate[n]} ELSE {}

\* The announce is kept from the announce table.
RateBlocked(i, response, entry) ==
    ~response /\ i \in Limited /\ entry.blocked

InterfacesTypeOK ==
    /\ \A i \in Interface :
          /\ Len(announce_queue[i]) <= MAX_QUEUED_ANNOUNCES
          /\ \A j, k \in DOMAIN announce_queue[i] :
                announce_queue[i][j].dest = announce_queue[i][k].dest => j = k
    /\ capped \subseteq Interface
    /\ \A n \in Node : rate[n] # None =>
          /\ rate[n].violations \in Nat
          /\ rate[n].blocked <=> rate[n].violations > Grace

=============================================================================
