----------------------------- MODULE PathTable -----------------------------
(***************************************************************************)
(* The path table of Transport.cpp and the responsiveness verdicts kept    *)
(* beside it: which announces install or replace a path (inbound()), which *)
(* events mark a path responsive or unresponsive, and how paths go away.   *)
(*                                                                         *)
(* path is _new_path_table, a microStore record per destination, written   *)
(* and read back through the codec of DestinationEntry.cpp; pstate is      *)
(* _path_states, an in-memory map that outlives the records it speaks of.  *)
(* An entry is only usable while the interface it was heard on is          *)
(* registered (DestinationEntry::operator bool).                           *)
(*                                                                         *)
(* heard, clean and judged are history variables no action reads.          *)
(***************************************************************************)
EXTENDS Naturals, Sequences

CONSTANTS
    Dest,                 \* destination hashes
    Neighbor,             \* values of received_from: the transport id of an
                          \* announce, or its destination when it has none
    Iface,                \* interfaces
    Blob,                 \* announce random blobs
    Emitted,              \* the emission time bytes 5..9 of a blob encode
    PathTime,             \* path lifetime by mode of the receiving interface
    WireHops,             \* hop counts announces arrive with
    PATHFINDER_M,
    MAX_RANDOM_BLOBS,
    PERSIST_RANDOM_BLOBS,
    NoPath,               \* what get() yields for an unknown destination
    MaxTime               \* bound on the clock

ASSUME BlobAssumption == Emitted \in [Blob -> Nat]
ASSUME TimeAssumption == PathTime \in [Iface -> Nat] /\ MaxTime \in Nat
ASSUME HopAssumption ==
    /\ WireHops \subseteq 0 .. 255
    /\ PATHFINDER_M \in Nat
ASSUME CapAssumption ==
    /\ MAX_RANDOM_BLOBS \in Nat \ {0}
    /\ PERSIST_RANDOM_BLOBS \in Nat \ {0}

VARIABLES
    path,      \* _new_path_table
    pstate,    \* _path_states
    ifaces,    \* _interfaces: the registered interfaces
    now,       \* OS::time()
    heard,     \* history: the blobs accepted since d's entry was created
    clean,     \* history: no announce was accepted for d's entry while the
               \* entry was unresponsive or expired
    judged     \* history: the last verdict on d was given on d's entry

vars == <<path, pstate, ifaces, now, heard, clean, judged>>

-----------------------------------------------------------------------------

Announces ==
    [dest: Dest, blob: Blob, from: Neighbor, wire: WireHops, iface: Iface]

Entry ==
    [hops: Nat, from: Neighbor, blobs: Seq(Blob), blob: Blob,
     expires: Nat, iface: Iface]

ASSUME NoPathAssumption == NoPath \notin Entry

States == {"none", "unknown", "unresponsive", "responsive"}

\* DestinationEntry::operator bool on what get() returns
Valid(d) == path[d] # NoPath /\ path[d].iface \in ifaces

path_is_unresponsive(d) == pstate[d] = "unresponsive"

\* packet.hops(packet.hops() + 1) on a uint8_t
Hops(a) == (a.wire + 1) % 256

Heard(b, bs) == \E i \in DOMAIN bs : bs[i] = b

\* announce_emitted > timebase_from_random_blobs(random_blobs), and equally
\* announce_emitted > path_announce_emitted: the loop over the blobs stops
\* at the first one that is not older.
NewerThanAll(b, bs) == \A i \in DOMAIN bs : Emitted[b] > Emitted[bs[i]]

\* announce_emitted == path_announce_emitted: the blob the loop stops at
\* has the emission time of b.
SameEmission(b, bs) ==
    \E i \in DOMAIN bs :
        /\ Emitted[bs[i]] = Emitted[b]
        /\ \A j \in 1 .. i - 1 : Emitted[bs[j]] < Emitted[b]

Newest(bs, cap) ==
    IF Len(bs) > cap THEN SubSeq(bs, Len(bs) - cap + 1, Len(bs)) ELSE bs

\* A plausible slip in the blob list: the oldest blobs are kept.
RememberOldest(bs, b) ==
    IF Heard(b, bs) \/ Len(bs) >= PERSIST_RANDOM_BLOBS THEN bs ELSE Append(bs, b)

\* The blob list of the replacement: capped at MAX_RANDOM_BLOBS by inbound(),
\* and at PERSIST_RANDOM_BLOBS by the codec on every put.
Remember(bs, b) ==
    IF Heard(b, bs)
      THEN Newest(bs, PERSIST_RANDOM_BLOBS)
      ELSE Newest(Newest(Append(bs, b), MAX_RANDOM_BLOBS), PERSIST_RANDOM_BLOBS)

\* A plausible slip: an announce as old as the path counts as fresh.
FreshOrEqual(a) ==
    LET e == path[a.dest]
    IN  /\ Valid(a.dest)
        /\ ~ Heard(a.blob, e.blobs)
        /\ \/ \A i \in DOMAIN e.blobs : Emitted[a.blob] >= Emitted[e.blobs[i]]
           \/ Hops(a) > e.hops /\ now >= e.expires

\* The three branches that call mark_path_unknown_state: not heard before,
\* and newer than what we have; an expired path also yields to an older
\* announce, but only to one from further away.
Fresh(a) ==
    LET e == path[a.dest]
    IN  /\ Valid(a.dest)
        /\ ~ Heard(a.blob, e.blobs)
        /\ \/ NewerThanAll(a.blob, e.blobs)
           \/ Hops(a) > e.hops /\ now >= e.expires

\* should_add, before the blackhole filter.  An unresponsive path yields to
\* any announce, with RNS_BLOCK_UNRESPONSIVE_ANNOUNCE; upstream only does so
\* for a further one of the same emission.
Acceptable(a) ==
    /\ Hops(a) < PATHFINDER_M + 1
    /\ Valid(a.dest) =>
          \/ Fresh(a)
          \/ /\ Hops(a) > path[a.dest].hops /\ now < path[a.dest].expires
             /\ SameEmission(a.blob, path[a.dest].blobs)
             /\ path_is_unresponsive(a.dest)
          \/ path_is_unresponsive(a.dest)

NewEntry(a) ==
    [hops    |-> Hops(a),
     from    |-> a.from,
     blobs   |-> Remember(IF Valid(a.dest) THEN path[a.dest].blobs ELSE <<>>, a.blob),
     blob    |-> a.blob,
     expires |-> now + PathTime[a.iface],
     iface   |-> a.iface]

-----------------------------------------------------------------------------

Init ==
    /\ path = [d \in Dest |-> NoPath]
    /\ pstate = [d \in Dest |-> "none"]
    /\ ifaces = Iface
    /\ now = 0
    /\ heard = [d \in Dest |-> {}]
    /\ clean = [d \in Dest |-> TRUE]
    /\ judged = [d \in Dest |-> FALSE]

\* What an installation does to the histories.
Installed(a) ==
    LET d == a.dest
        replaced == Valid(d)
    IN  /\ heard' = [heard EXCEPT ![d] = (IF replaced THEN heard[d] ELSE {}) \union {a.blob}]
        /\ clean' = [clean EXCEPT ![d] =
              replaced => clean[d] /\ ~ path_is_unresponsive(d) /\ now < path[d].expires]
        /\ judged' = [judged EXCEPT ![d] = FALSE]

\* A plausible slip: the state of a replaced or returning path is kept.
InstallKeepingState(a) ==
    /\ a.iface \in ifaces
    /\ Acceptable(a)
    /\ path' = [path EXCEPT ![a.dest] = NewEntry(a)]
    /\ pstate' = IF Fresh(a) THEN [pstate EXCEPT ![a.dest] = "unknown"] ELSE pstate
    /\ Installed(a)
    /\ UNCHANGED <<ifaces, now>>

\* inbound(), ANNOUNCE: the announce is accepted and put() succeeds.
InstallPath(a) ==
    /\ a.iface \in ifaces
    /\ Acceptable(a)
    /\ path' = [path EXCEPT ![a.dest] = NewEntry(a)]
    /\ pstate' = [pstate EXCEPT ![a.dest] = "unknown"]
    /\ Installed(a)
    /\ UNCHANGED <<ifaces, now>>

\* The announce passes should_add, but its identity is blackholed, or put()
\* fails or throws.  The state was already reset where the announce is fresh.
RefuseAnnounce(a) ==
    /\ a.iface \in ifaces
    /\ Acceptable(a)
    /\ pstate' = IF Fresh(a) THEN [pstate EXCEPT ![a.dest] = "unknown"] ELSE pstate
    /\ judged' = IF Fresh(a) THEN [judged EXCEPT ![a.dest] = FALSE] ELSE judged
    /\ UNCHANGED <<path, ifaces, now, heard, clean>>

IgnoreAnnounce(a) ==
    /\ a.iface \in ifaces
    /\ ~ Acceptable(a)
    /\ UNCHANGED vars

-----------------------------------------------------------------------------
(* Verdicts.                                                               *)

Mark(ds, s) ==
    /\ pstate' = [d \in Dest |-> IF d \in ds /\ Valid(d) THEN s ELSE pstate[d]]
    /\ judged' = [d \in Dest |-> (d \in ds /\ Valid(d)) \/ judged[d]]
    /\ UNCHANGED <<path, ifaces, now, heard, clean>>

Via(nb) == {d \in Dest : path[d] # NoPath /\ path[d].from = nb}

mark_path_unresponsive(d) == Mark({d}, "unresponsive")

validate_neighbor(nb) == Mark(Via(nb), "responsive")

invalidate_neighbor(nb) == Mark(Via(nb), "unresponsive")

-----------------------------------------------------------------------------
(* How paths go away.                                                      *)

Forget(ds) ==
    /\ path' = [d \in Dest |-> IF d \in ds THEN NoPath ELSE path[d]]
    /\ heard' = [d \in Dest |-> IF d \in ds THEN {} ELSE heard[d]]
    /\ clean' = [d \in Dest |-> d \in ds \/ clean[d]]
    /\ judged' = [d \in Dest |-> d \notin ds /\ judged[d]]

\* expire_path() and remove_path(): the record is removed, the state stays.
expire_path(d) ==
    /\ path[d] # NoPath
    /\ Forget({d})
    /\ UNCHANGED <<pstate, ifaces, now>>

\* External: the store drops records by time to live, by their number
\* (set_max_recs) and when a segment is compacted.
StoreDrop(d) == expire_path(d)

\* jobs(): states of destinations with no record are erased.
CullPathStates ==
    /\ \E d \in Dest : pstate[d] # "none" /\ path[d] = NoPath
    /\ pstate' = [d \in Dest |-> IF path[d] = NoPath THEN "none" ELSE pstate[d]]
    /\ UNCHANGED <<path, ifaces, now, heard, clean, judged>>

register_interface(i) ==
    /\ i \notin ifaces
    /\ ifaces' = ifaces \union {i}
    /\ UNCHANGED <<path, pstate, now, heard, clean, judged>>

deregister_interface(i) ==
    /\ i \in ifaces
    /\ ifaces' = ifaces \ {i}
    /\ UNCHANGED <<path, pstate, now, heard, clean, judged>>

\* A reboot: the states are lost, the records the store had not written too.
Restart ==
    \E lost \in SUBSET Dest :
        /\ Forget(lost)
        /\ pstate' = [d \in Dest |-> "none"]
        /\ ifaces' = {}
        /\ UNCHANGED now

Tick ==
    /\ now < MaxTime
    /\ now' = now + 1
    /\ UNCHANGED <<path, pstate, ifaces, heard, clean, judged>>

Next ==
    \/ \E a \in Announces : InstallPath(a) \/ RefuseAnnounce(a) \/ IgnoreAnnounce(a)
    \/ \E d \in Dest : mark_path_unresponsive(d) \/ expire_path(d) \/ StoreDrop(d)
    \/ \E nb \in Neighbor : validate_neighbor(nb) \/ invalidate_neighbor(nb)
    \/ \E i \in Iface : register_interface(i) \/ deregister_interface(i)
    \/ CullPathStates
    \/ Restart
    \/ Tick

Spec == Init /\ [][Next]_vars

-----------------------------------------------------------------------------

\* Type invariant.  A stored path is at most PATHFINDER_M hops long, and
\* remembers at least the blob it was installed by and at most what the
\* codec keeps.
TypeOK ==
    /\ path \in [Dest -> Entry \union {NoPath}]
    /\ \A d \in Dest : path[d] # NoPath =>
          /\ path[d].hops <= PATHFINDER_M
          /\ Len(path[d].blobs) \in 1 .. PERSIST_RANDOM_BLOBS
    /\ pstate \in [Dest -> States]
    /\ ifaces \in SUBSET Iface
    /\ now \in 0 .. MaxTime
    /\ heard \in [Dest -> SUBSET Blob]
    /\ clean \in [Dest -> BOOLEAN]
    /\ judged \in [Dest -> BOOLEAN]

\* d's usable, unexpired path, on which no failure was reported, is replaced.
LiveReplaced(d) ==
    /\ Valid(d) /\ now < path[d].expires /\ ~ path_is_unresponsive(d)
    /\ path'[d] # path[d] /\ path'[d] # NoPath

\* A live path is only ever replaced by an announce that was emitted after
\* every announce its entry remembers, whatever the hop counts are.
NeverReplacedByOlder ==
    [][\A d \in Dest : LiveReplaced(d) => NewerThanAll(path'[d].blob, path[d].blobs)]_vars

\* Replay protection.  The entry remembers only PERSIST_RANDOM_BLOBS blobs,
\* and yet a live path is never replaced by an announce that was accepted
\* for it before, even one it no longer remembers, as long as no announce
\* was accepted for it while it was unresponsive or expired.
ReplayProtected ==
    [][\A d \in Dest :
          LiveReplaced(d) /\ clean[d] => path'[d].blob \notin heard[d]]_vars

\* A verdict of _path_states is about the path that is installed: no path
\* inherits one that was given on an earlier path to its destination, though
\* the map outlives the records.
VerdictIsCurrent ==
    \A d \in Dest :
        path[d] # NoPath /\ pstate[d] \in {"responsive", "unresponsive"} => judged[d]

-----------------------------------------------------------------------------
(* The inductive invariant behind ReplayProtected.                         *)

\* A clean entry has not heard anything newer than the newest blob it
\* remembers.
NewestKept ==
    \A d \in Dest :
        path[d] # NoPath /\ clean[d] =>
            \A b \in heard[d] : \E i \in DOMAIN path[d].blobs :
                Emitted[b] <= Emitted[path[d].blobs[i]]
=============================================================================
