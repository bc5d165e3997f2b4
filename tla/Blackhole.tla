----------------------------- MODULE Blackhole -----------------------------
(***************************************************************************)
(* The blackhole list of Transport.cpp: identities whose destinations this *)
(* node keeps no paths to, until a time or for ever, and the file          *)
(* blackhole_local the list survives restarts in.                          *)
(*                                                                         *)
(* A path is just its destination here.  Identity::recall() falls back on  *)
(* the announce stored with a path, so it finds the identity of every      *)
(* destination in the path table; for others it depends on the known       *)
(* destinations store having kept what validate_announce() put there.      *)
(*                                                                         *)
(* whole, loaded and unseen are history variables no action reads.         *)
(***************************************************************************)
EXTENDS Naturals

CONSTANTS
    Identity,      \* identity hashes
    Dest,          \* destination hashes
    Owner,         \* the identity of a destination
    MaxTime        \* bound on the clock

ASSUME OwnerAssumption == Owner \in [Dest -> Identity]
ASSUME TimeAssumption == MaxTime \in Nat

VARIABLES
    list,          \* _blackholed_identities: the identities in it
    until,         \* their _until; 0 is for ever
    blackhole_local,  \* the records of the file that can be read back
    funtil,        \* the until they were written with
    paths,         \* _new_path_table
    now,           \* OS::time()
    whole,         \* history: the last write of the file was complete
    loaded,        \* history: paths the store had when the node started
    unseen         \* history: paths accepted while recall() did not know
                   \* their identity

blackholeVars ==
    <<list, until, blackhole_local, funtil, paths, now, whole, loaded, unseen>>

-----------------------------------------------------------------------------

Times == 0 .. MaxTime

is_blackholed(i) == i \in list

\* The check of the expiry sweep, and of reload_blackhole().
Expired(t) == t > 0 /\ now > t

Blackholed(l, ds) == {d \in ds : Owner[d] \in l}

\* persist_blackhole(): every entry has this node as its source.  A write
\* that is cut short leaves the records before the cut readable.
persist_blackhole(l, u) ==
    \/ blackhole_local' = l /\ funtil' = u /\ whole' = TRUE
    \/ /\ blackhole_local' \in SUBSET l
       /\ funtil' = u
       /\ whole' = FALSE

Drop(ds) ==
    /\ paths' = paths \ ds
    /\ loaded' = loaded \ ds
    /\ unseen' = unseen \ ds

remove_blackholed_paths(l) == Drop(Blackholed(l, paths))

BlackholeInit ==
    /\ list = {}
    /\ until = [i \in Identity |-> 0]
    /\ blackhole_local = {}
    /\ funtil = [i \in Identity |-> 0]
    /\ paths = {}
    /\ now = 0
    /\ whole = TRUE
    /\ loaded = {}
    /\ unseen = {}

\* A plausible slip: until is taken for a duration.
BlackholeFor(i, t) ==
    /\ ~ is_blackholed(i)
    /\ list' = list \union {i}
    /\ until' = [until EXCEPT ![i] = IF t = 0 THEN 0 ELSE now + t]
    /\ persist_blackhole(list', until')
    /\ remove_blackholed_paths(list')
    /\ UNCHANGED now

\* A plausible slip: the paths that are in the table are not purged.
BlackholeNoPurge(i, t) ==
    /\ ~ is_blackholed(i)
    /\ list' = list \union {i}
    /\ until' = [until EXCEPT ![i] = t]
    /\ persist_blackhole(list', until')
    /\ UNCHANGED <<paths, now, loaded, unseen>>

\* blackhole_identity(identity_hash, until)
blackhole_identity(i, t) ==
    /\ ~ is_blackholed(i)
    /\ list' = list \union {i}
    /\ until' = [until EXCEPT ![i] = t]
    /\ persist_blackhole(list', until')
    /\ remove_blackholed_paths(list')
    /\ UNCHANGED now

\* A plausible slip: the file is not rewritten when an entry is lifted.
LiftInMemory(i) ==
    /\ is_blackholed(i)
    /\ list' = list \ {i}
    /\ until' = [until EXCEPT ![i] = 0]
    /\ UNCHANGED <<blackhole_local, funtil, whole, paths, now, loaded, unseen>>

unblackhole_identity(i) ==
    /\ is_blackholed(i)
    /\ list' = list \ {i}
    /\ until' = [until EXCEPT ![i] = 0]
    /\ persist_blackhole(list', until')
    /\ UNCHANGED <<paths, now, loaded, unseen>>

\* jobs(): expired entries leave the list; the file keeps them.
ExpirySweep ==
    /\ \E i \in list : Expired(until[i])
    /\ list' = {i \in list : ~ Expired(until[i])}
    /\ until' = [i \in Identity |-> IF i \in list' THEN until[i] ELSE 0]
    /\ UNCHANGED <<blackhole_local, funtil, whole, paths, now, loaded, unseen>>

\* inbound(): an announce for d that is otherwise to be added.  remembered:
\* recall() finds what validate_announce() put into the known destinations.
AcceptAnnounce(d, remembered) ==
    /\ (remembered \/ d \in paths) => ~ is_blackholed(Owner[d])
    /\ paths' = paths \union {d}
    /\ loaded' = loaded \ {d}
    /\ unseen' = IF remembered \/ d \in paths THEN unseen \ {d} ELSE unseen \union {d}
    /\ UNCHANGED <<list, until, blackhole_local, funtil, whole, now>>

\* The path expires, is removed or is evicted.
PathLost(d) ==
    /\ d \in paths
    /\ Drop({d})
    /\ UNCHANGED <<list, until, blackhole_local, funtil, whole, now>>

\* A restart.  start() calls reload_blackhole() before it opens the path
\* store: the purge there sees an empty table, and then the records of the
\* store appear in it, all but those that were never written.
Restart(kept) ==
    /\ list' = {i \in blackhole_local : ~ Expired(funtil[i])}
    /\ until' = [i \in Identity |-> IF i \in list' THEN funtil[i] ELSE 0]
    /\ paths' = kept
    /\ loaded' = kept
    /\ unseen' = {}
    /\ UNCHANGED <<blackhole_local, funtil, whole, now>>

Tick ==
    /\ now < MaxTime
    /\ now' = now + 1
    /\ UNCHANGED <<list, until, blackhole_local, funtil, whole, paths, loaded, unseen>>

BlackholeNext ==
    \/ \E i \in Identity, t \in Times : blackhole_identity(i, t)
    \/ \E i \in Identity : unblackhole_identity(i)
    \/ ExpirySweep
    \/ \E d \in Dest, remembered \in BOOLEAN : AcceptAnnounce(d, remembered)
    \/ \E d \in Dest : PathLost(d)
    \/ \E kept \in SUBSET paths : Restart(kept)
    \/ Tick

BlackholeSpec == BlackholeInit /\ [][BlackholeNext]_blackholeVars

-----------------------------------------------------------------------------

\* Type invariant.
BlackholeTypeOK ==
    /\ list \in SUBSET Identity
    /\ until \in [Identity -> Times]
    /\ blackhole_local \in SUBSET Identity
    /\ funtil \in [Identity -> Times]
    /\ paths \in SUBSET Dest
    /\ now \in Times
    /\ whole \in BOOLEAN
    /\ loaded \in SUBSET paths
    /\ unseen \in SUBSET paths

\* Blackholing takes effect: the path table has no path to a destination of
\* a blackholed identity, except those that start() loaded into it after its
\* purge, and those of announces whose identity could not be recalled.
NoBlackholedPath ==
    \A d \in paths : is_blackholed(Owner[d]) => d \in loaded \union unseen

\* A restart neither lifts a blackhole that is in force nor brings back one
\* that was lifted or has expired, as long as the last write of the file was
\* complete; the sweep does not rewrite the file.
RestartKeepsList ==
    [][\A kept \in SUBSET paths :
          Restart(kept) /\ whole =>
              /\ list' = {i \in list : ~ Expired(until[i])}
              /\ \A i \in list' : until'[i] = until[i]]_blackholeVars

\* "Loads the persisted blackhole list ... and then purges any path-table
\* entries associated with the loaded identities": after start() there are
\* none.
PurgedAtStart ==
    [][\A kept \in SUBSET paths : Restart(kept) => Blackholed(list', paths') = {}]_blackholeVars

-----------------------------------------------------------------------------
(* The inductive invariant behind RestartKeepsList.                        *)

\* The file has every entry of the list, and besides it only expired ones.
FileMatches ==
    whole =>
        /\ list \subseteq blackhole_local
        /\ \A i \in list : funtil[i] = until[i]
        /\ \A i \in blackhole_local \ list : Expired(funtil[i])
=============================================================================
