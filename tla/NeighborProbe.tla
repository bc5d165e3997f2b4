--------------------------- MODULE NeighborProbe ----------------------------
(***************************************************************************)
(* Neighbour liveness in Transport.cpp: packets sent through a neighbour   *)
(* and proofs that come back through it are counted, a neighbour that      *)
(* looks silent is sent a probe, and the outcome of the probe, which is    *)
(* the conclusion of a receipt (Receipts), is the verdict on the path that *)
(* leads through the neighbour.                                            *)
(*                                                                         *)
(* There is one destination beside the neighbours; its path may change.    *)
(* A probe is sent inside jobs(), where outbound() waits for jobs() to     *)
(* end: TransportJobs shows that a node with one thread never gets out of  *)
(* that wait.  What follows is what the code does where the wait ends.     *)
(* That some interface takes the probe is assumed: otherwise receipt() is  *)
(* empty and set_timeout() fails its assertion.                            *)
(*                                                                         *)
(* Times are kept as what the scan asks of them.  blamed, disturbed and   *)
(* answered are history variables.                                         *)
(***************************************************************************)
EXTENDS Receipts

CONSTANTS
    Neighbor,
    Known,            \* neighbours whose identity recall() finds
    Route,            \* the way to the destination through each neighbour
    MIN_PKTS,         \* NEIGHBOR_SUSPICION_MIN_PKTS
    MaxEvents         \* bound on path changes, failed links and passing time

ASSUME ProbeAssumption ==
    /\ IsFiniteSet(Neighbor) /\ Known \subseteq Neighbor
    /\ \A n \in Neighbor :
          Route[n] \in Seq(ToSet(Route[n])) /\ Len(Route[n]) > 0 /\ Route[n][1] = n
    /\ MIN_PKTS \in Nat \ {0} /\ MaxEvents \in Nat
    /\ Purpose = Neighbor \union {"application"} /\ "application" \notin Neighbor
    /\ None \notin Purpose                    \* every destination has a key

VARIABLES
    stats,            \* _neighbor_stats
    via,              \* _received_from of the path, "none" without a path
    verdict,          \* its entry in _path_states
    blamed,           \* neighbours whose probe failed since the path was made
    disturbed,        \* neighbours with a failed link or dropped statistics
    answered,         \* the last probe of each neighbour that was answered
    events

probeVars == <<stats, via, verdict, blamed, disturbed, answered, events>>
vars == <<receiptVars, probeVars>>

Absent == [tracked |-> FALSE, forwarded |-> 0, credit |-> FALSE, age |-> "recent",
           pending |-> FALSE, limited |-> FALSE]

NeighborStat ==
    [tracked: BOOLEAN,
     forwarded: 0 .. MIN_PKTS,                \* packets_forwarded, capped
     credit: BOOLEAN,                         \* last_proof_at is recent enough
     age: {"recent", "idle", "stale"},        \* of last_packet_at
     pending: BOOLEAN,                        \* probe_pending
     limited: BOOLEAN]                        \* last_probe_at is too recent

Happens == events < MaxEvents /\ events' = events + 1

-----------------------------------------------------------------------------
(* Statistics. *)

\* _record_neighbor_packet(): an earlier proof may be too old now to count.
Forwarded(s, credit) ==
    [s EXCEPT !.tracked = TRUE,
              !.forwarded = IF @ < MIN_PKTS THEN @ + 1 ELSE @,
              !.age = "recent",
              !.credit = credit]

\* outbound() with a path through the neighbour, and without one.  There is
\* never a path to a link.
SendPacket(link) ==
    /\ NewReceipts(<<"application">>, link,
                   <<IF via = "none" THEN <<"end">> ELSE Route[via]>>)
    /\ IF via = "none" \/ link THEN UNCHANGED stats
       ELSE \E credit \in {FALSE, stats[via].credit} :
               stats' = [stats EXCEPT ![via] = Forwarded(@, credit)]
    /\ UNCHANGED <<via, verdict, blamed, disturbed, answered, events>>

\* resend(): packed again, the packet has a new hash and a receipt of its own,
\* while the first one waits on.
resend(link) ==
    /\ \E i \in Sent : receipt[i].for = "application" /\ receipt[i].link = link
    /\ SendPacket(link)

\* _record_neighbor_proof(): a proof is relayed to a packet that was
\* relayed through the neighbour, one that outbound() did not count.
record_neighbor_proof(n) ==
    /\ stats[n].tracked
    /\ stats' = [stats EXCEPT ![n].credit = TRUE]
    /\ UNCHANGED <<receiptVars, via, verdict, blamed, disturbed, answered,
                   events>>

\* Time passes for the statistics of a neighbour.
Age(n) ==
    /\ Happens
    /\ stats[n].tracked
    /\ \/ stats' = [stats EXCEPT ![n].age = IF @ = "recent" THEN "idle" ELSE "stale"]
       \/ stats[n].limited /\ stats' = [stats EXCEPT ![n].limited = FALSE]
    /\ UNCHANGED <<receiptVars, via, verdict, blamed, disturbed, answered>>

\* remove_path() for the neighbour as a destination.
DropStats(n) ==
    /\ Happens
    /\ stats[n].tracked
    /\ stats' = [stats EXCEPT ![n] = Absent]
    /\ disturbed' = disturbed \union {n}
    /\ UNCHANGED <<receiptVars, via, verdict, blamed, answered>>

\* An announce replaces the path, or the path is removed.
InstallPath(n) ==
    /\ Happens
    /\ via' = n /\ verdict' = "unknown" /\ blamed' = {}
    /\ UNCHANGED <<receiptVars, stats, disturbed, answered>>

-----------------------------------------------------------------------------
(* Probes. *)

OpenProbes(n) == { i \in Open : receipt[i].for = n }

\* _dispatch_neighbor_probe() for each of ns, those whose identity is known.
Dispatch(base, ns) ==
    LET ps == SetToSeq(ns \intersect Known) IN
    /\ NewReceipts(ps, FALSE, [k \in DOMAIN ps |-> <<ps[k]>>])
    /\ stats' = [n \in Neighbor |->
                   IF n \in ToSet(ps)
                   THEN [base[n] EXCEPT !.tracked = TRUE, !.pending = TRUE,
                                        !.limited = TRUE]
                   ELSE base[n]]

\* A plausible slip: the scan does not look whether a probe is open.
SuspiciousAgain(s) ==
    /\ s.tracked /\ s.age = "recent" /\ s.forwarded >= MIN_PKTS
    /\ ~s.credit /\ ~s.limited

\* The conditions of _scan_neighbor_stats().
Suspicious(s) ==
    /\ s.tracked
    /\ s.age = "recent"
    /\ s.forwarded >= MIN_PKTS
    /\ ~s.credit
    /\ ~s.pending
    /\ ~s.limited

\* _scan_neighbor_stats(): stale counters are reset, suspects are probed.
scan_neighbor_stats ==
    LET base == [n \in Neighbor |->
                   IF stats[n].age = "stale"
                   THEN [stats[n] EXCEPT !.forwarded = 0] ELSE stats[n]]
        suspects == { n \in Neighbor : Suspicious(base[n]) }
    IN  /\ base # stats \/ suspects # {}
        /\ Dispatch(base, suspects)
        /\ UNCHANGED <<via, verdict, blamed, disturbed, answered, events>>

\* The cull of the link table probes the next hop of a link that never came
\* up, whether or not a probe is open or was sent a moment ago.
LinkFails(n) ==
    /\ Happens
    /\ Dispatch(stats, {n})
    /\ disturbed' = disturbed \union {n}
    /\ UNCHANGED <<via, verdict, blamed, answered>>

\* The node that packet i is for.
LastNode(i) == IF receipt[i].for \in Neighbor THEN receipt[i].for ELSE "end"

\* _neighbor_probe_delivered() and _validate_neighbor().
ReceiveProofOf(i) ==
    \E c \in { Proves(receipt[i].link, ProofOf(i, explicit)) : explicit \in BOOLEAN },
       n \in {receipt[i].for} :
        /\ receipt[i].returns
        /\ { answer \in BOOLEAN : WillProve(Endpoint(n), answer) } # {}
        /\ receipt[i].link \/ Delivered(receipt[i].arrived, LastNode(i), Endpoint(n))
        /\ ReceiveProof(i, c)
        /\ IF i \in c /\ n \in Neighbor
           THEN /\ stats' = IF stats[n].tracked
                            THEN [stats EXCEPT ![n].pending = FALSE,
                                               ![n].forwarded = 0]
                            ELSE stats
                /\ verdict' = IF via = n THEN "responsive" ELSE verdict
                /\ answered' = [answered EXCEPT ![n] = i]
           ELSE UNCHANGED <<stats, verdict, answered>>
        /\ UNCHANGED <<via, blamed, disturbed, events>>

\* _invalidate_neighbor() for each of ns.
Demoted(ns) == IF via \in ns THEN "unresponsive" ELSE verdict

\* A plausible slip: the flag is cleared only for a probe that timed out
\* itself, not for one that was taken out of the list.
ConcludedDue(due) == { receipt[i].for : i \in due }

\* The neighbours whose probe concludes in the receipts pass.
ConcludedFor(due) == { receipt[i].for : i \in Culled \union due }

\* A plausible slip: only the length of the list is looked at.
PassCullsOnly ==
    /\ ReceiptsPass({})
    /\ Culled # {}
    /\ \E ns \in {Neighbor \intersect ConcludedFor({})} :
          /\ stats' = [n \in Neighbor |->
                         IF n \in ns THEN [stats[n] EXCEPT !.pending = FALSE]
                                     ELSE stats[n]]
          /\ verdict' = Demoted(ns)
          /\ blamed' = blamed \union ns
    /\ UNCHANGED <<via, disturbed, answered, events>>

\* The receipts pass, with _neighbor_probe_timed_out().
receipts_pass ==
    \E due \in SUBSET Listed :
        /\ ReceiptsPass(due)
        /\ Culled \union due # {}
        /\ \E ns \in {Neighbor \intersect ConcludedFor(due)} :
              /\ stats' = [n \in Neighbor |->
                             IF n \in ns THEN [stats[n] EXCEPT !.pending = FALSE]
                                         ELSE stats[n]]
              /\ verdict' = Demoted(ns)
              /\ blamed' = blamed \union ns
        /\ UNCHANGED <<via, disturbed, answered, events>>

-----------------------------------------------------------------------------

Init ==
    /\ ReceiptsInit
    /\ stats = [n \in Neighbor |-> Absent]
    /\ via \in Neighbor
    /\ verdict = "unknown"
    /\ blamed = {} /\ disturbed = {}
    /\ answered = [n \in Neighbor |-> 0]
    /\ events = 0

Next ==
    \/ \E link \in BOOLEAN : SendPacket(link) \/ resend(link)
    \/ \E n \in Neighbor :
          \/ record_neighbor_proof(n) \/ Age(n) \/ DropStats(n) \/ LinkFails(n)
    \/ \E n \in Neighbor \union {"none"} : InstallPath(n)
    \/ scan_neighbor_stats
    \/ receipts_pass
    \/ \E i \in Sent : ReceiveProofOf(i)

Spec == Init /\ [][Next]_vars

\* jobs() keeps running, and every receipt times out in the end.
FairSpec == Spec /\ WF_vars(receipts_pass)

-----------------------------------------------------------------------------
(* Properties. *)

\* Type invariant.
TypeOK ==
    /\ ReceiptsTypeOK
    /\ stats \in [Neighbor -> NeighborStat]
    /\ via \in Neighbor \union {"none"}
    /\ verdict \in {"unknown", "responsive", "unresponsive"}
    /\ blamed \subseteq Neighbor /\ disturbed \subseteq Neighbor
    /\ answered \in [Neighbor -> 0 .. MaxSent]
    /\ events \in 0 .. MaxEvents

\* A path is unresponsive only if a probe of the neighbour it leads through
\* now failed since the path was installed: neither a late timeout nor a
\* probe of the neighbour it led through before is held against it.
DemotedIsBlamed == verdict = "unresponsive" => via \in blamed

\* A neighbour whose probe is noted as pending has a probe open: otherwise it
\* would never be probed again.
PendingIsOpen == \A n \in Neighbor : stats[n].pending => OpenProbes(n) # {}

\* The books are right: every receipt is concluded once and waits in the list
\* until then, by the proof of the packet sent and by no other, a pending
\* probe is an open one, and an unresponsive path has a failed probe of its own
\* neighbour to show.
Accounted ==
    /\ TypeOK /\ ConcludedOnce /\ ProofIsRecognised
    /\ PendingIsOpen /\ DemotedIsBlamed

\* The timeout of a probe does not demote a neighbour that has answered a
\* later probe, unless a link through it failed, which has it probed again at
\* once, or its statistics were dropped: the scan alone never has two probes
\* of one neighbour open.
NoStaleDemotion ==
    [][\A n \in Neighbor \ disturbed, i \in Listed :
          (receipt[i].for = n /\ receipt'[i].status \in {"FAILED", "CULLED"})
              => answered[n] < i]_vars

\* Every packet sent is concluded.
Concludes == \A i \in 1 .. MaxSent : (i \in Sent) ~> (i \in Sent \ Open)

=============================================================================
