------------------------------ MODULE Resource ------------------------------
(***************************************************************************)
(* The transfer of a resource over a link (Resource.cpp, and the cases of  *)
(* Link::receive() that dispatch to it): the sender advertises it with the *)
(* first slice of its hashmap, the receiver asks for the parts in a window *)
(* that grows and shrinks, and for the further slices of the hashmap, and  *)
(* proves the whole.                                                       *)
(*                                                                         *)
(* A part is its index, its map hash is mh[part]; mh need not be           *)
(* injective.  Packets travel on a queue in each direction and may be      *)
(* lost, parts and proofs (which the packet filter lets pass) also         *)
(* doubled; unless inorder holds, one may overtake the one before it.      *)
(* Copies of the other packets are refused by the packet filter and by     *)
(* has_request_hash(), so the model has none.                              *)
(*                                                                         *)
(* Time is abstracted: a timeout comes when no packet is under way, and at *)
(* the sender only when the receiver has stopped asking; one that comes    *)
(* earlier, because it is shorter than what it waits for, counts as an     *)
(* interruption.  Rates are chosen freely from Rates.  tx.why, delivered,  *)
(* lost, faults and breaks are history variables.                          *)
(*                                                                         *)
(* The watchdogs are pumped by tick_resources(), which is public, and      *)
(* which jobs() calls in its guarded part: there what a watchdog sends     *)
(* waits in outbound() for jobs() to end, that is, for ever, as the node   *)
(* has one thread (TransportJobs).  A watchdog that has something to send  *)
(* therefore goes on only when the application pumps it, and nothing says  *)
(* that it does; pumped by jobs() it hangs its node.                       *)
(***************************************************************************)
EXTENDS Integers, Sequences, FiniteSets, SequencesExt, FiniteSetsExt

CONSTANTS
    N,                      \* parts of the resource
    HASHMAP_MAX_LEN,
    WINDOW, WINDOW_MIN, WINDOW_MAX_SLOW, WINDOW_MAX_VERY_SLOW, WINDOW_MAX_FAST,
    WINDOW_FLEXIBILITY, FAST_RATE_THRESHOLD, VERY_SLOW_RATE_THRESHOLD,
    MAX_RETRIES, MAX_ADV_RETRIES, PROOF_RETRIES,
    Offers,                 \* [mh, compressed, wanted]: what may be sent
    Rates,                  \* subset of {"fast", "moderate", "very slow"}
    InOrder,                \* subset of BOOLEAN: may packets overtake?
    Interruptions,          \* bound on cancels, teardowns and early timeouts
    MaxFaults               \* bound on lost, doubled and overtaking packets

Part == 0 .. N - 1
Hash == 0 .. N - 1
NoPart == -1                \* an empty slot of _parts, and the zero map hash

WINDOW_MAX == WINDOW_MAX_FAST
COLLISION_GUARD_SIZE == 2 * WINDOW_MAX + HASHMAP_MAX_LEN

ASSUME SizeAssumption == N \in Nat \ {0} /\ HASHMAP_MAX_LEN \in Nat \ {0}
ASSUME WindowAssumption ==
    /\ {WINDOW, WINDOW_MIN, WINDOW_MAX_SLOW, WINDOW_MAX_VERY_SLOW,
        WINDOW_MAX_FAST, WINDOW_FLEXIBILITY} \subseteq Nat \ {0}
    /\ WINDOW_MIN <= WINDOW /\ WINDOW <= WINDOW_MAX_SLOW
    /\ WINDOW_MAX_VERY_SLOW <= WINDOW_MAX_SLOW
    /\ WINDOW_MAX_SLOW <= WINDOW_MAX_FAST
    /\ HASHMAP_MAX_LEN <= WINDOW_MAX_FAST
ASSUME BoundAssumption ==
    /\ {FAST_RATE_THRESHOLD, VERY_SLOW_RATE_THRESHOLD, MAX_RETRIES,
        MAX_ADV_RETRIES, PROOF_RETRIES, Interruptions, MaxFaults} \subseteq Nat
    /\ InOrder \subseteq BOOLEAN
    /\ Offers \subseteq [mh: [Part -> Hash], compressed: BOOLEAN, wanted: BOOLEAN]

VARIABLES
    tx,         \* the sender's resource
    rx,         \* the receiver's resource
    down, up,   \* packets on their way to the receiver and to the sender
    active,     \* the link is ACTIVE (else CLOSED) at the ends "S" and "R"
    offer,      \* what is sent
    inorder,    \* no packet overtakes another in this behaviour
    busy,       \* _outgoing_resources holds another resource
    delivered,  \* history: how often the receiver's application got the payload
    hung,       \* ends whose only thread waits for itself
    lost,       \* history: a packet was lost
    faults,     \* losses and copies so far
    breaks      \* interruptions so far

vars == <<tx, rx, down, up, active, offer, inorder, busy, delivered,
          hung, lost, faults, breaks>>

setting == <<offer, inorder, hung, lost>>
world == <<setting, faults, breaks, busy>>

Runs(end) == end \notin hung

-----------------------------------------------------------------------------

Slots == [Part -> Part \union {NoPart}]

SenderStatus == {"NONE", "QUEUED", "ADVERTISED", "TRANSFERRING",
                 "AWAITING_PROOF", "COMPLETE", "FAILED"}
ReceiverStatus == {"NONE", "TRANSFERRING", "COMPLETE", "CORRUPT", "FAILED"}

Sender == [status: SenderStatus, sent: SUBSET Part, min: Nat, retries: Nat,
           why: {"", "timeout", "cancelled", "sequencing"}]

Receiver ==
    [status: ReceiverStatus, parts: Slots, known: SUBSET Part,
     height: -1 .. N - 1, outstanding: Nat, window: Nat, max: Nat, min: Nat,
     waiting: BOOLEAN, retries: Nat, answered: BOOLEAN, fast: Nat, slow: Nat]

ToReceiver == [t: {"ADV", "ICL", "CLOSE"}] \union [t: {"PART"}, n: Part]
                  \union [t: {"HMU"}, seg: Nat]
ToSender == [t: {"PRF", "RCL", "CLOSE"}]
                \union [t: {"REQ"}, more: BOOLEAN, last: Hash \union {NoPart},
                        want: SUBSET Hash]

mh == offer.mh

\* The slice of the hashmap with the given number: an advertisement has
\* slice 0 (ResourceAdvertisement::pack()), an update the one asked for.
Slice(seg) ==
    {i \in Part : seg * HASHMAP_MAX_LEN <= i /\ i < (seg + 1) * HASHMAP_MAX_LEN}

\* In _outgoing_resources: the sender's resource can be asked for parts.
Outgoing == tx.status \in {"ADVERTISED", "TRANSFERRING", "AWAITING_PROOF"}

\* In _incoming_resources.
Incoming == rx.status = "TRANSFERRING"

\* Packet::send(): nothing leaves on a closed link.
Send(end, queue, packets) == IF active[end] THEN queue \o packets ELSE queue

Advertisement == [t |-> "ADV"]

\* The packets with the parts in S, in ascending order.
PartPackets(S) ==
    {s \in [1 .. Cardinality(S) -> [t: {"PART"}, n: S]] :
        \A i, j \in DOMAIN s : i < j => s[i].n < s[j].n}

-----------------------------------------------------------------------------
(* The sender. *)

\* advertise_job(): the advertisement, unless another resource is under way.
advertise_job ==
    IF busy
    THEN tx' = [tx EXCEPT !.status = "QUEUED"] /\ UNCHANGED down
    ELSE /\ tx' = [tx EXCEPT !.status = "ADVERTISED",
                             !.retries = MAX_ADV_RETRIES]
         /\ down' = Send("S", down, <<Advertisement>>)

\* start(): parts and hashmap are made and the resource is advertised.
start ==
    /\ tx.status = "NONE"
    /\ active["S"] /\ Runs("S")
    /\ advertise_job
    /\ UNCHANGED <<rx, up, active, delivered, world>>

\* The other resource of the link is concluded.
OtherConcludes ==
    /\ busy /\ Runs("S")
    /\ busy' = FALSE
    /\ UNCHANGED <<tx, rx, down, up, active, delivered, setting, faults, breaks>>

\* The state of the sender's resource after cancel(), and the packet it sends.
Cancelled(t, why) == [t EXCEPT !.status = "FAILED", !.why = why]
CancelPacket == <<[t |-> "ICL"]>>

Faulty == faults < MaxFaults /\ faults' = faults + 1

Interrupts == breaks < Interruptions /\ breaks' = breaks + 1

\* No packet is under way to an end that will take it in.
Silence == (down = <<>> \/ ~Runs("R")) /\ (up = <<>> \/ ~Runs("S"))

\* The receiver may still ask for something.
Asking == Incoming /\ Runs("R")

\* A timer of the sender has run out.
SenderWaits ==
    /\ active["S"] /\ Runs("S")
    /\ \/ Silence /\ ~Asking /\ UNCHANGED breaks
       \/ ~(Silence /\ ~Asking) /\ Interrupts

\* A plausible slip: the advertisement is repeated for ever.
AdvertiseForEver ==
    /\ tx.status = "ADVERTISED"
    /\ SenderWaits
    /\ down' = Send("S", down, <<Advertisement>>)
    /\ UNCHANGED <<tx, rx, up, active, delivered, setting, faults, busy>>

\* __watchdog_job(), ADVERTISED.
advertisement_timeout ==
    /\ tx.status = "ADVERTISED"
    /\ SenderWaits
    /\ IF tx.retries = 0
       THEN /\ tx' = Cancelled(tx, "timeout")
            /\ down' = Send("S", down, CancelPacket)
       ELSE /\ tx' = [tx EXCEPT !.retries = @ - 1]
            /\ down' = Send("S", down, <<Advertisement>>)
    /\ UNCHANGED <<rx, up, active, delivered, setting, faults, busy>>

\* __watchdog_job(), TRANSFERRING at the initiator.
part_request_timeout ==
    /\ tx.status = "TRANSFERRING"
    /\ SenderWaits
    /\ tx' = Cancelled(tx, "timeout")
    /\ down' = Send("S", down, CancelPacket)
    /\ UNCHANGED <<rx, up, active, delivered, setting, faults, busy>>

\* __watchdog_job(), AWAITING_PROOF.
proof_timeout ==
    /\ tx.status = "AWAITING_PROOF"
    /\ SenderWaits
    /\ IF tx.retries = 0
       THEN /\ tx' = Cancelled(tx, "timeout")
            /\ down' = Send("S", down, CancelPacket)
       ELSE tx' = [tx EXCEPT !.retries = @ - 1] /\ UNCHANGED down
    /\ UNCHANGED <<rx, up, active, delivered, setting, faults, busy>>

SearchRange ==
    {i \in Part : tx.min <= i /\ i < tx.min + COLLISION_GUARD_SIZE}

\* Where the search for the last map hash of the receiver ends.
PartIndex(last) ==
    LET found == {i \in SearchRange : mh[i] = last}
    IN  IF found = {} THEN tx.min + Cardinality(SearchRange) ELSE Min(found) + 1

\* A plausible slip: the search starts where the receiver's hashmap ends,
\* not a window behind it.
MinBehindNothing(index) == index

\* _receiver_min_consecutive_height after a request for more of the hashmap.
receiver_min_consecutive_height(index) ==
    IF index - 1 - WINDOW_MAX > 0 THEN index - 1 - WINDOW_MAX ELSE 0

\* request(): the parts asked for that are in the search range are sent, and
\* the next slice of the hashmap.
request(req) ==
    LET wanted == {i \in SearchRange : mh[i] \in req.want}
        index  == PartIndex(req.last)
        sent   == tx.sent \union wanted
        wrong  == req.more /\ index % HASHMAP_MAX_LEN # 0
        update == [t |-> "HMU", seg |-> index \div HASHMAP_MAX_LEN]
        next   == [tx EXCEPT
                      !.sent = sent,
                      !.min = IF req.more
                              THEN receiver_min_consecutive_height(index) ELSE @,
                      !.status = "TRANSFERRING",
                      !.retries = MAX_RETRIES]
    IN  /\ tx' = IF wrong THEN Cancelled(next, "sequencing")
                 ELSE IF sent = Part
                 THEN [next EXCEPT !.status = "AWAITING_PROOF",
                                   !.retries = PROOF_RETRIES]
                 ELSE next
        /\ \E parts \in PartPackets(wanted) :
              down' = Send("S", down,
                           IF wrong THEN parts \o CancelPacket
                           ELSE IF req.more THEN Append(parts, update) ELSE parts)

\* A plausible slip: any word from the receiver is taken for its proof.
AnyWordProves(x) == x.t \in {"PRF", "RCL"}

\* validate_proof(): the proof covers the whole payload.
validate_proof(x) == x.t = "PRF"

\* The packet at position i of a queue is the next to arrive.
Takes(queue, i) ==
    \/ i = 1 /\ UNCHANGED faults
    \/ ~inorder /\ i = 2 /\ Faulty

\* RESOURCE_REQ, for a resource in _outgoing_resources.
ReceiveRequest(x) ==
    /\ x.t = "REQ" /\ Outgoing
    /\ request(x)
    /\ UNCHANGED active

\* RESOURCE_PRF: a valid proof concludes the resource.
ReceiveProof(x) ==
    /\ validate_proof(x) /\ Outgoing
    /\ tx' = [tx EXCEPT !.status = "COMPLETE"]
    /\ UNCHANGED <<down, active>>

\* LINKCLOSE: link_closed() cancels the resources of the link.
SenderClosed(x) ==
    /\ x.t = "CLOSE"
    /\ tx' = IF Outgoing THEN Cancelled(tx, "cancelled") ELSE tx
    /\ active' = [active EXCEPT !["S"] = FALSE]
    /\ UNCHANGED down

\* Link::receive() at the sender.  No case handles RESOURCE_RCL.
SenderReceives ==
    \E i \in DOMAIN up :
        LET x == up[i] IN
        /\ Runs("S")
        /\ Takes(up, i)
        /\ up' = RemoveAt(up, i)
        /\ \/ /\ active["S"]
              /\ ReceiveRequest(x) \/ ReceiveProof(x) \/ SenderClosed(x)
           \/ /\ active["S"] =>
                    /\ x.t # "CLOSE"
                    /\ (x.t = "REQ" \/ validate_proof(x)) => ~Outgoing
              /\ UNCHANGED <<tx, down, active>>
        /\ UNCHANGED <<rx, delivered, setting, breaks, busy>>

-----------------------------------------------------------------------------
(* The receiver. *)

\* The slots request_next() looks at, from the first one that is empty, up
\* to the first empty one whose map hash is not known.
Searched(r) == {i \in Part : r.height < i /\ i <= r.height + r.window}
Unknown(r) == {i \in Searched(r) : r.parts[i] = NoPart /\ i \notin r.known}
Wanted(r) ==
    {i \in Searched(r) :
        /\ r.parts[i] = NoPart
        /\ \A j \in Unknown(r) : i < j}

\* A plausible slip: the last part that was received stands for the last
\* map hash that is known.
LastReceived(r) == IF r.height < 0 THEN NoPart ELSE mh[r.height]

\* hashmap_height - 1: slices are known from the first on.
LastKnown(r) ==
    IF r.known = {} THEN NoPart ELSE mh[Cardinality(r.known) - 1]

\* request_next(): the receiver's resource and the packet it sends.
request_next(r) ==
    IF r.waiting
    THEN [rx |-> r, packets |-> <<>>]
    ELSE [rx |-> [r EXCEPT !.outstanding = Cardinality(Wanted(r)),
                           !.waiting = Unknown(r) # {},
                           !.answered = FALSE],
          packets |-> <<[t |-> "REQ", more |-> Unknown(r) # {},
                         last |-> IF Unknown(r) # {} THEN LastKnown(r)
                                                     ELSE NoPart,
                         want |-> {mh[i] : i \in Wanted(r)}]>>]

Requests(r) ==
    \E next \in {request_next(r)} :
        rx' = next.rx /\ up' = Send("R", up, next.packets)


\* hashmap_update(): a slice is written and the next parts are asked for.
hashmap_update(r, seg) ==
    Requests([r EXCEPT !.known = @ \union Slice(seg), !.waiting = FALSE])

Fresh ==
    [status |-> "TRANSFERRING", parts |-> [i \in Part |-> NoPart],
     known |-> {}, height |-> -1, outstanding |-> 0, window |-> WINDOW,
     max |-> WINDOW_MAX_SLOW, min |-> WINDOW_MIN, waiting |-> FALSE,
     retries |-> MAX_RETRIES, answered |-> FALSE, fast |-> 0, slow |-> 0]

\* accept(): unless the resource is being received already.
accept ==
    IF Incoming THEN UNCHANGED <<rx, up>> ELSE hashmap_update(Fresh, 0)

\* RESOURCE_ADV: the link's strategy, or the request the resource answers,
\* says whether it is accepted; one that is not is dropped without a word.
ReceiveAdvertisement(x) ==
    /\ x.t = "ADV"
    /\ IF offer.wanted THEN accept ELSE UNCHANGED <<rx, up>>
    /\ UNCHANGED <<active, delivered>>

\* A round was fast: after enough of them the window may grow further.
FastRound(r, rate) ==
    IF rate = "fast" /\ r.fast < FAST_RATE_THRESHOLD
    THEN [r EXCEPT !.fast = @ + 1,
                   !.max = IF r.fast + 1 = FAST_RATE_THRESHOLD
                           THEN WINDOW_MAX_FAST ELSE @]
    ELSE r

\* A round was very slow: after enough of them, and no fast one, the window
\* is to stay small.
SlowRound(r, rate) ==
    IF rate = "very slow" /\ r.fast = 0 /\ r.slow < VERY_SLOW_RATE_THRESHOLD
    THEN [r EXCEPT !.slow = @ + 1,
                   !.max = IF r.slow + 1 = VERY_SLOW_RATE_THRESHOLD
                           THEN WINDOW_MAX_VERY_SLOW ELSE @]
    ELSE r

\* The window after a round in which every part that was asked for came.
Grown(r) ==
    IF r.window >= r.max THEN r
    ELSE [r EXCEPT !.window = @ + 1,
                   !.min = IF r.window + 1 - @ > WINDOW_FLEXIBILITY - 1
                           THEN @ + 1 ELSE @]

\* The window after a timeout.
Shrunk(r) ==
    LET window == r.window - 1
        max    == r.max - 1
    IN  IF r.window <= r.min THEN r
        ELSE IF r.max <= r.min THEN [r EXCEPT !.window = window]
        ELSE [r EXCEPT !.window = window,
                       !.max = IF max - window > WINDOW_FLEXIBILITY - 1
                               THEN max - 1 ELSE max]

\* The empty slots of the window that have the part's map hash.  The window
\* starts at the last slot of the filled prefix, one slot before the first
\* part that request_next() asks for.
Matching(r, n) ==
    LET cci == IF r.height < 0 THEN 0 ELSE r.height
    IN  {j \in Part : /\ cci <= j /\ j < cci + r.window
                      /\ j \in r.known /\ mh[j] = mh[n]
                      /\ r.parts[j] = NoPart}

\* The last slot of the filled prefix.
Height(parts) ==
    CHOOSE h \in -1 .. N - 1 :
        /\ \A i \in 0 .. h : parts[i] # NoPart
        /\ h < N - 1 => parts[h + 1] = NoPart

\* The part is filed, under every slot it fits.
Filed(r, n) ==
    LET slots == Matching(r, n)
        parts == [i \in Part |-> IF i \in slots THEN n ELSE r.parts[i]]
        left  == r.outstanding - Cardinality(slots)
    IN  [r EXCEPT !.parts = parts, !.height = Height(parts),
                  !.outstanding = IF left > 0 THEN left ELSE 0]

\* The hash of what was put together is the one that was advertised.
HashMatches(r) == \A i \in Part : r.parts[i] = i

\* assemble(): the payload is checked, handed over and proved.  A compressed
\* one is refused and the link torn down; one whose hash is wrong is dropped
\* in silence.
assemble(r) ==
    \/ /\ offer.compressed
       /\ rx' = [r EXCEPT !.status = "CORRUPT"]
       /\ up' = Send("R", up, <<[t |-> "RCL"], [t |-> "CLOSE"]>>)
       /\ active' = [active EXCEPT !["R"] = FALSE]
       /\ UNCHANGED delivered
    \/ /\ ~offer.compressed /\ HashMatches(r)
       /\ rx' = [r EXCEPT !.status = "COMPLETE"]
       /\ up' = Send("R", up, <<[t |-> "PRF"]>>)
       /\ delivered' = delivered + 1
       /\ UNCHANGED active
    \/ /\ ~offer.compressed /\ ~HashMatches(r)
       /\ rx' = [r EXCEPT !.status = "CORRUPT"]
       /\ UNCHANGED <<up, active, delivered>>

\* The first part after a request is its answer, and gives a rate.
Answered(rate) ==
    [IF rx.answered THEN rx ELSE FastRound(rx, rate) EXCEPT
        !.retries = MAX_RETRIES, !.answered = TRUE]

Full(r) == \A i \in Part : r.parts[i] # NoPart

\* receive_part(): file the part; when all are there put them together, when
\* all that were asked for are there adapt the window and ask for more.
receive_part(n) ==
    \E first, round \in Rates :
    \E r \in {Filed(Answered(first), n)} :
        \/ /\ Full(r)
           /\ assemble(r)
        \/ /\ ~Full(r) /\ r.outstanding = 0
           /\ Requests(SlowRound(FastRound(Grown(r), round), round))
           /\ UNCHANGED <<active, delivered>>
        \/ /\ ~Full(r) /\ r.outstanding > 0
           /\ rx' = r
           /\ UNCHANGED <<up, active, delivered>>

\* RESOURCE: every resource that is being received is offered the part.
ReceivePart(x) == x.t = "PART" /\ Incoming /\ receive_part(x.n)

\* RESOURCE_HMU.
ReceiveHashmapUpdate(x) ==
    /\ x.t = "HMU" /\ Incoming
    /\ hashmap_update([rx EXCEPT !.retries = MAX_RETRIES], x.seg)
    /\ UNCHANGED <<active, delivered>>

\* RESOURCE_ICL, and LINKCLOSE, which cancels what the link receives.
ReceiveCancel(x) ==
    /\ x.t \in {"ICL", "CLOSE"}
    /\ rx' = IF Incoming THEN [rx EXCEPT !.status = "FAILED"] ELSE rx
    /\ active' = [active EXCEPT !["R"] = x.t # "CLOSE"]
    /\ UNCHANGED <<up, delivered>>

\* Link::receive() at the receiver.
ReceiverReceives ==
    \E i \in DOMAIN down :
        LET x == down[i] IN
        /\ Runs("R")
        /\ Takes(down, i)
        /\ down' = RemoveAt(down, i)
        /\ \/ /\ active["R"]
              /\ \/ ReceiveAdvertisement(x) \/ ReceivePart(x)
                 \/ ReceiveHashmapUpdate(x) \/ ReceiveCancel(x)
           \/ /\ ~active["R"] \/ (x.t \in {"PART", "HMU"} /\ ~Incoming)
              /\ UNCHANGED <<rx, up, active, delivered>>
        /\ UNCHANGED <<tx, setting, breaks, busy>>

\* The receiver's resource when it asks again.
Retry(r) == [Shrunk(r) EXCEPT !.retries = @ - 1, !.waiting = FALSE]

\* The timer of the receiver has run out.
ReceiverWaits ==
    /\ Incoming
    /\ active["R"] /\ Runs("R")
    /\ \/ Silence /\ UNCHANGED breaks
       \/ ~Silence /\ Interrupts

\* __watchdog_job(), TRANSFERRING at the receiver.
part_timeout ==
    /\ ReceiverWaits
    /\ IF rx.retries > 0
       THEN Requests(Retry(rx))
       ELSE rx' = [rx EXCEPT !.status = "FAILED"] /\ UNCHANGED up
    /\ UNCHANGED <<tx, down, active, delivered, setting, faults, busy>>

-----------------------------------------------------------------------------
(* The watchdogs, pumped by jobs(). *)

\* A watchdog of the sender that has run out sends: the advertisement again,
\* or the cancellation.
SenderSends == tx.status = "AWAITING_PROOF" => tx.retries = 0

\* The watchdog waits in outbound() for the jobs() that pumps it; what it
\* changed before is never looked at again.
Hangs(end) ==
    /\ \/ end = "S" /\ Outgoing /\ SenderWaits /\ SenderSends
       \/ end = "R" /\ ReceiverWaits /\ rx.retries > 0
    /\ hung' = hung \union {end}
    /\ UNCHANGED <<tx, rx, down, up, active, offer, inorder, busy, delivered,
                   lost, faults>>

-----------------------------------------------------------------------------
(* Applications, links and carriers. *)

\* cancel() by an application: the sender tells the receiver, the receiver
\* tells nobody.
cancel ==
    /\ Interrupts
    /\ \/ /\ Outgoing /\ active["S"] /\ Runs("S")
          /\ tx' = Cancelled(tx, "cancelled")
          /\ down' = Send("S", down, CancelPacket)
          /\ UNCHANGED rx
       \/ /\ Incoming /\ active["R"] /\ Runs("R")
          /\ rx' = [rx EXCEPT !.status = "FAILED"]
          /\ UNCHANGED <<tx, down>>
    /\ UNCHANGED <<up, active, delivered, setting, faults, busy>>

\* Link::teardown(): the peer is told and the link's resources cancelled.
teardown(end) ==
    /\ Interrupts
    /\ active[end] /\ Runs(end)
    /\ active' = [active EXCEPT ![end] = FALSE]
    /\ IF end = "S"
       THEN /\ down' = Append(down, [t |-> "CLOSE"])
            /\ tx' = IF Outgoing THEN Cancelled(tx, "cancelled") ELSE tx
            /\ UNCHANGED <<up, rx>>
       ELSE /\ up' = Append(up, [t |-> "CLOSE"])
            /\ rx' = IF Incoming THEN [rx EXCEPT !.status = "FAILED"] ELSE rx
            /\ UNCHANGED <<down, tx>>
    /\ UNCHANGED <<delivered, setting, faults, busy>>

Lose ==
    /\ Faulty
    /\ \/ \E i \in DOMAIN down : down' = RemoveAt(down, i) /\ UNCHANGED up
       \/ \E i \in DOMAIN up : up' = RemoveAt(up, i) /\ UNCHANGED down
    /\ lost' = TRUE
    /\ UNCHANGED <<tx, rx, active, delivered, offer, inorder, hung, busy, breaks>>

Double ==
    /\ Faulty
    /\ \/ /\ \E i \in DOMAIN down : /\ down[i].t = "PART"
                                    /\ down' = Append(down, down[i])
          /\ UNCHANGED up
       \/ /\ \E i \in DOMAIN up : up[i].t = "PRF" /\ up' = Append(up, up[i])
          /\ UNCHANGED down
    /\ UNCHANGED <<tx, rx, active, delivered, setting, busy, breaks>>

-----------------------------------------------------------------------------

Init ==
    /\ tx = [status |-> "NONE", sent |-> {}, min |-> 0, retries |-> 0,
             why |-> ""]
    /\ rx = [Fresh EXCEPT !.status = "NONE"]
    /\ down = <<>> /\ up = <<>>
    /\ active = [end \in {"S", "R"} |-> TRUE]
    /\ offer \in Offers
    /\ inorder \in InOrder
    /\ busy \in BOOLEAN
    /\ delivered = 0 /\ hung = {} /\ lost = FALSE
    /\ faults = 0 /\ breaks = 0

SenderTimeout == advertisement_timeout \/ part_request_timeout \/ proof_timeout

Next ==
    \/ start
    \/ OtherConcludes
    \/ SenderTimeout
    \/ SenderReceives
    \/ ReceiverReceives
    \/ part_timeout
    \/ cancel
    \/ \E end \in {"S", "R"} : Hangs(end) \/ teardown(end)
    \/ Lose
    \/ Double

Spec == Init /\ [][Next]_vars

\* What jobs() makes of a timer that runs out in time: the watchdog hangs the
\* node if it has something to send.
SenderJobs == UNCHANGED breaks /\ (Hangs("S") \/ (proof_timeout /\ ~SenderSends))
ReceiverJobs == UNCHANGED breaks /\ (Hangs("R") \/ (part_timeout /\ rx.retries = 0))

\* What is not lost is received, and jobs() keeps pumping the watchdogs.
FairSpec ==
    /\ Spec
    /\ WF_vars(SenderReceives) /\ WF_vars(ReceiverReceives)
    /\ WF_vars(SenderJobs) /\ WF_vars(ReceiverJobs)

-----------------------------------------------------------------------------
(* Properties. *)

\* Type invariant.
TypeOK ==
    /\ tx \in Sender /\ rx \in Receiver
    /\ down \in Seq(ToReceiver) /\ up \in Seq(ToSender)
    /\ active \in [{"S", "R"} -> BOOLEAN]
    /\ offer \in Offers /\ inorder \in InOrder /\ busy \in BOOLEAN
    /\ delivered \in Nat /\ hung \subseteq {"S", "R"} /\ lost \in BOOLEAN
    /\ faults \in 0 .. MaxFaults
    /\ breaks \in 0 .. Interruptions

Injective == \A i, j \in Part : mh[i] = mh[j] => i = j

\* On a carrier that keeps the order of packets, the receiver's application
\* is handed the payload at most once, however often the advertisement was
\* repeated (accept() knows a resource only while it is being received).
AtMostOnce == inorder => delivered <= 1

\* The receiver never waits for nothing: while it is transferring it waits
\* for a part it has asked for or for more of the hashmap, and the window
\* has not shrunk below its minimum, nor does it wait for more than fits it.
NeverIdle ==
    Incoming => /\ rx.outstanding > 0 \/ rx.waiting
                /\ WINDOW_MIN <= rx.min /\ rx.min <= rx.window
                /\ rx.outstanding <= rx.window

\* Every slot the receiver still has to fill, as far as it may ask for it
\* now, lies where request() looks for it: the search range of the sender,
\* which moves forward with the hashmap updates, never leaves a missing part
\* behind.
Servable ==
    (inorder /\ Injective /\ Incoming /\ Outgoing) =>
        \A i \in Searched(rx) :
            rx.parts[i] = NoPart /\ i \in rx.known => i \in SearchRange

\* Neither end runs dry and nothing is handed over twice: the receiver always
\* waits for something it asked for, the sender can serve whatever it may ask
\* for next, and the payload arrives once.
Sound == TypeOK /\ AtMostOnce /\ NeverIdle /\ Servable

\* "Resource sequencing error" is never met between two ends that follow the
\* protocol and whose packets keep their order, late and repeated requests
\* included.
NoSequencingError == (inorder /\ Injective) => tx.why # "sequencing"

\* The transfer implements what the applications are promised: Transfer.
Abstract == INSTANCE Transfer WITH
    outcome <- CASE tx.status = "COMPLETE" -> "complete"
                 [] tx.status = "FAILED" -> "failed"
                 [] OTHER -> "open",
    holds <- delivered > 0
PromisesKept == Abstract!Spec

\* A resource that was advertised is concluded at the sender, and one that
\* was accepted is concluded at the receiver, as long as the link is up,
\* unless the node hangs in outbound(): nothing else leaves a transfer open,
\* whatever is lost.
Concludes ==
    []<>(/\ Outgoing /\ active["S"] => ~Runs("S")
         /\ Incoming /\ active["R"] => ~Runs("R"))


\* "we mark the resource QUEUED and let the next watchdog tick retry"
QueuedIsAdvertised == (tx.status = "QUEUED") ~> (tx.status # "QUEUED" \/ ~active["S"])

=============================================================================
