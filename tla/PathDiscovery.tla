--------------------------- MODULE PathDiscovery ----------------------------
(***************************************************************************)
(* How a path is asked for and found (Transport.cpp: request_path(),       *)
(* path_request_handler(), path_request(), the answer to waiting requests  *)
(* in inbound(), and the queue of requests at the end of jobs(); announce()*)
(* of Destination.cpp, with what a node keeps of it: Identities).          *)
(*                                                                         *)
(* Nodes share broadcast media (Interfaces).  The destination belongs to   *)
(* Owner, which also announces it unasked; the other destinations of Dest  *)
(* only compete for the queue.  A request reaches the direct neighbours,   *)
(* with a tag; a relay that has no path keeps the interface it came from   *)
(* and asks on with the same tag.  Packets may be lost or late.  What      *)
(* replaces a path is the subject of PathTable, when a known path is       *)
(* answered and an announce passed on that of AnnounceTable: here both are *)
(* done at once and may take any time.                                     *)
(*                                                                         *)
(* The tags a node has seen are a GenerationalSet, one per node.           *)
(*                                                                         *)
(* forwards, passed, asked and lost are history variables.                 *)
(***************************************************************************)
EXTENDS Interfaces, Identities

CONSTANTS
    Transport,        \* the nodes with transport enabled
    Client,           \* the nodes whose applications ask for the path
    Owner,            \* the node the destination d is local to
    d, Dest,          \* destinations, as node numbers their requests
    MAX_PR_TAGS,      \* RNS_PR_TAGS_MAX
    MAX_QUEUED_DISCOVERY_PRS,
    MaxTags, MaxAnnounces,
    MaxFaults         \* bounds: tags; announces; losses, failures and timeouts

Tag == 1 .. MaxTags
Path == [from: Node, on: Medium, hops: Nat, emission: Nat]

\* Interfaces of a mode that paths are searched for, and in roaming mode.
Search == { i \in Interface : Mode[i] \in DISCOVER_PATHS_FOR }
Roaming == { i \in Interface : Mode[i] = "ROAMING" }

ASSUME DiscoveryAssumption ==
    /\ Transport \subseteq Node /\ Owner \in Node
    /\ Client \subseteq Node \ {Owner} /\ d \in Dest
    /\ MAX_PR_TAGS \in Nat /\ MAX_QUEUED_DISCOVERY_PRS \in Nat
    /\ MaxTags \in Nat /\ MaxAnnounces \in Nat /\ MaxFaults \in Nat
    /\ IsFiniteSet(Medium) /\ IsFiniteSet(Dest) /\ None \notin Path

VARIABLES
    tags,             \* _discovery_pr_tags of each node
    waiting,          \* _discovery_path_requests: the requesting interface
    path,             \* the path to d, None without one
    unresponsive,     \* the path is marked so
    queue,            \* _pending_discovery_prs
    air,              \* packets under way to each node, in the order sent
    emission,         \* announces the owner has made
    nextTag,
    forwards,         \* how often a node has asked on with a tag
    passed,           \* the announces each node has passed on, in that order
    asked,            \* nodes whose application asked for the path
    lost,             \* nodes that have lost a path or marked it unresponsive
    faults

vars == <<tags, waiting, path, unresponsive, queue, air, emission, nextTag,
          forwards, passed, asked, lost, faults, interfaceVars, identityVars>>

Faulty == faults < MaxFaults /\ faults' = faults + 1

\* What does nothing where it arrives is left out: an announce at the owner,
\* and a request at a node that could neither answer nor ask on.
Hears(m, p) == IF p.t = "request" THEN m \in Transport \union {Owner} ELSE m # Owner

\* What n sends, one packet on each medium in the domain of ps, behind what is
\* in the boxes.
Sends(boxes, n, ps) ==
    [m \in Node |->
        IF m = n THEN boxes[m]
        ELSE boxes[m] \o LET s == SetToSeq({ x \in DOMAIN ps \intersect On[m] :
                                                  Hears(m, ps[x]) }) IN
                         [k \in DOMAIN s |-> [ps[s[k]] EXCEPT !.on = s[k]]]]

\* The same packet on each of the media ms.
Broadcast(boxes, n, ms, p) == Sends(boxes, n, [x \in ms |-> p])

Taken(n) == [air EXCEPT ![n] = Tail(@)]

\* request_path(): a request with a transport id at a transport node.
Request(n, tag) ==
    [t |-> "request", from |-> n, on |-> None, tag |-> tag]

\* An announce; as a response it has the context PATH_RESPONSE.
Announcement(t, n, hops, em) ==
    [t |-> t, from |-> n, on |-> None, hops |-> hops, emission |-> em]

Response(n, hops, em) == Announcement("response", n, hops, em)

Media(is) == { i[2] : i \in is }

\* Some interface of n is too early for another announce.
Early(n) == { {i} : i \in capped \intersect Of(n) }

-----------------------------------------------------------------------------
(* Tags: a GenerationalSet. *)

TagSet(m) == INSTANCE GenerationalSet WITH
    T <- Tag, Sizes <- {MAX_PR_TAGS}, MaxInserts <- MaxTags,
    active <- tags[m].active, previous <- tags[m].previous,
    max_size <- MAX_PR_TAGS,
    n <- 0, born <- [t \in Tag |-> 0], sizes <- {MAX_PR_TAGS}

Seen(n, t) == TagSet(n)!contains(t)

\* insert()
Remember(n, t) ==
    LET a == tags[n].active \union {t} IN
    [tags EXCEPT ![n] = IF TagSet(n)!rotation_due(a)
                        THEN [active |-> {}, previous |-> a]
                        ELSE [active |-> a, previous |-> @.previous]]

-----------------------------------------------------------------------------
(* Asking. *)

\* An application calls request_path().
AskFor(n) ==
    /\ n \in Client \ asked
    /\ nextTag < MaxTags
    /\ nextTag' = nextTag + 1
    /\ asked' = asked \union {n}
    /\ air' = Broadcast(air, n, On[n], Request(n, nextTag + 1))
    /\ UNCHANGED <<tags, waiting, path, unresponsive, queue, emission, forwards,
                   passed, lost, faults, interfaceVars, identityVars>>

\* A request for the destination waits already.
Waits(n) == waiting[n] # None

\* The branch of path_request() for a destination of this node: announce().
AnswerLocal(n, x) ==
    /\ n = Owner
    /\ emission' = emission + 1
    /\ air' = Broadcast(Taken(n), n, {x.on}, Response(n, 0, emission + 1))
    /\ UNCHANGED <<waiting, forwards, faults, capped>>

\* A known path is not answered when it is unresponsive, when it leads out of
\* the roaming interface the request came from, or when its next hop asks.
Refuse(n, x) ==
    \/ unresponsive[n]
    \/ <<n, x.on>> \in Roaming /\ path[n].on = x.on
    \/ x.from \in Transport /\ path[n].from = x.from

Knows(n) == n # Owner /\ path[n] # None

AnswerKnown(n, x) ==
    /\ Knows(n)
    /\ air' = IF Refuse(n, x) THEN Taken(n)
              ELSE Broadcast(Taken(n), n, {x.on},
                             Response(n, path[n].hops, path[n].emission))
    /\ UNCHANGED <<waiting, emission, forwards, faults, capped>>

\* The search for an unknown path: the first request waits and is passed on
\* to every interface, the one it came from included, unless announces block
\* it there; others are dropped while it waits.
AskOn(n, x) ==
    /\ n # Owner /\ ~Knows(n)
    /\ <<n, x.on>> \in Search
    /\ ~Waits(n)
    /\ waiting' = [waiting EXCEPT ![n] = x.on]
    /\ forwards' = [forwards EXCEPT ![n][x.tag] = @ + 1]
    /\ \E early \in {{}} \union Early(n) : \E is \in {RequestedOn(n, early)} :
          /\ IF early = {} THEN UNCHANGED faults ELSE Faulty
          /\ air' = Broadcast(Taken(n), n, Media(is), Request(n, x.tag))
          /\ capped' = capped \union is
    /\ UNCHANGED emission

Ignore(n, x) ==
    /\ n # Owner /\ ~Knows(n)
    /\ <<n, x.on>> \notin Search \/ Waits(n)
    /\ air' = Taken(n)
    /\ UNCHANGED <<waiting, emission, forwards, faults, capped>>

\* A plausible slip: the tag is noted only when the request is for us.
NoteLocal(n, x) ==
    tags' = IF n = Owner THEN Remember(n, x.tag) ELSE tags

\* path_request_handler() notes the tag before anything else.
NoteTag(n, x) == tags' = Remember(n, x.tag)

\* path_request_handler() and path_request().
ReceiveRequest(n) ==
    /\ air[n] # <<>>
    /\ \E x \in {Head(air[n])} :
        /\ x.t = "request"
        /\ \/ /\ Seen(n, x.tag)
              /\ air' = Taken(n)
              /\ UNCHANGED <<tags, waiting, emission, forwards, faults, capped>>
           \/ /\ ~Seen(n, x.tag)
              /\ NoteTag(n, x)
              /\ AnswerLocal(n, x) \/ AnswerKnown(n, x) \/ AskOn(n, x) \/ Ignore(n, x)
        /\ UNCHANGED <<path, unresponsive, queue, nextTag, passed, asked, lost,
                       announce_queue, rate, identityVars>>

-----------------------------------------------------------------------------
(* Answers. *)

\* Does the announce replace the path?  (PathTable has the whole rule.)
Accept(n, x) ==
    path[n] # None =>
        \/ x.emission > path[n].emission
        \/ x.emission = path[n].emission /\ unresponsive[n]

\* A plausible slip: the request that waits is not answered.
AnswerNobody(n, x) == Taken(n)

\* The waiting request is answered on its interface.  It goes on waiting
\* until the table is culled.
AnswerWaiting(n, x) ==
    IF waiting[n] = None THEN Taken(n)
    ELSE Broadcast(Taken(n), n, {waiting[n]},
                   Response(n, x.hops + 1, x.emission))

\* announce() of the owner, unasked.
Announce ==
    /\ emission < MaxAnnounces
    /\ emission' = emission + 1
    /\ \E a \in {[dest |-> d, hops |-> 0, emission |-> emission + 1]} :
          /\ outbound_announce(Owner, a, None, TRUE, {})
          /\ air' = Broadcast(air, Owner, Media(SentOn(Owner, a, None, TRUE, {})),
                              Announcement("announce", Owner, 0, emission + 1))
    /\ UNCHANGED <<tags, waiting, path, unresponsive, queue, nextTag, forwards,
                   passed, asked, lost, faults, rate, identityVars>>

\* A relay passes an announce on, on every interface that lets it out, the one
\* it came from included.
PassOn(n, x, boxes) ==
    \E early \in {{}} \union Early(n),
       a \in {[dest |-> d, hops |-> x.hops + 1, emission |-> x.emission]} :
        /\ IF early = {} THEN UNCHANGED faults ELSE Faulty
        /\ outbound_announce(n, a, <<n, x.on>>, FALSE, early)
        /\ air' = Broadcast(boxes, n, Media(SentOn(n, a, <<n, x.on>>, FALSE, early)),
                            Announcement("announce", n, a.hops, a.emission))
        /\ passed' = [passed EXCEPT ![n] = Append(@, x.emission)]

\* inbound() with an announce that passed validate_announce().
Process(n, x, content, k) ==
    \/ /\ ~Accept(n, x)
       /\ air' = Taken(n)
       /\ UNCHANGED <<path, unresponsive, passed, faults, handed, interfaceVars>>
    \/ /\ Accept(n, x)
       /\ path' = [path EXCEPT ![n] =
                     [from |-> x.from, on |-> x.on, hops |-> x.hops + 1,
                      emission |-> x.emission]]
       /\ unresponsive' = [unresponsive EXCEPT ![n] = FALSE]
       /\ handed' = IF x.t = "response" \/ n \notin Client THEN handed
                    ELSE [handed EXCEPT ![n] = received_announce(n, content, k)]
       /\ \E entry \in Rated(n, <<n, x.on>>, x.t = "response") :
             /\ rate' = [rate EXCEPT ![n] = entry]
             /\ IF x.t = "announce" /\ n \in Transport
                   /\ ~RateBlocked(<<n, x.on>>, FALSE, entry)
                THEN PassOn(n, x, AnswerWaiting(n, x))
                ELSE /\ air' = AnswerWaiting(n, x)
                     /\ UNCHANGED <<passed, faults, announce_queue, capped>>

\* The announce that x is, or what may have become of it on the way.
Arriving(x) ==
    {Content(x.emission)}
    \union IF faults < MaxFaults THEN Damaged(Content(x.emission)) ELSE {}

\* inbound() with an announce, which may have been damaged.
ReceiveAnnounce(n) ==
    /\ air[n] # <<>>
    /\ \E x \in {Head(air[n])} :
        /\ x.t \in {"announce", "response"}
        /\ \/ \E content \in Arriving(x) :
                 /\ validate_announce(n, content)
                 /\ known' = [known EXCEPT ![n] = Remembered(@, content)]
                 /\ Process(n, x, content, known'[n])
           \/ /\ Faulty
              /\ \E content \in Arriving(x) :
                    ~validate_announce(n, content)
              /\ air' = Taken(n)
              /\ UNCHANGED <<path, unresponsive, passed, interfaceVars, identityVars>>
        /\ UNCHANGED <<tags, waiting, queue, emission, nextTag, forwards, asked,
                       lost>>

\* The announce that is stored with the path.
Stored(n) == IF path[n] = None THEN {} ELSE {Content(path[n].emission)}

Forget(n) ==
    /\ Faulty
    /\ forget(n)
    /\ UNCHANGED <<tags, waiting, path, unresponsive, queue, air, emission, nextTag,
                   forwards, passed, asked, lost, interfaceVars>>

Recall(n) ==
    /\ recalls(n, Stored(n))
    /\ UNCHANGED <<tags, waiting, path, unresponsive, queue, air, emission, nextTag,
                   forwards, passed, asked, lost, faults, interfaceVars>>

DropQueues(n) ==
    /\ drop_announce_queues(n)
    /\ UNCHANGED <<tags, waiting, path, unresponsive, queue, air, emission, nextTag,
                   forwards, passed, asked, lost, faults, identityVars>>

\* The cull of _discovery_path_requests, which may come before the answer.
CullWaiting(n) ==
    /\ Faulty
    /\ waiting[n] # None
    /\ waiting' = [waiting EXCEPT ![n] = None]
    /\ UNCHANGED <<tags, path, unresponsive, queue, air, emission, nextTag,
                   forwards, passed, asked, lost, interfaceVars, identityVars>>

-----------------------------------------------------------------------------
(* Rediscovery. *)

\* How many requests have room in the queue.
Room(q) == MAX_QUEUED_DISCOVERY_PRS - Len(q)

Queued(q, dest) == \E k \in DOMAIN q : q[k].dest = dest

\* The end of jobs(): what the passes before it want to rediscover is queued,
\* unless it is queued or there is no room.
Enqueue(q, dests, blocked) ==
    LET s == SetToSeq({ x \in dests : ~Queued(q, x) }) IN
    q \o [k \in { k \in DOMAIN s : k <= Room(q) } |->
              [dest |-> s[k], blocked |-> blocked]]

\* A pending link of a node without transport failed: the path is expired.  A
\* link a relay passed on from the interface blocked failed: the path is
\* marked unresponsive.  It is asked for again.
LinkFails(n) ==
    /\ Faulty
    /\ n # Owner
    /\ \E dests \in SUBSET Dest \ {{}},
          blocked \in IF n \in Transport /\ path[n] # None /\ ~unresponsive[n]
                      THEN On[n] ELSE {None} :
          /\ queue' = [queue EXCEPT ![n] = Enqueue(@, dests, blocked)]
          /\ path' = IF d \in dests /\ n \notin Transport
                     THEN [path EXCEPT ![n] = None] ELSE path
          /\ unresponsive' = IF d \in dests /\ blocked # None
                             THEN [unresponsive EXCEPT ![n] = TRUE]
                             ELSE unresponsive
    /\ lost' = IF path' = path /\ unresponsive' = unresponsive
               THEN lost ELSE lost \union {n}
    /\ UNCHANGED <<tags, waiting, air, emission, nextTag, forwards, passed, asked,
                   interfaceVars, identityVars>>

\* handle_disovery_path_requests(): one entry, to all interfaces with one tag,
\* or to each but the blocked one with a tag of its own.
handle_disovery_path_requests(n) ==
    /\ queue[n] # <<>>
    /\ queue' = [queue EXCEPT ![n] = Tail(@)]
    /\ \E x \in {Head(queue[n])} : \E ms \in {On[n] \ {x.blocked}} :
          IF x.dest # d THEN UNCHANGED <<air, nextTag>>
          ELSE IF x.blocked = None
          THEN /\ nextTag < MaxTags
               /\ nextTag' = nextTag + 1
               /\ air' = Broadcast(air, n, ms, Request(n, nextTag + 1))
          ELSE /\ nextTag + Cardinality(ms) <= MaxTags
               /\ nextTag' = nextTag + Cardinality(ms)
               /\ \E s \in {SetToSeq(ms)} :
                     air' = Sends(air, n, [i \in ms |->
                                Request(n, nextTag + CHOOSE k \in DOMAIN s : s[k] = i)])
    /\ UNCHANGED <<tags, waiting, path, unresponsive, emission, forwards, passed,
                   asked, lost, faults, interfaceVars, identityVars>>

\* A path is removed or expires.
LosePath(n) ==
    /\ Faulty
    /\ path[n] # None
    /\ path' = [path EXCEPT ![n] = None]
    /\ unresponsive' = [unresponsive EXCEPT ![n] = FALSE]
    /\ lost' = lost \union {n}
    /\ UNCHANGED <<tags, waiting, queue, air, emission, nextTag, forwards, passed,
                   asked, interfaceVars, identityVars>>

Lose ==
    /\ Faulty
    /\ \E n \in Node : air[n] # <<>> /\ air' = Taken(n)
    /\ UNCHANGED <<tags, waiting, path, unresponsive, queue, emission, nextTag,
                   forwards, passed, asked, lost, interfaceVars, identityVars>>

-----------------------------------------------------------------------------

Init ==
    /\ tags = [n \in Node |-> [active |-> {}, previous |-> {}]]
    /\ waiting = [n \in Node |-> None]
    /\ path = [n \in Node |-> None]
    /\ unresponsive = [n \in Node |-> FALSE]
    /\ queue = [n \in Node |-> <<>>]
    /\ air = [n \in Node |-> <<>>]
    /\ emission = 0 /\ nextTag = 0
    /\ forwards = [n \in Node |-> [t \in Tag |-> 0]]
    /\ passed = [n \in Node |-> <<>>]
    /\ asked = {} /\ lost = {}
    /\ faults = 0
    /\ InterfacesInit /\ IdentitiesInit(Node)

Receive(n) == ReceiveRequest(n) \/ ReceiveAnnounce(n)

Next ==
    \/ \E n \in Node :
          \/ AskFor(n) \/ Receive(n) \/ CullWaiting(n) \/ LinkFails(n)
          \/ handle_disovery_path_requests(n) \/ LosePath(n) \/ DropQueues(n)
          \/ Forget(n) \/ Recall(n)
    \/ Announce
    \/ Lose

Spec == Init /\ [][Next]_vars

\* What is sent and not lost arrives.
FairSpec ==
    /\ Spec
    /\ WF_vars(\E n \in Node : Receive(n))

-----------------------------------------------------------------------------
(* Properties. *)

\* Type invariant.
TypeOK ==
    /\ tags \in [Node -> [active: SUBSET Tag, previous: SUBSET Tag]]
    /\ waiting \in [Node -> Medium \union {None}]
    /\ \A n \in Node : path[n] # None => path[n] \in Path
    /\ unresponsive \in [Node -> BOOLEAN]
    /\ \A n \in Node : Len(queue[n]) <= MAX_QUEUED_DISCOVERY_PRS
    /\ emission \in Nat /\ nextTag \in 0 .. MaxTags
    /\ asked \subseteq Node /\ lost \subseteq Node
    /\ faults \in 0 .. MaxFaults
    /\ InterfacesTypeOK

\* A request does not circulate: no node asks on twice with the same tag,
\* although requests are sent on the interface they came from and no request
\* carries a hop count that ends it.
AskedOnOnce == \A n \in Node, t \in Tag : forwards[n][t] <= 1

\* Nor does an announce: no node passes the same one on twice, or one that is
\* older than another it has passed on, unless it gave up a path.
PassedOnOnce ==
    \A n \in Node \ lost : \A j, k \in DOMAIN passed[n] :
        j < k => passed[n][j] < passed[n][k]

\* An announce that waits in a queue is no newer than the path it belongs to.
QueuedIsKnown ==
    \A i \in Interface, k \in 1 .. MAX_QUEUED_ANNOUNCES :
        (k \in DOMAIN announce_queue[i] /\ i[1] \notin lost)
        => announce_queue[i][k].emission <= path[i[1]].emission

\* Following the next hops leads towards the owner: the next hop of a node,
\* unless it gave up a path itself, knows an announce that is newer, or the
\* same one and nearer to the owner.
TowardsOwner ==
    \A n \in Node :
        (path[n] # None /\ path[n].from \notin {Owner} \union lost)
        => LET p == path[path[n].from] IN
           /\ p # None
           /\ \/ p.emission > path[n].emission
              \/ p.emission = path[n].emission /\ p.hops < path[n].hops

\* Who has a path can seal a packet for the destination: the identity is known,
\* or recalled from the announce of the path, although the store forgets and
\* announces are damaged; what is known is what the owner announced.
Recallable ==
    \A n \in Node :
        /\ path[n] # None => \E e \in recall(n, Stored(n)) : e.key = Key
        /\ \A e \in known[n] : e.key = Key /\ e.app \in 1 .. emission

\* What recall_app_data() is documented to return, which is what the handlers
\* are given: the application data that was heard last.
HandedIsLastHeard ==
    \A n \in Node : \A h \in handed[n] : h.app = h.announce

\* Requests and announces end and answers lead somewhere: no request and no
\* announce circulates, no queue outgrows its limit, and every path leads
\* towards the owner, whose identity is at hand.
Contained ==
    /\ TypeOK /\ AskedOnOnce /\ PassedOnOnce /\ QueuedIsKnown /\ TowardsOwner
    /\ Recallable

\* The first node to ask finds the path, if nothing is lost, blocked or
\* timed out.
Discovers ==
    \A n \in Client :
        (asked = {n} /\ queue = [m \in Node |-> <<>>])
            ~> (path[n] # None \/ faults > 0 \/ asked # {n})

=============================================================================
