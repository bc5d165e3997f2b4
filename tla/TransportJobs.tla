--------------------------- MODULE TransportJobs ---------------------------
(***************************************************************************)
(* The main thread: start() and loop() of Reticulum.cpp, and how start(),  *)
(* jobs(), inbound() and outbound() of Transport.cpp exclude each other.   *)
(* The Python original runs them in threads: inbound() and outbound() wait *)
(* while _jobs_running, and jobs() does nothing while _jobs_locked.  The   *)
(* port has one thread, so the one who waits is on the same stack as the   *)
(* one it waits for.                                                       *)
(*                                                                         *)
(* stack is that call stack, outermost call first:                         *)
(*   start     start(), the part it guards with _jobs_running and a catch  *)
(*   started   start(), the rest                                           *)
(*   loop      Reticulum::loop()                                           *)
(*   jobs      jobs(), between setting and clearing _jobs_running          *)
(*   tail      jobs(), after that: outgoing announces, path requests and   *)
(*             management announces are sent                               *)
(*   recv      inbound(), in front of its wait; inbound: behind it         *)
(*   send      outbound(), in front of its wait; outbound: behind it       *)
(*                                                                         *)
(* An exception unwinds the stack to a frame that catches it.              *)
(*                                                                         *)
(* leaked and skipped are history variables no action reads.               *)
(***************************************************************************)
EXTENDS Naturals, Sequences, FiniteSets, SequencesExt

CONSTANTS
    Enabled,           \* the features that are switched on
    MaxDepth,          \* bound on the calls that are nested in one another
    MaxStarts          \* bound on the calls of Reticulum::start()

Feature == {"remote", "blackhole", "network", "transport", "probe"}

ASSUME EnabledAssumption == Enabled \subseteq Feature
ASSUME DepthAssumption ==
    MaxDepth \in Nat \ {0, 1} /\ MaxStarts \in Nat \ {0}

VARIABLES
    running,           \* _jobs_running
    locked,            \* _jobs_locked
    stack,             \* the call stack of the main thread
    overdue,           \* a part of an incoming resource is overdue, and
                       \* has not been requested again
    leaked,            \* history: the last inbound() or outbound() left the
                       \* lock behind, and nothing has released it since
    up,                \* Reticulum::start() has returned
    starts,            \* how often it was called
    todo,              \* what the running start() has still to do
    identity,          \* _identity
    destinations,      \* _destinations, those that start() creates
    mgmt,              \* _mgmt_destinations
    skipped            \* history: an exception cut start() short

system == <<up, starts, todo, identity, destinations, mgmt, skipped>>
jobsVars == <<running, locked, stack, overdue, leaked, system>>

Frames == {"start", "started", "loop", "jobs", "tail",
           "recv", "inbound", "send", "outbound"}

-----------------------------------------------------------------------------

At(f) == stack # <<>> /\ Last(stack) = f

Idle == stack = <<>>

Call(f) == stack' = Append(stack, f)

Become(f) == stack' = Append(Front(stack), f)

Return == stack' = Front(stack)

\* jobs() is on the stack of the frame that returns.
FromJobs == Len(stack) > 1 /\ stack[Len(stack) - 1] = "jobs"

JobsInit ==
    /\ running = FALSE
    /\ locked = FALSE
    /\ stack = <<>>
    /\ overdue = FALSE
    /\ leaked = FALSE
    /\ up = FALSE
    /\ starts = 0
    /\ todo = <<>>
    /\ identity = "none"
    /\ destinations = {}
    /\ mgmt = {}
    /\ skipped = FALSE

-----------------------------------------------------------------------------
(* start(). *)

\* What the guarded part of start() and the rest of it do, in this order.
Guarded == <<"identity", "control", "remote", "blackhole", "network">>
Rest == <<"stores", "probe">>

\* The destinations a part of start() creates, and whether it does.
Aspects(part) ==
    CASE part = "control" -> {"path.request", "tunnel.synthesize"}
      [] part = "remote" -> {"remote.management"}
      [] part = "blackhole" -> {"info.blackhole"}
      [] part = "network" -> {"network.instance", "network"}
      [] part = "probe" -> {"probe"}
      [] OTHER -> {}

On(part) ==
    \/ part = "control"
    \/ part \in Enabled /\ (part = "probe" => "transport" \in Enabled)

\* Destination(): a destination that needs an identity and is given none
\* makes one of its own.
Destination(aspect, part) ==
    [aspect |-> aspect,
     id |-> IF part = "control" THEN "none"
            ELSE IF part = "network" THEN "network"
            ELSE IF identity = "none" THEN "random" ELSE identity]

Created(part) ==
    IF On(part) THEN {Destination(a, part) : a \in Aspects(part)} ELSE {}

\* register_destination() throws if there is one with the same hash.
Registrable(part) ==
    \A d \in Created(part) : d.id = "random" \/ d \notin destinations

\* Reticulum::start(), and start() up to its try.  It may be called again.
Start ==
    /\ Idle
    /\ starts < MaxStarts
    /\ starts' = starts + 1
    /\ Call("start")
    /\ running' = TRUE
    /\ todo' = Guarded
    /\ UNCHANGED <<locked, overdue, leaked, up, identity, destinations, mgmt,
                   skipped>>

\* The transport identity is loaded, or made and saved, unless there is one;
\* an exception leaves start() without one.
LoadIdentity ==
    /\ At("start")
    /\ todo # <<>> /\ Head(todo) = "identity"
    /\ todo' = Tail(todo)
    /\ \/ identity' = "own" /\ UNCHANGED skipped
       \/ identity = "none" /\ skipped' = TRUE /\ UNCHANGED identity
    /\ UNCHANGED <<running, locked, stack, overdue, leaked, up, starts,
                   destinations, mgmt>>

\* A plausible slip: the destination is registered, not announced.
CreateUnlisted(part) ==
    /\ destinations' = destinations \union Created(part)
    /\ mgmt' = mgmt

\* The destinations of a part; all but the control destinations join the
\* management announces.
Create(part) ==
    /\ destinations' = destinations \union Created(part)
    /\ mgmt' = IF part = "control" THEN mgmt ELSE mgmt \union Created(part)

CreateDestinations ==
    /\ At("start") \/ At("started")
    /\ todo # <<>> /\ Head(todo) # "identity"
    /\ Registrable(Head(todo))
    /\ Create(Head(todo))
    /\ todo' = Tail(todo)
    /\ UNCHANGED <<running, locked, stack, overdue, leaked, up, starts,
                   identity, skipped>>

\* The guarded part ends, or an exception ends it: a destination that is
\* registered already, or whatever else may be thrown.  Without transport the
\* stores are not opened and there is no probe destination.
LeaveGuarded ==
    /\ At("start")
    /\ Become("started")
    /\ running' = FALSE
    /\ skipped' = (skipped \/ todo # <<>>)
    /\ todo' = IF "transport" \in Enabled THEN Rest ELSE <<>>
    /\ UNCHANGED <<locked, overdue, leaked, up, starts, identity,
                   destinations, mgmt>>

\* start() returns, the interfaces sorted; or an exception leaves it and
\* Reticulum::start(), too.
LeaveStart ==
    /\ At("started")
    /\ Return
    /\ up' = (up \/ todo = <<>>)
    /\ skipped' = (skipped \/ todo # <<>>)
    /\ todo' = <<>>
    /\ UNCHANGED <<running, locked, overdue, leaked, starts, identity,
                   destinations, mgmt>>

-----------------------------------------------------------------------------
(* The main loop. *)

\* Reticulum::loop() does its housekeeping and calls the interfaces.
Loop ==
    /\ Idle /\ up
    /\ Call("loop")
    /\ UNCHANGED <<running, locked, overdue, leaked, system>>

\* An interface's loop() delivers what it received.
Poll ==
    /\ At("loop")
    /\ Call("recv")
    /\ UNCHANGED <<running, locked, overdue, leaked, system>>

\* Transport::loop() finds that it is not time for jobs().
LeaveLoop ==
    /\ At("loop")
    /\ Return
    /\ UNCHANGED <<running, locked, overdue, leaked, system>>

\* Transport::loop() calls jobs().
StartJobs ==
    /\ At("loop")
    /\ Call("jobs")
    /\ running' = TRUE
    /\ UNCHANGED <<locked, overdue, leaked, system>>

\* jobs() pumps the watchdogs of the resources of its active links: the
\* receiver of an overdue part asks for it again.
PumpWatchdogs ==
    /\ At("jobs")
    /\ ~ locked
    /\ overdue
    /\ Len(stack) < MaxDepth
    /\ Call("send")
    /\ UNCHANGED <<running, locked, overdue, leaked, system>>

\* Other sends from inside jobs(): the probe of a neighbour a link failed
\* through or that stopped forwarding, the timeout callback of a receipt.
JobsCallSend ==
    /\ At("jobs")
    /\ ~ locked
    /\ Len(stack) < MaxDepth
    /\ Call("send")
    /\ UNCHANGED <<running, locked, overdue, leaked, system>>

\* A plausible slip: the outgoing packets are sent before _jobs_running is
\* cleared.
FinishLate ==
    /\ At("jobs")
    /\ locked \/ ~ overdue
    /\ Become("tail")
    /\ UNCHANGED <<running, locked, overdue, leaked, system>>

\* The guarded part of jobs() ends: nothing was done if _jobs_locked.
FinishJobs ==
    /\ At("jobs")
    /\ locked \/ ~ overdue
    /\ Become("tail")
    /\ running' = FALSE
    /\ UNCHANGED <<locked, overdue, leaked, system>>

\* The announces to pass on, a queued path request, the management announces.
TailSend ==
    /\ At("tail")
    /\ Len(stack) < MaxDepth
    /\ Call("send")
    /\ UNCHANGED <<running, locked, overdue, leaked, system>>

\* jobs() returns, and with it Transport::loop() and Reticulum::loop().
LeaveJobs ==
    /\ At("tail")
    /\ stack' = <<>>
    /\ UNCHANGED <<running, locked, overdue, leaked, system>>

\* The application sends, or hands in what an interface received.
Enter ==
    /\ Idle /\ up
    /\ Call("send") \/ Call("recv")
    /\ UNCHANGED <<running, locked, overdue, leaked, system>>

PassWait ==
    /\ ~ running
    /\ \/ At("send") /\ Become("outbound")
       \/ At("recv") /\ Become("inbound")
    /\ locked' = TRUE
    /\ UNCHANGED <<running, overdue, leaked, system>>

\* inbound() sends (proofs, path responses, callbacks) or replays a packet
\* from the cache.
InboundCall ==
    /\ At("inbound")
    /\ Len(stack) < MaxDepth
    /\ Call("send") \/ Call("recv")
    /\ UNCHANGED <<running, locked, overdue, leaked, system>>

\* The early returns of inbound(): unpack() fails, or the MTU of a link
\* request cannot be clamped.  The lock is not released.
InboundGivesUp ==
    /\ At("inbound")
    /\ Return
    /\ leaked' = TRUE
    /\ UNCHANGED <<running, locked, overdue, system>>

\* inbound() returns after it replayed a packet that was asked for from the
\* cache; the inbound() it called has had its say on the lock.
InboundReplayed ==
    /\ At("inbound")
    /\ ~ locked \/ leaked
    /\ Return
    /\ UNCHANGED <<running, locked, overdue, leaked, system>>

\* The packet may be the overdue part, late.
InboundDone ==
    /\ At("inbound")
    /\ Return
    /\ locked' = FALSE
    /\ leaked' = FALSE
    /\ overdue' \in {overdue, FALSE}
    /\ UNCHANGED <<running, system>>

\* A plausible slip: a packet that is not sent returns without unlocking.
OutboundStaysLocked ==
    /\ At("outbound")
    /\ Return
    /\ overdue' = (overdue /\ ~ FromJobs)
    /\ UNCHANGED <<running, locked, leaked, system>>

OutboundDone ==
    /\ At("outbound")
    /\ Return
    /\ locked' = FALSE
    /\ leaked' = FALSE
    /\ overdue' = (overdue /\ ~ FromJobs)
    /\ UNCHANGED <<running, system>>

\* Something throws behind the lock of inbound() or outbound(): a packet that
\* is not associated with a link, memory that runs out.  The lock is not
\* released.  A callback or an announce that inbound() guards goes no further,
\* nor does what jobs() sent; the rest ends the loop, or the call of the
\* application.
Throw ==
    /\ At("inbound") \/ At("outbound")
    /\ \E k \in 0 .. Len(stack) - 1 :
          /\ k > 0 => stack[k] \in {"inbound", "jobs", "tail"}
          /\ stack' = IF k > 0 /\ stack[k] = "jobs"
                      THEN Append(SubSeq(stack, 1, k - 1), "tail")
                      ELSE SubSeq(stack, 1, k)
          /\ running' = (running /\ (k > 0 => stack[k] # "jobs"))
    /\ leaked' = locked
    /\ UNCHANGED <<locked, overdue, system>>

\* Something else throws in the guarded part of jobs(), which catches it.
JobsThrows ==
    /\ At("jobs")
    /\ Become("tail")
    /\ running' = FALSE
    /\ UNCHANGED <<locked, overdue, leaked, system>>

\* Reticulum::loop() is out of memory: the device restarts.
Reboot ==
    /\ stack # <<>> /\ stack[1] = "loop"
    /\ running' = FALSE /\ locked' = FALSE /\ stack' = <<>>
    /\ overdue' = FALSE /\ leaked' = FALSE
    /\ up' = FALSE /\ todo' = <<>> /\ skipped' = FALSE
    /\ identity' = "none" /\ destinations' = {} /\ mgmt' = {}
    /\ UNCHANGED starts

\* A part that was requested does not arrive in time.
PartOverdue ==
    /\ Idle /\ up
    /\ ~ overdue
    /\ overdue' = TRUE
    /\ UNCHANGED <<running, locked, stack, leaked, system>>

JobsNext ==
    \/ Start \/ LoadIdentity \/ CreateDestinations \/ LeaveGuarded \/ LeaveStart
    \/ Loop \/ Poll \/ LeaveLoop
    \/ StartJobs \/ PumpWatchdogs \/ JobsCallSend \/ FinishJobs
    \/ TailSend \/ LeaveJobs
    \/ Enter \/ PassWait
    \/ InboundCall \/ InboundGivesUp \/ InboundReplayed \/ InboundDone
    \/ OutboundDone
    \/ Throw \/ JobsThrows \/ Reboot
    \/ PartOverdue

JobsSpec == JobsInit /\ [][JobsNext]_jobsVars

\* The main loop runs: it calls jobs() again and again, whatever is called
\* returns, and packets that inbound() completes keep arriving.
Fairness ==
    /\ SF_jobsVars(Loop)
    /\ SF_jobsVars(StartJobs)
    /\ WF_jobsVars(PumpWatchdogs)
    /\ WF_jobsVars(FinishJobs)
    /\ SF_jobsVars(LeaveJobs)
    /\ WF_jobsVars(PassWait)
    /\ SF_jobsVars(InboundDone)
    /\ WF_jobsVars(OutboundDone)

JobsFairSpec == JobsSpec /\ Fairness

-----------------------------------------------------------------------------

\* The one thread waits for itself.
WaitsForItself == running /\ (At("send") \/ At("recv"))

\* Type invariant; start() and loop() are only ever the outermost call, and
\* jobs() is called by loop() alone.
JobsTypeOK ==
    /\ running \in BOOLEAN
    /\ locked \in BOOLEAN
    /\ stack \in Seq(Frames)
    /\ Len(stack) <= MaxDepth
    /\ overdue \in BOOLEAN
    /\ leaked \in BOOLEAN
    /\ up \in BOOLEAN /\ skipped \in BOOLEAN
    /\ starts \in 0 .. MaxStarts
    /\ identity \in {"none", "own"}
    /\ mgmt \subseteq destinations
    /\ \A k \in DOMAIN stack :
          /\ stack[k] \in {"start", "started", "loop"} => k = 1
          /\ stack[k] \in {"jobs", "tail"} => k = 2 /\ stack[1] = "loop"

\* The wait loops of inbound() and outbound() hang only when they were
\* called by jobs() itself, in its guarded part: never on behalf of the
\* application or an interface, never for what jobs() sends at its end, and
\* never because start() or jobs() was left by an exception.
HangsOnlyInJobs ==
    /\ JobsTypeOK
    /\ WaitsForItself => FromJobs /\ At("send")

\* Once start() has returned, and no exception cut it short, every feature
\* that is switched on has its destinations, under the transport identity or
\* that of the network, and jobs() announces them.
ManagedTogether ==
    up /\ Idle /\ ~ skipped =>
        /\ identity = "own"
        /\ \A part \in Feature : Created(part) \subseteq mgmt
        /\ \A d \in mgmt : d.id # "random"

\* When nothing is being handled the lock is free, so that the next jobs()
\* does its work, unless the last packet was one inbound() gave up on, or threw.
LockLeak == Idle /\ locked => leaked

\* "Resource retransmit/timeout retries depend on this - without it, a
\* dropped resource part stalls the transfer forever": with the watchdogs
\* pumped by jobs(), an overdue part is requested again.
PartRetried == overdue ~> ~ overdue
=============================================================================
