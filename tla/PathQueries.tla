---------------------------- MODULE PathQueries -----------------------------
(***************************************************************************)
(* What the path table answers: has_path(), hops_to(), next_hop() and      *)
(* next_hop_interface() to the node itself, and the "table" command of     *)
(* remote_path_handler() to a remote manager (Transport.cpp).              *)
(*                                                                         *)
(* has_path() only asks whether the store has a record, and a listing of   *)
(* all paths takes every record; the others take a record whose interface  *)
(* is not registered for none.                                             *)
(***************************************************************************)
EXTENDS PathTable, FiniteSets

CONSTANTS
    Junk,              \* an element of a request that has the wrong type
    MAX_LISTED         \* paths in one answer

ASSUME QueryAssumption ==
    /\ Junk \notin Dest /\ MAX_LISTED \in Nat
    /\ NoPath \notin Neighbor \union Iface

-----------------------------------------------------------------------------
(* The node's own questions.                                               *)

has_path(d) == path[d] # NoPath

hops_to(d) == IF Valid(d) THEN path[d].hops ELSE PATHFINDER_M

next_hop(d) == IF Valid(d) THEN path[d].from ELSE NoPath

next_hop_interface(d) == IF Valid(d) THEN path[d].iface ELSE NoPath

-----------------------------------------------------------------------------
(* Questions of a remote manager.                                          *)

\* A request is the command, then perhaps a destination, then perhaps a bound
\* on the hops; NoPath stands for nil.
Requests ==
    LET command == {"table", "other"}
        second == Dest \union {NoPath, Junk}
        third == WireHops \union {NoPath, Junk}
    IN  {<<>>} \union { <<c>> : c \in command }
        \union (command \X second) \union (command \X second \X third)

\* remote_path_parse_request() and the test of the command.
Parses(x) ==
    /\ Len(x) >= 1 /\ x[1] = "table"
    /\ Len(x) >= 2 => x[2] # Junk
    /\ Len(x) >= 3 => x[3] # Junk

Single(x) == Len(x) >= 2 /\ x[2] # NoPath

WithinHops(x, d) == Len(x) >= 3 /\ x[3] # NoPath => path[d].hops <= x[3]

\* remote_path_pack_path_entry(): the interface is looked up by its hash.
Row(d) ==
    [dest |-> d, via |-> path[d].from, hops |-> path[d].hops,
     iface |-> IF path[d].iface \in ifaces THEN path[d].iface ELSE NoPath]

\* Plausible slip: a path the node has marked unresponsive is handed out.
AnyPath(d) == has_path(d)

\* With RNS_BLOCK_UNRESPONSIVE_ANNOUNCE, as a path request is answered.
Advertised(d) == has_path(d) /\ ~ path_is_unresponsive(d)

\* The destinations an answer to x is taken from: the one that is asked for,
\* whatever its hops are, or all those within the bound on the hops.
Matching(x) ==
    IF Single(x) THEN { d \in {x[2]} : Advertised(d) /\ Valid(d) }
    ELSE { d \in Dest : Advertised(d) /\ WithinHops(x, d) }

\* remote_path_handler(), command "table": the answers it may give.  A listing
\* ends with its MAX_LISTED-th entry, in the order of the store.
Answers(x) ==
    { S \in SUBSET { Row(d) : d \in Matching(x) } :
        IF Single(x) \/ Cardinality(Matching(x)) <= MAX_LISTED
        THEN S = { Row(d) : d \in Matching(x) }
        ELSE Cardinality(S) = MAX_LISTED }

-----------------------------------------------------------------------------

\* A next hop is given exactly with an interface that can reach it, for a
\* destination has_path() knows, and the hops to it are within the limit.
LookupsAgree ==
    \A d \in Dest :
        /\ next_hop(d) # NoPath <=> next_hop_interface(d) \in ifaces
        /\ next_hop(d) # NoPath => has_path(d)
        /\ hops_to(d) <= PATHFINDER_M

\* A remote manager is told of installed paths only, with the next hop the
\* node itself would use or an interface that is gone, never of one that is
\* marked unresponsive; asked for one destination, of every path in use.
AnswersAreInstalled ==
    \A x \in Requests : Parses(x) => \A answer \in Answers(x) :
        /\ \A row \in answer :
              /\ has_path(row.dest) /\ ~ path_is_unresponsive(row.dest)
              /\ row.iface # NoPath => row.via = next_hop(row.dest)
        /\ Single(x) /\ Valid(x[2]) /\ ~ path_is_unresponsive(x[2]) =>
              \E row \in answer : row.via = next_hop(x[2])

\* The state keeps its type, and what the path table answers agrees.
QueriesAgree == TypeOK /\ LookupsAgree /\ AnswersAreInstalled
=============================================================================
