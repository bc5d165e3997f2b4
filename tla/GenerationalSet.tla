-------------------------- MODULE GenerationalSet --------------------------
(***************************************************************************)
(* The bounded duplicate-suppression set of Utilities/GenerationalSet.h.   *)
(* Transport keeps the tags of the path requests it has seen in one        *)
(* (_discovery_pr_tags), so what this set forgets is what a node answers a *)
(* second time.                                                            *)
(*                                                                         *)
(* The set is two generations.  A value that is in neither is added to     *)
(* active; an insertion that brings active to (max_size + 1) / 2 values    *)
(* makes it the previous generation and discards the old one.  max_size 0  *)
(* never rotates.                                                          *)
(*                                                                         *)
(* n, born and sizes are history variables: no action reads them except    *)
(* for the bound MaxInserts.                                               *)
(***************************************************************************)
EXTENDS Naturals, FiniteSets

CONSTANTS
    T,            \* the values that may be inserted
    Sizes,        \* the values max_size(n) is called with
    MaxInserts    \* bound on the successful insertions of a behaviour

ASSUME SizesAssumption == Sizes \subseteq Nat
ASSUME MaxInsertsAssumption == MaxInserts \in Nat

VARIABLES
    active,       \* _active
    previous,     \* _previous
    max_size,     \* _max_size
    n,            \* history: successful insertions so far
    born,         \* history: the number of v's insertion; 0 when v was never
                  \* inserted, or erased or cleared since
    sizes         \* history: every max_size that was ever in force

setVars == <<active, previous, max_size, n, born, sizes>>

-----------------------------------------------------------------------------

Half(m) == (m + 1) \div 2

\* A plausible slip: the threshold computed as max_size / 2.
RotationDueFloor(a) == max_size > 0 /\ Cardinality(a) >= max_size \div 2
\* A plausible slip: > for >=.
RotationDueLate(a) == max_size > 0 /\ Cardinality(a) > Half(max_size)

rotation_due(a) == max_size > 0 /\ Cardinality(a) >= Half(max_size)

contains(v) == v \in active \/ v \in previous

size == Cardinality(active) + Cardinality(previous)

SetInit ==
    /\ active = {}
    /\ previous = {}
    /\ max_size \in Sizes
    /\ n = 0
    /\ born = [v \in T |-> 0]
    /\ sizes = {max_size}

\* insert(value); both overloads.  A value that is in either generation is
\* left where it is.
Insert(v) ==
    /\ n < MaxInserts
    /\ ~ contains(v)
    /\ LET a == active \union {v}
       IN IF rotation_due(a)
            THEN active' = {} /\ previous' = a
            ELSE active' = a  /\ previous' = previous
    /\ n' = n + 1
    /\ born' = [born EXCEPT ![v] = n + 1]
    /\ UNCHANGED <<max_size, sizes>>

InsertDuplicate(v) ==
    /\ contains(v)
    /\ UNCHANGED setVars

\* erase(value) and erase(iterator)
Erase(v) ==
    /\ contains(v)
    /\ active' = active \ {v}
    /\ previous' = previous \ {v}
    /\ born' = [born EXCEPT ![v] = 0]
    /\ UNCHANGED <<max_size, n, sizes>>

Clear ==
    /\ active' = {}
    /\ previous' = {}
    /\ born' = [v \in T |-> 0]
    /\ UNCHANGED <<max_size, n, sizes>>

\* max_size(m): no rotation happens before the next insertion.
SetMaxSize(m) ==
    /\ max_size' = m
    /\ sizes' = sizes \union {m}
    /\ UNCHANGED <<active, previous, n, born>>

SetNext ==
    \/ \E v \in T : Insert(v)
    \/ \E v \in T : InsertDuplicate(v)
    \/ \E v \in T : Erase(v)
    \/ Clear
    \/ \E m \in Sizes : SetMaxSize(m)

SetSpec == SetInit /\ [][SetNext]_setVars

-----------------------------------------------------------------------------

\* Type invariant.  No value is in both generations at once, as size() and
\* the iteration over previous then active presume.
SetTypeOK ==
    /\ active \in SUBSET T
    /\ previous \in SUBSET T
    /\ IsFiniteSet(active)
    /\ IsFiniteSet(previous)
    /\ active \intersect previous = {}
    /\ max_size \in Sizes
    /\ n \in Nat
    /\ born \in [T -> Nat]
    /\ sizes \in SUBSET Sizes
    /\ max_size \in sizes

\* The duplicate-suppression window.  A value that was inserted, and not
\* erased, is still found until at least half of the smallest capacity in
\* force has been inserted after it, however often the capacity is changed
\* and whatever else is erased.  (The class comment promises a window of
\* "roughly max_size/2 to max_size entries".)
DedupWindow ==
    \A v \in T :
        /\ born[v] > 0
        /\ \A m \in sizes \ {0} : n - born[v] < Half(m)
        => contains(v)

\* The memory bound.  A set whose capacity was never 0 holds no more values
\* than the largest capacity that was ever in force, even right after the
\* capacity was reduced.
SizeBound ==
    0 \notin sizes => \E m \in sizes : size <= m

-----------------------------------------------------------------------------
(* The inductive invariant behind the two.                                 *)

\* What is in the set has been inserted, and a value of the previous
\* generation is older than everything in the active one.
Generations ==
    \A v \in T :
        /\ born[v] <= n
        /\ contains(v) => born[v] > 0
        /\ v \in previous => n - born[v] >= Cardinality(active)

\* A value that dropped out was dropped by a rotation, after half of the
\* capacity then in force had been inserted.
Dropped ==
    \A v \in T :
        born[v] > 0 /\ ~ contains(v)
            => \E m \in sizes \ {0} : n - born[v] >= Half(m)

\* Each generation is within half of a capacity that was in force.
GenerationBound ==
    0 \notin sizes =>
        /\ \E m \in sizes : Cardinality(active) < Half(m)
        /\ \E m \in sizes : Cardinality(previous) <= Half(m)

\* The inductive invariant of GenerationalSet: the part each proof needs.
IndInv == SetTypeOK /\ Generations /\ Dropped /\ GenerationBound
=============================================================================
