-------------------------- MODULE TransportProofs ---------------------------
(***************************************************************************)
(* Proofs about the core of Transport: the set that suppresses duplicates  *)
(* (GenerationalSet), the main loop and the jobs lock (TransportJobs), and *)
(* the path table and what it answers (PathTable, PathQueries).            *)
(*                                                                         *)
(* The set, for any values, capacities and number of insertions.  IndInv   *)
(* is the inductive invariant: a value that dropped out was dropped by a   *)
(* rotation, and each generation is within half of a capacity.             *)
(*                                                                         *)
(* The main loop, for any bounds on the depth of the call stack and on the *)
(* restarts, and any features.  The properties speak of the top of the     *)
(* stack and of the idle node; what makes them inductive is the shape of   *)
(* the whole stack (Shape): who may have called whom; which frames set     *)
(* _jobs_running (Running); and which of them answer for the lock          *)
(* (Locked).                                                               *)
(*                                                                         *)
(* The path table, for every value of the constants: its type, the         *)
(* agreement of queries, the currency of verdicts, and freshness and       *)
(* replay protection.                                                      *)
(***************************************************************************)
EXTENDS GenerationalSet, TransportJobs, PathQueries,
        FiniteSetTheorems, SequenceTheorems, TLAPS

-----------------------------------------------------------------------------
(* The set of duplicates.                                                  *)

\* Half is monotone enough for the capacity arithmetic: two generations of
\* half a capacity, one of them not full, fit into the larger capacity.
LEMMA HalfFits ==
    ASSUME NEW p \in Nat, NEW q \in Nat, NEW a \in Nat, NEW b \in Nat,
           a < Half(p), b <= Half(q)
    PROVE  a + b <= p \/ a + b <= q
  BY DEF Half

\* The initial state of a set satisfies the inductive invariant.
LEMMA InitIndInv == SetInit => IndInv
  <1> SUFFICES ASSUME SetInit PROVE IndInv
      OBVIOUS
  <1>1. SetTypeOK
      BY FS_EmptySet DEF SetInit, SetTypeOK
  <1>2. Generations /\ Dropped
      BY FS_EmptySet DEF SetInit, Generations, Dropped, contains
  <1>3. GenerationBound
      <2> SUFFICES ASSUME 0 \notin sizes
                   PROVE  Cardinality({}) < Half(max_size) /\ Cardinality({}) <= Half(max_size)
          BY DEF GenerationBound, SetInit
      <2>1. max_size \in Nat /\ max_size # 0
          BY SizesAssumption DEF SetInit
      <2> QED BY <2>1, FS_EmptySet DEF Half
  <1> QED BY <1>1, <1>2, <1>3 DEF IndInv

\* An insertion preserves the inductive invariant, whether it rotates the
\* generations or not.
LEMMA InsertIndInv ==
    ASSUME IndInv, NEW v \in T, Insert(v)
    PROVE  IndInv'
  <1> DEFINE a == active \union {v}
  <1>1. /\ IsFiniteSet(a) /\ Cardinality(a) = Cardinality(active) + 1
        /\ Cardinality(active) \in Nat /\ Cardinality(previous) \in Nat
      BY FS_AddElement, FS_CardinalityType DEF IndInv, SetTypeOK, Insert, contains
  <1>2. /\ n' = n + 1 /\ born' = [born EXCEPT ![v] = n + 1]
        /\ max_size' = max_size /\ sizes' = sizes
        /\ n \in Nat /\ born \in [T -> Nat] /\ max_size \in Nat
        /\ max_size \in sizes /\ sizes \in SUBSET Nat
        /\ v \notin active /\ v \notin previous
      BY SizesAssumption DEF IndInv, SetTypeOK, Insert, contains
  <1>3. Half(max_size) \in Nat
      BY <1>2 DEF Half
  <1>4. CASE rotation_due(a)
      <2>1. active' = {} /\ previous' = a
          BY <1>4 DEF Insert
      <2>2. max_size # 0 /\ Cardinality(a) >= Half(max_size)
          BY <1>4, <1>2 DEF rotation_due
      <2>3. SetTypeOK'
          BY <1>1, <1>2, <2>1, FS_EmptySet DEF IndInv, SetTypeOK
      <2>4. Cardinality(active') = 0
          BY <2>1, FS_EmptySet
      <2>5. Generations'
          <3> SUFFICES ASSUME NEW u \in T
                       PROVE  /\ born'[u] <= n'
                              /\ contains(u)' => born'[u] > 0
                              /\ u \in previous' => n' - born'[u] >= Cardinality(active')
              BY DEF Generations
          <3>1. born[u] <= n /\ (contains(u) => born[u] > 0)
              BY DEF IndInv, Generations
          <3>2. born'[u] = IF u = v THEN n + 1 ELSE born[u]
              BY <1>2
          <3>3. contains(u)' => u = v \/ contains(u)
              BY <2>1 DEF contains
          <3> QED BY <1>2, <2>4, <3>1, <3>2, <3>3
      <2>6. Dropped'
          <3> SUFFICES ASSUME NEW u \in T, born'[u] > 0, ~ contains(u)'
                       PROVE  \E m \in sizes' \ {0} : n' - born'[u] >= Half(m)
              BY DEF Dropped, Half
          <3>1. u # v /\ u \notin active
              BY <2>1 DEF contains
          <3>2. born'[u] = born[u] /\ born[u] > 0 /\ born[u] \in Nat
              BY <1>2, <3>1
          <3>3. CASE u \in previous
              <4>1. n - born[u] >= Cardinality(active)
                  BY <3>3 DEF IndInv, Generations
              <4>2. n' - born'[u] >= Half(max_size)
                  BY <4>1, <1>1, <1>2, <1>3, <2>2, <3>2
              <4> QED BY <4>2, <1>2, <2>2
          <3>4. CASE u \notin previous
              <4>1. PICK m \in sizes \ {0} : n - born[u] >= Half(m)
                  BY <3>1, <3>2, <3>4 DEF IndInv, Dropped, contains
              <4>2. Half(m) \in Nat
                  BY <1>2 DEF Half
              <4>3. n' - born'[u] >= Half(m)
                  BY <4>1, <4>2, <1>2, <3>2
              <4> QED BY <4>3, <1>2
          <3> QED BY <3>3, <3>4
      <2>7. GenerationBound'
          <3> SUFFICES ASSUME 0 \notin sizes
                       PROVE  /\ \E m \in sizes : Cardinality(active') < Half(m)
                              /\ \E m \in sizes : Cardinality(previous') <= Half(m)
              BY <1>2 DEF GenerationBound, Half
          <3>1. 0 < Half(max_size)
              BY <1>2, <2>2 DEF Half
          <3>2. PICK m \in sizes : Cardinality(active) < Half(m)
              BY DEF IndInv, GenerationBound
          <3>3. Cardinality(previous') <= Half(m)
              <4>1. Half(m) \in Nat
                  BY <1>2 DEF Half
              <4> QED BY <4>1, <3>2, <2>1, <1>1
          <3> QED BY <3>1, <3>3, <2>4, <1>2
      <2> QED BY <2>3, <2>5, <2>6, <2>7 DEF IndInv
  <1>5. CASE ~ rotation_due(a)
      <2>1. active' = a /\ previous' = previous
          BY <1>5 DEF Insert
      <2>2. SetTypeOK'
          BY <1>1, <1>2, <2>1 DEF IndInv, SetTypeOK
      <2>3. Cardinality(active') = Cardinality(active) + 1
          BY <2>1, <1>1
      <2>4. Generations'
          <3> SUFFICES ASSUME NEW u \in T
                       PROVE  /\ born'[u] <= n'
                              /\ contains(u)' => born'[u] > 0
                              /\ u \in previous' => n' - born'[u] >= Cardinality(active')
              BY DEF Generations
          <3>1. /\ born[u] <= n /\ (contains(u) => born[u] > 0)
                /\ u \in previous => n - born[u] >= Cardinality(active)
              BY DEF IndInv, Generations
          <3>2. born'[u] = IF u = v THEN n + 1 ELSE born[u]
              BY <1>2
          <3>3. contains(u)' => u = v \/ contains(u)
              BY <2>1 DEF contains
          <3> QED BY <1>1, <1>2, <2>1, <2>3, <3>1, <3>2, <3>3
      <2>5. Dropped'
          <3> SUFFICES ASSUME NEW u \in T, born'[u] > 0, ~ contains(u)'
                       PROVE  \E m \in sizes' \ {0} : n' - born'[u] >= Half(m)
              BY DEF Dropped, Half
          <3>1. u # v /\ ~ contains(u)
              BY <2>1 DEF contains
          <3>2. born'[u] = born[u] /\ born[u] > 0 /\ born[u] \in Nat
              BY <1>2, <3>1
          <3>3. PICK m \in sizes \ {0} : n - born[u] >= Half(m)
              BY <3>1, <3>2 DEF IndInv, Dropped
          <3>4. Half(m) \in Nat
              BY <1>2 DEF Half
          <3>5. n' - born'[u] >= Half(m)
              BY <3>2, <3>3, <3>4, <1>2
          <3> QED BY <3>5, <1>2
      <2>6. GenerationBound'
          <3> SUFFICES ASSUME 0 \notin sizes
                       PROVE  /\ \E m \in sizes : Cardinality(active') < Half(m)
                              /\ \E m \in sizes : Cardinality(previous') <= Half(m)
              BY <1>2 DEF GenerationBound, Half
          <3>1. Cardinality(active') < Half(max_size)
              BY <1>1, <1>2, <1>3, <1>5, <2>1 DEF rotation_due
          <3>2. \E m \in sizes : Cardinality(previous') <= Half(m)
              BY <2>1 DEF IndInv, GenerationBound
          <3> QED BY <3>1, <3>2, <1>2
      <2> QED BY <2>2, <2>4, <2>5, <2>6 DEF IndInv
  <1> QED BY <1>4, <1>5

\* Erasing a value preserves the inductive invariant: it only delays the
\* next rotation.
LEMMA EraseIndInv ==
    ASSUME IndInv, NEW v \in T, Erase(v)
    PROVE  IndInv'
  <1>1. /\ n' = n /\ born' = [born EXCEPT ![v] = 0] /\ sizes' = sizes
        /\ max_size' = max_size
        /\ active' = active \ {v} /\ previous' = previous \ {v}
        /\ n \in Nat /\ born \in [T -> Nat] /\ sizes \in SUBSET Nat
      BY SizesAssumption DEF Erase, IndInv, SetTypeOK
  <1>2. /\ IsFiniteSet(active') /\ IsFiniteSet(previous')
        /\ Cardinality(active) \in Nat /\ Cardinality(previous) \in Nat
        /\ Cardinality(active') \in Nat /\ Cardinality(previous') \in Nat
        /\ Cardinality(active') <= Cardinality(active)
        /\ Cardinality(previous') <= Cardinality(previous)
      <2>1. IsFiniteSet(active) /\ IsFiniteSet(previous)
          BY DEF IndInv, SetTypeOK
      <2>2. active' \in SUBSET active /\ previous' \in SUBSET previous
          BY <1>1
      <2> QED BY <2>1, <2>2, FS_Subset, FS_CardinalityType
  <1>3. SetTypeOK'
      BY <1>1, <1>2 DEF IndInv, SetTypeOK
  <1>4. Generations'
      <2> SUFFICES ASSUME NEW u \in T
                   PROVE  /\ born'[u] <= n'
                          /\ contains(u)' => born'[u] > 0
                          /\ u \in previous' => n' - born'[u] >= Cardinality(active')
          BY DEF Generations
      <2>1. /\ born[u] <= n /\ (contains(u) => born[u] > 0)
            /\ u \in previous => n - born[u] >= Cardinality(active)
          BY DEF IndInv, Generations
      <2>2. contains(u)' => u # v /\ contains(u)
          BY <1>1 DEF contains
      <2>3. born'[u] = IF u = v THEN 0 ELSE born[u]
          BY <1>1
      <2>4. u \in previous' => u \in previous /\ u # v
          BY <1>1
      <2> QED BY <1>1, <1>2, <2>1, <2>2, <2>3, <2>4
  <1>5. Dropped'
      <2> SUFFICES ASSUME NEW u \in T, born'[u] > 0, ~ contains(u)'
                   PROVE  \E m \in sizes' \ {0} : n' - born'[u] >= Half(m)
          BY DEF Dropped, Half
      <2>1. u # v /\ born'[u] = born[u]
          BY <1>1
      <2>2. ~ contains(u)
          BY <1>1, <2>1 DEF contains
      <2> QED BY <1>1, <2>1, <2>2 DEF IndInv, Dropped
  <1>6. GenerationBound'
      <2> SUFFICES ASSUME 0 \notin sizes
                   PROVE  /\ \E m \in sizes : Cardinality(active') < Half(m)
                          /\ \E m \in sizes : Cardinality(previous') <= Half(m)
          BY <1>1 DEF GenerationBound, Half
      <2>1. PICK p \in sizes : Cardinality(active) < Half(p)
          BY DEF IndInv, GenerationBound
      <2>2. PICK q \in sizes : Cardinality(previous) <= Half(q)
          BY DEF IndInv, GenerationBound
      <2>3. Half(p) \in Nat /\ Half(q) \in Nat
          BY <1>1 DEF Half
      <2> QED BY <2>1, <2>2, <2>3, <1>2
  <1> QED BY <1>3, <1>4, <1>5, <1>6 DEF IndInv

\* Every step preserves the inductive invariant.
LEMMA NextIndInv == IndInv /\ [SetNext]_setVars => IndInv'
  <1> SUFFICES ASSUME IndInv, [SetNext]_setVars PROVE IndInv'
      OBVIOUS
  <1>1. CASE \E v \in T : Insert(v)
      BY <1>1, InsertIndInv
  <1>2. CASE (\E v \in T : InsertDuplicate(v)) \/ UNCHANGED setVars
      <2>1. UNCHANGED setVars
          BY <1>2 DEF InsertDuplicate
      <2> QED BY <2>1 DEF setVars, IndInv, SetTypeOK, Generations, Dropped, GenerationBound, contains, Half
  <1>3. CASE \E v \in T : Erase(v)
      BY <1>3, EraseIndInv
  <1>4. CASE Clear
      <2>1. SetTypeOK'
          BY <1>4, FS_EmptySet DEF Clear, IndInv, SetTypeOK
      <2>2. Generations' /\ Dropped'
          BY <1>4 DEF Clear, IndInv, SetTypeOK, Generations, Dropped, contains
      <2>3. GenerationBound'
          <3> SUFFICES ASSUME 0 \notin sizes
                       PROVE  Cardinality({}) < Half(max_size) /\ Cardinality({}) <= Half(max_size)
              BY <1>4 DEF Clear, GenerationBound, Half, IndInv, SetTypeOK
          <3>1. max_size \in Nat /\ max_size # 0
              BY SizesAssumption DEF IndInv, SetTypeOK
          <3> QED BY <3>1, FS_EmptySet DEF Half
      <2> QED BY <2>1, <2>2, <2>3 DEF IndInv
  <1>5. CASE \E m \in Sizes : SetMaxSize(m)
      <2>1. PICK m \in Sizes : SetMaxSize(m)
          BY <1>5
      <2>2. SetTypeOK'
          BY <2>1 DEF SetMaxSize, IndInv, SetTypeOK
      <2>3. Generations'
          BY <2>1 DEF SetMaxSize, IndInv, Generations, contains
      <2>4. Dropped'
          BY <2>1 DEF SetMaxSize, IndInv, Dropped, contains, Half
      <2>5. GenerationBound'
          BY <2>1 DEF SetMaxSize, IndInv, GenerationBound, Half
      <2> QED BY <2>2, <2>3, <2>4, <2>5 DEF IndInv
  <1> QED BY <1>1, <1>2, <1>3, <1>4, <1>5 DEF SetNext

\* The inductive invariant holds in every reachable state.
LEMMA IndInvHolds == SetSpec => []IndInv
  BY InitIndInv, NextIndInv, PTL DEF SetSpec

-----------------------------------------------------------------------------

\* The generations stay disjoint finite sets of values (SetTypeOK) under every
\* sequence of insert, erase, clear and max_size calls.
THEOREM SetTypeCorrect == SetSpec => []SetTypeOK
  <1>1. IndInv => SetTypeOK
      BY DEF IndInv
  <1> QED BY <1>1, IndInvHolds, PTL

\* insert() never forgets a value before half of the smallest capacity in
\* force has been inserted after it (DedupWindow).
THEOREM DedupWindowHolds == SetSpec => []DedupWindow
  <1>1. IndInv => DedupWindow
      <2> SUFFICES ASSUME IndInv, NEW v \in T, born[v] > 0, ~ contains(v),
                          \A m \in sizes \ {0} : n - born[v] < Half(m)
                   PROVE  FALSE
          BY DEF DedupWindow
      <2>1. PICK m \in sizes \ {0} : n - born[v] >= Half(m)
          BY DEF IndInv, Dropped
      <2>2. n - born[v] < Half(m)
          OBVIOUS
      <2>3. n - born[v] \in Int /\ Half(m) \in Int
          BY SizesAssumption DEF IndInv, SetTypeOK, Half
      <2> QED BY <2>1, <2>2, <2>3
  <1> QED BY <1>1, IndInvHolds, PTL

\* A set whose capacity was never 0 never outgrows the largest capacity it
\* was given (SizeBound).
THEOREM SizeBoundHolds == SetSpec => []SizeBound
  <1>1. IndInv => SizeBound
      <2> SUFFICES ASSUME IndInv, 0 \notin sizes
                   PROVE  \E m \in sizes : size <= m
          BY DEF SizeBound
      <2>1. PICK p \in sizes : Cardinality(active) < Half(p)
          BY DEF IndInv, GenerationBound
      <2>2. PICK q \in sizes : Cardinality(previous) <= Half(q)
          BY DEF IndInv, GenerationBound
      <2>3. /\ p \in Nat /\ q \in Nat
            /\ Cardinality(active) \in Nat /\ Cardinality(previous) \in Nat
          BY SizesAssumption, FS_CardinalityType DEF IndInv, SetTypeOK
      <2>4. size <= p \/ size <= q
          BY <2>1, <2>2, <2>3, HalfFits DEF size
      <2> QED BY <2>4
  <1> QED BY <1>1, IndInvHolds, PTL

-----------------------------------------------------------------------------
(* The main loop and the jobs lock.                                        *)

\* The guarded part of start(), and the rest of it, call nothing.  jobs() is
\* called by loop(), and in its guarded part at most one send is pending,
\* which cannot get past its wait.
Shape ==
    \A k \in DOMAIN stack :
        /\ stack[k] \in {"start", "started"} => Len(stack) = 1
        /\ stack[k] = "loop" => k = 1
        /\ stack[k] = "tail" => k = 2 /\ stack[1] = "loop"
        /\ stack[k] = "jobs" =>
              /\ k = 2 /\ stack[1] = "loop"
              /\ Len(stack) = 2 \/ (Len(stack) = 3 /\ stack[3] = "send")

\* _jobs_running is set exactly in the guarded parts of start() and jobs().
Running == running <=> (\E k \in DOMAIN stack : stack[k] \in {"start", "jobs"})

\* Whoever holds the lock is on the stack, or has left it behind.
Locked ==
    locked => \/ leaked
              \/ \E k \in DOMAIN stack : stack[k] \in {"inbound", "outbound"}

\* The types of what the calls work with.
Types ==
    /\ running \in BOOLEAN /\ locked \in BOOLEAN
    /\ stack \in Seq(Frames) /\ Len(stack) <= MaxDepth
    /\ overdue \in BOOLEAN /\ leaked \in BOOLEAN
    /\ up \in BOOLEAN /\ skipped \in BOOLEAN
    /\ starts \in 0 .. MaxStarts
    /\ identity \in {"none", "own"}
    /\ mgmt \subseteq destinations

StackInv == Types /\ Shape /\ Running /\ Locked

-----------------------------------------------------------------------------
(* The stack. *)

\* What a call, a change of the frame at the top and a return make of it.
LEMMA CallFacts ==
    ASSUME stack \in Seq(Frames), NEW f \in Frames, Call(f)
    PROVE  /\ stack' \in Seq(Frames) /\ Len(stack') = Len(stack) + 1
           /\ DOMAIN stack' = 1 .. Len(stack) + 1 /\ DOMAIN stack = 1 .. Len(stack)
           /\ \A k \in 1 .. Len(stack) : stack'[k] = stack[k]
           /\ stack'[Len(stack) + 1] = f
  BY DEF Call

\* The stack without its top frame.
LEMMA FrontFacts ==
    ASSUME stack \in Seq(Frames), stack # <<>>
    PROVE  /\ Len(stack) \in Nat \ {0} /\ DOMAIN stack = 1 .. Len(stack)
           /\ Front(stack) \in Seq(Frames) /\ Len(Front(stack)) = Len(stack) - 1
           /\ \A k \in 1 .. Len(stack) - 1 : Front(stack)[k] = stack[k]
  <1>1. Len(stack) \in Nat \ {0} /\ DOMAIN stack = 1 .. Len(stack)
      BY EmptySeq, LenProperties
  <1>2. \A k \in 1 .. Len(stack) - 1 : stack[k] \in Frames
      BY <1>1, ElementOfSeq
  <1>3. /\ SubSeq(stack, 1, Len(stack) - 1) \in Seq(Frames)
        /\ Len(SubSeq(stack, 1, Len(stack) - 1)) = Len(stack) - 1
        /\ \A k \in 1 .. Len(stack) - 1 : SubSeq(stack, 1, Len(stack) - 1)[k] = stack[k]
      BY <1>1, <1>2, SubSeqProperties
  <1> QED BY <1>1, <1>3 DEF Front

\* Become replaces the top frame and leaves its callers.
LEMMA BecomeFacts ==
    ASSUME stack \in Seq(Frames), stack # <<>>, NEW f \in Frames, Become(f)
    PROVE  /\ stack' \in Seq(Frames) /\ Len(stack') = Len(stack)
           /\ Len(stack) \in Nat \ {0}
           /\ DOMAIN stack' = 1 .. Len(stack) /\ DOMAIN stack = 1 .. Len(stack)
           /\ \A k \in 1 .. Len(stack) - 1 : stack'[k] = stack[k]
           /\ stack'[Len(stack)] = f
  <1>1. /\ Len(stack) \in Nat \ {0} /\ DOMAIN stack = 1 .. Len(stack)
        /\ Front(stack) \in Seq(Frames) /\ Len(Front(stack)) = Len(stack) - 1
        /\ \A k \in 1 .. Len(stack) - 1 : Front(stack)[k] = stack[k]
      BY FrontFacts
  <1>2. stack' = Append(Front(stack), f)
      BY DEF Become
  <1>3. stack' \in Seq(Frames)
      BY <1>1, <1>2
  <1>5. Len(stack') = Len(stack)
      <2>1. \A t \in Seq(Frames) : Len(Append(t, f)) = Len(t) + 1
          BY AppendProperties
      <2>2. Len(stack') = Len(Front(stack)) + 1
          BY <1>1, <1>2, <2>1
      <2> HIDE <1>2
      <2> QED BY <1>1, <2>2
  <1>6. DOMAIN stack' = 1 .. Len(stack)
      BY <1>3, <1>5
  <1>7. stack'[Len(stack)] = f
      BY <1>1, <1>2
  <1>4. \A k \in 1 .. Len(stack) - 1 : stack'[k] = stack[k]
      BY <1>1, <1>2
  <1> QED BY <1>1, <1>3, <1>4, <1>5, <1>6, <1>7

\* Return removes the top frame and leaves its callers.
LEMMA ReturnFacts ==
    ASSUME stack \in Seq(Frames), stack # <<>>, Return
    PROVE  /\ stack' \in Seq(Frames) /\ Len(stack') = Len(stack) - 1
           /\ Len(stack) \in Nat \ {0}
           /\ DOMAIN stack' = 1 .. Len(stack) - 1 /\ DOMAIN stack = 1 .. Len(stack)
           /\ \A k \in 1 .. Len(stack) - 1 : stack'[k] = stack[k]
  BY FrontFacts, LenProperties DEF Return

\* An exception nobody catches, or a reboot, leaves no frame.
LEMMA EmptyFacts ==
    ASSUME stack' = <<>>
    PROVE  stack' \in Seq(Frames) /\ Len(stack') = 0 /\ DOMAIN stack' = {}
  OBVIOUS

\* What is at the top.
LEMMA TopFacts ==
    ASSUME stack \in Seq(Frames), NEW f, At(f)
    PROVE  /\ stack # <<>> /\ Len(stack) \in Nat \ {0}
           /\ DOMAIN stack = 1 .. Len(stack) /\ stack[Len(stack)] = f
  BY FrontFacts DEF At, Last
-----------------------------------------------------------------------------
(* The invariant of the stack. *)

\* The stack invariant holds of the empty stack the node starts with.
LEMMA StackInit == JobsInit => StackInv
  <1> SUFFICES ASSUME JobsInit PROVE StackInv
      OBVIOUS
  <1>1. stack \in Seq(Frames) /\ Len(stack) = 0 /\ DOMAIN stack = {}
      BY DEF JobsInit
  <1>2. Len(stack) <= MaxDepth /\ starts \in 0 .. MaxStarts
      BY <1>1, DepthAssumption DEF JobsInit
  <1>3. Types
      BY <1>1, <1>2 DEF JobsInit, Types
  <1>4. Shape /\ Running /\ Locked
      BY <1>1 DEF JobsInit, Shape, Running, Locked
  <1> QED BY <1>3, <1>4 DEF StackInv

\* What a call leaves well typed.
LEMMA StepTypes ==
    ASSUME Types, JobsNext, stack' \in Seq(Frames), Len(stack') <= MaxDepth
    PROVE  Types'
  <1>1. starts' \in 0 .. MaxStarts
    <2>1. starts' = starts \/ (starts < MaxStarts /\ starts' = starts + 1)
      BY DEF JobsNext, Start, LoadIdentity, CreateDestinations,
         LeaveGuarded, LeaveStart, Loop, Poll, LeaveLoop, StartJobs, PumpWatchdogs,
         JobsCallSend, FinishJobs, TailSend, LeaveJobs, Enter, PassWait, InboundCall,
         InboundGivesUp, InboundReplayed, InboundDone, OutboundDone, Throw, JobsThrows,
         Reboot, PartOverdue, system
    <2> QED BY <2>1, DepthAssumption DEF Types
  <1>2. running' \in BOOLEAN
      BY DEF Types, JobsNext, Start, LoadIdentity, CreateDestinations,
         LeaveGuarded, LeaveStart, Loop, Poll, LeaveLoop, StartJobs, PumpWatchdogs,
         JobsCallSend, FinishJobs, TailSend, LeaveJobs, Enter, PassWait, InboundCall,
         InboundGivesUp, InboundReplayed, InboundDone, OutboundDone, Throw, JobsThrows,
         Reboot, PartOverdue
  <1>3. locked' \in BOOLEAN /\ leaked' \in BOOLEAN
      BY DEF Types, JobsNext, Start, LoadIdentity, CreateDestinations,
         LeaveGuarded, LeaveStart, Loop, Poll, LeaveLoop, StartJobs, PumpWatchdogs,
         JobsCallSend, FinishJobs, TailSend, LeaveJobs, Enter, PassWait, InboundCall,
         InboundGivesUp, InboundReplayed, InboundDone, OutboundDone, Throw, JobsThrows,
         Reboot, PartOverdue
  <1>4. overdue' \in BOOLEAN
      BY DEF Types, JobsNext, Start, LoadIdentity, CreateDestinations,
         LeaveGuarded, LeaveStart, Loop, Poll, LeaveLoop, StartJobs, PumpWatchdogs,
         JobsCallSend, FinishJobs, TailSend, LeaveJobs, Enter, PassWait, InboundCall,
         InboundGivesUp, InboundReplayed, InboundDone, OutboundDone, Throw, JobsThrows,
         Reboot, PartOverdue
  <1>5. up' \in BOOLEAN /\ skipped' \in BOOLEAN
      BY DEF Types, JobsNext, Start, LoadIdentity, CreateDestinations,
         LeaveGuarded, LeaveStart, Loop, Poll, LeaveLoop, StartJobs, PumpWatchdogs,
         JobsCallSend, FinishJobs, TailSend, LeaveJobs, Enter, PassWait, InboundCall,
         InboundGivesUp, InboundReplayed, InboundDone, OutboundDone, Throw, JobsThrows,
         Reboot, PartOverdue, system
  <1>6. identity' \in {"none", "own"} /\ mgmt' \subseteq destinations'
      BY DEF Types, JobsNext, Start, LoadIdentity, CreateDestinations, Create,
         LeaveGuarded, LeaveStart, Loop, Poll, LeaveLoop, StartJobs, PumpWatchdogs,
         JobsCallSend, FinishJobs, TailSend, LeaveJobs, Enter, PassWait, InboundCall,
         InboundGivesUp, InboundReplayed, InboundDone, OutboundDone, Throw, JobsThrows,
         Reboot, PartOverdue, system
  <1> QED BY <1>1, <1>2, <1>3, <1>4, <1>5, <1>6 DEF Types


\* Len(stack) as a number, and the frames.
LEMMA StackFacts ==
    ASSUME StackInv
    PROVE  /\ stack \in Seq(Frames) /\ Len(stack) \in Nat
           /\ DOMAIN stack = 1 .. Len(stack)
           /\ \A k \in 1 .. Len(stack) : stack[k] \in Frames
  BY LenProperties, ElementOfSeq DEF StackInv, Types

\* A frame is put on the stack.
LEMMA StackCall ==
    ASSUME StackInv,
           \/ Start \/ Loop \/ Poll \/ StartJobs \/ PumpWatchdogs \/ JobsCallSend
           \/ TailSend \/ Enter \/ InboundCall
    PROVE  StackInv'
  <1>0. /\ stack \in Seq(Frames) /\ Len(stack) \in Nat /\ MaxDepth \in Nat
        /\ DOMAIN stack = 1 .. Len(stack) /\ MaxDepth >= 2
      BY StackFacts, DepthAssumption
  <1>1. CASE Start
      <2>1. Call("start") /\ "start" \in Frames
          BY <1>1 DEF Start, Frames
      <2>2. Len(stack) = 0
          BY <1>1 DEF Start, Idle
      <2>3. Types'
          <3>1. stack' \in Seq(Frames) /\ Len(stack') = Len(stack) + 1
              BY <1>0, <2>1, CallFacts
          <3>2. Len(stack') <= MaxDepth
              BY <1>0, <2>2, <3>1
          <3> QED BY <3>1, <3>2, <1>1, StepTypes DEF JobsNext, StackInv
      <2>4. Shape' /\ Running' /\ Locked'
          BY <1>0, <1>1, <2>1, <2>2, CallFacts
          DEF Start, StackInv, Shape, Running, Locked
      <2> QED BY <2>3, <2>4 DEF StackInv
  <1>2. CASE Loop
      <2>1. Call("loop") /\ "loop" \in Frames
          BY <1>2 DEF Loop, Frames
      <2>2. Len(stack) = 0
          BY <1>2 DEF Loop, Idle
      <2>3. Types'
          <3>1. stack' \in Seq(Frames) /\ Len(stack') = Len(stack) + 1
              BY <1>0, <2>1, CallFacts
          <3>2. Len(stack') <= MaxDepth
              BY <1>0, <2>2, <3>1
          <3> QED BY <3>1, <3>2, <1>2, StepTypes DEF JobsNext, StackInv
      <2>4. Shape' /\ Running' /\ Locked'
          BY <1>0, <1>2, <2>1, <2>2, CallFacts
          DEF Loop, StackInv, Shape, Running, Locked
      <2> QED BY <2>3, <2>4 DEF StackInv
  <1>3. CASE StartJobs
      <2>1. Call("jobs") /\ "jobs" \in Frames
          BY <1>3 DEF StartJobs, Frames
      <2>2. Len(stack) = 1 /\ stack[1] = "loop"
          BY <1>0, <1>3, TopFacts DEF StartJobs, StackInv, Shape
      <2>3. Types'
          <3>1. stack' \in Seq(Frames) /\ Len(stack') = Len(stack) + 1
              BY <1>0, <2>1, CallFacts
          <3>2. Len(stack') <= MaxDepth
              BY <1>0, <2>2, <3>1
          <3> QED BY <3>1, <3>2, <1>3, StepTypes DEF JobsNext, StackInv
      <2>4. Shape' /\ Running' /\ Locked'
          BY <1>0, <1>3, <2>1, <2>2, CallFacts
          DEF StartJobs, StackInv, Shape, Running, Locked
      <2> QED BY <2>3, <2>4 DEF StackInv
  <1>4. CASE Poll \/ TailSend \/ Enter \/ InboundCall
      <2>1. PICK f \in {"send", "recv"} : Call(f)
          BY <1>4 DEF Poll, TailSend, Enter, InboundCall
      <2>2. f \in Frames
          BY DEF Frames
      <2>3. Len(stack) < MaxDepth
          BY <1>0, <1>4, TopFacts DEF Poll, TailSend, Enter, InboundCall, Idle, StackInv, Shape
      <2>4. \A k \in DOMAIN stack : stack[k] \notin {"start", "started", "jobs"}
          <3>1. CASE Enter
              BY <1>0, <3>1 DEF Enter, Idle
          <3>2. CASE Poll
              BY <1>0, <3>2, TopFacts DEF Poll, StackInv, Shape
          <3>3. CASE TailSend
              BY <1>0, <3>3, TopFacts DEF TailSend, StackInv, Shape
          <3>4. CASE InboundCall
              BY <1>0, <3>4, TopFacts DEF InboundCall, StackInv, Shape
          <3> QED BY <1>4, <3>1, <3>2, <3>3, <3>4
      <2>5. Types'
          BY <1>0, <1>4, <2>1, <2>2, <2>3, CallFacts, StepTypes DEF JobsNext, StackInv
      <2>6. UNCHANGED <<running, locked, leaked>>
          BY <1>4 DEF Poll, TailSend, Enter, InboundCall
      <2>7. Shape' /\ Running' /\ Locked'
          BY <1>0, <2>1, <2>2, <2>4, <2>6, CallFacts DEF StackInv, Shape, Running, Locked
      <2> QED BY <2>5, <2>7 DEF StackInv
  <1>5. CASE PumpWatchdogs \/ JobsCallSend
      <2>1. Call("send") /\ "send" \in Frames /\ Len(stack) < MaxDepth /\ At("jobs")
          BY <1>5 DEF PumpWatchdogs, JobsCallSend, Frames
      <2>2. Len(stack) = 2 /\ stack[1] = "loop" /\ stack[2] = "jobs"
          BY <1>0, <2>1, TopFacts DEF StackInv, Shape
      <2>3. Types'
          BY <1>0, <1>5, <2>1, CallFacts, StepTypes DEF JobsNext, StackInv
      <2>4. UNCHANGED <<running, locked, leaked>>
          BY <1>5 DEF PumpWatchdogs, JobsCallSend
      <2>5. Shape' /\ Running' /\ Locked'
          BY <1>0, <2>1, <2>2, <2>4, CallFacts DEF StackInv, Shape, Running, Locked
      <2> QED BY <2>3, <2>5 DEF StackInv
  <1> QED BY <1>1, <1>2, <1>3, <1>4, <1>5


\* The frame at the top is replaced.
LEMMA StackBecome ==
    ASSUME StackInv, LeaveGuarded \/ FinishJobs \/ JobsThrows \/ PassWait
    PROVE  StackInv'
  <1>0. /\ stack \in Seq(Frames) /\ Len(stack) \in Nat /\ Len(stack) <= MaxDepth
        /\ DOMAIN stack = 1 .. Len(stack)
      BY StackFacts DEF StackInv, Types
  <1>1. CASE LeaveGuarded
      <2>1. Become("started") /\ "started" \in Frames
          BY <1>1 DEF LeaveGuarded, Frames
      <2>2. Len(stack) = 1 /\ stack # <<>>
          BY <1>0, <1>1, TopFacts DEF LeaveGuarded, StackInv, Shape
      <2>3. stack' \in Seq(Frames) /\ Len(stack') <= MaxDepth
          BY <1>0, <2>1, <2>2, BecomeFacts
      <2>4. Types'
          BY <1>1, <2>3, StepTypes DEF JobsNext, StackInv
      <2>5. Shape' /\ Running' /\ Locked'
          <3>1. stack'[1] = "started" /\ DOMAIN stack' = {1} /\ Len(stack') = 1
              BY <1>0, <2>1, <2>2, BecomeFacts
          <3>2. DOMAIN stack = {1} /\ stack[1] = "start"
              BY <1>0, <1>1, <2>2, TopFacts DEF LeaveGuarded
          <3> QED BY <1>1, <3>1, <3>2
              DEF LeaveGuarded, StackInv, Shape, Running, Locked
      <2> QED BY <2>4, <2>5 DEF StackInv
  <1>2. CASE FinishJobs \/ JobsThrows
      <2>1. Become("tail") /\ "tail" \in Frames /\ At("jobs") /\ ~ running'
          BY <1>2 DEF FinishJobs, JobsThrows, Frames
      <2>2. Len(stack) = 2 /\ stack[1] = "loop" /\ stack[2] = "jobs" /\ stack # <<>>
          BY <1>0, <2>1, TopFacts DEF StackInv, Shape
      <2>3. stack' \in Seq(Frames) /\ Len(stack') <= MaxDepth
          BY <1>0, <2>1, <2>2, BecomeFacts
      <2>4. Types'
          BY <1>2, <2>3, StepTypes DEF JobsNext, StackInv
      <2>5. UNCHANGED <<locked, leaked>>
          BY <1>2 DEF FinishJobs, JobsThrows
      <2>6. Shape' /\ Running' /\ Locked'
          <3>1. /\ stack'[1] = "loop" /\ stack'[2] = "tail"
                /\ DOMAIN stack' = {1, 2} /\ Len(stack') = 2
              BY <1>0, <2>1, <2>2, BecomeFacts
          <3>2. DOMAIN stack = {1, 2}
              BY <1>0, <2>2
          <3> QED BY <2>1, <2>2, <2>5, <3>1, <3>2
              DEF StackInv, Shape, Running, Locked
      <2> QED BY <2>4, <2>6 DEF StackInv
  <1>3. CASE PassWait
      <2>1. PICK f \in {"outbound", "inbound"} : Become(f)
          BY <1>3 DEF PassWait
      <2>2. f \in Frames
          BY DEF Frames
      <2>3. PICK g \in {"send", "recv"} : At(g)
          BY <1>3 DEF PassWait
      <2>4. stack # <<>> /\ stack[Len(stack)] = g /\ Len(stack) \in DOMAIN stack
          BY <1>0, <2>3, TopFacts
      <2>5. stack' \in Seq(Frames) /\ Len(stack') <= MaxDepth
          BY <1>0, <2>1, <2>2, <2>4, BecomeFacts
      <2>6. Types'
          BY <1>3, <2>5, StepTypes DEF JobsNext, StackInv
      <2>7. \A k \in DOMAIN stack : stack[k] \notin {"start", "jobs"}
          BY <1>3 DEF PassWait, StackInv, Running
      <2>8. Shape' /\ Running' /\ Locked'
          BY <1>0, <1>3, <2>1, <2>2, <2>4, <2>7, BecomeFacts
          DEF PassWait, StackInv, Shape, Running, Locked
      <2> QED BY <2>6, <2>8 DEF StackInv
  <1> QED BY <1>1, <1>2, <1>3

\* A frame returns.
LEMMA StackReturn ==
    ASSUME StackInv,
           \/ LeaveStart \/ LeaveLoop \/ InboundGivesUp \/ InboundReplayed
           \/ InboundDone \/ OutboundDone
    PROVE  StackInv'
  <1>0. /\ stack \in Seq(Frames) /\ Len(stack) \in Nat /\ Len(stack) <= MaxDepth
        /\ DOMAIN stack = 1 .. Len(stack) /\ MaxDepth \in Nat
      BY StackFacts, DepthAssumption DEF StackInv, Types
  <1>1. Return /\ running' = running
      BY DEF LeaveStart, LeaveLoop, InboundGivesUp, InboundReplayed, InboundDone, OutboundDone
  <1>2. PICK f \in {"started", "loop", "inbound", "outbound"} : At(f)
      BY DEF LeaveStart, LeaveLoop, InboundGivesUp, InboundReplayed, InboundDone, OutboundDone
  <1>3. stack # <<>> /\ stack[Len(stack)] = f /\ Len(stack) \in DOMAIN stack
      BY <1>0, <1>2, TopFacts
  <1>4. stack' \in Seq(Frames) /\ Len(stack') = Len(stack) - 1
      BY <1>0, <1>1, <1>3, ReturnFacts
  <1>5. Types'
      <2>1. Len(stack') <= MaxDepth
          BY <1>0, <1>4
      <2> QED BY <1>4, <2>1, StepTypes DEF JobsNext, StackInv
  <1>6. Shape' /\ Running'
      <2>1. \A k \in DOMAIN stack : stack[k] # "jobs"
          BY <1>0, <1>3 DEF StackInv, Shape
      <2> QED BY <1>0, <1>1, <1>3, <2>1, ReturnFacts DEF StackInv, Shape, Running
  <1>7. Locked'
      <2>1. CASE InboundGivesUp
          BY <2>1 DEF InboundGivesUp, Locked
      <2>2. CASE InboundDone \/ OutboundDone
          BY <2>2 DEF InboundDone, OutboundDone, Locked
      <2>3. CASE InboundReplayed
          BY <2>3 DEF InboundReplayed, Locked
      <2>4. CASE LeaveStart \/ LeaveLoop
          <3>1. locked' = locked /\ leaked' = leaked /\ (At("started") \/ At("loop"))
              BY <2>4 DEF LeaveStart, LeaveLoop
          <3>2. Len(stack) = 1 /\ stack[1] \in {"started", "loop"}
              BY <1>0, <3>1, TopFacts DEF StackInv, Shape
          <3> QED BY <1>0, <3>1, <3>2 DEF StackInv, Locked
      <2> QED BY <2>1, <2>2, <2>3, <2>4
  <1> QED BY <1>5, <1>6, <1>7 DEF StackInv


\* An exception unwinds the stack to the frame at k, which cannot be jobs():
\* nothing that jobs() called gets as far as to throw.
LEMMA StackThrow == ASSUME StackInv, Throw PROVE StackInv'
  <1>0. /\ stack \in Seq(Frames) /\ Len(stack) \in Nat /\ Len(stack) <= MaxDepth
        /\ DOMAIN stack = 1 .. Len(stack) /\ MaxDepth \in Nat
        /\ \A k \in 1 .. Len(stack) : stack[k] \in Frames
      BY StackFacts, DepthAssumption DEF StackInv, Types
  <1>1. PICK f \in {"inbound", "outbound"} : At(f)
      BY DEF Throw
  <1>2. stack[Len(stack)] = f /\ Len(stack) \in DOMAIN stack
      BY <1>0, <1>1, TopFacts
  <1>3. \A k \in DOMAIN stack : stack[k] \notin {"start", "started", "jobs"}
      BY <1>0, <1>2 DEF StackInv, Shape
  <1>4. ~ running
      BY <1>3 DEF StackInv, Running
  <1>5. PICK k \in 0 .. Len(stack) - 1 :
          /\ stack' = IF k > 0 /\ stack[k] = "jobs"
                      THEN Append(SubSeq(stack, 1, k - 1), "tail")
                      ELSE SubSeq(stack, 1, k)
          /\ running' = (running /\ (k > 0 => stack[k] # "jobs"))
      BY DEF Throw
  <1>6. stack' = SubSeq(stack, 1, k)
      BY <1>0, <1>3, <1>5
  <1>7. /\ stack' \in Seq(Frames) /\ Len(stack') = k
        /\ \A i \in 1 .. k : stack'[i] = stack[i]
      BY <1>0, <1>6, SubSeqProperties
  <1>8. DOMAIN stack' = 1 .. k
      BY <1>7, LenProperties
  <1>9. Types'
      <2>1. Len(stack') <= MaxDepth
          BY <1>0, <1>7
      <2> QED BY <1>7, <2>1, StepTypes DEF JobsNext, StackInv
  <1>10. Shape'
      <2>1. \A i \in 1 .. k : i \in 1 .. Len(stack) /\ (k >= 2 => 2 \in 1 .. k)
                /\ 1 \in 1 .. k
          BY <1>0
      <2> QED BY <1>0, <1>3, <1>7, <1>8, <2>1 DEF StackInv, Shape
  <1>11. Running'
      <2>1. ~ running'
          BY <1>4, <1>5
      <2>2. \A i \in DOMAIN stack' : stack'[i] \notin {"start", "jobs"}
          BY <1>0, <1>3, <1>7, <1>8
      <2> QED BY <2>1, <2>2 DEF Running
  <1>12. Locked'
      BY DEF Throw, StackInv, Types, Locked
  <1> QED BY <1>9, <1>10, <1>11, <1>12 DEF StackInv

\* The steps that leave the stack alone, or clear it.
LEMMA StackRest ==
    ASSUME StackInv,
           \/ LoadIdentity \/ CreateDestinations \/ PartOverdue
           \/ LeaveJobs \/ Reboot
    PROVE  StackInv'
  <1>0. /\ stack \in Seq(Frames) /\ Len(stack) \in Nat /\ Len(stack) <= MaxDepth
        /\ DOMAIN stack = 1 .. Len(stack) /\ MaxDepth \in Nat
      BY StackFacts, DepthAssumption DEF StackInv, Types
  <1>1. CASE LoadIdentity \/ CreateDestinations \/ PartOverdue
      <2>1. UNCHANGED <<stack, running, locked, leaked>>
          BY <1>1 DEF LoadIdentity, CreateDestinations, PartOverdue
      <2>2. Types'
          BY <1>0, <1>1, <2>1, StepTypes DEF JobsNext, StackInv
      <2> QED BY <2>1, <2>2 DEF StackInv, Shape, Running, Locked
  <1>2. CASE LeaveJobs \/ Reboot
      <2>1. stack' = <<>> /\ stack' \in Seq(Frames) /\ Len(stack') = 0 /\ DOMAIN stack' = {}
          BY <1>2, EmptyFacts DEF LeaveJobs, Reboot
      <2>2. Types'
          BY <1>0, <1>2, <2>1, StepTypes DEF JobsNext, StackInv
      <2>3. ~ running'
          <3>1. CASE Reboot
              BY <3>1 DEF Reboot
          <3>2. CASE LeaveJobs
              <4>1. Len(stack) \in DOMAIN stack /\ stack[Len(stack)] = "tail"
                  BY <1>0, <3>2, TopFacts DEF LeaveJobs
              <4>2. Len(stack) = 2 /\ stack[1] = "loop"
                  BY <4>1 DEF StackInv, Shape
              <4> QED BY <1>0, <3>2, <4>1, <4>2 DEF LeaveJobs, StackInv, Running
          <3> QED BY <1>2, <3>1, <3>2
      <2>4. Locked'
          <3>1. CASE Reboot
              BY <3>1 DEF Reboot, Locked
          <3>2. CASE LeaveJobs
              <4>1. Len(stack) \in DOMAIN stack /\ stack[Len(stack)] = "tail"
                  BY <1>0, <3>2, TopFacts DEF LeaveJobs
              <4>2. Len(stack) = 2 /\ stack[1] = "loop"
                  BY <4>1 DEF StackInv, Shape
              <4> QED BY <1>0, <3>2, <4>1, <4>2 DEF LeaveJobs, StackInv, Locked
          <3> QED BY <1>2, <3>1, <3>2
      <2> QED BY <2>1, <2>2, <2>3, <2>4 DEF StackInv, Shape, Running
  <1> QED BY <1>1, <1>2

\* Every call, return and exception keeps the stack invariant.
LEMMA StackInductive == StackInv /\ [JobsNext]_jobsVars => StackInv'
  <1> SUFFICES ASSUME StackInv, [JobsNext]_jobsVars PROVE StackInv'
      OBVIOUS
  <1>1. CASE JobsNext
      BY <1>1, StackCall, StackBecome, StackReturn, StackThrow, StackRest DEF JobsNext
  <1>2. CASE UNCHANGED jobsVars
      BY <1>2 DEF jobsVars, system, StackInv, Types, Shape, Running, Locked
  <1> QED BY <1>1, <1>2

\* The call stack of the main thread always has the shape that Reticulum::loop()
\* and Transport.cpp give it, and the two flags of jobs() are those of its frames.
THEOREM StackCorrect == JobsSpec => []StackInv
  BY StackInit, StackInductive, PTL DEF JobsSpec

\* The waits of inbound() and outbound() (Transport.cpp) hang only under
\* jobs() itself, in its guarded part, however deep the calls are nested,
\* whatever they throw and however often the node restarts.
THEOREM HangsOnlyInJobsHolds == JobsSpec => []HangsOnlyInJobs
  <1>1. StackInv => HangsOnlyInJobs
      <2> SUFFICES ASSUME StackInv PROVE HangsOnlyInJobs
          OBVIOUS
      <2>0. /\ stack \in Seq(Frames) /\ Len(stack) \in Nat
            /\ DOMAIN stack = 1 .. Len(stack)
          BY StackFacts
      <2>1. JobsTypeOK
          BY <2>0 DEF StackInv, Types, Shape, JobsTypeOK
      <2>2. ASSUME WaitsForItself PROVE FromJobs /\ At("send")
          <3>1. PICK g \in {"send", "recv"} : At(g)
              BY <2>2 DEF WaitsForItself
          <3>2. stack[Len(stack)] = g /\ Len(stack) \in DOMAIN stack
              BY <2>0, <3>1, TopFacts
          <3>3. PICK k \in DOMAIN stack : stack[k] \in {"start", "jobs"}
              BY <2>2 DEF WaitsForItself, StackInv, Running
          <3>4. stack[k] = "jobs"
              BY <2>0, <3>2, <3>3 DEF StackInv, Shape
          <3>5. k = 2 /\ Len(stack) = 3 /\ stack[3] = "send"
              BY <2>0, <3>2, <3>4 DEF StackInv, Shape
          <3> QED BY <3>1, <3>2, <3>4, <3>5 DEF FromJobs
      <2> QED BY <2>1, <2>2 DEF HangsOnlyInJobs
  <1> QED BY <1>1, StackCorrect, PTL

\* The lock (_jobs_locked) that an idle node finds taken was left behind by
\* a packet that inbound() gave up on, or by an exception.
THEOREM LockLeakHolds == JobsSpec => []LockLeak
  <1>1. StackInv => LockLeak
      BY DEF StackInv, Types, Locked, LockLeak, Idle
  <1> QED BY <1>1, StackCorrect, PTL

-----------------------------------------------------------------------------
(* What start() sets up.                                                   *)
(*                                                                         *)
(* ManagedTogether speaks of the end of start().  On the way there (Todo)  *)
(* what is left to do says which parts have been passed, and unless an     *)
(* exception has cut start() short, the parts passed have their            *)
(* destinations under the identity that start() loaded first.              *)

\* start() works through its guarded part, then through the rest.
Todo ==
    /\ At("start") => todo \in {Guarded, <<"control", "remote", "blackhole", "network">>,
                                <<"remote", "blackhole", "network">>,
                                <<"blackhole", "network">>, <<"network">>, <<>>}
    /\ At("started") => todo \in {Rest, <<"probe">>, <<>>}

\* start() has got past the part.
Passed(part) ==
    \/ up
    \/ /\ At("start")
       /\ CASE part = "identity" -> todo # Guarded
            [] part = "remote" -> todo \in {<<"blackhole", "network">>, <<"network">>, <<>>}
            [] part = "blackhole" -> todo \in {<<"network">>, <<>>}
            [] part = "network" -> todo = <<>>
            [] OTHER -> FALSE
    \/ At("started") /\ (part = "probe" => todo = <<>>)

\* Unless an exception cut start() short, what it has passed is there.
Managed ==
    ~ skipped =>
        /\ Passed("identity") => identity = "own"
        /\ \A part \in Feature : Passed(part) => Created(part) \subseteq mgmt
        /\ \A d \in mgmt : d.id # "random"

\* Calls are only made once start() has returned.
Called == stack # <<>> /\ stack[1] \notin {"start", "started"} => up

StartInv == Todo /\ Managed /\ Called

\* Calls that start() does not make leave what it set up alone.
CallStep ==
    \/ Loop \/ Poll \/ LeaveLoop \/ StartJobs \/ PumpWatchdogs \/ JobsCallSend
    \/ FinishJobs \/ TailSend \/ LeaveJobs \/ Enter \/ PassWait
    \/ InboundCall \/ InboundGivesUp \/ InboundReplayed \/ InboundDone
    \/ OutboundDone \/ Throw \/ JobsThrows \/ PartOverdue

\* start() is alone on the stack while it runs.
LEMMA BottomFacts ==
    ASSUME StackInv
    PROVE  /\ At("start") \/ At("started") => Len(stack) = 1
           /\ \A f \in Frames : At(f) /\ f \notin {"start", "started"}
                 => stack # <<>> /\ stack[1] \notin {"start", "started"}
           /\ At("start") => ~ At("started")
  <1>0. /\ stack \in Seq(Frames) /\ Len(stack) \in Nat
        /\ DOMAIN stack = 1 .. Len(stack)
      BY StackFacts
  <1>1. ASSUME NEW f \in Frames, At(f)
        PROVE  stack # <<>> /\ stack[Len(stack)] = f /\ Len(stack) \in 1 .. Len(stack)
      BY <1>0, <1>1, TopFacts
  <1>2. At("start") \/ At("started") => Len(stack) = 1
      BY <1>0, <1>1 DEF StackInv, Shape, Frames
  <1>3. ASSUME NEW f \in Frames, At(f), f \notin {"start", "started"}
        PROVE  stack # <<>> /\ stack[1] \notin {"start", "started"}
      BY <1>0, <1>1, <1>3 DEF StackInv, Shape
  <1>4. At("start") => ~ At("started")
      BY DEF At
  <1> QED BY <1>2, <1>3, <1>4

\* They are made on a node that has started, under the same outermost call.
LEMMA CallStepFacts ==
    ASSUME StackInv, StackInv', Called, CallStep
    PROVE  up /\ UNCHANGED system /\ ~ At("start")' /\ ~ At("started")'
  <1>0. /\ stack \in Seq(Frames) /\ Len(stack) \in Nat
        /\ DOMAIN stack = 1 .. Len(stack)
      BY StackFacts
  <1>1. UNCHANGED system
      BY DEF CallStep, Loop, Poll, LeaveLoop, StartJobs, PumpWatchdogs, JobsCallSend,
         FinishJobs, TailSend, LeaveJobs, Enter, PassWait, InboundCall, InboundGivesUp,
         InboundReplayed, InboundDone, OutboundDone, Throw, JobsThrows, PartOverdue
  <1>2. \/ Idle /\ up
        \/ \E f \in Frames \ {"start", "started"} : At(f)
      BY DEF CallStep, Loop, Poll, LeaveLoop, StartJobs, PumpWatchdogs, JobsCallSend,
         FinishJobs, TailSend, LeaveJobs, Enter, PassWait, InboundCall, InboundGivesUp,
         InboundReplayed, InboundDone, OutboundDone, Throw, JobsThrows, PartOverdue,
         Frames
  <1>3. up
      BY <1>2, BottomFacts DEF Called
  <1>4. \A f : At(f)' => Len(stack') >= 1 /\ stack'[Len(stack')] = f
      BY DEF StackInv, Types, At, Last
  <1>5. \/ stack' = <<>> \/ (stack' = stack /\ Idle)
        \/ \E f \in Frames \ {"start", "started"} : Call(f)
        \/ \E f \in Frames \ {"start", "started"} : Become(f) /\ stack # <<>>
        \/ Return /\ \E f \in Frames \ {"start", "started"} : At(f)
        \/ Throw
      <2>1. ASSUME \/ Loop \/ Poll \/ StartJobs \/ PumpWatchdogs \/ JobsCallSend
                   \/ TailSend \/ Enter \/ InboundCall
            PROVE  \E f \in Frames \ {"start", "started"} : Call(f)
          BY <2>1 DEF Loop, Poll, StartJobs, PumpWatchdogs, JobsCallSend, TailSend, Enter,
                      InboundCall, Frames
      <2>2. ASSUME FinishJobs \/ JobsThrows \/ PassWait
            PROVE  \E f \in Frames \ {"start", "started"} : Become(f) /\ stack # <<>>
          <3>1. stack # <<>>
              BY <2>2 DEF FinishJobs, JobsThrows, PassWait, At
          <3> QED BY <2>2, <3>1 DEF FinishJobs, JobsThrows, PassWait, Frames
      <2>3. ASSUME \/ LeaveLoop \/ InboundGivesUp \/ InboundReplayed \/ InboundDone
                   \/ OutboundDone
            PROVE  Return /\ \E f \in Frames \ {"start", "started"} : At(f)
          BY <2>3 DEF LeaveLoop, InboundGivesUp, InboundReplayed, InboundDone,
                      OutboundDone, Frames
      <2>4. ASSUME LeaveJobs \/ PartOverdue
            PROVE  stack' = <<>> \/ (stack' = stack /\ Idle)
          <3>1. CASE LeaveJobs
              BY <3>1 DEF LeaveJobs
          <3>2. CASE PartOverdue
              <4>1. Idle /\ UNCHANGED stack
                  BY <3>2 DEF PartOverdue
              <4> QED BY <4>1
          <3> QED BY <2>4, <3>1, <3>2
      <2> QED BY <2>1, <2>2, <2>3, <2>4 DEF CallStep
  <1>6. ~ At("start")' /\ ~ At("started")'
      <2>1. CASE stack' = <<>> \/ (stack' = stack /\ Idle)
          BY <2>1 DEF At, Idle
      <2>2. ASSUME NEW f \in Frames \ {"start", "started"}, Call(f)
            PROVE  stack'[Len(stack')] = f
          BY <1>0, <2>2, CallFacts
      <2>3. ASSUME NEW f \in Frames \ {"start", "started"}, Become(f), stack # <<>>
            PROVE  stack'[Len(stack')] = f
          BY <1>0, <2>3, BecomeFacts
      <2>4. CASE Return /\ \E f \in Frames \ {"start", "started"} : At(f)
          <3>1. stack # <<>> /\ stack[1] \notin {"start", "started"}
              BY <2>4, BottomFacts
          <3>2. /\ Len(stack') = Len(stack) - 1 /\ Len(stack) \in Nat \ {0}
                /\ \A k \in 1 .. Len(stack) - 1 : stack'[k] = stack[k]
              BY <1>0, <2>4, <3>1, ReturnFacts
          <3> SUFFICES ASSUME NEW g \in {"start", "started"}, At(g)' PROVE FALSE
              OBVIOUS
          <3>3. Len(stack') >= 1 /\ stack'[Len(stack')] = g
              BY <1>4
          <3>4. stack[Len(stack) - 1] = g /\ Len(stack) - 1 \in DOMAIN stack
              BY <1>0, <3>2, <3>3
          <3>5. Len(stack) = 1
              BY <3>4 DEF StackInv, Shape
          <3> QED BY <3>2, <3>3, <3>5
      <2>5. CASE Throw
          <3> SUFFICES ASSUME NEW g \in {"start", "started"}, At(g)' PROVE FALSE
              OBVIOUS
          <3>1. PICK k \in 0 .. Len(stack) - 1 :
                  stack' = IF k > 0 /\ stack[k] = "jobs"
                           THEN Append(SubSeq(stack, 1, k - 1), "tail")
                           ELSE SubSeq(stack, 1, k)
              BY <2>5 DEF Throw
          <3>2. \A j \in 1 .. Len(stack) : stack[j] \in Frames
              BY StackFacts
          <3>3. /\ SubSeq(stack, 1, k) \in Seq(Frames) /\ Len(SubSeq(stack, 1, k)) = k
                /\ \A i \in 1 .. k : SubSeq(stack, 1, k)[i] = stack[i]
              BY <1>0, <3>2, SubSeqProperties
          <3>4. At("inbound") \/ At("outbound")
              BY <2>5 DEF Throw
          <3>5. Len(stack) \in DOMAIN stack /\ stack[Len(stack)] \in {"inbound", "outbound"}
              BY <1>0, <3>4, TopFacts
          <3>6. \A j \in DOMAIN stack : stack[j] \notin {"start", "started", "jobs"}
              BY <1>0, <3>5 DEF StackInv, Shape
          <3>7. stack' = SubSeq(stack, 1, k)
              BY <1>0, <3>1, <3>6
          <3>8. Len(stack') >= 1 /\ stack'[Len(stack')] = g
              BY <1>4
          <3> QED BY <1>0, <3>3, <3>6, <3>7, <3>8
      <2> QED BY <1>4, <1>5, <2>1, <2>2, <2>3, <2>4, <2>5
  <1> QED BY <1>1, <1>3, <1>6

\* What is created depends on the identity alone.
LEMMA CreatedFacts ==
    /\ identity' = identity => \A part \in Feature : Created(part)' = Created(part)
    /\ Created("transport") = {}
    /\ "transport" \notin Enabled => Created("probe") = {}
    /\ identity = "own" => \A part : \A d \in Created(part) : d.id # "random"
  <1>1. identity' = identity => \A part \in Feature : Created(part)' = Created(part)
      BY DEF Created, Destination, On
  <1>2. Created("transport") = {}
      BY DEF Created, Aspects
  <1>3. "transport" \notin Enabled => Created("probe") = {}
      BY DEF Created, On
  <1>4. identity = "own" => \A part : \A d \in Created(part) : d.id # "random"
      BY DEF Created, Destination
  <1> QED BY <1>1, <1>2, <1>3, <1>4

\* Every step keeps what is known of the progress of start().
LEMMA StartInductive ==
    ASSUME StackInv, StackInv', StartInv, [JobsNext]_jobsVars PROVE StartInv'
  <1>0. /\ stack \in Seq(Frames) /\ Len(stack) \in Nat
        /\ DOMAIN stack = 1 .. Len(stack)
      BY StackFacts
  <1>1. CASE CallStep
      <2>1. up /\ UNCHANGED system /\ ~ At("start")' /\ ~ At("started")'
          BY <1>1, CallStepFacts DEF StartInv
      <2>2. \A part : Passed(part) /\ Passed(part)'
          BY <2>1 DEF Passed, system
      <2>3. \A part \in Feature : Created(part)' = Created(part)
          BY <2>1, CreatedFacts DEF system
      <2>4. Managed'
          BY <2>1, <2>2, <2>3 DEF StartInv, Managed, system
      <2> QED BY <2>1, <2>4 DEF StartInv, Todo, Called, system
  <1>2. CASE Start
      <2>1. Call("start") /\ "start" \in Frames /\ Len(stack) = 0
          BY <1>2 DEF Start, Idle, Frames
      <2>2. Len(stack') = 1 /\ stack'[1] = "start"
          BY <1>0, <2>1, CallFacts
      <2>3. At("start")' /\ ~ At("started")'
          BY <2>2 DEF At, Last
      <2>4. todo' = Guarded /\ UNCHANGED <<up, identity, destinations, mgmt, skipped>>
          BY <1>2 DEF Start
      <2>5. \A part : Passed(part)' => up
          BY <2>3, <2>4 DEF Passed, Guarded
      <2>6. \A part : Passed(part)' => Passed(part)
          BY <2>5 DEF Passed
      <2>7. \A part \in Feature : Created(part)' = Created(part)
          BY <2>4, CreatedFacts
      <2>8. Managed'
          BY <2>4, <2>6, <2>7 DEF StartInv, Managed
      <2> QED BY <2>2, <2>3, <2>4, <2>8 DEF StartInv, Todo, Called
  <1>3. CASE LoadIdentity
      <2>1. At("start") /\ ~ At("started") /\ UNCHANGED <<stack, up, destinations, mgmt>>
          BY <1>3, BottomFacts DEF LoadIdentity
      <2>2. todo = Guarded
          BY <1>3, <2>1 DEF LoadIdentity, StartInv, Todo
      <2>3. todo' = <<"control", "remote", "blackhole", "network">>
          BY <1>3, <2>2 DEF LoadIdentity, Guarded
      <2>4. At("start")' /\ ~ At("started")'
          BY <2>1 DEF At
      <2>5. \A part \in Feature : Passed(part)' => up
          BY <2>3, <2>4, <2>1 DEF Passed, Feature
      <2>6. ASSUME ~ skipped' PROVE identity' = "own" /\ ~ skipped
          BY <1>3, <2>6 DEF LoadIdentity
      <2>7. ASSUME ~ skipped', up PROVE identity = "own"
          BY <2>6, <2>7 DEF StartInv, Managed, Passed
      <2>8. Managed'
          <3> SUFFICES ASSUME ~ skipped'
                       PROVE  /\ (Passed("identity") => identity = "own")'
                              /\ \A part \in Feature :
                                    Passed(part)' => Created(part)' \subseteq mgmt'
                              /\ \A d \in mgmt' : d.id # "random"
              BY DEF Managed
          <3>1. \A part \in Feature : Passed(part)' => Created(part)' \subseteq mgmt'
              <4> SUFFICES ASSUME NEW part \in Feature, Passed(part)'
                           PROVE  Created(part)' \subseteq mgmt'
                  OBVIOUS
              <4>1. up
                  BY <2>5
              <4>2. identity' = identity
                  BY <2>6, <2>7, <4>1
              <4>3. Created(part) \subseteq mgmt
                  BY <2>6, <4>1 DEF StartInv, Managed, Passed
              <4> QED BY <2>1, <4>2, <4>3, CreatedFacts
          <3> QED BY <2>1, <2>6, <3>1 DEF StartInv, Managed
      <2> QED BY <2>1, <2>3, <2>4, <2>8 DEF StartInv, Todo, Called
  <1>4. CASE CreateDestinations
      <2> DEFINE head == Head(todo)
      <2>1. UNCHANGED <<stack, up, identity, skipped>> /\ todo' = Tail(todo) /\ todo # <<>>
          BY <1>4 DEF CreateDestinations
      <2>2. /\ At("start")' <=> At("start")
            /\ At("started")' <=> At("started")
          BY <2>1 DEF At
      <2>3. \/ /\ At("start") /\ ~ At("started")
               /\ \/ /\ todo = <<"control", "remote", "blackhole", "network">>
                     /\ head = "control" /\ todo' = <<"remote", "blackhole", "network">>
                  \/ /\ todo = <<"remote", "blackhole", "network">>
                     /\ head = "remote" /\ todo' = <<"blackhole", "network">>
                  \/ /\ todo = <<"blackhole", "network">>
                     /\ head = "blackhole" /\ todo' = <<"network">>
                  \/ /\ todo = <<"network">>
                     /\ head = "network" /\ todo' = <<>>
            \/ /\ At("started") /\ ~ At("start")
               /\ \/ /\ todo = Rest /\ head = "stores" /\ todo' = <<"probe">>
                  \/ /\ todo = <<"probe">> /\ head = "probe" /\ todo' = <<>>
          <3>1. CASE At("start")
              <4>1. ~ At("started") /\ todo # Guarded
                  BY <1>4, <3>1, BottomFacts DEF CreateDestinations, Guarded
              <4>2. todo \in {<<"control", "remote", "blackhole", "network">>,
                              <<"remote", "blackhole", "network">>,
                              <<"blackhole", "network">>, <<"network">>}
                  BY <2>1, <3>1, <4>1 DEF StartInv, Todo
              <4>3. CASE todo = <<"control", "remote", "blackhole", "network">>
                  BY <2>1, <3>1, <4>1, <4>3
              <4>4. CASE todo = <<"remote", "blackhole", "network">>
                  BY <2>1, <3>1, <4>1, <4>4
              <4>5. CASE todo = <<"blackhole", "network">>
                  BY <2>1, <3>1, <4>1, <4>5
              <4>6. CASE todo = <<"network">>
                  BY <2>1, <3>1, <4>1, <4>6
              <4> QED BY <4>2, <4>3, <4>4, <4>5, <4>6
          <3>2. CASE At("started")
              <4>1. ~ At("start")
                  BY <3>2, BottomFacts
              <4>2. todo \in {<<"stores", "probe">>, <<"probe">>}
                  BY <2>1, <3>2 DEF StartInv, Todo, Rest
              <4>3. CASE todo = <<"stores", "probe">>
                  BY <2>1, <3>2, <4>1, <4>3 DEF Rest
              <4>4. CASE todo = <<"probe">>
                  BY <2>1, <3>2, <4>1, <4>4
              <4> QED BY <4>2, <4>3, <4>4
          <3> QED BY <1>4, <3>1, <3>2 DEF CreateDestinations
      <2>4. Todo'
          BY <2>2, <2>3 DEF Todo
      <2>5. Passed("identity")
          BY <2>3 DEF Passed, Guarded
      <2>6. \A part \in Feature : Passed(part)' => Passed(part) \/ part = head
          BY <2>1, <2>2, <2>3 DEF Passed, Feature, Rest
      <2>7. mgmt' = IF head = "control" THEN mgmt ELSE mgmt \union Created(head)
          BY <1>4 DEF CreateDestinations, Create
      <2>8. \A part \in Feature : Created(part)' = Created(part)
          BY <2>1, CreatedFacts
      <2>9. Managed'
          <3> SUFFICES ASSUME ~ skipped'
                       PROVE  /\ (Passed("identity") => identity = "own")'
                              /\ \A part \in Feature :
                                    Passed(part)' => Created(part)' \subseteq mgmt'
                              /\ \A d \in mgmt' : d.id # "random"
              BY DEF Managed
          <3>1. identity = "own" /\ identity' = "own"
              BY <2>1, <2>5 DEF StartInv, Managed
          <3>2. \A d \in mgmt' : d.id # "random"
              BY <2>1, <2>7, <3>1, CreatedFacts DEF StartInv, Managed
          <3>3. \A part \in Feature : Passed(part)' => Created(part)' \subseteq mgmt'
              <4>1. \A part \in Feature : Passed(part) => Created(part) \subseteq mgmt
                  BY <2>1 DEF StartInv, Managed
              <4>2. "control" \notin Feature
                  BY DEF Feature
              <4> QED BY <2>6, <2>7, <2>8, <4>1, <4>2
          <3> QED BY <3>1, <3>2, <3>3
      <2> QED BY <2>1, <2>4, <2>9 DEF StartInv, Called
  <1>5. CASE LeaveGuarded
      <2>1. At("start") /\ ~ At("started") /\ stack # <<>> /\ Len(stack) = 1
          BY <1>5, BottomFacts DEF LeaveGuarded, At
      <2>2. Become("started") /\ "started" \in Frames
          BY <1>5 DEF LeaveGuarded, Frames
      <2>3. Len(stack') = 1 /\ stack'[1] = "started"
          BY <1>0, <2>1, <2>2, BecomeFacts
      <2>4. At("started")' /\ ~ At("start")'
          <3>1. stack' # <<>>
              BY <2>3
          <3> QED BY <2>3, <3>1 DEF At, Last
      <2>5. /\ UNCHANGED <<up, identity, mgmt>>
            /\ skipped' = (skipped \/ todo # <<>>)
            /\ todo' = IF "transport" \in Enabled THEN Rest ELSE <<>>
          BY <1>5 DEF LeaveGuarded
      <2>6. Todo'
          BY <2>4, <2>5 DEF Todo
      <2>7. Managed'
          <3> SUFFICES ASSUME ~ skipped'
                       PROVE  /\ (Passed("identity") => identity = "own")'
                              /\ \A part \in Feature :
                                    Passed(part)' => Created(part)' \subseteq mgmt'
                              /\ \A d \in mgmt' : d.id # "random"
              BY DEF Managed
          <3>1. ~ skipped /\ todo = <<>>
              BY <2>5
          <3>2. /\ Passed("identity") /\ Passed("remote") /\ Passed("blackhole")
                /\ Passed("network")
              BY <2>1, <3>1 DEF Passed, Guarded
          <3>3. identity = "own" /\ \A d \in mgmt : d.id # "random"
              BY <3>1, <3>2 DEF StartInv, Managed
          <3>4. \A part \in Feature : Passed(part)' => Created(part) \subseteq mgmt
              <4> SUFFICES ASSUME NEW part \in Feature, Passed(part)'
                           PROVE  Created(part) \subseteq mgmt
                  OBVIOUS
              <4>1. CASE part \in {"remote", "blackhole", "network"}
                  BY <3>1, <3>2, <4>1 DEF StartInv, Managed
              <4>2. CASE part = "transport"
                  BY <4>2, CreatedFacts
              <4>3. CASE part = "probe"
                  <5>1. CASE up
                      BY <3>1, <5>1 DEF StartInv, Managed, Passed
                  <5>2. CASE ~ up
                      <6>1. todo' = <<>>
                          BY <2>4, <2>5, <4>3, <5>2 DEF Passed
                      <6>2. "transport" \notin Enabled
                          BY <2>5, <6>1 DEF Rest
                      <6> QED BY <4>3, <6>2, CreatedFacts
                  <5> QED BY <5>1, <5>2
              <4> QED BY <4>1, <4>2, <4>3 DEF Feature
          <3>5. \A part \in Feature : Created(part)' = Created(part)
              BY <2>5, CreatedFacts
          <3> QED BY <2>5, <3>3, <3>4, <3>5
      <2> QED BY <2>3, <2>6, <2>7 DEF StartInv, Called
  <1>6. CASE LeaveStart
      <2>1. At("started") /\ Return /\ stack # <<>> /\ Len(stack) = 1
          BY <1>6, BottomFacts DEF LeaveStart, At
      <2>2. stack' = <<>>
          BY <1>0, <2>1, ReturnFacts
      <2>3. ~ At("start")' /\ ~ At("started")'
          BY <2>2 DEF At
      <2>4. /\ UNCHANGED <<identity, mgmt>> /\ up' = (up \/ todo = <<>>)
            /\ skipped' = (skipped \/ todo # <<>>)
          BY <1>6 DEF LeaveStart
      <2>5. Managed'
          <3> SUFFICES ASSUME ~ skipped'
                       PROVE  /\ (Passed("identity") => identity = "own")'
                              /\ \A part \in Feature :
                                    Passed(part)' => Created(part)' \subseteq mgmt'
                              /\ \A d \in mgmt' : d.id # "random"
              BY DEF Managed
          <3>1. ~ skipped /\ todo = <<>>
              BY <2>4
          <3>2. \A part : Passed(part)
              BY <2>1, <3>1 DEF Passed
          <3>3. \A part \in Feature : Created(part)' = Created(part)
              BY <2>4, CreatedFacts
          <3> QED BY <2>4, <3>1, <3>2, <3>3 DEF StartInv, Managed
      <2> QED BY <2>2, <2>3, <2>5 DEF StartInv, Todo, Called
  <1>7. CASE Reboot
      <2>1. stack' = <<>> /\ ~ up' /\ mgmt' = {}
          BY <1>7 DEF Reboot
      <2>2. ~ At("start")' /\ ~ At("started")'
          BY <2>1 DEF At
      <2>3. \A part : ~ Passed(part)'
          BY <2>1, <2>2 DEF Passed
      <2> QED BY <2>1, <2>2, <2>3 DEF StartInv, Todo, Managed, Called
  <1>8. CASE UNCHANGED jobsVars
      <2>1. /\ UNCHANGED <<stack, todo, up, identity, mgmt, skipped>>
            /\ \A f : At(f)' <=> At(f)
          BY <1>8 DEF jobsVars, system, At
      <2>2. \A part : Passed(part)' <=> Passed(part)
          BY <2>1 DEF Passed
      <2>3. \A part \in Feature : Created(part)' = Created(part)
          BY <2>1, CreatedFacts
      <2>4. Managed'
          BY <2>1, <2>2, <2>3 DEF StartInv, Managed
      <2> QED BY <2>1, <2>4 DEF StartInv, Todo, Called
  <1> QED BY <1>1, <1>2, <1>3, <1>4, <1>5, <1>6, <1>7, <1>8 DEF JobsNext, CallStep

\* Once start() (Transport.cpp) has returned and nothing cut it short, every
\* feature that is on has its destinations, under the loaded identity, and
\* jobs() announces them; also after any number of restarts.
THEOREM ManagedTogetherHolds == JobsSpec => []ManagedTogether
  <1>1. JobsInit => StartInv
      <2> SUFFICES ASSUME JobsInit PROVE StartInv
          OBVIOUS
      <2>1. stack = <<>> /\ ~ up /\ mgmt = {}
          BY DEF JobsInit
      <2>2. \A f : ~ At(f)
          BY <2>1 DEF At
      <2>3. \A part : ~ Passed(part)
          BY <2>1, <2>2 DEF Passed
      <2> QED BY <2>1, <2>2, <2>3 DEF StartInv, Todo, Managed, Called
  <1>2. StackInv /\ StackInv' /\ StartInv /\ [JobsNext]_jobsVars => StartInv'
      BY StartInductive
  <1>3. StartInv => ManagedTogether
      BY DEF StartInv, Managed, Passed, ManagedTogether
  <1> QED BY <1>1, <1>2, <1>3, StackCorrect, PTL DEF JobsSpec

-----------------------------------------------------------------------------
(* The path table.                                                         *)

\* Trimming keeps a non-empty list non-empty, its last element, and its type.
LEMMA NewestKeepsLast ==
    ASSUME NEW bs \in Seq(Blob), Len(bs) >= 1, NEW cap \in Nat \ {0}
    PROVE  /\ Newest(bs, cap) \in Seq(Blob)
           /\ Len(Newest(bs, cap)) \in 1 .. cap
           /\ Newest(bs, cap)[Len(Newest(bs, cap))] = bs[Len(bs)]
  <1>1. CASE Len(bs) > cap
      <2> DEFINE m == Len(bs) - cap + 1
      <2>1. Newest(bs, cap) = SubSeq(bs, m, Len(bs))
          BY <1>1 DEF Newest
      <2>2. m \in 1 .. Len(bs) /\ Len(bs) \in Nat
          BY <1>1
      <2>3. Len(SubSeq(bs, m, Len(bs))) = cap
          BY <2>2
      <2>4. SubSeq(bs, m, Len(bs)) \in Seq(Blob)
          BY <2>2
      <2>5. SubSeq(bs, m, Len(bs))[cap] = bs[Len(bs)]
          <3>1. cap \in 1 .. (Len(bs) - m + 1) /\ m + cap - 1 = Len(bs)
              BY <2>2
          <3>2. SubSeq(bs, m, Len(bs))[cap] = bs[m + cap - 1]
              BY <2>2, <3>1
          <3> QED BY <3>1, <3>2
      <2> HIDE DEF m
      <2> QED BY <2>1, <2>3, <2>4, <2>5
  <1>2. CASE ~ (Len(bs) > cap)
      BY <1>2 DEF Newest
  <1> QED BY <1>1, <1>2

\* Remember yields a list the codec can store; a blob that was not in the
\* list is its last element.
LEMMA RememberFacts ==
    ASSUME NEW bs \in Seq(Blob), NEW b \in Blob
    PROVE  /\ Remember(bs, b) \in Seq(Blob)
           /\ Len(Remember(bs, b)) \in 1 .. PERSIST_RANDOM_BLOBS
           /\ ~ Heard(b, bs) => Remember(bs, b)[Len(Remember(bs, b))] = b
  <1>1. CASE Heard(b, bs)
      <2>1. Len(bs) >= 1
          BY <1>1 DEF Heard
      <2> QED BY <1>1, <2>1, CapAssumption, NewestKeepsLast DEF Remember
  <1>2. CASE ~ Heard(b, bs)
      <2> DEFINE app == Append(bs, b)
                 kept == Newest(app, MAX_RANDOM_BLOBS)
      <2>1. app \in Seq(Blob) /\ Len(app) >= 1 /\ app[Len(app)] = b
          OBVIOUS
      <2> HIDE DEF app
      <2>2. kept \in Seq(Blob) /\ Len(kept) >= 1 /\ kept[Len(kept)] = b
          BY <2>1, CapAssumption, NewestKeepsLast
      <2>3. Remember(bs, b) = Newest(kept, PERSIST_RANDOM_BLOBS)
          BY <1>2 DEF Remember, app
      <2> HIDE DEF kept
      <2> QED BY <2>2, <2>3, CapAssumption, NewestKeepsLast
  <1> QED BY <1>1, <1>2

\* The entry an acceptable announce installs.
LEMMA NewEntryFacts ==
    ASSUME TypeOK, NEW a \in Announces, Acceptable(a)
    PROVE  /\ NewEntry(a) \in Entry
           /\ NewEntry(a) # NoPath
           /\ NewEntry(a).hops <= PATHFINDER_M
           /\ NewEntry(a).blob = a.blob
           /\ NewEntry(a).blobs = Remember(IF Valid(a.dest) THEN path[a.dest].blobs ELSE <<>>, a.blob)
           /\ Len(NewEntry(a).blobs) \in 1 .. PERSIST_RANDOM_BLOBS
  <1> DEFINE bs == IF Valid(a.dest) THEN path[a.dest].blobs ELSE <<>>
  <1>1. a.dest \in Dest /\ a.blob \in Blob /\ a.from \in Neighbor /\ a.wire \in WireHops /\ a.iface \in Iface
      BY DEF Announces
  <1>2. bs \in Seq(Blob)
      BY <1>1 DEF TypeOK, Valid, Entry
  <1>3. /\ Remember(bs, a.blob) \in Seq(Blob)
        /\ Len(Remember(bs, a.blob)) \in 1 .. PERSIST_RANDOM_BLOBS
      BY <1>1, <1>2, RememberFacts
  <1>4. Hops(a) \in Nat /\ Hops(a) <= PATHFINDER_M
      <2>1. a.wire \in 0 .. 255
          BY <1>1, HopAssumption
      <2>2. Hops(a) \in Nat
          BY <2>1 DEF Hops
      <2>3. Hops(a) < PATHFINDER_M + 1
          BY DEF Acceptable
      <2> QED BY <2>2, <2>3, HopAssumption
  <1>5. now + PathTime[a.iface] \in Nat
      BY <1>1, TimeAssumption DEF TypeOK
  <1>6. NewEntry(a) \in Entry
      BY <1>1, <1>3, <1>4, <1>5 DEF NewEntry, Entry
  <1> QED BY <1>3, <1>4, <1>6, NoPathAssumption DEF NewEntry

\* The initial state is well typed.
LEMMA InitTypeOK == Init => TypeOK
  BY TimeAssumption DEF Init, TypeOK, States

\* Every step preserves the type invariant.
LEMMA NextTypeOK == TypeOK /\ [Next]_vars => TypeOK'
  <1> SUFFICES ASSUME TypeOK, [Next]_vars PROVE TypeOK'
      OBVIOUS
  <1>1. ASSUME NEW a \in Announces, InstallPath(a) PROVE TypeOK'
      <2>1. a.dest \in Dest /\ a.blob \in Blob
          BY DEF Announces
      <2>2. /\ NewEntry(a) \in Entry /\ NewEntry(a).hops <= PATHFINDER_M
            /\ Len(NewEntry(a).blobs) \in 1 .. PERSIST_RANDOM_BLOBS
          BY <1>1, NewEntryFacts DEF InstallPath
      <2>3. path' = [path EXCEPT ![a.dest] = NewEntry(a)]
          BY <1>1 DEF InstallPath
      <2>4. path' \in [Dest -> Entry \union {NoPath}]
          BY <2>2, <2>3 DEF TypeOK
      <2>5. ASSUME NEW d \in Dest, path'[d] # NoPath
            PROVE  path'[d].hops <= PATHFINDER_M /\ Len(path'[d].blobs) \in 1 .. PERSIST_RANDOM_BLOBS
          <3>1. CASE d = a.dest
              BY <3>1, <2>2, <2>3 DEF TypeOK
          <3>2. CASE d # a.dest
              BY <3>2, <2>3, <2>5 DEF TypeOK
          <3> QED BY <3>1, <3>2
      <2>6. heard' \in [Dest -> SUBSET Blob]
          BY <1>1, <2>1 DEF InstallPath, Installed, TypeOK
      <2>7. clean' \in [Dest -> BOOLEAN] /\ judged' \in [Dest -> BOOLEAN]
          BY <1>1, <2>1 DEF InstallPath, Installed, TypeOK
      <2>8. pstate' \in [Dest -> States] /\ ifaces' \in SUBSET Iface /\ now' \in 0 .. MaxTime
          BY <1>1, <2>1 DEF InstallPath, TypeOK, States
      <2> QED BY <2>4, <2>5, <2>6, <2>7, <2>8 DEF TypeOK
  <1>2. ASSUME NEW a \in Announces, RefuseAnnounce(a) \/ IgnoreAnnounce(a) PROVE TypeOK'
      BY <1>2 DEF RefuseAnnounce, IgnoreAnnounce, TypeOK, States, vars, Announces
  <1>3. ASSUME NEW ds, NEW s \in States, Mark(ds, s) PROVE TypeOK'
      <2>1. pstate' \in [Dest -> States] /\ judged' \in [Dest -> BOOLEAN]
          BY <1>3 DEF Mark, TypeOK
      <2> QED BY <2>1, <1>3 DEF Mark, TypeOK
  <1>4. ASSUME NEW ds, Forget(ds),
               pstate' \in [Dest -> States], ifaces' \in SUBSET Iface, now' = now
        PROVE  TypeOK'
      <2>1. path' \in [Dest -> Entry \union {NoPath}]
          BY <1>4 DEF Forget, TypeOK
      <2>2. \A d \in Dest : path'[d] # NoPath => path'[d] = path[d]
          BY <1>4 DEF Forget
      <2>3. heard' \in [Dest -> SUBSET Blob]
          BY <1>4 DEF Forget, TypeOK
      <2>4. clean' \in [Dest -> BOOLEAN] /\ judged' \in [Dest -> BOOLEAN]
          BY <1>4 DEF Forget, TypeOK
      <2> QED BY <1>4, <2>1, <2>2, <2>3, <2>4 DEF TypeOK
  <1>5. ASSUME NEW d \in Dest, expire_path(d) \/ StoreDrop(d) PROVE TypeOK'
      <2>1. Forget({d}) /\ UNCHANGED <<pstate, ifaces, now>>
          BY <1>5 DEF expire_path, StoreDrop
      <2> QED BY <2>1, <1>4 DEF TypeOK
  <1>6. CASE CullPathStates
      BY <1>6 DEF CullPathStates, TypeOK, States
  <1>7. ASSUME NEW i \in Iface, register_interface(i) \/ deregister_interface(i) PROVE TypeOK'
      BY <1>7 DEF register_interface, deregister_interface, TypeOK
  <1>8. CASE Restart
      <2>1. PICK lost \in SUBSET Dest :
              Forget(lost) /\ pstate' = [d \in Dest |-> "none"] /\ ifaces' = {} /\ now' = now
          BY <1>8 DEF Restart
      <2>2. pstate' \in [Dest -> States]
          BY <2>1 DEF States
      <2> QED BY <2>1, <2>2, <1>4
  <1>9. CASE Tick
      BY <1>9, TimeAssumption DEF Tick, TypeOK
  <1>10. CASE UNCHANGED vars
      BY <1>10 DEF vars, TypeOK
  <1>11. ASSUME NEW d \in Dest, mark_path_unresponsive(d) PROVE TypeOK'
      BY <1>11, <1>3 DEF mark_path_unresponsive, States
  <1>12. ASSUME NEW nb \in Neighbor, validate_neighbor(nb) \/ invalidate_neighbor(nb) PROVE TypeOK'
      BY <1>12, <1>3 DEF validate_neighbor, invalidate_neighbor, States
  <1> QED BY <1>1, <1>2, <1>5, <1>6, <1>7, <1>8, <1>9, <1>10, <1>11, <1>12 DEF Next

\* The path table, its states and its histories keep their types; a stored
\* path is at most PATHFINDER_M hops long and remembers between one blob and
\* as many as the codec keeps (TypeOK).
THEOREM TypeCorrect == Spec => []TypeOK
  BY InitTypeOK, NextTypeOK, PTL DEF Spec

-----------------------------------------------------------------------------
(* What the path table answers.                                            *)

\* A usable path has a next hop and an interface, neither of which is NoPath.
LEMMA ValidFacts ==
    ASSUME TypeOK, NEW d \in Dest, Valid(d)
    PROVE  /\ path[d].from \in Neighbor /\ path[d].from # NoPath
           /\ path[d].iface \in Iface /\ path[d].iface # NoPath
           /\ path[d].iface \in ifaces
           /\ path[d].hops \in Nat /\ path[d].hops <= PATHFINDER_M
  <1>1. path[d] \in Entry
      BY DEF TypeOK, Valid
  <1> QED BY <1>1, QueryAssumption DEF TypeOK, Valid, Entry

\* has_path(), hops_to(), next_hop() and next_hop_interface() agree whenever
\* the table is well typed.
LEMMA LookupsAgreeByType ==
    ASSUME TypeOK
    PROVE  LookupsAgree
  <1> SUFFICES ASSUME NEW d \in Dest
               PROVE  /\ next_hop(d) # NoPath <=> next_hop_interface(d) \in ifaces
                      /\ next_hop(d) # NoPath => has_path(d)
                      /\ hops_to(d) <= PATHFINDER_M
      BY DEF LookupsAgree
  <1>1. CASE Valid(d)
      <2>1. has_path(d)
          BY <1>1 DEF Valid, has_path
      <2> QED BY <1>1, <2>1, ValidFacts DEF next_hop, next_hop_interface, hops_to
  <1>2. CASE ~ Valid(d)
      <2>1. NoPath \notin ifaces
          BY QueryAssumption DEF TypeOK
      <2> QED BY <1>2, <2>1, HopAssumption DEF next_hop, next_hop_interface, hops_to
  <1> QED BY <1>1, <1>2

\* A row of an answer is that of a destination with an advertised path.
LEMMA RowFacts ==
    ASSUME TypeOK, NEW d \in Dest, Advertised(d)
    PROVE  /\ has_path(Row(d).dest) /\ ~ path_is_unresponsive(Row(d).dest)
           /\ Row(d).iface # NoPath => Row(d).via = next_hop(Row(d).dest)
  <1>1. Row(d).dest = d /\ Row(d).via = path[d].from
      BY DEF Row
  <1>2. Row(d).iface # NoPath => Valid(d)
      BY DEF Row, Valid, Advertised, has_path
  <1> QED BY <1>1, <1>2 DEF Advertised, next_hop

\* What a remote path request is answered with is in the table whenever the
\* table is well typed.
LEMMA AnswersAreInstalledByType ==
    ASSUME TypeOK
    PROVE  AnswersAreInstalled
  <1> SUFFICES ASSUME NEW x \in Requests, Parses(x), NEW answer \in Answers(x)
               PROVE  /\ \A row \in answer :
                            /\ has_path(row.dest) /\ ~ path_is_unresponsive(row.dest)
                            /\ row.iface # NoPath => row.via = next_hop(row.dest)
                      /\ Single(x) /\ Valid(x[2]) /\ ~ path_is_unresponsive(x[2]) =>
                            \E row \in answer : row.via = next_hop(x[2])
      BY DEF AnswersAreInstalled
  <1>1. answer \subseteq { Row(d) : d \in Matching(x) }
      BY DEF Answers
  <1>2. Single(x) => answer = { Row(d) : d \in Matching(x) }
      BY DEF Answers
  <1>3. Single(x) => x[2] \in Dest
      <2>1. CASE Len(x) >= 2
          BY <2>1 DEF Requests, Parses, Single
      <2> QED BY <2>1 DEF Single
  <1>4. \A d \in Matching(x) : d \in Dest /\ Advertised(d)
      BY <1>3 DEF Matching
  <1>5. \A row \in answer : \E d \in Dest : Advertised(d) /\ row = Row(d)
      BY <1>1, <1>4
  <1>6. ASSUME NEW row \in answer
        PROVE  /\ has_path(row.dest) /\ ~ path_is_unresponsive(row.dest)
               /\ row.iface # NoPath => row.via = next_hop(row.dest)
      BY <1>5, RowFacts
  <1>7. ASSUME Single(x), Valid(x[2]), ~ path_is_unresponsive(x[2])
        PROVE  \E row \in answer : row.via = next_hop(x[2])
      <2>1. x[2] \in Matching(x)
          BY <1>7 DEF Matching, Advertised, Valid, has_path
      <2>2. Row(x[2]) \in answer
          BY <1>2, <1>7, <2>1
      <2> QED BY <1>7, <2>2 DEF Row, next_hop
  <1> QED BY <1>6, <1>7

\* What the path table answers to the node and to a remote manager agrees in
\* every reachable state (QueriesAgree).
THEOREM QueriesAgreeHolds == Spec => []QueriesAgree
  <1>1. TypeOK => QueriesAgree
      BY LookupsAgreeByType, AnswersAreInstalledByType DEF QueriesAgree
  <1> QED BY <1>1, TypeCorrect, PTL

-----------------------------------------------------------------------------
(* Only an installation changes a path into another one.                   *)

\* A step that gives d a path it did not have is the installation of an
\* acceptable announce for d.
LEMMA OnlyInstallChanges ==
    ASSUME TypeOK, [Next]_vars, NEW d \in Dest, path'[d] # path[d], path'[d] # NoPath
    PROVE  \E a \in Announces : a.dest = d /\ InstallPath(a)
  <1>1. ASSUME NEW a \in Announces, InstallPath(a) PROVE a.dest = d
      BY <1>1 DEF InstallPath, TypeOK
  <1>2. ~ UNCHANGED path
      OBVIOUS
  <1>3. ~ UNCHANGED vars
      BY <1>2 DEF vars
  <1>4. ASSUME NEW ds PROVE ~ Forget(ds)
      BY DEF Forget
  <1>5. \A x \in Dest : ~ expire_path(x) /\ ~ StoreDrop(x)
      BY <1>4 DEF expire_path, StoreDrop
  <1>6. ~ Restart
      BY <1>4 DEF Restart
  <1>7. \A a \in Announces : ~ RefuseAnnounce(a) /\ ~ IgnoreAnnounce(a)
      BY <1>2, <1>3 DEF RefuseAnnounce, IgnoreAnnounce
  <1>8. /\ \A x \in Dest : ~ mark_path_unresponsive(x)
        /\ \A nb \in Neighbor : ~ validate_neighbor(nb) /\ ~ invalidate_neighbor(nb)
      BY <1>2 DEF mark_path_unresponsive, validate_neighbor, invalidate_neighbor, Mark
  <1>9. /\ \A i \in Iface : ~ register_interface(i) /\ ~ deregister_interface(i)
        /\ ~ CullPathStates /\ ~ Tick
      BY <1>2 DEF register_interface, deregister_interface, CullPathStates, Tick
  <1>10. PICK a \in Announces : InstallPath(a)
      BY <1>3, <1>5, <1>6, <1>7, <1>8, <1>9 DEF Next
  <1> QED BY <1>1, <1>10

\* What the replacement of a live path tells of the announce that did it.
LEMMA LiveReplacedFacts ==
    ASSUME TypeOK, [Next]_vars, NEW d \in Dest, LiveReplaced(d)
    PROVE  /\ path'[d].blob \in Blob
           /\ NewerThanAll(path'[d].blob, path[d].blobs)
  <1>1. path'[d] # path[d] /\ path'[d] # NoPath
      BY DEF LiveReplaced
  <1>2. PICK a \in Announces : a.dest = d /\ InstallPath(a)
      BY <1>1, OnlyInstallChanges
  <1>3. path'[d] = NewEntry(a)
      BY <1>2 DEF InstallPath, TypeOK
  <1>4. path'[d].blob = a.blob /\ a.blob \in Blob
      BY <1>3 DEF NewEntry, Announces
  <1>5. Valid(d) /\ now < path[d].expires /\ ~ path_is_unresponsive(d)
      BY DEF LiveReplaced
  <1>6. Fresh(a)
      BY <1>2, <1>5 DEF InstallPath, Acceptable
  <1>7. ~ (now >= path[d].expires)
      <2>1. path[d] \in Entry
          BY <1>5 DEF Valid, TypeOK
      <2>2. path[d].expires \in Nat /\ now \in Nat
          BY <2>1 DEF Entry, TypeOK
      <2> QED BY <2>2, <1>5
  <1>8. NewerThanAll(a.blob, path[d].blobs)
      BY <1>2, <1>6, <1>7 DEF Fresh
  <1> QED BY <1>4, <1>8

\* A live path is only replaced by an announce emitted after every announce
\* its entry remembers (NeverReplacedByOlder).
THEOREM NeverReplacedByOlderHolds == Spec => NeverReplacedByOlder
  <1>1. TypeOK /\ [Next]_vars =>
          [\A d \in Dest : LiveReplaced(d) => NewerThanAll(path'[d].blob, path[d].blobs)]_vars
      BY LiveReplacedFacts
  <1> QED BY <1>1, TypeCorrect, PTL DEF Spec, NeverReplacedByOlder

-----------------------------------------------------------------------------
(* The currency of verdicts.                                               *)

\* Every step preserves VerdictIsCurrent: an installation resets the state,
\* a verdict is given on the installed path, and everything else that
\* touches a path removes it.
LEMMA NextVerdict == TypeOK /\ VerdictIsCurrent /\ [Next]_vars => VerdictIsCurrent'
  <1> SUFFICES ASSUME TypeOK, VerdictIsCurrent, [Next]_vars,
                      NEW d \in Dest, path'[d] # NoPath,
                      pstate'[d] \in {"responsive", "unresponsive"}
               PROVE  judged'[d]
      BY DEF VerdictIsCurrent
  <1> DEFINE kept == path'[d] = path[d] /\ pstate'[d] = pstate[d] /\ judged'[d] = judged[d]
  <1>1. ASSUME kept PROVE judged'[d]
      BY <1>1 DEF VerdictIsCurrent
  <1>2. ASSUME NEW a \in Announces, InstallPath(a) PROVE judged'[d]
      <2>1. CASE a.dest = d
          BY <2>1, <1>2 DEF InstallPath, TypeOK
      <2>2. CASE a.dest # d
          BY <2>2, <1>1, <1>2 DEF InstallPath, Installed, TypeOK
      <2> QED BY <2>1, <2>2
  <1>3. ASSUME NEW a \in Announces, RefuseAnnounce(a) PROVE judged'[d]
      <2>1. CASE a.dest = d /\ Fresh(a)
          BY <2>1, <1>3 DEF RefuseAnnounce, TypeOK
      <2>2. CASE a.dest # d \/ ~ Fresh(a)
          BY <2>2, <1>1, <1>3 DEF RefuseAnnounce, TypeOK
      <2> QED BY <2>1, <2>2
  <1>4. ASSUME NEW ds, NEW s, Mark(ds, s) PROVE judged'[d]
      <2>1. CASE d \in ds /\ Valid(d)
          BY <2>1, <1>4 DEF Mark
      <2>2. CASE ~ (d \in ds /\ Valid(d))
          <3>1. pstate'[d] = pstate[d] /\ judged'[d] = judged[d] /\ path'[d] = path[d]
              BY <2>2, <1>4 DEF Mark, TypeOK
          <3> QED BY <3>1, <1>1
      <2> QED BY <2>1, <2>2
  <1>5. ASSUME NEW ds, Forget(ds), pstate'[d] = pstate[d] PROVE judged'[d]
      <2>1. d \notin ds
          BY <1>5 DEF Forget
      <2>2. path'[d] = path[d] /\ judged'[d] = judged[d]
          BY <1>5, <2>1 DEF Forget, TypeOK
      <2> QED BY <1>1, <1>5, <2>2
  <1>6. ASSUME NEW x \in Dest, expire_path(x) \/ StoreDrop(x) PROVE judged'[d]
      BY <1>5, <1>6 DEF expire_path, StoreDrop
  <1>7. CASE CullPathStates
      BY <1>1, <1>7 DEF CullPathStates
  <1>8. CASE Restart
      BY <1>8 DEF Restart
  <1>9. CASE Tick \/ UNCHANGED vars \/ (\E i \in Iface : register_interface(i) \/ deregister_interface(i))
             \/ (\E a \in Announces : IgnoreAnnounce(a))
      BY <1>1, <1>9 DEF Tick, vars, register_interface, deregister_interface, IgnoreAnnounce
  <1>10. ASSUME NEW x \in Dest, mark_path_unresponsive(x) PROVE judged'[d]
      BY <1>4, <1>10 DEF mark_path_unresponsive
  <1>11. ASSUME NEW nb \in Neighbor, validate_neighbor(nb) \/ invalidate_neighbor(nb) PROVE judged'[d]
      BY <1>4, <1>11 DEF validate_neighbor, invalidate_neighbor
  <1> QED BY <1>2, <1>3, <1>6, <1>7, <1>8, <1>9, <1>10, <1>11 DEF Next

\* No path inherits a verdict of _path_states that was given on an earlier
\* path to the same destination (VerdictIsCurrent).
THEOREM VerdictIsCurrentHolds == Spec => []VerdictIsCurrent
  <1>1. Init => VerdictIsCurrent
      BY DEF Init, VerdictIsCurrent
  <1> QED BY <1>1, NextVerdict, TypeCorrect, PTL DEF Spec

-----------------------------------------------------------------------------
(* Replay protection.                                                      *)

\* An installation preserves NewestKept: the blob of the announce is the
\* last one its entry remembers, and on a clean entry it is the newest.
LEMMA InstallNewestKept ==
    ASSUME TypeOK, NewestKept, NEW a \in Announces, InstallPath(a)
    PROVE  NewestKept'
  <1> SUFFICES ASSUME NEW d \in Dest, path'[d] # NoPath, clean'[d], NEW b \in heard'[d]
               PROVE  \E i \in DOMAIN path'[d].blobs : Emitted[b] <= Emitted[path'[d].blobs[i]]
      BY DEF NewestKept
  <1>1. CASE a.dest # d
      <2>1. path'[d] = path[d] /\ clean'[d] = clean[d] /\ heard'[d] = heard[d]
          BY <1>1 DEF InstallPath, Installed, TypeOK
      <2> QED BY <2>1 DEF NewestKept
  <1>2. CASE a.dest = d
      <2> DEFINE old == IF Valid(d) THEN path[d].blobs ELSE <<>>
                 new == Remember(old, a.blob)
      <2>1. path'[d] = NewEntry(a) /\ path'[d].blobs = new
          BY <1>2, NewEntryFacts DEF InstallPath, TypeOK
      <2>2. old \in Seq(Blob) /\ a.blob \in Blob
          BY DEF TypeOK, Valid, Entry, Announces
      <2>3. new \in Seq(Blob) /\ Len(new) >= 1 /\ (~ Heard(a.blob, old) => new[Len(new)] = a.blob)
          <3> HIDE DEF old
          <3>1. /\ new \in Seq(Blob)
                /\ Len(new) \in 1 .. PERSIST_RANDOM_BLOBS
                /\ ~ Heard(a.blob, old) => new[Len(new)] = a.blob
              BY <2>2, RememberFacts
          <3> HIDE DEF new
          <3> QED BY <3>1, CapAssumption
      <2>4. heard'[d] = (IF Valid(d) THEN heard[d] ELSE {}) \union {a.blob}
          BY <1>2 DEF InstallPath, Installed, TypeOK
      <2>5. b = a.blob \/ (Valid(d) /\ b \in heard[d])
          BY <2>4
      <2>6. ~ Heard(a.blob, old) /\ Emitted[b] <= Emitted[a.blob]
          <3>1. CASE ~ Valid(d)
              <4>1. b = a.blob /\ old = <<>>
                  BY <2>5, <3>1
              <4> QED BY <4>1, <2>2, BlobAssumption DEF Heard
          <3>2. CASE Valid(d)
              <4>1. clean[d] /\ ~ path_is_unresponsive(d) /\ now < path[d].expires
                  BY <1>2, <3>2 DEF InstallPath, Installed, TypeOK
              <4>2. ~ (now >= path[d].expires)
                  <5>1. path[d] \in Entry
                      BY <3>2 DEF Valid, TypeOK
                  <5>2. path[d].expires \in Nat /\ now \in Nat
                      BY <5>1 DEF Entry, TypeOK
                  <5> QED BY <5>2, <4>1
              <4>3. Fresh(a)
                  BY <1>2, <3>2, <4>1 DEF InstallPath, Acceptable
              <4>4. ~ Heard(a.blob, path[d].blobs) /\ NewerThanAll(a.blob, path[d].blobs)
                  BY <1>2, <4>2, <4>3 DEF Fresh
              <4>5. CASE b = a.blob
                  BY <3>2, <4>4, <4>5, <2>2, BlobAssumption
              <4>6. CASE b # a.blob
                  <5>1. PICK i \in DOMAIN path[d].blobs : Emitted[b] <= Emitted[path[d].blobs[i]]
                      BY <2>5, <3>2, <4>1, <4>6 DEF NewestKept, Valid
                  <5>2. Emitted[a.blob] > Emitted[path[d].blobs[i]]
                      BY <4>4, <5>1 DEF NewerThanAll
                  <5>3. path[d].blobs[i] \in Blob
                      BY <2>2, <3>2, <5>1
                  <5>4. b \in Blob
                      BY <2>5, <4>6 DEF TypeOK
                  <5> QED BY <3>2, <4>4, <5>1, <5>2, <5>3, <5>4, <2>2, BlobAssumption
              <4> QED BY <4>5, <4>6
          <3> QED BY <3>1, <3>2
      <2>7. Len(new) \in DOMAIN new /\ new[Len(new)] = a.blob
          BY <2>3, <2>6
      <2> HIDE DEF new
      <2> QED BY <2>1, <2>6, <2>7
  <1> QED BY <1>1, <1>2

\* Every step preserves NewestKept.
LEMMA NextNewestKept == TypeOK /\ NewestKept /\ [Next]_vars => NewestKept'
  <1> SUFFICES ASSUME TypeOK, NewestKept, [Next]_vars PROVE NewestKept'
      OBVIOUS
  <1>1. ASSUME UNCHANGED <<path, heard, clean>> PROVE NewestKept'
      BY <1>1 DEF NewestKept
  <1>2. ASSUME NEW ds, Forget(ds) PROVE NewestKept'
      <2> SUFFICES ASSUME NEW d \in Dest, path'[d] # NoPath, clean'[d]
                   PROVE  \A b \in heard'[d] : \E i \in DOMAIN path'[d].blobs :
                              Emitted[b] <= Emitted[path'[d].blobs[i]]
          BY DEF NewestKept
      <2>1. d \notin ds
          BY <1>2 DEF Forget
      <2>2. path'[d] = path[d] /\ heard'[d] = heard[d] /\ clean[d]
          BY <1>2, <2>1 DEF Forget, TypeOK
      <2> QED BY <2>2 DEF NewestKept
  <1>3. ASSUME NEW a \in Announces, InstallPath(a) PROVE NewestKept'
      BY <1>3, InstallNewestKept
  <1>4. ASSUME NEW x \in Dest, expire_path(x) \/ StoreDrop(x) PROVE NewestKept'
      BY <1>2, <1>4 DEF expire_path, StoreDrop
  <1>5. CASE Restart
      BY <1>2, <1>5 DEF Restart
  <1>6. CASE UNCHANGED vars \/ CullPathStates \/ Tick
             \/ (\E i \in Iface : register_interface(i) \/ deregister_interface(i))
      BY <1>1, <1>6 DEF vars, CullPathStates, Tick, register_interface, deregister_interface
  <1>7. ASSUME NEW a \in Announces, RefuseAnnounce(a) \/ IgnoreAnnounce(a) PROVE NewestKept'
      BY <1>1, <1>7 DEF RefuseAnnounce, IgnoreAnnounce, vars
  <1>8. ASSUME NEW ds, NEW s, Mark(ds, s) PROVE NewestKept'
      BY <1>1, <1>8 DEF Mark
  <1>9. CASE \/ \E x \in Dest : mark_path_unresponsive(x)
             \/ \E nb \in Neighbor : validate_neighbor(nb) \/ invalidate_neighbor(nb)
      BY <1>8, <1>9 DEF mark_path_unresponsive, validate_neighbor, invalidate_neighbor
  <1> QED BY <1>3, <1>4, <1>5, <1>6, <1>7, <1>9 DEF Next

\* A live path is never replaced by an announce that was accepted for it
\* before, also when its entry has dropped that announce's blob, as long as
\* nothing was accepted while it was unresponsive or expired
\* (ReplayProtected).
THEOREM ReplayProtectedHolds == Spec => ReplayProtected
  <1>1. Init => NewestKept
      BY DEF Init, NewestKept
  <1>2. TypeOK /\ NewestKept /\ [Next]_vars =>
          [\A d \in Dest : LiveReplaced(d) /\ clean[d] => path'[d].blob \notin heard[d]]_vars
      <2> SUFFICES ASSUME TypeOK, NewestKept, [Next]_vars, NEW d \in Dest,
                          LiveReplaced(d), clean[d], path'[d].blob \in heard[d]
                   PROVE  FALSE
          OBVIOUS
      <2> DEFINE b == path'[d].blob
      <2>1. b \in Blob /\ NewerThanAll(b, path[d].blobs)
          BY LiveReplacedFacts
      <2>2. path[d] # NoPath /\ path[d] \in Entry
          BY DEF LiveReplaced, Valid, TypeOK
      <2>3. PICK i \in DOMAIN path[d].blobs : Emitted[b] <= Emitted[path[d].blobs[i]]
          BY <2>2 DEF NewestKept
      <2>4. path[d].blobs[i] \in Blob
          BY <2>2, <2>3 DEF Entry
      <2> HIDE DEF b
      <2>5. Emitted[b] > Emitted[path[d].blobs[i]]
          BY <2>1, <2>3 DEF NewerThanAll
      <2> QED BY <2>1, <2>3, <2>4, <2>5, BlobAssumption
  <1> QED BY <1>1, <1>2, NextNewestKept, TypeCorrect, PTL DEF Spec, ReplayProtected

=============================================================================
