----------------------------- MODULE Identities ------------------------------
(***************************************************************************)
(* What an announce contains and what a node keeps of it: announce() of    *)
(* Destination.cpp, and validate_announce(), remember(), recall() and      *)
(* recall_app_data() of Identity.cpp; the announce handlers of             *)
(* Transport.cpp.                                                          *)
(*                                                                         *)
(* One destination is announced, with other application data every time.   *)
(* A hash and a signature are the terms they are made of.  The store of    *)
(* known destinations is bounded and its records expire.                   *)
(***************************************************************************)
EXTENDS Naturals

VARIABLES
    known,            \* _known_destinations of each node: at most one record
    handed            \* history: the application data the announce handlers
                      \* of each node were last given, and which announce
                      \* they were called for

identityVars == <<known, handed>>

Key == "public key"
Name == "name hash"

hash(name, key) == <<name, key>>
Signature(key, data) == <<key, data>>

SignedData(c) == <<c.dest, c.key, c.name, c.blob, c.app>>

\* announce(): the n-th announce of the destination.
Content(n) ==
    LET c == [dest |-> hash(Name, Key), key |-> Key, name |-> Name, blob |-> n,
              app |-> n]
    IN  [dest |-> c.dest, key |-> c.key, name |-> c.name, blob |-> c.blob,
         app |-> c.app, signature |-> Signature(Key, SignedData(c))]

\* An announce of which one field was altered on the way.
Damaged(c) ==
    { [c EXCEPT !.key = "other"], [c EXCEPT !.name = "other"], [c EXCEPT !.blob = 0],
      [c EXCEPT !.app = 0], [c EXCEPT !.signature[1] = "other"] }

\* validate_announce()
validate_announce(n, c) ==
    /\ c.signature = Signature(c.key, SignedData(c))
    /\ c.dest = hash(c.name, c.key)
    /\ \A e \in known[n] : e.key = c.key

\* remember(): only what is not known yet.
Remembered(k, c) == IF k = {} THEN {[key |-> c.key, app |-> c.app]} ELSE k

\* recall() falls back on the announces stored with the paths, and remembers
\* what it finds there.
recall(n, stored) ==
    IF known[n] # {} THEN known[n] ELSE UNION { Remembered({}, c) : c \in stored }

\* The handlers of node n, of which one wants every announce and one those of
\* the aspect, get the application data that is known.
received_announce(n, c, k) ==
    { [announce |-> c.blob, app |-> e.app] :
        e \in { e \in k : \E aspect \in {"", Name} :
                    aspect = "" \/ c.dest = hash(aspect, e.key) } }

IdentitiesInit(nodes) ==
    /\ known = [n \in nodes |-> {}]
    /\ handed = [n \in nodes |-> {}]

\* A record expires or gives way to others.
forget(n) ==
    /\ known[n] # {}
    /\ known' = [known EXCEPT ![n] = {}]
    /\ UNCHANGED handed

\* A recall, by whatever needs the identity.
recalls(n, stored) ==
    /\ known[n] = {} /\ stored # {}
    /\ known' = [known EXCEPT ![n] = recall(n, stored)]
    /\ UNCHANGED handed

=============================================================================
