--------------------------- MODULE MCPathDiscovery --------------------------
(***************************************************************************)
(* The instance of PathDiscovery that TLC checks: a relay between the      *)
(* medium of the owner and that of a transport node that asks for the path.*)
(***************************************************************************)
EXTENDS PathDiscovery, TLC

CONSTANTS relay, asker, o, m1, m2, d2

MCOn == relay :> {m1, m2} @@ asker :> {m1} @@ o :> {m2}
MCMode == <<o, m2>> :> "FULL" @@ <<asker, m1>> :> "GATEWAY"
          @@ <<relay, m1>> :> "ROAMING" @@ <<relay, m2>> :> "GATEWAY"
MCLimited == {<<relay, m2>>}

=============================================================================
