------------------------------ MODULE MCUpdate ------------------------------
(* Small instances of Update for TLC. *)
EXTENDS Update, TLC

CONSTANTS old, new, other

\* Two releases; `other' is of the release of `new' and changes the network.
MCConfig == {old, new, other}
MCVersion == (old :> 1) @@ (new :> 2) @@ (other :> 2)
MCIsolating == {<<a, b>> \in MCConfig \X MCConfig : a # b /\ other \in {a, b}}

=============================================================================
