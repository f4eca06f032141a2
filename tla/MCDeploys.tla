------------------------------- MODULE MCDeploys -------------------------------
(* Instances of Deploys for TLC.                                             *)
EXTENDS Deploys

CONSTANT o1

OneOperator == {o1}
Images      == {"v0", "v1", "v2"}
=============================================================================
