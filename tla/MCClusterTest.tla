--------------------------- MODULE MCClusterTest ---------------------------
(* Instances of ClusterTest for TLC. *)
EXTENDS ClusterTest

CONSTANTS h1, h2

TwoHosts == <<h1, h2>>

OneHost == <<h1>>
=============================================================================
