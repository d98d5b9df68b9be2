-------------------------- MODULE MCBillingWorkers --------------------------
(* Instances of BillingWorkers for TLC. *)
EXTENDS BillingWorkers, TLC

CONSTANTS h1, h2

TwoHosts == <<h1, h2>>

OneHost == <<h1>>

\* Threads and rows are interchangeable; hosts are not, db_hosts orders them.
Symmetry == Permutations(Workers) \cup Permutations(Accounts)
=============================================================================
