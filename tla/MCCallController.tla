-------------------------- MODULE MCCallController --------------------------
(***************************************************************************)
(* A small instance of CallController.  The code never forgets a request   *)
(* (except in Rollback), so TLC explores the behaviours that keep at most  *)
(* MaxRequests results; call IDs are symmetric.                            *)
(***************************************************************************)
EXTENDS CallController, Naturals, FiniteSets, TLC

CONSTANT MaxRequests

CallSymmetry == Permutations(CallIds)

MCNext == Next /\ Cardinality({k \in Keys : requests'[k] # NoResult}) <= MaxRequests

MCSpec == Init /\ [][MCNext]_vars
=============================================================================
