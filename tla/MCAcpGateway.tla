---------------------------- MODULE MCAcpGateway ----------------------------
(***************************************************************************)
(* Small instances of AcpGateway: the operations, requests and capacities  *)
(* of each run are in its .cfg file.                                       *)
(***************************************************************************)
EXTENDS AcpGateway, TLC

\* Calls are used alike, and so are reverse requests.  Only runs without
\* liveness properties use this.
Symmetry == Permutations(Calls) \cup Permutations(Requests)
=============================================================================
