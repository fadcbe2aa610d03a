------------------------------ MODULE MCPipeline ------------------------------
(* Instances of Pipeline for TLC.                                            *)
EXTENDS Pipeline, TLC

CONSTANTS timer, api, k1, k2, k3, k4, r1, r2, p1

Symmetric == Permutations({timer, api}) \cup Permutations(Keys)
               \cup Permutations(Releases)
===============================================================================
