------------------------------ MODULE MCServing ------------------------------
(* Serving for TLC: connections, downloads and files are interchangeable.   *)
EXTENDS Serving, TLC

ServingSymmetry ==
    Permutations(Conns) \cup Permutations(Downloads) \cup Permutations(Files)
=============================================================================
