----------------------------- MODULE MCDiscovery -----------------------------
(* Discovery for TLC: nodes are interchangeable, and so are the files other *)
(* than XD.                                                                 *)
EXTENDS Discovery, TLC

DiscoverySymmetry == Permutations(Nodes) \cup Permutations(Files \ {XD})
=============================================================================
