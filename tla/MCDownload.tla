----------------------------- MODULE MCDownload -----------------------------
(* Download for TLC: the workers are model values and interchangeable, and  *)
(* so are the hosts.                                                        *)
EXTENDS Download, TLC

Symmetry == Permutations(Workers) \cup Permutations(Hosts)
=============================================================================
