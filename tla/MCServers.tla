------------------------------ MODULE MCServers ------------------------------
(* Instances of Servers for TLC.                                            *)
EXTENDS Servers, TLC
Symmetry == Permutations(Request) \cup Permutations(User \ {Founder})
Ranks == {"owner", "admin"}
=============================================================================
