-------------------------- MODULE MCDirectMessages --------------------------
(* Instances of DirectMessages for TLC.                                     *)
EXTENDS DirectMessages, TLC

(* Users, requests and channels are interchangeable.                        *)
Symmetry == Permutations(User) \cup Permutations(Dm) \cup Permutations(Request)
=============================================================================
