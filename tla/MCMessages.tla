----------------------------- MODULE MCMessages -----------------------------
(* An instance of Messages for TLC: m1 is there, m2 may be sent; ann wrote  *)
(* m1 and bob, a moderator, writes m2.                                      *)
EXTENDS Messages, TLC
CONSTANTS m1, m2, ann, bob
AuthorOf == (m1 :> ann) @@ (m2 :> bob)
Symmetry == Permutations(Request)
=============================================================================
