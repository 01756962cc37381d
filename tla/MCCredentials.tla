---------------------------- MODULE MCCredentials ----------------------------
(* An instance of Credentials for TLC.                                      *)
EXTENDS Credentials, TLC

Alike == Permutations(Credential) \cup Permutations(Request)
=============================================================================
