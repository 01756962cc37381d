---------------------------- MODULE MCMcpServer ----------------------------
(* An instance of McpServer for TLC: a direct message of one of two users,  *)
(* a channel of a server, a message in the one and a workspace of the user  *)
(* in the other.                                                            *)
EXTENDS McpServer, TLC

CONSTANTS a, b, dm, text, m, w

TheParticipant == [c \in {dm} |-> {a}]
TheHome        == m :> dm @@ w :> text
TheOwner       == m :> NoUser @@ w :> a
Alike          == Permutations(Call)
=============================================================================
