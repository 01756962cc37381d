-------------------------- MODULE MCLiveConnections --------------------------
(* Instances of LiveConnections for TLC.                                    *)
EXTENDS LiveConnections

CONSTANTS ann, a1, a2, c1, c2

(* Both sockets are ann's.                                                  *)
Owners == [s \in Socket |-> ann]
=============================================================================
