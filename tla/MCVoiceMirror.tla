---------------------------- MODULE MCVoiceMirror ----------------------------
(* Instances of VoiceMirror for TLC.                                        *)
EXTENDS VoiceMirror

CONSTANTS main, edge, ann, m1, m2, c1, c2

Peers == [n \in Node |-> IF n = main THEN edge ELSE main]

(* m1 and m2 are ann's sessions on main.                                    *)
UsersOf == [s \in Session |-> ann]
Homes == [s \in Session |-> main]
=============================================================================
