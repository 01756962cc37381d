---------------------------- MODULE MCIdMigration ----------------------------
(* An instance of IdMigration: a user, two channels with a creator, a log   *)
(* and a participant of a channel.  Numbers repeat across the tables.       *)
EXTENDS IdMigration

CONSTANTS u1, c1, c2, l1, m1

MCTables   == <<"users", "channels", "logs">>
MCTable    == ToSet(MCTables) \cup {"participants"}
MCFkTables == <<"channels", "logs", "participants">>
MCTableOf  == (u1 :> "users") @@ (c1 :> "channels") @@ (c2 :> "channels")
                @@ (l1 :> "logs") @@ (m1 :> "participants")
MCNumber   == (u1 :> 1) @@ (c1 :> 1) @@ (c2 :> 2) @@ (l1 :> 1) @@ (m1 :> 2)
MCParent   == ("users" :> NoTable) @@ ("channels" :> "users")
                @@ ("logs" :> "users") @@ ("participants" :> "channels")
MCNullable == {"logs"}
=============================================================================
