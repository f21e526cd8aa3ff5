---------------------------- MODULE MCMigration ----------------------------
(***************************************************************************)
(* An instance of Migration: this server and another one, a user who is    *)
(* there, two who share a name, and archives with one of them, with and    *)
(* without the keys.                                                       *)
(***************************************************************************)
EXTENDS Migration, TLC

CONSTANTS t1, r1

Anna == [name |-> "anna", key |-> 1, address |-> 1]
Namesake == [name |-> "anna", key |-> 2, address |-> 3]
Boris == [name |-> "boris", key |-> 3, address |-> 2]
People == {Anna, Namesake, Boris}

Here == "here"
There == "there"
Net == [s \in {Here, There} |-> {1, 2, 3}]
OneUser == [people |-> {Boris}, site |-> Here]

Uploads == {[people |-> {Anna}, site |-> There, complete |-> TRUE],
            [people |-> {Anna}, site |-> There, complete |-> FALSE]}
=============================================================================
