---------------------------- MODULE CatClientsMC ----------------------------
(***************************************************************************)
(* Instances of CatClients for TLC: the ids of clients are interchangeable *)
(* (server.rs only counts them up), so states that differ in them only are *)
(* one.                                                                    *)
(***************************************************************************)
EXTENDS CatClients, TLC

Symmetric == Permutations(Clients)
=============================================================================
