---------------------------- MODULE MCStoreRouter ----------------------------
(* StoreRouter for TLC.  Clients are interchangeable.                       *)
EXTENDS StoreRouter, TLC

Clients == Permutations(Client)
=============================================================================
