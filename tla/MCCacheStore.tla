---------------------------- MODULE MCCacheStore ----------------------------
(* Model-checking instance of CacheStore: the constants are in the .cfg files. *)
EXTENDS CacheStore, TLC

Symmetry == Permutations(Puts) \cup Permutations(Keys) \cup Permutations(Clears)
============================================================================
