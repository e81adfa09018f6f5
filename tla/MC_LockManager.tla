---------------------------- MODULE MC_LockManager ----------------------------
(* Instances of LockManager for TLC: ids are small naturals, tables are model *)
(* values, which the strategy only compares and which are interchangeable.    *)
EXTENDS LockManager, TLC

ObjectSymmetry == Permutations(Object)
================================================================================
