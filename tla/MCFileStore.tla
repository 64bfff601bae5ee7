---------------------------- MODULE MCFileStore ----------------------------
(* FileStore on small instances.  Calls are interchangeable.               *)
EXTENDS FileStore, TLC

CallSymmetry == Permutations(Calls)
=============================================================================
