-------------------------- MODULE MCCompanionMemory --------------------------
(***************************************************************************)
(* Instances of CompanionMemory for TLC.  Turns differ in nothing but      *)
(* their name, and so do deliveries.                                       *)
(***************************************************************************)
EXTENDS CompanionMemory, TLC

Interchangeable == Permutations(Turns) \cup Permutations(Deliveries)
=============================================================================
