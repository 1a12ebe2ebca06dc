---------------------------- MODULE MCGeneration ----------------------------
(***************************************************************************)
(* Instances of Generation for TLC: attempts, retries and refunds with one *)
(* worker (retry), the races of workers, finalizers and queues around one  *)
(* attempt (worker).                                                       *)
(***************************************************************************)
EXTENDS Generation
=============================================================================
