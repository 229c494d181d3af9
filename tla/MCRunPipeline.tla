---------------------------- MODULE MCRunPipeline ----------------------------
(* Small instances of RunPipeline for TLC. *)
EXTENDS RunPipeline

CONSTANTS alice

\* Every problem belongs to alice; others read what is not private.
MCOwner == [p \in Problems |-> alice]
=============================================================================
