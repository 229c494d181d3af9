---------------------------- MODULE MCMonitoring -----------------------------
(* Small instances of Monitoring for TLC. *)
EXTENDS Monitoring

CONSTANTS x1, x2, w1, w2, here, there
=============================================================================
