---------------------------- MODULE MCKeyRecovery ----------------------------
(* Two clients that both talk; client 1 is the newcomer. *)
EXTENDS KeyRecovery
=============================================================================
