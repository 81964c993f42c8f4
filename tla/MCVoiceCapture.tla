--------------------------- MODULE MCVoiceCapture ---------------------------
(* The frame counts of EchoGuard.h, or smaller ones that keep their order. *)
EXTENDS VoiceCapture
=============================================================================
