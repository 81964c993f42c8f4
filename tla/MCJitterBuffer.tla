--------------------------- MODULE MCJitterBuffer ---------------------------
(* The frame counts of VoiceEngine, scaled down in their order. *)
EXTENDS JitterBuffer
=============================================================================
