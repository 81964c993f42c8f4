------------------------------- MODULE MCAddons -------------------------------
(* The radio effect and one other add-on; the identifiers are their order. *)
EXTENDS Addons
MCAddonsSet == 1..2
===============================================================================
