----------------------------- MODULE MCHoldKeys -----------------------------
(* Two tabs and a list of whisper keys of which one, which answers the last whisper, may be
   removed. *)
EXTENDS HoldKeys
MCProfiles == {<<"list">>, <<"reply", "list">>}
=============================================================================
