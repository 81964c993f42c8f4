--------------------------- MODULE MCStreamWatch ---------------------------
(* Two servers, a stream with the same identifier on both, one in the old mode. *)
EXTENDS StreamWatch

MCWhere == [u \in Users |-> 1]
MCLegacy == {CHOOSE w \in Tabs \X Users : TRUE}
============================================================================
