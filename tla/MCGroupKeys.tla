----------------------------- MODULE MCGroupKeys -----------------------------
(* Two or three clients, two channels; identities in the order of the numbers. *)
EXTENDS GroupKeys

MCUid == [c \in Session |-> c]
MCNoSkew == [c \in Session |-> 0]
\* Session 3's clock is ahead.
MCSkew == [c \in Session |-> IF c = 3 THEN 2 ELSE 0]
MCWhisper == {{}, {1}}
\* Even sessions iterate a set upwards, odd ones downwards.
MCFirstOf(c, S) == IF c % 2 = 0 THEN CHOOSE x \in S : \A y \in S : x <= y
                   ELSE CHOOSE x \in S : \A y \in S : x >= y
\* Bound: events come one at a time.
OneAtATime == ~ raced
=============================================================================
