---------------------------- MODULE PeerMailbox ----------------------------
(***************************************************************************)
(* What the threads of a screen share promise together: a set of open      *)
(* peers, each with a mailbox for its newest frame.  A frame is put into   *)
(* the mailbox of an open peer only and is shown or dropped; opening,      *)
(* closing and beginning anew are single steps, and a peer that is closed  *)
(* or begun anew leaves no frame behind.                                   *)
(***************************************************************************)
CONSTANT Peers

VARIABLES open,     \* users with a connection
          full      \* users whose newest frame waits to be shown

Init == open = {} /\ full = {}

Open(p) ==
    /\ p \notin open
    /\ open' = open \cup {p}
    /\ UNCHANGED full

\* A newer frame replaces the one that waits.
Put(p) ==
    /\ p \in open
    /\ full' = full \cup {p}
    /\ UNCHANGED open

Take(p) ==
    /\ p \in full
    /\ full' = full \ {p}
    /\ UNCHANGED open

Close(p) ==
    /\ p \in open
    /\ open' = open \ {p}
    /\ full' = full \ {p}

\* The peer is closed and opened again at once.
Renew(p) ==
    /\ p \in open
    /\ full' = full \ {p}
    /\ UNCHANGED open

Next == \E p \in Peers : Open(p) \/ Put(p) \/ Take(p) \/ Close(p) \/ Renew(p)

Spec == Init /\ [][Next]_<<open, full>>

============================================================================
