---------------------------- MODULE PendingTexts ----------------------------
(***************************************************************************)
(* Texts that wait for a key in NetSession: chats for the key of a scope   *)
(* (m_pendingChats), offline messages for the public key of the addressee  *)
(* (m_pendingOffline), letters that came in for that of the sender         *)
(* (m_pendingOfflineInbox).  One flush retries all three; a housekeeper    *)
(* gives up on what waited too long.  A session is one connection: the     *)
(* module follows it from its welcome to its end.                          *)
(***************************************************************************)
EXTENDS FiniteSets, Naturals

CONSTANTS Peers,      \* users of the server
          Channels,   \* voice channels; 0 is the server's scope, and no channel
          Texts,      \* names of texts; a name is used again once its text is gone
          ChatLife,   \* rounds of the housekeeper a chat waits (10 s of 2 s each)
          LetterLife  \* the same for offline messages, both ways (15 s)

ASSUME PendingAssumption ==
    /\ 0 \notin Channels
    /\ ChatLife \in Nat /\ LetterLife \in Nat

VARIABLES
    online,     \* m_ready
    view,       \* the entry of each user in ServerData
    directory,  \* m_e2eeDirectory: users whose key was once verified
    asked,      \* users an identity_get was sent for
    keys,       \* scopes in m_channelKeys
    channel,    \* the user's own channel, or 0
    waiting,    \* the three queues
    fate        \* what became of the last text of each name

vars == <<online, view, directory, asked, keys, channel, waiting, fate>>

Scopes == {0} \cup Channels

\* "bare": without a key; "wrong": with one of another length than 32 bytes, or
\* one that fails the verification.
Entry == {"absent", "good", "bare", "wrong"}

Fates == {"none", "waiting", "sent", "refused", "shown", "unread", "dropped"}

\* The entries of the queues, by their ages.  A letter that is not sound cannot be
\* opened with its sender's key.
Chats(ages) == [text : Texts, kind : {"server", "channel"}, age : ages]
Outbox(ages) == [text : Texts, kind : {"offline"}, to : Peers, age : ages]
Inbox(ages) == [text : Texts, kind : {"inbox"}, from : Peers, sound : BOOLEAN, age : ages]

KeyOf(kind) == IF kind = "server" THEN 0 ELSE channel

\* What a queue's own function does with an entry now.
ChatFate(e) ==
    IF e.kind = "channel" /\ channel = 0 THEN "refused"
    ELSE IF KeyOf(e.kind) \in keys THEN "sent" ELSE "waiting"

OfflineFate(e) ==
    IF view[e.to] = "good" \/ e.to \in directory THEN "sent" ELSE "waiting"

\* The key comes from the entry in the view, verified or not and of whatever
\* length, and only from the directory if that has none.
InboxFate(e) ==
    LET known == \/ view[e.from] = "good"
                 \/ view[e.from] \in {"absent", "bare"} /\ e.from \in directory
    IN  IF known /\ e.sound THEN "shown" ELSE "waiting"

FateOf(e) == IF e.kind = "offline" THEN OfflineFate(e)
             ELSE IF e.kind = "inbox" THEN InboxFate(e) ELSE ChatFate(e)

\* The user whose identity_data an entry that still waits asks for.
Sought(e) == IF e.kind = "offline" THEN {e.to}
             ELSE IF e.kind = "inbox" THEN {e.from} ELSE {}

Init ==
    /\ online = TRUE
    /\ view \in [Peers -> Entry]
    /\ directory = {p \in Peers : view[p] = "good"}
    /\ asked = {}
    /\ keys \in SUBSET Scopes
    /\ channel \in Scopes
    /\ waiting = {} /\ fate = [t \in Texts |-> "none"]

-----------------------------------------------------------------------------
(* A new text: it goes out or is shown at once, is refused, or waits.      *)
Handle(e) ==
    /\ online /\ fate[e.text] # "waiting"
    /\ fate' = [fate EXCEPT ![e.text] = FateOf(e)]
    /\ IF FateOf(e) = "waiting"
       THEN waiting' = waiting \cup {e} /\ asked' = asked \cup (Sought(e) \ directory)
       ELSE UNCHANGED <<waiting, asked>>
    /\ UNCHANGED <<online, view, directory, keys, channel>>

SendChat == \E e \in Chats({0}) : Handle(e)

\* A private chat needs a verified key in the view and never waits.
SendPrivate(t, p) ==
    /\ online /\ fate[t] # "waiting"
    /\ fate' = [fate EXCEPT ![t] = IF view[p] = "good" THEN "sent" ELSE "refused"]
    /\ UNCHANGED <<online, view, directory, asked, keys, channel, waiting>>

\* The user was chosen from a list before two dialogs: it may have gone since.
OfflineSend == \E e \in Outbox({0}) : Handle(e)

\* A letter that is not encrypted is shown at once, like one that opens.
OfflineMsg == \E e \in Inbox({0}) : Handle(e)

-----------------------------------------------------------------------------
\* Mutant of Requeued: the letter's time starts again.
RequeuedAnew(e) == [e EXCEPT !.age = 0]

\* A text that is queued again is a new entry, except that a letter keeps the
\* moment it came in.
Requeued(e) == IF e.kind = "inbox" THEN e ELSE [e EXCEPT !.age = 0]

\* Mutant of Flush: the queues are walked without being emptied.
FlushUncleared ==
    LET left == {e \in waiting : FateOf(e)' = "waiting"}
    IN  /\ waiting' = waiting \cup {Requeued(e) : e \in left}
        /\ fate' = [t \in Texts |->
                CHOOSE f \in Fates : IF \E e \in waiting : e.text = t
                                     THEN \E e \in waiting : e.text = t /\ f = FateOf(e)'
                                     ELSE f = fate[t]]
        /\ asked' = asked \cup (UNION {Sought(e) : e \in left} \ directory')

\* Every queue is emptied and its texts go through their functions again, which
\* see what the step has changed.
Flush ==
    LET left == {e \in waiting : FateOf(e)' = "waiting"}
    IN  /\ waiting' = {Requeued(e) : e \in left}
        /\ fate' = [t \in Texts |->
                CHOOSE f \in Fates : IF \E e \in waiting : e.text = t
                                     THEN \E e \in waiting : e.text = t /\ f = FateOf(e)'
                                     ELSE f = fate[t]]
        /\ asked' = asked \cup (UNION {Sought(e) : e \in left} \ directory')

\* Keys that are minted, rotated or adopted (GroupKeys says when) flush.
KeysCome == \E new \in SUBSET Scopes : keys' = keys \cup new /\ Flush
KeysStay == UNCHANGED <<keys, waiting, fate, asked>>

KeyArrives == online /\ UNCHANGED <<online, view, directory, channel>> /\ KeysCome

\* Mutant of IdentityData: the directory grows without a flush.
IdentityDataQuiet(p) ==
    /\ online /\ p \in asked
    /\ directory' = directory \cup {p}
    /\ UNCHANGED <<online, view, asked, keys, channel, waiting, fate>>

\* identity_data: every request may be answered, also late.  An answer that does
\* not verify, or is empty, changes nothing.
IdentityData(p) ==
    /\ online /\ p \in asked
    /\ directory' = directory \cup {p}
    /\ UNCHANGED <<online, view, keys, channel>>
    /\ Flush

\* applyUserJson, for user_joined: the directory grows, nothing is flushed.
UserJoined(p, entry) ==
    /\ online /\ view[p] = "absent" /\ entry # "absent"
    /\ view' = [view EXCEPT ![p] = entry]
    /\ directory' = IF entry = "good" THEN directory \cup {p} ELSE directory
    /\ UNCHANGED <<online, asked, keys, channel, waiting, fate>>

\* The master of a scope the user was in rotates its key.
UserLeft(p) ==
    /\ online /\ view[p] # "absent"
    /\ view' = [view EXCEPT ![p] = "absent"]
    /\ UNCHANGED <<online, directory, channel>>
    /\ KeysCome \/ KeysStay

\* The user enters a channel: a master provides it with a key, or rotates the one
\* left behind; anybody else asks for what is missing.
Moved(c) ==
    /\ online /\ c # channel
    /\ channel' = c
    /\ UNCHANGED <<online, view, directory>>
    /\ KeysCome \/ KeysStay

\* chan_removed, and the key forgotten after fifteen failures: nothing is flushed.
ChanRemoved(c) ==
    /\ online /\ keys' = keys \ {c}
    /\ channel' = IF channel = c THEN 0 ELSE channel
    /\ UNCHANGED <<online, view, directory, asked, waiting, fate>>

KeyForgotten ==
    /\ online /\ channel \in keys \ {0}
    /\ keys' = keys \ {channel}
    /\ UNCHANGED <<online, view, directory, asked, channel, waiting, fate>>

-----------------------------------------------------------------------------
Life(e) == IF e.kind \in {"server", "channel"} THEN ChatLife ELSE LetterLife

\* A round of the housekeeper: two more seconds, and an end for what is too old.
Housekeeping ==
    LET aged == {[e EXCEPT !.age = @ + 1] : e \in waiting}
        late == {e \in aged : e.age > Life(e)}
    IN  /\ online
        /\ waiting' = aged \ late
        /\ fate' = [t \in Texts |->
                IF \E e \in late : e.text = t
                THEN IF \E e \in late : e.text = t /\ e.kind = "inbox" THEN "unread" ELSE "refused"
                ELSE fate[t]]
        /\ UNCHANGED <<online, view, directory, asked, keys, channel>>

\* e2eeClearState: nobody is told of the texts that still waited.
Disconnected ==
    /\ online /\ online' = FALSE
    /\ waiting' = {} /\ keys' = {} /\ directory' = {} /\ asked' = {}
    /\ fate' = [t \in Texts |-> IF fate[t] = "waiting" THEN "dropped" ELSE fate[t]]
    /\ UNCHANGED <<view, channel>>

Next ==
    \/ SendChat \/ OfflineSend \/ OfflineMsg
    \/ \E t \in Texts, p \in Peers : SendPrivate(t, p)
    \/ KeyArrives \/ KeyForgotten
    \/ \E p \in Peers, entry \in Entry : UserJoined(p, entry)
    \/ \E p \in Peers : IdentityData(p) \/ UserLeft(p)
    \/ \E c \in Channels : Moved(c) \/ ChanRemoved(c)
    \/ Housekeeping \/ Disconnected

\* The housekeeper is a timer of two seconds that runs while the session does.
Spec == Init /\ [][Next]_vars /\ WF_vars(Housekeeping)

-----------------------------------------------------------------------------
\* The entries are those of the queues, and each waits for a verdict.
TypeOK ==
    /\ online \in BOOLEAN /\ view \in [Peers -> Entry]
    /\ directory \subseteq Peers /\ asked \subseteq Peers
    /\ keys \subseteq Scopes /\ channel \in Scopes
    /\ waiting \subseteq Chats(Nat) \cup Outbox(Nat) \cup Inbox(Nat)
    /\ fate \in [Texts -> Fates]

\* A text that was sent, refused or shown is in no queue any more, and one that
\* waits is in exactly one place (e2eeFlushPending empties a queue before it sends
\* its texts again): no text goes out twice, and none is lost while the session
\* lasts.
TextsHaveOneFate ==
    \A t \in Texts : Cardinality({e \in waiting : e.text = t}) = (IF fate[t] = "waiting" THEN 1 ELSE 0)

\* A key frees what waits for it, at once: when the key of a scope appears no chat
\* is left waiting for that scope, and when identity_data names a user no offline
\* message to that user waits, and no sound letter from it (unless the view holds
\* an entry that is tried first).
KeysFreeTexts ==
    [][/\ \A k \in keys' \ keys : ~\E e \in waiting' :
            e.kind \in {"server", "channel"} /\ KeyOf(e.kind)' = k
       /\ view' = view => \A p \in directory' \ directory : ~\E e \in waiting' :
            \/ e.kind = "offline" /\ e.to = p
            \/ e.kind = "inbox" /\ e.from = p /\ e.sound /\ view[p] # "wrong"]_vars

LetterWaits(t) == \E e \in waiting : e.text = t /\ e.kind = "inbox"
Restart == \E e \in waiting, f \in waiting' : e.text = f.text /\ e.age > f.age

\* Nothing waits for ever.  A letter is shown, opened or not, whatever else goes on:
\* e2eeFlushPending hands on the moment it came in.  A chat or an offline message is
\* sent or its author told, unless flushes start its time again and again.
TextsSettle ==
    /\ \A t \in Texts : LetterWaits(t) ~> ~LetterWaits(t)
    /\ \/ []<><<Restart>>_vars
       \/ \A t \in Texts : fate[t] = "waiting" ~> fate[t] # "waiting"
=============================================================================
