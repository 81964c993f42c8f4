------------------------------ MODULE GroupKeys ------------------------------
(***************************************************************************)
(* The group-key engine of NetSession (protocol v6, end-to-end encryption). *)
(*                                                                         *)
(* Every client keeps one key and one epoch per scope: scope 0 is the       *)
(* server-wide chat, the other scopes are voice channels.  Channels linked  *)
(* to one another form a component and share a key.  The member with the    *)
(* smallest identity (the "master") mints the key, wraps it for the others  *)
(* and mints a new one when somebody leaves; the rest adopt an envelope     *)
(* only when its epoch exceeds theirs, and ask for the keys they miss.      *)
(*                                                                         *)
(* The relay server is external.  It keeps the true membership, broadcasts  *)
(* each change to every session over that session's TCP stream (the FIFO    *)
(* inbox), forwards an e2e_key to its addressee and an e2e_key_request to   *)
(* the other members of the scope.  A send and the relay's forwarding of it *)
(* are one step.  Session identifiers are never reused.                     *)
(*                                                                         *)
(* A handler of the code is one action.  Inside it the code calls several   *)
(* functions that each rewrite the key tables and send envelopes; they are  *)
(* operators from one Local record (tables, minted keys, envelopes so far)  *)
(* to the next, applied in the order of the calls.                          *)
(***************************************************************************)
EXTENDS Integers, Sequences, FiniteSets

CONSTANTS
    Session,          \* sessions; one per (client process, connection)
    Channel,          \* voice channels, positive integers
    Lobby,            \* the channel the server puts a newcomer in
    Uid,              \* Uid[c]: identity of session c, compared as the code does
    Skew,             \* Skew[c]: how far the wall clock of c is ahead
    MaxAhead,         \* largest accepted lead of an envelope's epoch (15 min)
    WhisperChoices,   \* the target sets a user may whisper to
    FirstOf(_, _),    \* FirstOf(c, S): the element QSet iteration of c meets first
    Present,          \* the sessions already online and settled at the start
    Founder,          \* the one of them that minted the keys they share
    MaxEvents,        \* bound: membership, topology and whisper events
    MaxNow,           \* bound: true time, read at each minting
    MaxForgets        \* bound: recoveries from undecryptable voice

ASSUME SessionAssumption == Session # {} /\ IsFiniteSet(Session)
ASSUME ChannelAssumption == Channel \subseteq Nat \ {0} /\ IsFiniteSet(Channel)
ASSUME LobbyAssumption == Lobby \in Channel
ASSUME UidAssumption == Uid \in [Session -> Nat]
ASSUME SkewAssumption == Skew \in [Session -> Nat]
ASSUME PresentAssumption == Present \subseteq Session /\ Founder \in Present
ASSUME WhisperAssumption == WhisperChoices \subseteq SUBSET Session
ASSUME FirstOfAssumption ==
    \A c \in Session, S \in SUBSET Channel : S # {} => FirstOf(c, S) \in S
ASSUME BoundAssumption == MaxAhead \in Nat /\ MaxEvents \in Nat /\ MaxNow \in Nat
                          /\ MaxForgets \in Nat

Scope == {0} \cup Channel
Absent == -1          \* a view's entry for a session it does not know
Nowhere == 0          \* known, but in no channel (channelOfUser returns 0)
Place == {Absent, Nowhere} \cup Channel

\* A key is named by who minted it and by how many that session had minted.
Key == [by : Session, n : Nat \ {0}]
NoKey == [by |-> Absent, n |-> 0]
KeyOrNone == Key \cup {NoKey}
Epoch == Nat \ {0}    \* 0 is the epoch of a scope without one

\* What a client knows of the server: ServerData's users and channels.
View == [where : [Session -> Place], chans : SUBSET Channel,
         links : SUBSET (Channel \X Channel)]
NoView == [where |-> [d \in Session |-> Absent], chans |-> {}, links |-> {}]

VARIABLES
    net,       \* the server's own View: who is connected and where
    phase,     \* per session: "new", "hello", "ready" (m_ready) or "gone"
    inbox,     \* per session: what the server sent and is not yet handled
    view,      \* per session: its ServerData
    keys,      \* per session: m_channelKeys
    epochs,    \* per session: m_channelEpochs, 0 where no epoch is stored
    verify,    \* per session: m_e2eeVerifyPending
    whisper,   \* per session: m_whisperIds
    rewrap,    \* per session: m_e2eeWhisperNeedsRewrap, kept while whispering
    minted,    \* per session: the epochs of the keys it has generated, oldest first
    now,       \* true time at the latest minting
    events,    \* membership, topology and whisper events so far
    forgets,   \* recoveries so far
    raced,     \* history: an event came before the previous ones were handled
    confided,  \* history: the sessions somebody has whispered to
    passed,    \* history, per scope: the key last passed on to all its members
    fresh,     \* history, per scope: the key a member minted last, see MintKey
    declined   \* history, per session: keys offered to it, or by it, that it did not take

told == <<passed, fresh, declined>>
vars == <<net, phase, inbox, view, keys, epochs, verify, whisper, rewrap, minted,
          now, events, forgets, raced, confided, told>>
-----------------------------------------------------------------------------
(* Messages of the server's stream. *)

WelcomeMsg(v) == [type |-> "welcome", snapshot |-> v]
JoinedMsg(d) == [type |-> "user_joined", id |-> d]
LeftMsg(d) == [type |-> "user_left", id |-> d]
MovedMsg(d, ch) == [type |-> "user_moved", id |-> d, chan |-> ch]
ChanUpdateMsg(ch, linked) == [type |-> "chan_update", chan |-> ch, linked |-> linked]
ChanRemovedMsg(ch) == [type |-> "chan_removed", chan |-> ch]
KeyMsg(comp, k, e) == [type |-> "e2e_key", comp |-> comp, key |-> k, epoch |-> e]
RequestMsg(d, s) == [type |-> "e2e_key_request", from |-> d, scope |-> s]

Message ==
    [type : {"welcome"}, snapshot : View]
    \cup [type : {"user_joined", "user_left"}, id : Session]
    \cup [type : {"user_moved"}, id : Session, chan : Channel]
    \cup [type : {"chan_update"}, chan : Channel, linked : SUBSET Channel]
    \cup [type : {"chan_removed"}, chan : Channel]
    \cup [type : {"e2e_key"}, comp : SUBSET Scope, key : Key, epoch : Nat]
    \cup [type : {"e2e_key_request"}, from : Session, scope : Scope]
-----------------------------------------------------------------------------
(* Components and masters, computed on one client's view. *)

LinkClosed(v, S) ==
    \A l \in v.links : l[1] \in v.chans /\ l[2] \in v.chans => (l[1] \in S <=> l[2] \in S)

\* e2eeComponentOf: the channels reached over links, followed both ways.
ComponentOf(v, ch) ==
    {d \in v.chans : /\ ch \in v.chans
                     /\ \A S \in SUBSET Channel : ch \in S /\ LinkClosed(v, S) => d \in S}

\* The scopes one key covers.
KeyedScopes(v, s) == IF s = 0 THEN {0} ELSE ComponentOf(v, s)

\* e2eeComponentMembers (scope 0: every user of the view).
MembersOf(v, comp) ==
    IF 0 \in comp THEN {d \in Session : v.where[d] # Absent}
    ELSE {d \in Session : v.where[d] \in comp}

\* Mutant of IsMaster: the comparison is not strict, so a session yields to itself.
IsMasterNever(c, v, s) ==
    \A d \in MembersOf(v, KeyedScopes(v, s)) : ~ (Uid[d] <= Uid[c])

\* e2eeIsMasterOfComponent / e2eeIsServerScopeMaster: nobody in the scope has a
\* smaller identity.  Whether c itself is in the scope is not asked.
IsMaster(c, v, s) ==
    \A d \in MembersOf(v, KeyedScopes(v, s)) : ~ (Uid[d] < Uid[c])
-----------------------------------------------------------------------------
(* Handler pieces: operators on a Local record. *)

LocalOf(c) ==
    [keys |-> keys[c], epochs |-> epochs[c], minted |-> minted,
     out |-> [d \in Session |-> <<>>], rewrap |-> rewrap[c],
     passed |-> passed, fresh |-> fresh, declined |-> declined[c]]

\* e2eeShareKeyWith for each session of targets the view knows.
Share(c, v, L, targets, comp, k, e) ==
    [L EXCEPT !.out =
        [d \in Session |->
            IF d \in targets /\ d # c /\ v.where[d] # Absent
            THEN Append(L.out[d], KeyMsg(comp, k, e)) ELSE L.out[d]]]

\* e2eeDistributeWhisperKey: whisper targets outside the component get its key.
ShareWhisper(c, v, targets, L) ==
    LET here == v.where[c]
        comp == ComponentOf(v, here)
    IN  IF targets = {} \/ here \notin Channel \/ L.keys[here] = NoKey THEN L
        ELSE Share(c, v, [L EXCEPT !.rewrap = FALSE], targets \ MembersOf(v, comp), comp,
                   L.keys[here], L.epochs[here])

HasAll(L, comp) == \A s \in comp : L.keys[s] # NoKey

\* The epoch of a new key: the wall clock, or one more than the largest epoch the
\* client stores for the scopes, whichever is larger.
MintEpoch(L, comp, clock) ==
    LET floor == {clock} \cup {L.epochs[s] + 1 : s \in comp}
    IN  CHOOSE e \in floor : \A f \in floor : f <= e

\* A fresh key for the whole of comp, stored at once under a fresh epoch.  History: it is
\* the fresh key of its scopes if a member mints it; one that somebody minted from outside
\* leaves them without.
MintKey(c, v, W, L, comp, clock) ==
    LET e == MintEpoch(L, comp, clock)
        k == [by |-> c, n |-> Len(L.minted[c]) + 1]
    IN  [keys |-> [s \in Scope |-> IF s \in comp THEN k ELSE L.keys[s]],
         epochs |-> [s \in Scope |-> IF s \in comp THEN e ELSE L.epochs[s]],
         minted |-> [L.minted EXCEPT ![c] = Append(@, e)],
         out |-> L.out,
         rewrap |-> L.rewrap \/ (W # {} /\ comp # {0}),
         passed |-> L.passed,
         fresh |-> [s \in Scope |-> IF s \notin comp THEN L.fresh[s]
                                    ELSE IF c \in MembersOf(v, comp) THEN k ELSE NoKey],
         declined |-> L.declined]

\* History: key k is passed on for comp.  A client whose own keys of the scopes differ has
\* passed on one that it does not speak under everywhere.
Remembered(L, comp, k) ==
    [L EXCEPT !.passed = [s \in Scope |-> IF s \in comp THEN k ELSE L.passed[s]],
              !.declined = @ \cup (IF \A s \in comp : L.keys[s] = k THEN {} ELSE {k})]

\* Mutant of ShareStored: only the whisper targets are told.
ShareStoredWhisperOnly(c, v, W, L, comp, s) ==
    ShareWhisper(c, v, W, Remembered(L, comp, L.keys[s]))

\* The stored key goes to the members of the component, then to the whisper targets.
ShareStored(c, v, W, L, comp, s) ==
    ShareWhisper(c, v, W, Share(c, v, Remembered(L, comp, L.keys[s]), MembersOf(v, comp), comp,
                                L.keys[s], L.epochs[s]))

First(c, comp) == IF comp = {0} THEN 0 ELSE FirstOf(c, comp)

\* e2eeEnsureComponentKey: pass on the stored key of the scope, or mint one.
Ensure(c, v, W, L, s, clock) ==
    LET comp == KeyedScopes(v, s)
        K == IF HasAll(L, comp) THEN L ELSE MintKey(c, v, W, L, comp, clock)
    IN  IF comp = {} \/ (HasAll(L, comp) /\ L.epochs[First(c, comp)] = 0) THEN L
        ELSE ShareStored(c, v, W, K, comp, First(c, comp))

\* Mutant of Rotate: the stored key is passed on again.
RotateInPlace(c, v, W, L, s, clock) == Ensure(c, v, W, L, s, clock)

\* e2eeRotateComponentKey: mint a new key whatever is stored.
Rotate(c, v, W, L, s, clock) ==
    LET comp == KeyedScopes(v, s)
    IN  IF comp = {} THEN L
        ELSE ShareStored(c, v, W, MintKey(c, v, W, L, comp, clock), comp, First(c, comp))

\* Mutant of Adopt: an envelope of the same epoch wins too.
AdoptTies(L, comp, k, e) ==
    LET wins(s) == s \in comp /\ e >= L.epochs[s]
    IN  [L EXCEPT !.keys = [s \in Scope |-> IF wins(s) THEN k ELSE L.keys[s]],
                  !.epochs = [s \in Scope |-> IF wins(s) THEN e ELSE L.epochs[s]]]

\* e2eeApplyGroupKey: per scope, the envelope wins only with a larger epoch.
Adopt(L, comp, k, e) ==
    LET wins(s) == s \in comp /\ e > L.epochs[s]
    IN  [L EXCEPT !.keys = [s \in Scope |-> IF wins(s) THEN k ELSE L.keys[s]],
                  !.epochs = [s \in Scope |-> IF wins(s) THEN e ELSE L.epochs[s]]]

\* Mutant of Forget: the epoch of the forgotten key stays.
ForgetKeyOnly(L, s) == [L EXCEPT !.keys[s] = NoKey]

\* The key and the epoch of a scope are removed together.
Forget(L, s) == [L EXCEPT !.keys[s] = NoKey, !.epochs[s] = 0]

\* Whether c lacks a key of the component of its scope s.
Lacks(c, v, L, s) == ~ HasAll(L, KeyedScopes(v, s))

\* e2eeRequestKey: the relay forwards the question to the others in the scope, if
\* the asker is in it.  ask = FALSE is the call the 2.5 s limiter swallows.
Ask(c, L, s, ask) ==
    LET asked == {d \in Session \ {c} : d \in MembersOf(net, KeyedScopes(net, s))}
    IN  IF ~ ask \/ c \notin MembersOf(net, KeyedScopes(net, s)) THEN L
        ELSE [L EXCEPT !.out = [d \in Session |->
                  IF d \in asked THEN Append(L.out[d], RequestMsg(c, s)) ELSE L.out[d]]]

\* Bound: a client's question and the answers to it are handled before it may ask
\* again.  The code's limiter is a time instead, 2.5 s between two questions of one
\* client: where a delivery takes longer, a repeated question is left out here.
Unanswered(c) ==
    \E d \in Session : \E i \in 1..Len(inbox[d]) :
        \/ inbox[d][i].type = "e2e_key_request" /\ inbox[d][i].from = c
        \/ inbox[d][i].type = "e2e_key" /\ d = c
MayAsk(c) == IF Unanswered(c) THEN {FALSE} ELSE BOOLEAN

Online(d) == phase[d] \in {"hello", "ready"}
Quiet ==
    \A d \in Session :
        inbox[d] = <<>> /\ phase[d] # "hello" /\ (phase[d] = "ready" => verify[d] = <<>>)

\* The wall clock of c at true time t.  Time matters where it is read: a minting
\* reads the time of the previous one or the next millisecond.
Wall(c, t) == t + Skew[c]
Instant == {t \in {now, now + 1} : t <= MaxNow}

\* The Local record becomes the state of c; c has handled the head of its inbox
\* (popped) and what it sent reaches the sessions that are online.
\* t is the time it read if it minted.
Commit(c, L, t, popped) ==
    /\ keys' = [keys EXCEPT ![c] = L.keys]
    /\ epochs' = [epochs EXCEPT ![c] = L.epochs]
    /\ rewrap' = [rewrap EXCEPT ![c] = L.rewrap]
    /\ minted' = L.minted
    /\ passed' = L.passed /\ fresh' = L.fresh
    /\ declined' = [declined EXCEPT ![c] = L.declined]
    /\ now' = IF L.minted = minted THEN now ELSE t
    /\ inbox' = [d \in Session |->
                    LET kept == IF d = c /\ popped THEN Tail(inbox[d]) ELSE inbox[d]
                    IN  IF Online(d) THEN kept \o L.out[d] ELSE kept]
-----------------------------------------------------------------------------
(* The server's side: membership and topology events. *)

\* The server applies an event and tells everyone online.
Broadcast(msgs) ==
    inbox' = [d \in Session |-> IF Online(d) THEN inbox[d] \o msgs ELSE inbox[d]]

ServerEvent ==
    /\ events < MaxEvents
    /\ events' = events + 1
    /\ raced' = (raced \/ ~ Quiet)
    /\ UNCHANGED <<now, forgets, confided>>

\* A session logs in: welcome for it, user_joined and user_moved for the others.
Connect(c) ==
    LET seated == [net EXCEPT !.where[c] = Lobby]
    IN  /\ phase[c] = "new"
        /\ ServerEvent
        /\ net' = seated
        /\ phase' = [phase EXCEPT ![c] = "hello"]
        /\ inbox' = [d \in Session |->
                        IF d = c THEN <<WelcomeMsg(seated)>>
                        ELSE IF Online(d) THEN inbox[d] \o <<JoinedMsg(c), MovedMsg(c, Lobby)>>
                        ELSE inbox[d]]
        /\ UNCHANGED <<view, keys, epochs, verify, whisper, rewrap, minted, told>>

\* A session's connection ends.  It forgets its keys (onDisconnected,
\* e2eeClearState) and the others receive user_left.
Disconnect(c) ==
    /\ Online(c)
    /\ ServerEvent
    /\ net' = [net EXCEPT !.where[c] = Absent]
    /\ phase' = [phase EXCEPT ![c] = "gone"]
    /\ inbox' = [d \in Session |->
                    IF d = c THEN <<>>
                    ELSE IF Online(d) THEN inbox[d] \o <<LeftMsg(c)>> ELSE inbox[d]]
    /\ view' = [view EXCEPT ![c] = NoView]
    /\ keys' = [keys EXCEPT ![c] = [s \in Scope |-> NoKey]]
    /\ epochs' = [epochs EXCEPT ![c] = [s \in Scope |-> 0]]
    /\ verify' = [verify EXCEPT ![c] = <<>>]
    /\ whisper' = [whisper EXCEPT ![c] = {}]
    /\ rewrap' = [rewrap EXCEPT ![c] = FALSE]
    /\ UNCHANGED <<minted, told>>

\* A session moves, or is moved, to another channel.
Move(c, ch) ==
    /\ phase[c] = "ready"
    /\ ch \in net.chans \ {net.where[c]}
    /\ ServerEvent
    /\ net' = [net EXCEPT !.where[c] = ch]
    /\ Broadcast(<<MovedMsg(c, ch)>>)
    /\ UNCHANGED <<phase, view, keys, epochs, verify, whisper, rewrap, minted, told>>

Relinked(links, ch, linked) == {l \in links : l[1] # ch} \cup ({ch} \X (linked \ {ch}))

Occupied(v, ch) == \E d \in Session : v.where[d] \in ComponentOf(v, ch)

\* A channel is edited; its list of linked channels may change.  History: where nobody is
\* left to mint a key for a component, it has none of its own.
EditChannel(ch, linked) ==
    /\ ch \in net.chans
    /\ ServerEvent
    /\ net' = [net EXCEPT !.links = Relinked(@, ch, linked)]
    /\ Broadcast(<<ChanUpdateMsg(ch, linked)>>)
    /\ fresh' = [s \in Scope |-> IF s = 0 \/ Occupied(net', s) THEN fresh[s] ELSE NoKey]
    /\ UNCHANGED <<phase, view, keys, epochs, verify, whisper, rewrap, minted, passed, declined>>

\* An empty channel is removed.  History: the rest of its component goes on with a key
\* that was not minted for it.
RemoveChannel(ch) ==
    /\ ch \in net.chans \ {Lobby}
    /\ \A d \in Session : net.where[d] # ch
    /\ ServerEvent
    /\ net' = [net EXCEPT !.chans = @ \ {ch}, !.links = {l \in @ : l[1] # ch}]
    /\ Broadcast(<<ChanRemovedMsg(ch)>>)
    /\ fresh' = [s \in Scope |-> IF s \in ComponentOf(net, ch) THEN NoKey ELSE fresh[s]]
    /\ UNCHANGED <<phase, view, keys, epochs, verify, whisper, rewrap, minted, passed, declined>>
-----------------------------------------------------------------------------
(* The client's handlers, one per message type. *)

Receives(c, type) == inbox[c] # <<>> /\ Head(inbox[c]).type = type

\* welcome: take the snapshot and e2eeBootstrap.  A master provisions and plans
\* to verify its epoch; the others ask.  Of two questions only the first can pass
\* the limiter.
HandleWelcome(c) ==
    /\ phase[c] = "hello"
    /\ Receives(c, "welcome")
    /\ LET v == Head(inbox[c]).snapshot
           my == v.where[c]
           leads0 == IsMaster(c, v, 0)
           leads == my \in Channel /\ IsMaster(c, v, my)
           L0 == LocalOf(c)
           asks0 == ~ leads0 /\ Lacks(c, v, L0, 0)
       IN  \E ask \in MayAsk(c), t \in Instant :
             LET L1 == IF leads0 THEN Ensure(c, v, whisper[c], L0, 0, Wall(c, t)) ELSE L0
                 L2 == Ask(c, L1, 0, ask /\ asks0)
                 L3 == IF leads THEN Ensure(c, v, whisper[c], L2, my, Wall(c, t))
                       ELSE Ask(c, L2, my, ask /\ ~ asks0 /\ my \in Channel /\ Lacks(c, v, L2, my))
             IN  /\ Commit(c, ShareWhisper(c, v, whisper[c], L3), t, TRUE)
                 /\ view' = [view EXCEPT ![c] = v]
                 /\ phase' = [phase EXCEPT ![c] = "ready"]
                 /\ verify' = [verify EXCEPT ![c] =
                        @ \o (IF leads0 THEN <<0>> ELSE <<>>) \o (IF leads THEN <<my>> ELSE <<>>)]
    /\ UNCHANGED <<net, whisper, events, forgets, raced, confided>>

\* The state a handler that only updates the view leaves alone.
Steady == UNCHANGED <<net, phase, verify, whisper, events, forgets, raced, confided>>

\* user_joined: the master of scope 0 hands the newcomer its key.
HandleUserJoined(c) ==
    /\ phase[c] = "ready"
    /\ Receives(c, "user_joined")
    /\ LET d == Head(inbox[c]).id
           v == [view[c] EXCEPT !.where[d] = IF @ = Absent THEN Nowhere ELSE @]
           L == LocalOf(c)
       IN  /\ view' = [view EXCEPT ![c] = v]
           /\ Commit(c, IF IsMaster(c, v, 0) /\ L.keys[0] # NoKey
                        THEN Share(c, v, L, {d}, {0}, L.keys[0], L.epochs[0]) ELSE L, now, TRUE)
    /\ Steady

\* user_left: the masters of scope 0 and of the channel left mint new keys.
HandleUserLeft(c) ==
    /\ phase[c] = "ready"
    /\ Receives(c, "user_left")
    /\ LET d == Head(inbox[c]).id
           old == view[c].where[d]
           v == [view[c] EXCEPT !.where[d] = Absent]
           L0 == LocalOf(c)
       IN  /\ view' = [view EXCEPT ![c] = v]
           /\ \E t \in Instant :
                LET L1 == IF IsMaster(c, v, 0) /\ L0.keys[0] # NoKey
                          THEN Rotate(c, v, whisper[c], L0, 0, Wall(c, t)) ELSE L0
                    L2 == IF old \in Channel /\ IsMaster(c, v, old)
                          THEN Rotate(c, v, whisper[c], L1, old, Wall(c, t)) ELSE L1
                IN  Commit(c, L2, t, TRUE)
    /\ Steady

\* user_moved: provision or ask when c itself arrives, provision when c leads the
\* component somebody joined, then mint for the component that was left.
HandleUserMoved(c) ==
    /\ phase[c] = "ready"
    /\ Receives(c, "user_moved")
    /\ LET d == Head(inbox[c]).id
           ch == Head(inbox[c]).chan
           old == view[c].where[d]
           v == [view[c] EXCEPT !.where[d] = ch]
           L0 == LocalOf(c)
           leads == IsMaster(c, v, ch)
           hosts == d = c \/ v.where[c] \in ComponentOf(v, ch)
       IN  \E ask \in MayAsk(c), t \in Instant :
             LET L1 == IF leads /\ hosts THEN Ensure(c, v, whisper[c], L0, ch, Wall(c, t))
                       ELSE Ask(c, L0, ch, ask /\ d = c /\ Lacks(c, v, L0, ch))
                 L2 == IF old \in Channel \ {ch} /\ IsMaster(c, v, old)
                       THEN Rotate(c, v, whisper[c], L1, old, Wall(c, t)) ELSE L1
             IN  /\ Commit(c, L2, t, TRUE)
                 /\ view' = [view EXCEPT ![c] = v]
    /\ Steady

\* chan_update: e2eeOnTopologyChanged, after any edit of any channel.
HandleChanUpdate(c) ==
    /\ phase[c] = "ready"
    /\ Receives(c, "chan_update")
    /\ LET m == Head(inbox[c])
           v == [view[c] EXCEPT !.chans = @ \cup {m.chan},
                                !.links = Relinked(@, m.chan, m.linked)]
           my == v.where[c]
           L == LocalOf(c)
       IN  \E ask \in MayAsk(c), t \in Instant :
             /\ view' = [view EXCEPT ![c] = v]
             /\ Commit(c, IF my \notin Channel THEN L
                          ELSE IF IsMaster(c, v, my)
                          THEN Rotate(c, v, whisper[c], L, my, Wall(c, t))
                          ELSE Ask(c, L, my, ask /\ Lacks(c, v, L, my)), t, TRUE)
    /\ Steady

\* chan_removed: the channel and its key disappear; nobody mints.
HandleChanRemoved(c) ==
    /\ phase[c] = "ready"
    /\ Receives(c, "chan_removed")
    /\ LET ch == Head(inbox[c]).chan
           L == LocalOf(c)
       IN  /\ view' = [view EXCEPT ![c].chans = @ \ {ch},
                                   ![c].links = {l \in @ : l[1] # ch}]
           /\ Commit(c, Forget(L, ch), now, TRUE)
    /\ Steady

\* e2e_key: refused whole when its epoch is too far ahead of the local clock or it
\* names an unknown channel, else adopted scope by scope.
HandleKey(c) ==
    /\ phase[c] = "ready"
    /\ Receives(c, "e2e_key")
    /\ LET m == Head(inbox[c])
           v == view[c]
           L0 == LocalOf(c)
           refused == m.epoch > Wall(c, now) + MaxAhead \/ ~ (m.comp \subseteq {0} \cup v.chans)
           L1 == [Adopt(L0, m.comp, m.key, m.epoch)
                    EXCEPT !.rewrap = @ \/ (whisper[c] # {} /\ v.where[c] \in m.comp)]
       IN  Commit(c, IF refused THEN [L0 EXCEPT !.declined = @ \cup {m.key}]
                     ELSE ShareWhisper(c, v, whisper[c], L1), now, TRUE)
    /\ UNCHANGED view
    /\ Steady

\* e2e_key_request: whoever holds the key answers, for the whole component.
HandleKeyRequest(c) ==
    /\ phase[c] = "ready"
    /\ Receives(c, "e2e_key_request")
    /\ LET m == Head(inbox[c])
           v == view[c]
           L == LocalOf(c)
           comp == IF KeyedScopes(v, m.scope) = {} THEN {m.scope} ELSE KeyedScopes(v, m.scope)
       IN  Commit(c, IF L.keys[m.scope] = NoKey THEN L
                     ELSE Share(c, v, L, {m.from}, comp, L.keys[m.scope], L.epochs[m.scope]),
                  now, TRUE)
    /\ UNCHANGED view
    /\ Steady

\* onE2eeHousekeeping, every 2 s: take the next planned verification, ask for the
\* scope-0 key or for the channel's, wrap again for the whisper targets.  Of the
\* questions at most one passes the limiter.
Housekeeping(c) ==
    /\ phase[c] = "ready"
    /\ LET v == view[c]
           my == v.where[c]
           L == LocalOf(c)
           verifies == verify[c] # <<>> /\ L.keys[Head(verify[c])] # NoKey
           wanted == IF verifies THEN {Head(verify[c])}
                     ELSE {s \in {0, my} : s \in Scope /\ Lacks(c, v, L, s)}
       IN  /\ wanted # {} \/ verify[c] # <<>> \/ rewrap[c]
           /\ \E s \in wanted \cup {0}, ask \in MayAsk(c) :
                LET K == Ask(c, L, s, ask /\ s \in wanted)
                IN  Commit(c, IF L.rewrap THEN ShareWhisper(c, v, whisper[c], K) ELSE K, now, FALSE)
           /\ verify' = [verify EXCEPT ![c] = IF @ = <<>> THEN @ ELSE Tail(@)]
    /\ UNCHANGED <<net, phase, view, whisper, events, forgets, raced, confided>>

\* onUdpReadyRead: fifteen voice packets in a row from c's own channel that no
\* key of c opens; c forgets its channel key.
ForgetStaleKey(c) ==
    LET my == view[c].where[c]
    IN  /\ phase[c] = "ready"
        /\ forgets < MaxForgets
        /\ my \in Channel /\ keys[c][my] # NoKey
        /\ \E d \in Session \ {c} :
              /\ phase[d] = "ready" /\ view[c].where[d] = my /\ view[d].where[d] = my
              /\ keys[d][my] # NoKey
              /\ \A s \in Scope : keys[c][s] # keys[d][my]
        /\ Commit(c, Forget(LocalOf(c), my), now, FALSE)
        /\ forgets' = forgets + 1
        /\ UNCHANGED <<net, phase, view, verify, whisper, events, raced, confided>>

\* setWhisperIds: remember the targets and wrap the channel's key for them.
SetWhisper(c, targets) ==
    /\ phase[c] = "ready"
    /\ targets # whisper[c] /\ c \notin targets
    /\ events < MaxEvents
    /\ events' = events + 1
    /\ whisper' = [whisper EXCEPT ![c] = targets]
    /\ LET L == [LocalOf(c) EXCEPT !.rewrap = targets # {}]
       IN  Commit(c, ShareWhisper(c, view[c], targets, L), now, FALSE)
    /\ confided' = confided \cup targets
    /\ UNCHANGED <<net, phase, view, verify, forgets, raced>>
-----------------------------------------------------------------------------
FoundingKey(i) == [by |-> Founder, n |-> i]
FoundingKeyOf(s) == IF s = 0 THEN FoundingKey(1) ELSE IF s = Lobby THEN FoundingKey(2) ELSE NoKey

\* The sessions of Present have logged in, sit in the lobby and hold the keys of
\* scope 0 and of the lobby; nothing is in flight.
Init ==
    /\ net = [where |-> [d \in Session |-> IF d \in Present THEN Lobby ELSE Absent],
              chans |-> Channel, links |-> {}]
    /\ phase = [d \in Session |-> IF d \in Present THEN "ready" ELSE "new"]
    /\ inbox = [d \in Session |-> <<>>]
    /\ view = [d \in Session |-> IF d \in Present THEN net ELSE NoView]
    /\ keys = [d \in Session |-> [s \in Scope |->
                  IF d \in Present THEN FoundingKeyOf(s) ELSE NoKey]]
    /\ epochs = [d \in Session |-> [s \in Scope |->
                  IF d \in Present /\ FoundingKeyOf(s) # NoKey THEN 1 ELSE 0]]
    /\ verify = [d \in Session |-> <<>>]
    /\ whisper = [d \in Session |-> {}]
    /\ rewrap = [d \in Session |-> FALSE]
    /\ minted = [d \in Session |->
                    IF d = Founder THEN <<1, 1>> ELSE <<>>]
    /\ now = 1
    /\ events = 0
    /\ forgets = 0
    /\ raced = FALSE
    /\ confided = {}
    /\ passed = [s \in Scope |-> FoundingKeyOf(s)] /\ fresh = passed
    /\ declined = [d \in Session |-> {}]

Handle(c) ==
    \/ HandleWelcome(c)
    \/ HandleUserJoined(c)
    \/ HandleUserLeft(c)
    \/ HandleUserMoved(c)
    \/ HandleChanUpdate(c)
    \/ HandleChanRemoved(c)
    \/ HandleKey(c)
    \/ HandleKeyRequest(c)

Environment ==
    \/ \E c \in Session : Connect(c) \/ Disconnect(c)
    \/ \E c \in Session, ch \in Channel : Move(c, ch)
    \/ \E ch \in Channel, linked \in SUBSET Channel : EditChannel(ch, linked)
    \/ \E ch \in Channel : RemoveChannel(ch)
    \/ \E c \in Session, targets \in WhisperChoices : SetWhisper(c, targets)

Next ==
    \/ Environment
    \/ \E c \in Session : Handle(c) \/ Housekeeping(c) \/ ForgetStaleKey(c)

Spec == Init /\ [][Next]_vars
-----------------------------------------------------------------------------
(* Properties. *)

\* Every variable keeps its type: views, tables and messages only hold scopes,
\* sessions, keys and epochs the engine knows.
TypeOK ==
    /\ net \in View
    /\ phase \in [Session -> {"new", "hello", "ready", "gone"}]
    /\ inbox \in [Session -> Seq(Message)]
    /\ view \in [Session -> View]
    /\ keys \in [Session -> [Scope -> KeyOrNone]]
    /\ epochs \in [Session -> [Scope -> Nat]]
    /\ verify \in [Session -> Seq(Scope)]
    /\ whisper \in [Session -> SUBSET Session]
    /\ rewrap \in [Session -> BOOLEAN]
    /\ minted \in [Session -> Seq(Epoch)]
    /\ now \in Nat /\ events \in Nat /\ forgets \in Nat
    /\ raced \in BOOLEAN
    /\ confided \in SUBSET Session
    /\ passed \in [Scope -> KeyOrNone] /\ fresh \in [Scope -> KeyOrNone]
    /\ declined \in [Session -> SUBSET Key]

MintedAs(k, e) ==
    k.n \in 1..Len(minted[k.by]) /\ minted[k.by][k.n] = e

\* A key travels and is stored only with the epoch it was minted under, and a
\* scope has an epoch exactly when it has a key: m_channelKeys and
\* m_channelEpochs, two maps written separately, never disagree.
KeysKeepTheirEpoch ==
    /\ \A c \in Session, s \in Scope :
         IF keys[c][s] = NoKey THEN epochs[c][s] = 0 ELSE MintedAs(keys[c][s], epochs[c][s])
    /\ \A d \in Session : \A i \in 1..Len(inbox[d]) :
         inbox[d][i].type = "e2e_key" => MintedAs(inbox[d][i].key, inbox[d][i].epoch)

\* A session's key of a scope is only ever replaced by one of a larger epoch; the
\* other change is to lose it.  No late, repeated or reordered envelope takes a
\* session back to an older key.
NeverAnOlderKey ==
    [][\A c \in Session, s \in Scope :
          keys'[c][s] # keys[c][s] =>
              \/ keys'[c][s] = NoKey /\ epochs'[c][s] = 0
              \/ epochs'[c][s] > epochs[c][s]]_vars

Seated(c) == phase[c] = "ready" /\ net.where[c] \in Channel
Together(c, d) == net.where[d] \in ComponentOf(net, net.where[c])
VoiceKey(c) == keys[c][net.where[c]]

\* onUdpReadyRead tries every key of the table on a packet.
CanOpen(c, d) == \E s \in Scope : keys[c][s] = VoiceKey(d)

Settled == Quiet /\ ~ raced /\ forgets = 0

EpochOf(k) == minted[k.by][k.n]

\* When events come one at a time and have been handled, the members of a component have
\* all heard of the one key that was passed on last for it: each holds it, for every channel
\* of the component, or a key whose epoch is no smaller, unless it declined that very key.  So
\* members who do not understand each other have a lagging clock, a tie of epochs, a
\* refused envelope or a leader with several keys among them, and nothing else.
LastKeyIsHeard ==
    Settled =>
        \A c \in Session : Seated(c) =>
            LET k == passed[net.where[c]]
            IN  k # NoKey /\ \A s \in ComponentOf(net, net.where[c]) :
                    /\ passed[s] = k
                    /\ keys[c][s] = k \/ epochs[c][s] >= EpochOf(k) \/ k \in declined[c]

\* Under the same conditions nobody outside a component opens what its members speak under
\* its fresh key, whisper targets aside: leaving, moving away, linking and unlinking end a
\* listener's access (the forward secrecy e2eeOnUserLeft and e2eeOnUserMoved promise), as
\* long as the members' own keys follow.
OutsiderIsDeaf ==
    Settled =>
        \A c, d \in Session :
            Seated(c) /\ Seated(d) /\ ~ Together(c, d) /\ c \notin confided
            /\ VoiceKey(d) # NoKey /\ VoiceKey(d) = fresh[net.where[d]]
            => ~ CanOpen(c, d)

\* Under the same conditions nobody stays mute: while no key was declined, every session
\* has the server's key and those of its whole component.
NobodyStaysMute ==
    Settled /\ (\A c \in Session : declined[c] = {}) =>
        \A c \in Session : Seated(c) =>
            \A s \in {0} \cup ComponentOf(net, net.where[c]) : keys[c][s] # NoKey
=============================================================================
