----------------------------- MODULE KeyRecovery -----------------------------
(***************************************************************************)
(* How a client gets back a key it lacks: the questions of NetSession, the  *)
(* limiter that spaces them, the 2 s housekeeper that repeats them and the  *)
(* recovery from a stale key.  GroupKeys has who may mint and what an       *)
(* envelope does; here membership is fixed, nobody mints, and time passes.  *)
(*                                                                         *)
(* All clients sit in one voice channel.  One of them, the Newcomer, has    *)
(* just received its welcome and bootstrapped; the others have been online  *)
(* for long.  Time advances by seconds, and what is sent in a second is     *)
(* handled in it.  Counters of elapsed time saturate where the code no      *)
(* longer tells their values apart, so behaviours are unbounded.            *)
(*                                                                         *)
(* Init, Next and Spec carry the module's name, so that one module can      *)
(* extend this one and PendingTexts, whose texts wait for the same keys.    *)
(***************************************************************************)
EXTENDS Integers, Sequences, FiniteSets

CONSTANTS
    Client,
    Newcomer,
    Talkers,     \* the clients that speak, again and again
    Reachable,   \* the clients whose directory entry the others have verified
    Epochs,      \* the epochs of the keys in use; no two keys share one
    MaxChats,    \* bound: group chats written while the key is missing
    MaxUnasked   \* a client without its voice key asks for it this soon (seconds)

ASSUME ClientAssumption == Newcomer \in Client /\ Talkers \subseteq Client
                           /\ Reachable \subseteq Client
ASSUME NumberAssumption == Epochs \subseteq Nat \ {0} /\ MaxChats \in Nat /\ MaxUnasked \in Nat

Server == "server"     \* scope 0
Voice == "voice"       \* the channel
Scope == {Server, Voice}

\* A key stands for its epoch: keys are minted in different milliseconds.
NoKey == 0
KeyOrNone == Epochs \cup {NoKey}

HousekeeperPeriod == 2    \* 2000 ms
FewTries == 10
SlowAge == 15             \* 15 000 ms, the interval after FewTries
OldAge == SlowAge + 1
RecoverPause == 30        \* 30 000 ms between recoveries
ChatPatience == 10        \* 10 000 ms a chat waits for its key
\* Seconds that can elapse before the limiter (2500 ms) lets a question through.
LimiterOpens(age) == age >= 3
\* requestMissing's interval, exceeded.
IntervalOver(age, tries) == IF tries < FewTries THEN age > 3 ELSE age > SlowAge

VARIABLES
    held,      \* held[c][s]: the key c stores for scope s (m_channelKeys, m_channelEpochs)
    age,       \* age[c]: seconds since c's last question, up to OldAge
    tries,     \* tries[c][s]: m_e2eeKeyRequestTries, up to FewTries
    verify,    \* verify[c]: m_e2eeVerifyPending
    due,       \* due[c]: seconds until c's housekeeper runs
    calm,      \* calm[c]: seconds since c's last recovery, saturating
    air,       \* air[t]: the key t's voice of this second is sealed with
    queue,     \* queue[c]: m_pendingChats, each with its number, its scope and its age
    asks,      \* e2e_key_request messages being forwarded
    mail,      \* e2e_key messages under way
    chats,     \* chats queued so far
    unasked    \* history: seconds c has lacked its voice key since it last asked for it

recoveryVars == <<held, age, tries, verify, due, calm, air, queue, asks, mail, chats, unasked>>

Ask == [from : Client, to : Client, scope : Scope]
Envelope == [to : Client, scope : Scope, key : Epochs]
QueuedChat == [n : Nat \ {0}, scope : Scope, age : 0..ChatPatience + 1]
-----------------------------------------------------------------------------
(* Handler pieces: operators on what a handler of client c changes. *)

LocalOf(c) ==
    [held |-> held[c], age |-> age[c], tries |-> tries[c], queue |-> queue[c], asked |-> {}]

\* Mutant of Request: the limiter's clock also starts over when it refuses.
RequestResetting(L, s) ==
    IF LimiterOpens(L.age) THEN [L EXCEPT !.age = 0, !.asked = @ \cup {s}]
    ELSE [L EXCEPT !.age = 0]

\* e2eeRequestKey: the limiter is shared by all scopes and all callers.
Request(L, s) ==
    IF LimiterOpens(L.age) THEN [L EXCEPT !.age = 0, !.asked = @ \cup {s}] ELSE L

\* requestMissing: each scope counts its own tries, the age is common.
RequestMissing(L, s) ==
    IF L.held[s] = NoKey /\ IntervalOver(L.age, L.tries[s])
    THEN Request([L EXCEPT !.tries[s] = IF @ = FewTries THEN @ ELSE @ + 1], s)
    ELSE L

\* The chat that was written first.
FirstOf(chatSet) == CHOOSE p \in chatSet : \A q \in chatSet : p.n <= q.n

\* e2eeFlushPending: every queued chat is sent again, which queues it again, with a
\* new time and a question, where the key is still missing; the limiter lets one pass.
FlushChats(L) ==
    LET again == {p \in L.queue : L.held[p.scope] = NoKey}
        K == [L EXCEPT !.queue = {[p EXCEPT !.age = 0] : p \in again}]
    IN  IF again = {} THEN K ELSE Request(K, FirstOf(again).scope)

\* The Local record becomes the state of c and its questions go to the others.
Commit(c, L) ==
    /\ held' = [held EXCEPT ![c] = L.held]
    /\ age' = [age EXCEPT ![c] = L.age]
    /\ tries' = [tries EXCEPT ![c] = L.tries]
    /\ queue' = [queue EXCEPT ![c] = L.queue]
    /\ asks' = asks \cup [from : {c}, to : Client \ {c}, scope : L.asked]
    /\ unasked' = [unasked EXCEPT ![c] = IF Voice \in L.asked \/ L.held[Voice] # NoKey
                                         THEN 0 ELSE @]
-----------------------------------------------------------------------------
(* Actions. *)

\* onE2eeHousekeeping: one planned check, then the missing keys, scope 0 first, then
\* the chats that waited too long.
Housekeep(c) ==
    /\ due[c] = 0
    /\ due' = [due EXCEPT ![c] = HousekeeperPeriod]
    /\ verify' = [verify EXCEPT ![c] = IF @ = <<>> THEN @ ELSE Tail(@)]
    /\ LET L == LocalOf(c)
           checked == IF verify[c] # <<>> /\ L.held[Head(verify[c])] # NoKey
                      THEN Request(L, Head(verify[c])) ELSE L
           asked == RequestMissing(RequestMissing(checked, Server), Voice)
       IN  Commit(c, [asked EXCEPT !.queue = {p \in @ : p.age <= ChatPatience}])
    /\ UNCHANGED <<calm, air, mail, chats>>

\* e2eeHandleKeyRequest: whoever holds the key answers, if it trusts the asker's
\* directory entry.
Answer(a) ==
    /\ asks' = asks \ {a}
    /\ mail' = IF held[a.to][a.scope] = NoKey \/ a.from \notin Reachable THEN mail
               ELSE mail \cup {[to |-> a.from, scope |-> a.scope, key |-> held[a.to][a.scope]]}
    /\ UNCHANGED <<held, age, tries, verify, due, calm, air, queue, chats, unasked>>

\* e2eeApplyGroupKey: a larger epoch wins, and any epoch where none is stored.
Wins(own, key) == key > own

\* e2eeHandleKeyEnvelope and e2eeApplyGroupKey.
Receive(e) ==
    /\ mail' = mail \ {e}
    /\ LET L == LocalOf(e.to)
           K == IF Wins(L.held[e.scope], e.key) THEN [L EXCEPT !.held[e.scope] = e.key] ELSE L
       IN  Commit(e.to, FlushChats(K))
    /\ UNCHANGED <<verify, due, calm, air, chats>>

\* sendChat without the key: queue the text and ask.
Chat(c, s) ==
    /\ chats < MaxChats
    /\ held[c][s] = NoKey
    /\ chats' = chats + 1
    /\ LET L == LocalOf(c)
       IN  Commit(c, Request([L EXCEPT !.queue = @ \cup {[n |-> chats', scope |-> s, age |-> 0]}], s))
    /\ UNCHANGED <<verify, due, calm, air, mail>>

\* Thirty seconds or more after c's previous recovery; left is what stays of its key.
RecoverLeaving(c, t, left) ==
    /\ t \in Talkers \ {c}
    /\ air[t] # NoKey /\ held[c][Voice] # air[t]
    /\ calm[c] > RecoverPause
    /\ held' = [held EXCEPT ![c][Voice] = left]
    /\ tries' = [tries EXCEPT ![c][Voice] = 0]
    /\ calm' = [calm EXCEPT ![c] = 0]
    /\ UNCHANGED <<age, verify, due, air, queue, asks, mail, chats, unasked>>

\* Mutant of Recover: the entry is emptied instead of removed, so the key is not missing.
RecoverClearing(c, t) == RecoverLeaving(c, t, -1)

\* onUdpReadyRead: fifteen packets of t in a row that c cannot open; c forgets its key
\* of the channel.  What t has sent stays in flight for the second, even when t forgets
\* its own key meanwhile.
Recover(c, t) == RecoverLeaving(c, t, NoKey)

UpTo(n, limit) == IF n < limit THEN n + 1 ELSE limit

\* A second passes; nothing is left to handle from the last one.
Second ==
    /\ asks = {} /\ mail = {}
    /\ \A c \in Client : due[c] > 0
    /\ due' = [c \in Client |-> due[c] - 1]
    /\ age' = [c \in Client |-> UpTo(age[c], OldAge)]
    /\ calm' = [c \in Client |-> UpTo(calm[c], RecoverPause + 1)]
    /\ air' = [c \in Client |-> IF c \in Talkers THEN held[c][Voice] ELSE NoKey]
    /\ queue' = [c \in Client |-> {[p EXCEPT !.age = UpTo(@, ChatPatience + 1)] : p \in queue[c]}]
    /\ unasked' = [c \in Client |-> IF held[c][Voice] = NoKey
                                    THEN UpTo(unasked[c], MaxUnasked + 1) ELSE 0]
    /\ UNCHANGED <<held, tries, verify, asks, mail, chats>>
-----------------------------------------------------------------------------
\* e2eeBootstrap for a Newcomer that leads the scopes of leads: it mints the keys of
\* those, plans to check them, and asks for the first of the others; the limiter
\* swallows a second question.
Leadership == {{}, {Voice}, Scope}

\* Mutant of Planned: a leader trusts the keys it mints.
PlannedNever(leads) == <<>>

Planned(leads) == IF leads = Scope THEN <<Server, Voice>>
                  ELSE IF leads = {Voice} THEN <<Voice>> ELSE <<>>
FirstAsked(leads) == IF leads = Scope THEN {} ELSE {Server}

Others == Client \ {Newcomer}

\* The others share the key of scope 0; of the channel's key they may hold different
\* ones or none, but one client holds one.
RecoveryInit ==
    /\ \E leads \in Leadership, own \in Epochs :
         \E shared \in Epochs \ {own}, voices \in [Others -> KeyOrNone \ {own}] :
            /\ Voice \in leads \/ \E c \in Others : voices[c] # NoKey
            /\ held = [c \in Client |-> [s \in Scope |->
                  IF c = Newcomer THEN IF s \in leads THEN own ELSE NoKey
                  ELSE IF s = Server THEN shared ELSE voices[c]]]
            /\ mail = [to : Others, scope : leads, key : {own}]
            /\ asks = [from : {Newcomer}, to : Others, scope : FirstAsked(leads)]
            /\ verify = [c \in Client |-> IF c = Newcomer THEN Planned(leads) ELSE <<>>]
            /\ age = [c \in Client |-> IF c = Newcomer /\ leads # Scope THEN 0 ELSE OldAge]
    /\ tries = [c \in Client |-> [s \in Scope |-> 0]]
    /\ due \in {d \in [Client -> 1..HousekeeperPeriod] : d[Newcomer] = HousekeeperPeriod}
    /\ calm = [c \in Client |-> RecoverPause + 1]
    /\ air = [c \in Client |-> NoKey]
    /\ queue = [c \in Client |-> {}]
    /\ chats = 0
    /\ unasked = [c \in Client |-> 0]

RecoveryNext ==
    \/ Second
    \/ \E c \in Client : Housekeep(c)
    \/ \E a \in asks : Answer(a)
    \/ \E e \in mail : Receive(e)
    \/ \E c \in Client, s \in Scope : Chat(c, s)
    \/ \E c, t \in Client : Recover(c, t)

\* Timers run, messages arrive, and the talkers keep talking; nobody need chat.
Fairness ==
    /\ WF_recoveryVars(Second)
    /\ \A c \in Client : WF_recoveryVars(Housekeep(c))
    /\ WF_recoveryVars(\E a \in asks : Answer(a))
    /\ WF_recoveryVars(\E e \in mail : Receive(e))
    /\ \A c, t \in Client : WF_recoveryVars(Recover(c, t))

RecoverySpec == RecoveryInit /\ [][RecoveryNext]_recoveryVars /\ Fairness
-----------------------------------------------------------------------------
(* Properties. *)

\* Every variable keeps its type.
RecoveryTypeOK ==
    /\ held \in [Client -> [Scope -> KeyOrNone]]
    /\ age \in [Client -> 0..OldAge]
    /\ tries \in [Client -> [Scope -> 0..FewTries]]
    /\ verify \in [Client -> Seq(Scope)]
    /\ due \in [Client -> 0..HousekeeperPeriod]
    /\ calm \in [Client -> 0..RecoverPause + 1]
    /\ air \in [Client -> KeyOrNone]
    /\ queue \in [Client -> SUBSET QueuedChat]
    /\ asks \subseteq Ask
    /\ mail \subseteq Envelope
    /\ chats \in 0..MaxChats
    /\ unasked \in [Client -> 0..MaxUnasked + 1]

\* Two clients that talk to each other do not stay split, whatever each of them forgets
\* and asks while the other does: they end up hearing each other, which is what the
\* recovery of onUdpReadyRead is for, or they forgot their keys together, so that the
\* recovery of each took away the answer to the other's question, and nobody holds a key
\* until a change of membership has one minted.
SplitEnds ==
    \/ <>[](\A c \in Client, t \in Talkers :
               held[t][Voice] \in Epochs /\ held[c][Voice] = held[t][Voice])
    \/ <>[](\A c \in Client : held[c][Voice] = NoKey)

\* All clients end up with one key of scope 0, whatever epoch the Newcomer's clock gave
\* the key it minted: what the planned check of e2eeBootstrap is for.  The check is made
\* unless the question of a chat comes less than 2.5 s before it.
ServerScopeConverges ==
    \/ <>(chats > 0)
    \/ <>[](\A c, d \in Client : held[c][Server] # NoKey /\ held[c][Server] = held[d][Server])

\* A client without its voice key never stays silent about it: scope 0, which is served
\* first, the planned checks and the questions of chats, which all use the same limiter,
\* delay it, but not beyond MaxUnasked.
KeepsAsking == \A c \in Client : unasked[c] <= MaxUnasked
=============================================================================
