------------------------------ MODULE HoldKeys ------------------------------
(***************************************************************************)
(* The keys one holds to talk or to whisper (MainWindow, Windows build).    *)
(* The operating system knows which keys are down; a timer of 50 ms and the *)
(* message of a registered hotkey tell the window, and the window tells the *)
(* voice engine of the tab in front.  The engines of the other tabs keep    *)
(* what they were last told.  The delay after the release of the            *)
(* push-to-talk key is a timer of the engine.                               *)
(*                                                                         *)
(* All actions but the user's hands run on the thread of the window.        *)
(***************************************************************************)
EXTENDS Naturals, SequencesExt

CONSTANTS
    Tab,          \* the tabs that may be open
    NoTab,        \* there is no tab in front
    WhisperKey,   \* the keys one holds to whisper
    ReplyKeys,    \* those that answer the last whisper
    Profiles,     \* lists of whisper keys that can be configured
    MaxPosted     \* bound: hotkey messages that wait

ASSUME HoldKeysAssumption ==
    /\ NoTab \notin Tab /\ "ptt" \notin WhisperKey
    /\ ReplyKeys \subseteq WhisperKey /\ Profiles \subseteq Seq(WhisperKey)
    /\ MaxPosted \in Nat \ {0}

Mode == {"push", "voice", "continuous"}     \* capture/pttMode
Key == {"ptt"} \cup WhisperKey

VARIABLES
    tabs, current,     \* m_tabs and its current widget
    mode,
    registered,        \* m_pttVk or m_mousePttButton
    down,              \* keys that are physically down
    posted,            \* WM_HOTKEY messages of the push-to-talk key
    appHeld,           \* m_pttHeld of the window
    held,              \* tabs whose engine has m_pttHeld
    due,               \* those among them whose release timer runs
    profile,           \* m_whisperHolds
    keyHeld,           \* keys of m_whisperHolds with held
    whispering,        \* tabs with m_whisperHold, whose engine has m_whisperHeld
    missed,            \* history: another tab came in front since appHeld was set
    leftTalking,       \* history: tabs that are held since they were left
    leftWhispering     \* history: tabs that whisper since they were left

front == <<tabs, current>>
ptt == <<appHeld, held, due>>
whispers == <<profile, keyHeld, whispering>>
vars == <<front, mode, registered, down, posted, ptt, whispers, missed, leftTalking,
          leftWhispering>>

\* What every action adds to the histories.
Remember ==
    /\ missed' = (appHeld' /\ (missed \/ current' # current))
    /\ leftTalking' = {t \in held' : \/ t \in leftTalking
                                     \/ t = current /\ current' # t /\ t \notin due'}
    /\ leftWhispering' = {t \in whispering' : \/ t \in leftWhispering
                                              \/ t = current /\ current' # t}
-----------------------------------------------------------------------------
(* The user's hands and the operating system. *)

\* A registered key that goes down may post a message (MOD_NOREPEAT: one).
Press(k) ==
    /\ k \notin down
    /\ down' = down \cup {k}
    /\ posted' \in IF k = "ptt" /\ registered /\ posted < MaxPosted
                   THEN {posted, posted + 1} ELSE {posted}
    /\ UNCHANGED <<front, mode, registered, ptt, whispers>>
    /\ Remember

Release(k) ==
    /\ k \in down
    /\ down' = down \ {k}
    /\ UNCHANGED <<front, mode, registered, posted, ptt, whispers>>
    /\ Remember
-----------------------------------------------------------------------------
(* The window. *)

\* Mutant of EngineHeld: a press does not cancel the timer of the last release.
EngineHeldOldTimer(t, on) ==
    IF on THEN held' = held \cup {t} /\ UNCHANGED due
    ELSE \/ held' = held \ {t} /\ due' = due \ {t}
         \/ t \in held /\ due' = due \cup {t} /\ UNCHANGED held

\* setPttHeld of a tab's engine: a release waits if the options say so.
EngineHeld(t, on) ==
    IF on THEN held' = held \cup {t} /\ due' = due \ {t}
    ELSE \/ held' = held \ {t} /\ due' = due \ {t}
         \/ t \in held /\ due' = due \cup {t} /\ UNCHANGED held

PttSetHeld(on) ==
    IF appHeld = on \/ mode # "push" THEN UNCHANGED ptt
    ELSE /\ appHeld' = on
         /\ IF current = NoTab THEN UNCHANGED <<held, due>> ELSE EngineHeld(current, on)

\* Mutant of PollPtt: only a press is looked for.
PollPttDown == IF registered /\ "ptt" \in down THEN PttSetHeld(TRUE) ELSE UNCHANGED ptt

PollPtt == IF registered THEN PttSetHeld("ptt" \in down) ELSE UNCHANGED ptt

\* setWhisperHold or setWhisperReplyHold is told of a key that has changed, and starts or
\* ends the whisper; but a reply that has nobody to answer starts nothing.
Decides(k, asked) ==
    (k \in down) # (k \in keyHeld) /\ (k \in down /\ k \in ReplyKeys => asked)

\* whisperSetHeld for every key of the list that has changed, in the list's order: the
\* last one that decides leaves the tab whispering or silent.
PollWhispers ==
    \E asked \in BOOLEAN :
      LET turns == {i \in DOMAIN profile : Decides(profile[i], asked)}
          on == IF turns = {} THEN current \in whispering
                ELSE \E i \in turns : profile[i] \in down /\ \A j \in turns : j <= i
      IN  /\ keyHeld' = down \cap ToSet(profile)
          /\ whispering' = IF current # NoTab /\ on THEN whispering \cup {current}
                           ELSE whispering \ {current}

\* pollGlobalInputs.
Poll ==
    /\ PollPtt
    /\ PollWhispers
    /\ UNCHANGED <<front, mode, registered, down, posted, profile>>
    /\ Remember

\* nativeEvent: WM_HOTKEY 1, which may come after the release of its key.
HotkeyMessage ==
    /\ posted > 0
    /\ posted' = posted - 1
    /\ PttSetHeld(TRUE)
    /\ UNCHANGED <<front, mode, registered, down, whispers>>
    /\ Remember

\* Mutant of ReleaseTimer: the engine goes on.
ReleaseTimerOnly(t) ==
    /\ t \in due
    /\ due' = due \ {t}
    /\ UNCHANGED <<front, mode, registered, down, posted, appHeld, held, whispers>>
    /\ Remember

ReleaseTimer(t) ==
    /\ t \in due
    /\ due' = due \ {t} /\ held' = held \ {t}
    /\ UNCHANGED <<front, mode, registered, down, posted, appHeld, whispers>>
    /\ Remember

\* Mutant of SetOptions: the whisper under way goes on while its key is forgotten.
SetOptionsKeepsWhisper ==
    /\ mode' \in Mode /\ profile' \in Profiles
    /\ registered' \in IF mode' = "push" THEN BOOLEAN ELSE {FALSE}
    /\ keyHeld' = {}
    /\ UNCHANGED <<front, down, posted, ptt, whispering>>
    /\ Remember

\* The options dialog and applyHotkeys: the tab in front stops to whisper, the lists are
\* built anew and the push-to-talk key, if there is a usable one, is registered anew.
SetOptions ==
    /\ mode' \in Mode /\ profile' \in Profiles
    /\ registered' \in IF mode' = "push" THEN BOOLEAN ELSE {FALSE}
    /\ keyHeld' = {} /\ whispering' = whispering \ {current}
    /\ UNCHANGED <<front, down, posted, ptt>>
    /\ Remember

\* runConfiguredAction("transmissão contínua"), which does not register keys.
ToggleContinuous ==
    /\ mode' = IF mode = "continuous" THEN "voice" ELSE "continuous"
    /\ UNCHANGED <<front, registered, down, posted, ptt, whispers>>
    /\ Remember

\* The handler of currentChanged, which does not look at the keys.
SwitchTab(t) ==
    /\ t \in tabs \ {current}
    /\ current' = t
    /\ UNCHANGED <<tabs, mode, registered, down, posted, ptt, whispers>>
    /\ Remember

OpenTab(t) ==
    /\ t \notin tabs
    /\ tabs' = tabs \cup {t} /\ current' = t
    /\ UNCHANGED <<mode, registered, down, posted, ptt, whispers>>
    /\ Remember

\* finishDisconnectTab: the tab goes, and its engine with it.
CloseTab(t) ==
    /\ t \in tabs
    /\ tabs' = tabs \ {t}
    /\ current' \in IF current # t THEN {current} ELSE IF tabs' = {} THEN {NoTab} ELSE tabs'
    /\ held' = held \ {t} /\ due' = due \ {t} /\ whispering' = whispering \ {t}
    /\ UNCHANGED <<mode, registered, down, posted, appHeld, profile, keyHeld>>
    /\ Remember
-----------------------------------------------------------------------------
Init ==
    /\ tabs = {} /\ current = NoTab
    /\ mode \in Mode /\ profile \in Profiles
    /\ registered \in IF mode = "push" THEN BOOLEAN ELSE {FALSE}
    /\ down = {} /\ posted = 0
    /\ appHeld = FALSE /\ held = {} /\ due = {}
    /\ keyHeld = {} /\ whispering = {}
    /\ missed = FALSE /\ leftTalking = {} /\ leftWhispering = {}

Next ==
    \/ \E k \in Key : Press(k) \/ Release(k)
    \/ Poll \/ HotkeyMessage \/ SetOptions \/ ToggleContinuous
    \/ \E t \in Tab : ReleaseTimer(t) \/ SwitchTab(t) \/ OpenTab(t) \/ CloseTab(t)

\* The window's timer and the engines' timers run; nobody need press or release a key.
Fairness == WF_vars(Poll) /\ \A t \in Tab : WF_vars(ReleaseTimer(t))

Spec == Init /\ [][Next]_vars /\ Fairness
-----------------------------------------------------------------------------
(* Properties. *)

\* Every variable keeps its type; an engine that waits for its release timer is held.
TypeOK ==
    /\ tabs \subseteq Tab /\ current \in tabs \cup {NoTab}
    /\ current = NoTab => tabs = {}
    /\ mode \in Mode /\ registered \in BOOLEAN
    /\ down \subseteq Key /\ posted \in 0..MaxPosted
    /\ appHeld \in BOOLEAN /\ held \subseteq tabs /\ due \subseteq held
    /\ profile \in Profiles /\ keyHeld \subseteq ToSet(profile)
    /\ whispering \subseteq tabs
    /\ missed \in BOOLEAN /\ leftTalking \subseteq held /\ leftWhispering \subseteq whispering

Listens == mode = "push" /\ registered

\* Once the window has looked at a released push-to-talk key, an engine is held only for
\* the delay of its release, or because its tab was left with the key down: late hotkey
\* messages, changes of mode and presses during the delay leave nothing behind.
PollSettlesTalk ==
    [][Poll /\ Listens /\ "ptt" \notin down => held' \subseteq due' \cup leftTalking']_vars

\* Once the window has looked at the whisper keys and finds none down, only tabs that
\* were left in the middle of a whisper still whisper, whatever was configured meanwhile.
PollSettlesWhisper ==
    [][Poll /\ keyHeld' = {} => whispering' \subseteq leftWhispering']_vars

\* Once the window has looked at a push-to-talk key that is down, the tab in front is
\* held and no timer is about to end it, unless that tab came in front during the press.
PollEngages ==
    [][Poll /\ Listens /\ "ptt" \in down /\ current # NoTab /\ ~ missed'
         => current \in held' \ due']_vars

\* A push-to-talk key that stays up ends, sooner or later, every transmission but those
\* of tabs that were left with the key down.
KeyUpSilences ==
    <>[](Listens /\ "ptt" \notin down) => <>[](held \subseteq leftTalking)

\* Once the window has looked at a released push-to-talk key, no engine goes on for
\* longer than the delay ("soltou a tecla: para de transmitir").
ReleaseIsHeard ==
    [][Poll /\ Listens /\ "ptt" \notin down => held' \subseteq due']_vars
=============================================================================
