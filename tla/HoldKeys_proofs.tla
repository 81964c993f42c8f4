--------------------------- MODULE HoldKeys_proofs ---------------------------
(***************************************************************************)
(* Proofs about HoldKeys, for any tabs, keys, lists and message bound: what *)
(* the window knows of the push-to-talk key (appHeld) and what the engines  *)
(* were told (held, due) differ only by tabs that were left or missed.      *)
(***************************************************************************)
EXTENDS HoldKeys, TLAPS

\* Every engine that is held and has no release timer has the window's word for it, or
\* its tab was left while it was held.
HeldHasCause == held \subseteq due \cup leftTalking \cup (IF appHeld THEN {current} ELSE {})

\* What the window believes held is the engine of the tab in front, without a timer,
\* unless another tab came in front since.
AppKnows == appHeld /\ ~ missed /\ current # NoTab => current \in held \ due

\* The types the two facts need.
PttTypes ==
    /\ tabs \subseteq Tab /\ current \in tabs \cup {NoTab}
    /\ held \subseteq tabs /\ due \subseteq held /\ leftTalking \subseteq held
    /\ appHeld \in BOOLEAN /\ missed \in BOOLEAN

IInv == PttTypes /\ HeldHasCause /\ AppKnows

\* Telling the window that the key is down or up keeps the invariant, while the tab in
\* front stays.
LEMMA PttSetHeldKeeps ==
    ASSUME NEW on \in BOOLEAN, IInv, PttSetHeld(on), UNCHANGED front, Remember
    PROVE  IInv'
<1>1. CASE UNCHANGED ptt
  BY <1>1, HoldKeysAssumption
     DEF IInv, PttTypes, HeldHasCause, AppKnows, Remember, front, ptt
<1>2. CASE appHeld' = on /\ current = NoTab /\ UNCHANGED <<held, due>>
  BY <1>2, HoldKeysAssumption
     DEF IInv, PttTypes, HeldHasCause, AppKnows, Remember, front, ptt
<1>3. CASE on /\ appHeld' = on /\ current # NoTab /\ EngineHeld(current, on)
  BY <1>3, HoldKeysAssumption
     DEF IInv, PttTypes, HeldHasCause, AppKnows, Remember, front, ptt, EngineHeld
<1>4. CASE ~ on /\ appHeld' = on /\ current # NoTab /\ EngineHeld(current, on)
  BY <1>4, HoldKeysAssumption
     DEF IInv, PttTypes, HeldHasCause, AppKnows, Remember, front, ptt, EngineHeld
<1>5. QED
  BY <1>1, <1>2, <1>3, <1>4 DEF PttSetHeld

\* What looking at the push-to-talk key tells the engines.
LEMMA PollTells ==
    ASSUME Poll, registered
    PROVE  /\ "ptt" \in down => PttSetHeld(TRUE)
           /\ "ptt" \notin down => PttSetHeld(FALSE)
           /\ UNCHANGED front /\ Remember
<1>1. PttSetHeld("ptt" \in down) /\ UNCHANGED front /\ Remember
  BY DEF Poll, PollPtt
<1>2. ASSUME "ptt" \in down PROVE PttSetHeld(TRUE)
  <2>1. ("ptt" \in down) = TRUE BY <1>2
  <2>2. QED BY <1>1, <2>1
<1>3. ASSUME "ptt" \notin down PROVE PttSetHeld(FALSE)
  <2>1. ("ptt" \in down) = FALSE BY <1>3
  <2>2. QED BY <1>1, <2>1
<1>4. QED BY <1>1, <1>2, <1>3

\* A step that neither tells the engines anything nor changes the tabs keeps it.
LEMMA NothingToldKeeps ==
    ASSUME IInv, UNCHANGED <<front, ptt>>, Remember
    PROVE  IInv'
BY DEF IInv, PttTypes, HeldHasCause, AppKnows, Remember, front, ptt

\* The invariant is inductive.
THEOREM Inductive == Init /\ [][Next]_vars => []IInv
<1>1. Init => IInv
  BY DEF Init, IInv, PttTypes, HeldHasCause, AppKnows
<1>2. IInv /\ [Next]_vars => IInv'
  <2> SUFFICES ASSUME IInv, [Next]_vars PROVE IInv'
    OBVIOUS
  <2>1. ASSUME NEW k \in Key, Press(k) \/ Release(k) PROVE IInv'
    BY <2>1, NothingToldKeeps DEF Press, Release
  <2>2. CASE Poll
    <3>1. CASE registered
      <4>1. CASE "ptt" \in down BY <2>2, <3>1, <4>1, PollTells, PttSetHeldKeeps
      <4>2. CASE "ptt" \notin down BY <2>2, <3>1, <4>2, PollTells, PttSetHeldKeeps
      <4>3. QED BY <4>1, <4>2
    <3>2. CASE ~ registered
      BY <2>2, <3>2, NothingToldKeeps DEF Poll, PollPtt
    <3>3. QED BY <3>1, <3>2
  <2>3. CASE HotkeyMessage
    BY <2>3, PttSetHeldKeeps DEF HotkeyMessage
  <2>4. CASE SetOptions
    BY <2>4, NothingToldKeeps DEF SetOptions
  <2>5. CASE ToggleContinuous
    BY <2>5, NothingToldKeeps DEF ToggleContinuous
  <2>6. ASSUME NEW t \in Tab, ReleaseTimer(t) PROVE IInv'
    BY <2>6, HoldKeysAssumption
       DEF ReleaseTimer, IInv, PttTypes, HeldHasCause, AppKnows, Remember, front
  <2>7. ASSUME NEW t \in Tab, SwitchTab(t) PROVE IInv'
    BY <2>7, HoldKeysAssumption
       DEF SwitchTab, IInv, PttTypes, HeldHasCause, AppKnows, Remember, ptt
  <2>8. ASSUME NEW t \in Tab, OpenTab(t) PROVE IInv'
    BY <2>8, HoldKeysAssumption
       DEF OpenTab, IInv, PttTypes, HeldHasCause, AppKnows, Remember, ptt
  <2>9. ASSUME NEW t \in Tab, CloseTab(t) PROVE IInv'
    BY <2>9, HoldKeysAssumption
       DEF CloseTab, IInv, PttTypes, HeldHasCause, AppKnows, Remember
  <2>10. CASE UNCHANGED vars
    BY <2>10 DEF vars, front, ptt, IInv, PttTypes, HeldHasCause, AppKnows
  <2>11. QED
    BY <2>1, <2>2, <2>3, <2>4, <2>5, <2>6, <2>7, <2>8, <2>9, <2>10 DEF Next
<1>3. QED BY <1>1, <1>2, PTL

\* After the window has looked at a released push-to-talk key, only a release timer or a
\* tab left with the key down keeps an engine held.
THEOREM TalkSettles == Spec => PollSettlesTalk
<1>1. IInv /\ [Next]_vars
        => [Poll /\ Listens /\ "ptt" \notin down => held' \subseteq due' \cup leftTalking']_vars
  <2> SUFFICES ASSUME IInv, [Next]_vars, Poll, Listens, "ptt" \notin down
               PROVE  held' \subseteq due' \cup leftTalking'
    OBVIOUS
  <2>1. PttSetHeld(FALSE) /\ UNCHANGED front /\ Remember
    BY PollTells DEF Listens
  <2>2. appHeld' = FALSE
    BY <2>1 DEF PttSetHeld, Listens, ptt, IInv, PttTypes
  <2>3. IInv'
    BY <2>1, PttSetHeldKeeps
  <2>4. QED BY <2>2, <2>3 DEF IInv, HeldHasCause
<1>2. QED BY <1>1, Inductive, PTL DEF Spec, PollSettlesTalk

\* After the window has looked at a push-to-talk key that is down, the engine of the tab
\* in front is held, unless the tab came in front during the press.
THEOREM Engages == Spec => PollEngages
<1>1. IInv /\ [Next]_vars
        => [Poll /\ Listens /\ "ptt" \in down /\ current # NoTab /\ ~ missed'
              => current \in held' \ due']_vars
  <2> SUFFICES ASSUME IInv, [Next]_vars, Poll, Listens, "ptt" \in down, current # NoTab,
                      ~ missed'
               PROVE  current \in held' \ due'
    OBVIOUS
  <2>1. PttSetHeld(TRUE) /\ UNCHANGED front /\ Remember
    BY PollTells DEF Listens
  <2>2. appHeld' = TRUE
    BY <2>1 DEF PttSetHeld, Listens, ptt, IInv, PttTypes
  <2>3. IInv'
    BY <2>1, PttSetHeldKeeps
  <2>4. QED BY <2>1, <2>2, <2>3 DEF IInv, AppKnows, front
<1>2. QED BY <1>1, Inductive, PTL DEF Spec, PollEngages

\* What the window hears of the whisper keys keeps their types.
LEMMA WhispersKeepTypes ==
    ASSUME TypeOK, PollWhispers, UNCHANGED <<front, profile>>
    PROVE  keyHeld' \subseteq ToSet(profile') /\ whispering' \subseteq tabs'
<1>1. keyHeld' = down \cap ToSet(profile) /\ profile' = profile
  BY DEF PollWhispers
<1>2. whispering' \subseteq whispering \cup {current} /\ (current = NoTab => current \notin whispering')
  BY DEF PollWhispers
<1>3. QED BY <1>1, <1>2 DEF TypeOK, front

\* Telling the window about the push-to-talk key keeps the types of what it changes.
LEMMA PttKeepsTypes ==
    ASSUME TypeOK, NEW on \in BOOLEAN, PttSetHeld(on)
    PROVE  appHeld' \in BOOLEAN /\ held' \subseteq tabs /\ due' \subseteq held'
BY DEF TypeOK, PttSetHeld, EngineHeld, ptt

\* The types of the histories follow from those of the rest.
LEMMA RememberTypes ==
    ASSUME Remember, appHeld' \in BOOLEAN, missed \in BOOLEAN
    PROVE  missed' \in BOOLEAN /\ leftTalking' \subseteq held'
             /\ leftWhispering' \subseteq whispering'
BY DEF Remember

\* Every variable keeps its type, for any set of tabs, keys and lists.
THEOREM TypeCorrect == Spec => []TypeOK
<1>1. Init => TypeOK
  <2> SUFFICES ASSUME Init PROVE TypeOK
    OBVIOUS
  <2>1. registered \in BOOLEAN /\ mode \in Mode /\ profile \in Profiles
    BY DEF Init
  <2>2. posted \in 0..MaxPosted
    BY HoldKeysAssumption DEF Init
  <2>3. keyHeld \subseteq ToSet(profile)
    BY DEF Init
  <2>4. QED BY <2>1, <2>2, <2>3 DEF Init, TypeOK
<1>2. TypeOK /\ [Next]_vars => TypeOK'
  <2> SUFFICES ASSUME TypeOK, [Next]_vars PROVE TypeOK'
    OBVIOUS
  <2>1. ASSUME NEW k \in Key, Press(k) \/ Release(k) PROVE TypeOK'
    <3>1. posted' \in 0..MaxPosted
      BY <2>1, HoldKeysAssumption DEF TypeOK, Press, Release
    <3>2. QED BY <2>1, <3>1, RememberTypes DEF TypeOK, Press, Release, front, ptt, whispers
  <2>2. CASE Poll
    <3>1. appHeld' \in BOOLEAN /\ held' \subseteq tabs /\ due' \subseteq held'
      <4>1. CASE registered
        BY <2>2, <4>1, PollTells, PttKeepsTypes
      <4>2. CASE ~ registered
        BY <2>2, <4>2 DEF Poll, PollPtt, ptt, TypeOK
      <4>3. QED BY <4>1, <4>2
    <3>2. keyHeld' \subseteq ToSet(profile') /\ whispering' \subseteq tabs'
      BY <2>2, WhispersKeepTypes DEF Poll
    <3>3. QED BY <2>2, <3>1, <3>2, RememberTypes DEF TypeOK, Poll, front
  <2>3. CASE HotkeyMessage
    <3>1. posted' \in 0..MaxPosted
      BY <2>3, HoldKeysAssumption DEF TypeOK, HotkeyMessage
    <3>2. appHeld' \in BOOLEAN /\ held' \subseteq tabs /\ due' \subseteq held'
      BY <2>3, PttKeepsTypes DEF HotkeyMessage
    <3>3. QED BY <2>3, <3>1, <3>2, RememberTypes DEF TypeOK, HotkeyMessage, front, whispers
  <2>4. CASE SetOptions
    BY <2>4, RememberTypes DEF TypeOK, SetOptions, front, ptt
  <2>5. CASE ToggleContinuous
    BY <2>5, RememberTypes DEF TypeOK, ToggleContinuous, Mode, front, ptt, whispers
  <2>6. ASSUME NEW t \in Tab, ReleaseTimer(t) PROVE TypeOK'
    BY <2>6, RememberTypes DEF TypeOK, ReleaseTimer, front, whispers
  <2>7. ASSUME NEW t \in Tab, SwitchTab(t) PROVE TypeOK'
    BY <2>7, RememberTypes, HoldKeysAssumption DEF TypeOK, SwitchTab, ptt, whispers
  <2>8. ASSUME NEW t \in Tab, OpenTab(t) PROVE TypeOK'
    BY <2>8, RememberTypes, HoldKeysAssumption DEF TypeOK, OpenTab, ptt, whispers
  <2>9. ASSUME NEW t \in Tab, CloseTab(t) PROVE TypeOK'
    BY <2>9, RememberTypes, HoldKeysAssumption DEF TypeOK, CloseTab
  <2>10. CASE UNCHANGED vars
    BY <2>10 DEF vars, front, ptt, whispers, TypeOK
  <2>11. QED
    BY <2>1, <2>2, <2>3, <2>4, <2>5, <2>6, <2>7, <2>8, <2>9, <2>10 DEF Next
<1>3. QED BY <1>1, <1>2, PTL DEF Spec

\* A tab that whispers and was not left is the one in front, and a whisper key the window
\* knows of is held.
WhisperHasCause == \A t \in whispering \ leftWhispering : t = current /\ keyHeld # {}

\* If the window finds a whisper key down, or hears of none, the tab in front is right.
LEMMA PollWhispersKeeps ==
    ASSUME TypeOK, WhisperHasCause, PollWhispers, UNCHANGED <<front, profile>>, Remember
    PROVE  WhisperHasCause'
<1>1. PICK asked \in BOOLEAN :
        LET turns == {i \in DOMAIN profile : Decides(profile[i], asked)}
            on == IF turns = {} THEN current \in whispering
                  ELSE \E i \in turns : profile[i] \in down /\ \A j \in turns : j <= i
        IN  /\ keyHeld' = down \cap ToSet(profile)
            /\ whispering' = IF current # NoTab /\ on THEN whispering \cup {current}
                             ELSE whispering \ {current}
  BY DEF PollWhispers
<1> DEFINE turns == {i \in DOMAIN profile : Decides(profile[i], asked)}
<1>2. ToSet(profile) = {profile[i] : i \in DOMAIN profile}
  BY DEF ToSet
<1>3. SUFFICES ASSUME NEW t \in whispering' \ leftWhispering'
               PROVE  t = current /\ keyHeld' # {}
  BY DEF WhisperHasCause, front
<1>4. t = current
  <2>1. SUFFICES ASSUME t # current PROVE FALSE
    OBVIOUS
  <2>2. t \in whispering
    BY <1>1, <2>1
  <2>3. t \in leftWhispering
    BY <2>1, <2>2 DEF WhisperHasCause
  <2>4. QED BY <1>3, <2>3 DEF Remember
<1>5. t \notin leftWhispering
  BY <1>3 DEF Remember
<1>6. CASE turns = {}
  <2>1. t \in whispering
    BY <1>1, <1>3, <1>4, <1>6
  <2>2. PICK k \in keyHeld : TRUE
    BY <1>5, <2>1 DEF WhisperHasCause
  <2>3. PICK i \in DOMAIN profile : profile[i] = k
    BY <1>2, <2>2 DEF TypeOK
  <2>4. k \in down
    BY <1>6, <2>2, <2>3 DEF Decides
  <2>5. QED BY <1>1, <1>2, <1>4, <2>3, <2>4
<1>7. CASE turns # {}
  <2>1. \E i \in turns : profile[i] \in down
    BY <1>1, <1>3, <1>4, <1>7
  <2>2. QED BY <1>1, <1>2, <1>4, <2>1
<1>8. QED BY <1>6, <1>7

\* The whispers that go on have a cause in every reachable state.
LEMMA WhisperInductive == Spec => []WhisperHasCause
<1>1. Init => WhisperHasCause
  BY DEF Init, WhisperHasCause
<1>2. TypeOK /\ WhisperHasCause /\ [Next]_vars => WhisperHasCause'
  <2> SUFFICES ASSUME TypeOK, WhisperHasCause, [Next]_vars PROVE WhisperHasCause'
    OBVIOUS
  <2>1. ASSUME UNCHANGED <<keyHeld, whispering>>, current' = current, Remember
        PROVE  WhisperHasCause'
    BY <2>1 DEF WhisperHasCause, Remember
  <2>2. ASSUME NEW k \in Key, Press(k) \/ Release(k) PROVE WhisperHasCause'
    BY <2>1, <2>2 DEF Press, Release, front, whispers
  <2>3. CASE Poll
    BY <2>3, PollWhispersKeeps DEF Poll
  <2>4. CASE HotkeyMessage \/ ToggleContinuous
    BY <2>1, <2>4 DEF HotkeyMessage, ToggleContinuous, front, whispers
  <2>5. CASE SetOptions
    BY <2>5 DEF SetOptions, WhisperHasCause, Remember, front
  <2>6. ASSUME NEW t \in Tab, ReleaseTimer(t) PROVE WhisperHasCause'
    BY <2>1, <2>6 DEF ReleaseTimer, front, whispers
  <2>7. ASSUME NEW t \in Tab, SwitchTab(t) \/ OpenTab(t) PROVE WhisperHasCause'
    <3>1. UNCHANGED <<keyHeld, whispering>> /\ current' # current /\ Remember
      BY <2>7, HoldKeysAssumption DEF SwitchTab, OpenTab, TypeOK, whispers
    <3>2. whispering' \subseteq leftWhispering'
      BY <3>1 DEF WhisperHasCause, Remember
    <3>3. QED BY <3>2 DEF WhisperHasCause
  <2>8. ASSUME NEW t \in Tab, CloseTab(t) PROVE WhisperHasCause'
    <3>1. keyHeld' = keyHeld /\ whispering' = whispering \ {t} /\ Remember
      BY <2>8 DEF CloseTab
    <3>2. current' # current => current = t
      BY <2>8 DEF CloseTab
    <3>3. QED BY <3>1, <3>2 DEF WhisperHasCause, Remember
  <2>9. CASE UNCHANGED vars
    BY <2>9 DEF vars, front, whispers, WhisperHasCause
  <2>10. QED
    BY <2>2, <2>3, <2>4, <2>5, <2>6, <2>7, <2>8, <2>9 DEF Next
<1>3. QED BY <1>1, <1>2, TypeCorrect, PTL DEF Spec

\* After the window has looked at the whisper keys and found none down, only tabs that were
\* left in the middle of a whisper go on, for any lists of keys and any changes of them.
THEOREM WhisperSettles == Spec => PollSettlesWhisper
<1>1. TypeOK /\ WhisperHasCause /\ [Next]_vars
        => [Poll /\ keyHeld' = {} => whispering' \subseteq leftWhispering']_vars
  <2> SUFFICES ASSUME TypeOK, WhisperHasCause, [Next]_vars, Poll, keyHeld' = {}
               PROVE  whispering' \subseteq leftWhispering'
    OBVIOUS
  <2>1. WhisperHasCause'
    BY PollWhispersKeeps DEF Poll
  <2>2. QED BY <2>1 DEF WhisperHasCause
<1>2. QED BY <1>1, TypeCorrect, WhisperInductive, PTL DEF Spec, PollSettlesWhisper
=============================================================================
