---------------------------- MODULE VoiceCapture ----------------------------
(***************************************************************************)
(* The transmission gate of VoiceEngine: which captured frames (20 ms each) *)
(* of one client go to the network.  The gate follows the user's mode       *)
(* (push to talk, voice activation, continuous), the keys, the mute, and,   *)
(* with voice activation, EchoGuard, which holds the first frames back      *)
(* until it knows whether the microphone repeats what the speaker plays.    *)
(*                                                                         *)
(* What a frame sounds like is chosen when it is processed: loud or not,    *)
(* like the playout or not, the playout silent or not.  captureTick's loop  *)
(* takes one step per frame; it runs on the thread of all the other         *)
(* actions, which wait for its end.  The 500 ms of silence that close the   *)
(* gate may or may not have passed at a quiet frame.                        *)
(***************************************************************************)
EXTENDS Integers

CONSTANTS
    ValidateFrames,   \* EchoGuard::kValidateFrames
    EchoHoldFrames,   \* EchoGuard::kEchoHoldFrames
    PendingCap,       \* frames m_echoPending holds
    MaxBatch,         \* bound: frames the device delivers at once
    MaxTimers,        \* bound: release timers outrun by a later key
    MaxChanges        \* bound: changes of the options

ASSUME CaptureAssumption ==
    /\ {ValidateFrames, EchoHoldFrames, PendingCap, MaxBatch} \subseteq Nat \ {0}
    /\ {MaxTimers, MaxChanges} \subseteq Nat

Mode == {"push", "voice", "continuous"}
TestPeriod == 3        \* kTestPeriodFrames
RevokeStreak == 2      \* kRevokeStreakFrames
Ramp == 3              \* kFadeOutSamples in frames
Hiccup == 4            \* frames in m_captureBuf that are too many to drop
Overflow == 8          \* frames in m_captureBuf that flushGateFade keeps at most
Likeness == {"none", "likely", "dominant"}   \* below kConfirmEcho, kRevokeEcho, above

VARIABLES
    mode, guard,     \* m_cfgPttMode, m_cfgCrosstalkGuard
    tx,              \* m_txEnabled
    key,             \* what the last call of setPttHeld said
    pttHeld,         \* m_pttHeld
    releaseDue,      \* a release timer of the current m_pttGen runs
    oldTimers,       \* release timers of earlier generations that still run
    whisperHeld,     \* m_whisperHeld
    buf,             \* whole frames in m_captureBuf
    looping,         \* captureTick is in its loop
    talking,         \* m_talking
    ramp,            \* m_fadeOutLeft, in frames
    cue,             \* m_speechActive
    pending,         \* m_echoPending
    echo,            \* EchoGuard's state
    sent,            \* frames sent by the latest step
    changes,         \* changes of the options
    held,            \* history: frames held back of the present utterance
    mixed,           \* history: the options changed while frames were held back
    echoed,          \* history: frames in a row that repeat the playout, the gate closed
    dominated,       \* history: frames in a row that the echo dominates, the gate open
    unheard          \* history: loud frames in a row, unlike the playout, not sent

options == <<mode, guard, changes>>
keysOf == <<key, pttHeld, releaseDue, oldTimers, whisperHeld>>
history == <<held, mixed, echoed, dominated, unheard>>
vars == <<options, tx, keysOf, buf, looping, talking, ramp, cue, pending, echo, sent, history>>

Lower(n, k) == IF n > k THEN n - k ELSE 0
Upper(n, cap) == IF n < cap THEN n ELSE cap
-----------------------------------------------------------------------------
(* EchoGuard: counters are relative to the number of frames captured. *)

\* validating and the age of the validation; since the last test; until the end of a block.
Guard == [validating : BOOLEAN, age : 0..ValidateFrames, since : 0..TestPeriod,
          block : 0..EchoHoldFrames, streak : 0..RevokeStreak - 1]
FreshGuard == [validating |-> FALSE, age |-> 0, since |-> 0, block |-> 0, streak |-> 0]

\* n more frames are in the ring.
Captured(g, n) ==
    [g EXCEPT !.age = IF g.validating THEN Upper(@ + n, ValidateFrames) ELSE 0,
              !.since = Upper(@ + n, TestPeriod), !.block = Lower(@, n)]

Verdict(g, d) == [guard |-> g, decision |-> d]

\* Below the threshold, or not asked to judge.
Unjudged(g) == [g EXCEPT !.validating = FALSE, !.age = 0, !.streak = 0]

\* An echo was found: the gate stays closed for a block.
Blocking(g) == [Unjudged(g) EXCEPT !.block = EchoHoldFrames, !.since = 0]

\* A validation is under way, and the test that is due has been made.
Validating(g) == IF g.validating THEN g ELSE [g EXCEPT !.validating = TRUE, !.age = 0]
Tested(g) == [g EXCEPT !.since = IF @ = TestPeriod THEN 0 ELSE @]

\* Mutant of TestOpen: a frame that is not tested breaks the streak.
TestOpenEveryFrame(g, alike) ==
    LET streak == IF g.since = TestPeriod /\ alike = "dominant" THEN g.streak + 1 ELSE 0
    IN  IF streak = RevokeStreak THEN Blocking(g) ELSE [Tested(g) EXCEPT !.streak = streak]

\* The gate is open: two tests in a row that the echo dominates revoke it.
TestOpen(g, alike) ==
    LET streak == IF alike = "dominant" THEN g.streak + 1 ELSE 0
    IN  IF g.since < TestPeriod THEN g
        ELSE IF streak = RevokeStreak THEN Blocking(g)
        ELSE [Tested(g) EXCEPT !.streak = streak]

\* Mutant of TestClosed: a validation that has lasted long enough is not tested again.
TestClosedLate(g, alike) ==
    IF Validating(g).age = ValidateFrames THEN Verdict(Unjudged(Validating(g)), "open")
    ELSE IF g.since = TestPeriod /\ alike # "none" THEN Verdict(Blocking(g), "blocked")
    ELSE Verdict(Tested(Validating(g)), "hold")

\* The gate is closed and something plays: validate until an echo or the time is found.
TestClosed(g, alike) ==
    IF g.since = TestPeriod /\ alike # "none" THEN Verdict(Blocking(g), "blocked")
    ELSE IF Validating(g).age = ValidateFrames
    THEN Verdict(Unjudged(Tested(Validating(g))), "open")
    ELSE Verdict(Tested(Validating(g)), "hold")

\* Mutant of Decide: being blocked prolongs the block.
DecideProlonging(g, open, f) ==
    LET c == [g EXCEPT !.streak = 0]
        o == TestOpen(g, f.alike)
    IN  IF open THEN Verdict(o, IF o.block > 0 THEN "blocked" ELSE "open")
        ELSE IF c.block > 0 THEN Verdict([c EXCEPT !.block = EchoHoldFrames], "blocked")
        ELSE IF f.silent THEN Verdict(c, "open")
        ELSE TestClosed(c, f.alike)

\* noteCapture of a frame above the threshold.
Decide(g, open, f) ==
    LET c == [g EXCEPT !.streak = 0]
        o == TestOpen(g, f.alike)
    IN  IF open THEN Verdict(o, IF o.block > 0 THEN "blocked" ELSE "open")
        ELSE IF c.block > 0 THEN Verdict(c, "blocked")
        ELSE IF f.silent THEN Verdict(c, "open")
        ELSE TestClosed(c, f.alike)

NoteCapture(g, above, open, f) ==
    IF above THEN Decide(Captured(g, 1), open, f) ELSE Verdict(Unjudged(Captured(g, 1)), "open")
-----------------------------------------------------------------------------
(* Actions of captureTick's loop, one frame each. *)

Frame == [loud : BOOLEAN, alike : Likeness, silent : BOOLEAN]

guardActive == mode = "voice" /\ ~ whisperHeld /\ guard
VoiceNow(f) == f.loud \/ mode # "voice" \/ whisperHeld

\* How often the histories count what happens to a frame.
Judged(f) == guardActive /\ f.loud
Witness(f, opened, decision) ==
    /\ held' = IF decision = "hold" THEN held + 1 ELSE 0
    /\ echoed' = IF Judged(f) /\ ~ talking /\ decision # "blocked" /\ ~ f.silent
                    /\ f.alike # "none"
                 THEN Upper(echoed + 1, TestPeriod) ELSE 0
    /\ dominated' = IF Judged(f) /\ talking /\ decision # "blocked" /\ f.alike = "dominant"
                    THEN dominated + 1 ELSE 0
    /\ unheard' = IF Judged(f) /\ ~ opened /\ ~ talking /\ f.alike = "none"
                  THEN unheard + 1 ELSE 0
    /\ mixed' = (mixed /\ pending' > 0)

\* Mutant of HoldBack: the first frame of a validation is dropped.
HoldBackLate(f, r) ==
    /\ guardActive /\ r.decision = "hold"
    /\ pending' = IF echo.validating THEN Upper(pending + 1, PendingCap) ELSE pending
    /\ cue' \in {FALSE, cue}
    /\ sent' = 0
    /\ UNCHANGED <<talking, ramp>>

\* The frame is held back, and with it the beginning of what may be speech.
HoldBack(f, r) ==
    /\ guardActive /\ r.decision = "hold"
    /\ pending' = Upper(pending + 1, PendingCap)
    /\ cue' \in {FALSE, cue}
    /\ sent' = 0
    /\ UNCHANGED <<talking, ramp>>

\* An echo: the gate closes, and only what is left of its ramp is sent.
Bar(f, r) ==
    /\ guardActive /\ r.decision = "blocked"
    /\ LET left == IF talking THEN Ramp ELSE ramp
       IN  ramp' = Lower(left, 1) /\ sent' = Upper(left, 1)
    /\ talking' = FALSE
    /\ pending' = 0
    /\ cue' \in {FALSE, cue}

RampAfter(opening, closing) ==
    IF opening THEN 0 ELSE IF closing THEN Ramp ELSE ramp

\* The frame passes the guard; expired says that 500 ms of silence have passed.
Pass(f, r, expired) ==
    LET opening == VoiceNow(f) /\ ~ talking
        closing == ~ VoiceNow(f) /\ talking /\ expired
        kept == IF guardActive /\ ~ VoiceNow(f) THEN 0 ELSE pending
        left == RampAfter(opening, closing)
        dropped == ~ talking' /\ left = 0 /\ buf < Hiccup
    IN  /\ ~ (guardActive /\ r.decision \in {"hold", "blocked"})
        /\ talking' = ((talking \/ opening) /\ ~ closing)
        /\ pending' = IF opening THEN 0 ELSE kept
        /\ sent' = (IF opening THEN kept ELSE 0) + (IF dropped THEN 0 ELSE 1)
        /\ ramp' = Lower(left, 1)
        /\ cue' \in IF f.loud THEN {TRUE} ELSE {FALSE, cue}

CaptureFrame ==
    /\ looping
    /\ buf' = buf - 1
    /\ looping' = (buf' > 0)
    /\ \E f \in Frame, expired \in BOOLEAN :
         LET r == NoteCapture(echo, guardActive /\ VoiceNow(f), guardActive /\ talking, f)
         IN  /\ echo' = r.guard
             /\ HoldBack(f, r) \/ Bar(f, r) \/ Pass(f, r, expired)
             /\ Witness(f, talking', r.decision)
    /\ UNCHANGED <<options, tx, keysOf>>
-----------------------------------------------------------------------------
(* The other actions; each waits until captureTick has returned. *)

\* Frames the guard hears without judging them; none is sent.
Unheeded(n) == echo' = IF n > 0 THEN Unjudged(Captured(echo, n)) ELSE echo

Forgotten == held' = 0 /\ mixed' = FALSE /\ echoed' = 0 /\ dominated' = 0 /\ unheard' = 0

\* captureTick, with the frames delivered since the last one, up to its loop.
StartLoop ==
    /\ ~ looping
    /\ tx /\ (mode = "push" => pttHeld \/ whisperHeld)
    /\ \E n \in 0..MaxBatch : buf' = buf + n
    /\ buf' > 0 /\ looping' = TRUE
    /\ sent' = 0
    /\ UNCHANGED <<options, tx, keysOf, talking, ramp, cue, pending, echo, history>>

\* captureTick while muted: analyzeCapturedSpeech hears everything and sends nothing.
TickMuted ==
    /\ ~ looping /\ ~ tx
    /\ \E n \in 1..MaxBatch : Unheeded(buf + n)
    /\ buf' = 0 /\ sent' = 0 /\ cue' = FALSE
    /\ Forgotten
    /\ UNCHANGED <<options, tx, keysOf, looping, talking, ramp, pending>>

\* captureTick in push-to-talk mode with no key held: the gate closes, its ramp is sent
\* and the rest is analysed.
TickIdle ==
    /\ ~ looping
    /\ tx /\ mode = "push" /\ ~ pttHeld /\ ~ whisperHeld
    /\ \E n \in 0..MaxBatch :
         LET left == IF talking THEN Ramp ELSE ramp
         IN  /\ sent' = Upper(buf + n, left)
             /\ ramp' = Lower(left, sent')
             /\ Unheeded(buf + n - sent')
             /\ cue' \in IF buf + n > sent' THEN BOOLEAN ELSE {cue}
    /\ talking' = FALSE /\ buf' = 0
    /\ held' = 0 /\ echoed' = 0 /\ dominated' = 0 /\ unheard' = 0
    /\ UNCHANGED <<options, tx, keysOf, looping, pending, mixed>>

\* closeTransmissionGate if the gate is open, then flushGateFade, which leaves what it
\* does not send in the buffer.
CloseAndFlush ==
    \E n \in 0..MaxBatch :
      LET left == IF talking THEN Ramp ELSE ramp
          heard == IF tx /\ left > 0 THEN buf + n ELSE buf
      IN  /\ talking' = FALSE
          /\ sent' = IF tx THEN Upper(heard, left) ELSE 0
          /\ ramp' = left - sent'
          /\ buf' = IF heard - sent' > Overflow /\ left > 0 /\ tx THEN 0 ELSE heard - sent'

\* setPttHeld(TRUE), called by MainWindow in push-to-talk mode.
PressPtt ==
    /\ ~ looping /\ mode = "push"
    /\ key' = TRUE /\ pttHeld' = TRUE /\ releaseDue' = FALSE
    /\ oldTimers' = oldTimers + (IF releaseDue THEN 1 ELSE 0)
    /\ oldTimers' <= MaxTimers
    /\ sent' = 0
    /\ UNCHANGED <<options, tx, whisperHeld, buf, looping, talking, ramp, cue, pending, echo,
                   history>>

\* setPttHeld(FALSE) without a delay.
ReleasePtt ==
    /\ ~ looping /\ mode = "push" /\ pttHeld
    /\ key' = FALSE /\ pttHeld' = FALSE /\ releaseDue' = FALSE
    /\ oldTimers' = oldTimers + (IF releaseDue THEN 1 ELSE 0)
    /\ oldTimers' <= MaxTimers
    /\ CloseAndFlush
    /\ dominated' = 0
    /\ UNCHANGED <<options, tx, whisperHeld, looping, cue, pending, echo, held, mixed, echoed,
                   unheard>>

\* setPttHeld(FALSE) with a delay: the key counts as held until the timer.
ReleasePttLater ==
    /\ ~ looping /\ mode = "push" /\ pttHeld
    /\ key' = FALSE /\ releaseDue' = TRUE
    /\ oldTimers' = oldTimers + (IF releaseDue THEN 1 ELSE 0)
    /\ oldTimers' <= MaxTimers
    /\ sent' = 0
    /\ UNCHANGED <<options, tx, pttHeld, whisperHeld, buf, looping, talking, ramp, cue, pending,
                   echo, history>>

\* The timer of the latest release.
ReleaseTimer ==
    /\ ~ looping /\ releaseDue
    /\ releaseDue' = FALSE /\ pttHeld' = FALSE
    /\ CloseAndFlush
    /\ dominated' = 0
    /\ UNCHANGED <<options, tx, key, oldTimers, whisperHeld, looping, cue, pending, echo, held,
                   mixed, echoed, unheard>>

\* Mutant of OldTimer: the generation is not compared.
OldTimerReleases ==
    /\ ~ looping /\ oldTimers > 0
    /\ oldTimers' = oldTimers - 1 /\ pttHeld' = FALSE
    /\ CloseAndFlush
    /\ dominated' = 0
    /\ UNCHANGED <<options, tx, key, releaseDue, whisperHeld, looping, cue, pending, echo, held,
                   mixed, echoed, unheard>>

\* A timer whose generation has passed.
OldTimer ==
    /\ ~ looping /\ oldTimers > 0
    /\ oldTimers' = oldTimers - 1
    /\ sent' = 0
    /\ UNCHANGED <<options, tx, key, pttHeld, releaseDue, whisperHeld, buf, looping, talking,
                   ramp, cue, pending, echo, history>>

PressWhisper ==
    /\ ~ looping /\ ~ whisperHeld
    /\ whisperHeld' = TRUE
    /\ sent' = 0
    /\ UNCHANGED <<options, tx, key, pttHeld, releaseDue, oldTimers, buf, looping, talking,
                   ramp, cue, pending, echo, history>>

\* setWhisperHeld(FALSE) closes an open gate, unless the other key holds it.
ReleaseWhisper ==
    /\ ~ looping /\ whisperHeld
    /\ whisperHeld' = FALSE
    /\ IF talking /\ ~ pttHeld THEN CloseAndFlush
       ELSE sent' = 0 /\ UNCHANGED <<talking, ramp, buf>>
    /\ dominated' = 0
    /\ UNCHANGED <<options, tx, key, pttHeld, releaseDue, oldTimers, looping, cue, pending,
                   echo, held, mixed, echoed, unheard>>

\* Mutant of Mute: what was going to be sent stays.
MuteGateOnly ==
    /\ ~ looping /\ tx
    /\ tx' = FALSE /\ talking' = FALSE /\ cue' = FALSE
    /\ sent' = 0
    /\ UNCHANGED <<options, keysOf, buf, looping, ramp, pending, echo, history>>

\* setTransmitEnabled(FALSE).
Mute ==
    /\ ~ looping /\ tx
    /\ tx' = FALSE /\ talking' = FALSE /\ ramp' = 0 /\ pending' = 0 /\ cue' = FALSE
    /\ sent' = 0
    /\ Forgotten
    /\ UNCHANGED <<options, keysOf, buf, looping, echo>>

\* setTransmitEnabled(TRUE).
Unmute ==
    /\ ~ looping /\ ~ tx
    /\ tx' = TRUE /\ ramp' = 0 /\ pending' = 0
    /\ sent' = 0
    /\ UNCHANGED <<options, keysOf, buf, looping, talking, cue, echo, history>>

\* notePlayout: with a validation under way the test is made here, to no effect but its date.
NotePlayout ==
    /\ ~ looping /\ echo.validating /\ echo.since = TestPeriod
    /\ echo' = [echo EXCEPT !.since = 0]
    /\ sent' = 0
    /\ UNCHANGED <<options, tx, keysOf, buf, looping, talking, ramp, cue, pending, history>>

\* refreshCachedConfig finds other options.
ChangeOptions ==
    /\ ~ looping /\ changes < MaxChanges
    /\ \E m \in Mode, g \in BOOLEAN :
         /\ <<m, g>> # <<mode, guard>>
         /\ mode' = m /\ guard' = g
    /\ changes' = changes + 1
    /\ mixed' = (pending > 0)
    /\ sent' = 0
    /\ held' = 0 /\ echoed' = 0 /\ dominated' = 0 /\ unheard' = 0
    /\ UNCHANGED <<tx, keysOf, buf, looping, talking, ramp, cue, pending, echo>>
-----------------------------------------------------------------------------
Init ==
    /\ mode \in Mode /\ guard \in BOOLEAN
    /\ tx = TRUE
    /\ key = FALSE /\ pttHeld = FALSE /\ releaseDue = FALSE /\ oldTimers = 0
    /\ whisperHeld = FALSE
    /\ buf = 0 /\ looping = FALSE
    /\ talking = FALSE /\ ramp = 0 /\ cue = FALSE /\ pending = 0
    /\ echo = FreshGuard
    /\ sent = 0 /\ changes = 0
    /\ held = 0 /\ mixed = FALSE /\ echoed = 0 /\ dominated = 0 /\ unheard = 0

Next ==
    \/ CaptureFrame \/ StartLoop \/ TickMuted \/ TickIdle
    \/ PressPtt \/ ReleasePtt \/ ReleasePttLater \/ ReleaseTimer \/ OldTimer
    \/ PressWhisper \/ ReleaseWhisper
    \/ Mute \/ Unmute
    \/ NotePlayout \/ ChangeOptions

Spec == Init /\ [][Next]_vars
-----------------------------------------------------------------------------
(* Properties. *)

\* Every variable keeps its type.
TypeOK ==
    /\ mode \in Mode /\ guard \in BOOLEAN /\ tx \in BOOLEAN
    /\ key \in BOOLEAN /\ pttHeld \in BOOLEAN /\ releaseDue \in BOOLEAN
    /\ oldTimers \in 0..MaxTimers /\ whisperHeld \in BOOLEAN
    /\ buf \in 0..2 * MaxBatch /\ looping \in BOOLEAN
    /\ talking \in BOOLEAN /\ ramp \in 0..Ramp /\ cue \in BOOLEAN
    /\ pending \in 0..PendingCap /\ echo \in Guard
    /\ sent \in 0..PendingCap + Ramp /\ changes \in 0..MaxChanges
    /\ held \in Nat /\ mixed \in BOOLEAN /\ echoed \in 0..TestPeriod
    /\ dominated \in Nat /\ unheard \in Nat

\* The engine holds the gate for the push-to-talk key exactly while the key is down or
\* the delay of its latest release runs: no timer of an earlier release cuts a new press.
PttFollowsKey == pttHeld = (key \/ releaseDue)

\* Speech is never sent under a closing ramp left over from before ("a rampa descendente
\* velha seria a voz sumindo").
RampNeverEatsSpeech == talking => ramp = 0

\* A muted client has nothing it could send or announce when it is unmuted.
MutedIsMuted == ~ tx => ~ talking /\ ~ cue /\ ramp = 0 /\ pending = 0

\* An echo of three frames never passes a closed gate: a test falls on one of them.
EchoIsCaught == echoed < TestPeriod

\* An echo that dominates the microphone loses an open gate within two test periods.
EchoIsRevoked == dominated < RevokeStreak * TestPeriod

\* Speech that does not repeat the playout waits no longer than a block and a validation.
SpeechGetsThrough == unheard < EchoHoldFrames + ValidateFrames

\* What the guard held back of an utterance is sent whole when the gate opens, and
\* nothing of an earlier one with it, unless the options changed in between.
BackfillIsTheUtterance ==
    [][talking' /\ ~ talking /\ ~ mixed => sent' = held + 1]_vars

=============================================================================
