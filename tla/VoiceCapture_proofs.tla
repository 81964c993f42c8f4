------------------------- MODULE VoiceCapture_proofs -------------------------
(***************************************************************************)
(* Proofs about VoiceCapture for every length of a validation, of a block,  *)
(* of the list of held frames and of a delivery of the device.              *)
(***************************************************************************)
EXTENDS VoiceCapture, TLAPS

Decision == {"open", "hold", "blocked"}

\* The types of everything but the buffer, whose bound needs BufferEnds.
Types ==
    /\ mode \in Mode /\ guard \in BOOLEAN /\ tx \in BOOLEAN
    /\ key \in BOOLEAN /\ pttHeld \in BOOLEAN /\ releaseDue \in BOOLEAN
    /\ oldTimers \in 0..MaxTimers /\ whisperHeld \in BOOLEAN
    /\ looping \in BOOLEAN
    /\ talking \in BOOLEAN /\ ramp \in 0..Ramp /\ cue \in BOOLEAN
    /\ pending \in 0..PendingCap /\ echo \in Guard
    /\ changes \in 0..MaxChanges
    /\ held \in Nat /\ mixed \in BOOLEAN /\ echoed \in Nat
    /\ dominated \in Nat /\ unheard \in Nat

\* Outside the loop the device's rest fits one delivery, and with the gate open or its
\* ramp running nothing is left in the buffer.
BufferEnds ==
    /\ buf \in 0..2 * MaxBatch
    /\ ~ looping => buf <= MaxBatch
    /\ ~ looping /\ (talking \/ ramp > 0) => buf = 0
    /\ looping => buf > 0

\* The push-to-talk key.
KeyKnown == pttHeld = (key \/ releaseDue) /\ (releaseDue => ~ key)

\* The gate, its ramp and the mute.
GateSound ==
    /\ RampNeverEatsSpeech
    /\ MutedIsMuted
    /\ looping => tx
    /\ talking => pending = 0

\* A guard that blocks does not validate.
BlockIsCalm == echo.block > 0 => ~ echo.validating

\* Echoes not caught yet are younger than the last test.
EchoedLags == echoed <= echo.since /\ (echo.since = TestPeriod => echoed = 0)

\* An echo that dominates has filled the streak and the time since the last test.
DominatedLags ==
    dominated <= TestPeriod * echo.streak + echo.since /\ (echo.since = TestPeriod => dominated = 0)

\* Speech not heard yet has spent its time in a block or in a validation.
UnheardLags ==
    /\ unheard <= EchoHoldFrames - echo.block + (IF echo.validating THEN echo.age ELSE 0)
    /\ echo.block = 0 /\ ~ echo.validating => unheard = 0
    /\ SpeechGetsThrough

\* What is held back is what the present validation has heard.
HeldIsValidated ==
    /\ echo.validating => held <= echo.age + 1
    /\ ~ echo.validating => held = 0
    /\ ~ (mode = "voice" /\ guard) => held = 0

\* And all of it is pending, where the list is long enough.
PendingIsHeld == PendingCap >= ValidateFrames /\ ~ mixed => pending = held

IInv ==
    /\ Types /\ BufferEnds /\ KeyKnown /\ GateSound /\ BlockIsCalm
    /\ EchoedLags /\ DominatedLags /\ UnheardLags /\ HeldIsValidated /\ PendingIsHeld

-----------------------------------------------------------------------------
(* EchoGuard. *)

\* The bounds are natural numbers.
LEMMA BoundsAreNat ==
    /\ ValidateFrames \in Nat /\ ValidateFrames > 0
    /\ EchoHoldFrames \in Nat /\ EchoHoldFrames > 0
    /\ PendingCap \in Nat /\ PendingCap > 0
    /\ MaxBatch \in Nat /\ MaxBatch > 0
    /\ MaxTimers \in Nat /\ MaxChanges \in Nat
BY CaptureAssumption

\* The fields of a guard have their types.
LEMMA GuardFields ==
    ASSUME NEW g \in Guard
    PROVE  /\ g.validating \in BOOLEAN /\ g.age \in 0..ValidateFrames
           /\ g.since \in 0..3 /\ g.block \in 0..EchoHoldFrames /\ g.streak \in 0..1
BY DEF Guard, TestPeriod, RevokeStreak

\* A record with the fields of a guard.
Fields(h) == [validating |-> h.validating, age |-> h.age, since |-> h.since, block |-> h.block,
              streak |-> h.streak]

\* Fields of these types make a guard.
LEMMA GuardMade ==
    ASSUME NEW h, h = Fields(h), h.validating \in BOOLEAN, h.age \in 0..ValidateFrames,
           h.since \in 0..3, h.block \in 0..EchoHoldFrames, h.streak \in 0..1
    PROVE  h \in Guard
BY DEF Guard, Fields, TestPeriod, RevokeStreak

\* What n more frames do to every counter of the guard.
LEMMA CapturedFields ==
    ASSUME NEW g \in Guard, NEW n \in Nat
    PROVE  /\ Captured(g, n) \in Guard
           /\ Captured(g, n).validating = g.validating
           /\ Captured(g, n).age = IF g.validating THEN Upper(g.age + n, ValidateFrames) ELSE 0
           /\ Captured(g, n).since = Upper(g.since + n, TestPeriod)
           /\ Captured(g, n).block = Lower(g.block, n)
           /\ Captured(g, n).streak = g.streak
<1> DEFINE age == IF g.validating THEN Upper(g.age + n, ValidateFrames) ELSE 0
           since == Upper(g.since + n, TestPeriod)
           block == Lower(g.block, n)
<1>1. PICK h : h = [g EXCEPT !.age = age, !.since = since, !.block = block]
  OBVIOUS
<1>2. h = Captured(g, n)
  <2>1. [g EXCEPT !.age = age, !.since = since, !.block = block] = Captured(g, n)
    BY DEF Captured
  <2>2. QED BY <1>1, <2>1
<1>3. age \in 0..ValidateFrames /\ since \in 0..3 /\ block \in 0..EchoHoldFrames
  BY BoundsAreNat, GuardFields DEF Upper, Lower, TestPeriod
<1> HIDE DEF age, since, block
<1>4. /\ h.validating = g.validating /\ h.age = age /\ h.since = since /\ h.block = block
      /\ h.streak = g.streak /\ h = Fields(h)
  BY <1>1 DEF Guard, Fields
<1>5. h \in Guard
  BY <1>3, <1>4, GuardFields, GuardMade
<1>6. QED BY <1>2, <1>4, <1>5 DEF age, since, block

\* What is left of the guard's state when there is nothing to judge.
LEMMA UnjudgedFields ==
    ASSUME NEW g \in Guard
    PROVE  /\ Unjudged(g) \in Guard
           /\ Unjudged(g).validating = FALSE /\ Unjudged(g).age = 0
           /\ Unjudged(g).since = g.since /\ Unjudged(g).block = g.block
           /\ Unjudged(g).streak = 0
<1>1. PICK h : h = [g EXCEPT !.validating = FALSE, !.age = 0, !.streak = 0]
  OBVIOUS
<1>2. /\ h.validating = FALSE /\ h.age = 0 /\ h.since = g.since /\ h.block = g.block
      /\ h.streak = 0 /\ h = Fields(h)
  BY <1>1 DEF Guard, Fields
<1>3. h \in Guard
  <2>1. h.validating \in BOOLEAN
    BY <1>2
  <2>2. /\ h.age \in 0..ValidateFrames /\ h.since \in 0..3
        /\ h.block \in 0..EchoHoldFrames /\ h.streak \in 0..1
    BY <1>2, GuardFields, BoundsAreNat
  <2>3. QED BY <1>2, <2>1, <2>2, GuardMade
<1>4. h = Unjudged(g)
  <2>1. [g EXCEPT !.validating = FALSE, !.age = 0, !.streak = 0] = Unjudged(g)
    BY DEF Unjudged
  <2>2. QED BY <1>1, <2>1
<1>5. QED BY <1>2, <1>3, <1>4

\* What is left of it when an echo was found.
LEMMA BlockingFields ==
    ASSUME NEW g \in Guard
    PROVE  /\ Blocking(g) \in Guard
           /\ Blocking(g).validating = FALSE
           /\ Blocking(g).since = 0 /\ Blocking(g).block = EchoHoldFrames
<1>1. PICK u : u = Unjudged(g)
  OBVIOUS
<1>2. PICK h : h = [u EXCEPT !.block = EchoHoldFrames, !.since = 0]
  OBVIOUS
<1>3. u \in Guard /\ u.validating = FALSE /\ u.age = 0 /\ u.streak = 0
  BY <1>1, UnjudgedFields
<1>4. /\ h.validating = u.validating /\ h.age = u.age /\ h.since = 0
      /\ h.block = EchoHoldFrames /\ h.streak = u.streak /\ h = Fields(h)
  BY <1>2, <1>3 DEF Guard, Fields
<1>5. h \in Guard
  <2>1. /\ h.validating \in BOOLEAN /\ h.age \in 0..ValidateFrames /\ h.since \in 0..3
        /\ h.block \in 0..EchoHoldFrames /\ h.streak \in 0..1
    BY <1>3, <1>4, GuardFields, BoundsAreNat
  <2>2. QED BY <1>3, <1>4, <2>1, GuardMade
<1>6. h = Blocking(g)
  <2>1. [Unjudged(g) EXCEPT !.block = EchoHoldFrames, !.since = 0] = Blocking(g)
    BY DEF Blocking
  <2>2. QED BY <1>1, <1>2, <2>1
<1>7. QED BY <1>3, <1>4, <1>5, <1>6

\* The validation under way, or a new one.
LEMMA ValidatingFields ==
    ASSUME NEW g \in Guard
    PROVE  /\ Validating(g) \in Guard
           /\ Validating(g).validating = TRUE
           /\ Validating(g).age = IF g.validating THEN g.age ELSE 0
           /\ Validating(g).since = g.since /\ Validating(g).block = g.block
<1>1. CASE g.validating
  BY <1>1, GuardFields DEF Validating
<1>2. CASE ~ g.validating
  <2>1. PICK h : h = [g EXCEPT !.validating = TRUE, !.age = 0]
    OBVIOUS
  <2>2. /\ h.validating = TRUE /\ h.age = 0 /\ h.since = g.since /\ h.block = g.block
        /\ h.streak = g.streak /\ h = Fields(h)
    BY <2>1 DEF Guard, Fields
  <2>3. h \in Guard
    <3>1. h.validating \in BOOLEAN
      BY <2>2
    <3>2. /\ h.age \in 0..ValidateFrames /\ h.since \in 0..3
          /\ h.block \in 0..EchoHoldFrames /\ h.streak \in 0..1
      BY <2>2, GuardFields, BoundsAreNat
    <3>3. QED BY <2>2, <3>1, <3>2, GuardMade
  <2>4. h = Validating(g)
    <3>1. [g EXCEPT !.validating = TRUE, !.age = 0] = Validating(g)
      BY <1>2 DEF Validating
    <3>2. QED BY <2>1, <3>1
  <2>5. QED BY <1>2, <2>2, <2>3, <2>4
<1>3. QED BY <1>1, <1>2

\* A test that is due has been made; the rest stays.
LEMMA TestedFields ==
    ASSUME NEW g \in Guard
    PROVE  /\ Tested(g) \in Guard
           /\ Tested(g).since = IF g.since = TestPeriod THEN 0 ELSE g.since
           /\ Tested(g).since < TestPeriod
           /\ Tested(g).validating = g.validating /\ Tested(g).age = g.age
           /\ Tested(g).block = g.block /\ Tested(g).streak = g.streak
<1> DEFINE since == IF g.since = TestPeriod THEN 0 ELSE g.since
<1>1. PICK h : h = [g EXCEPT !.since = since]
  OBVIOUS
<1>2. h = Tested(g)
  <2>1. [g EXCEPT !.since = since] = Tested(g)
    BY DEF Tested
  <2>2. QED BY <1>1, <2>1
<1>3. since \in 0..3 /\ since < TestPeriod
  BY GuardFields DEF TestPeriod
<1> HIDE DEF since
<1>4. /\ h.validating = g.validating /\ h.age = g.age /\ h.block = g.block
      /\ h.streak = g.streak /\ h.since = since /\ h = Fields(h)
  BY <1>1 DEF Guard, Fields
<1>5. h \in Guard
  BY <1>3, <1>4, GuardFields, GuardMade
<1>6. QED BY <1>2, <1>3, <1>4, <1>5 DEF since

\* With the gate open, the guard counts tests in a row or blocks.
LEMMA TestOpenFields ==
    ASSUME NEW g \in Guard, NEW alike \in Likeness
    PROVE  /\ TestOpen(g, alike) \in Guard
           /\ TestOpen(g, alike).validating =>
                g.validating /\ TestOpen(g, alike).block = g.block
           /\ TestOpen(g, alike).since < TestPeriod
           /\ alike = "dominant" /\ TestOpen(g, alike).block = 0 =>
                \/ g.since < TestPeriod /\ TestOpen(g, alike) = g
                \/ /\ g.since = TestPeriod /\ TestOpen(g, alike).streak = g.streak + 1
                   /\ TestOpen(g, alike).since = 0
<1>1. PICK streak : streak = IF alike = "dominant" THEN g.streak + 1 ELSE 0
  OBVIOUS
<1>2. CASE g.since < TestPeriod
  BY <1>2 DEF TestOpen
<1>3. CASE ~ (g.since < TestPeriod) /\ streak = RevokeStreak
  <2>1. TestOpen(g, alike) = Blocking(g)
    BY <1>1, <1>3 DEF TestOpen
  <2>2. PICK b : b = Blocking(g)
    OBVIOUS
  <2>3. b \in Guard /\ b.validating = FALSE /\ b.since = 0 /\ b.block = EchoHoldFrames
    BY <2>2, BlockingFields
  <2>4. TestOpen(g, alike) = b
    BY <2>1, <2>2
  <2>5. b.since < TestPeriod /\ b.block # 0
    BY <2>3, BoundsAreNat DEF TestPeriod
  <2>6. QED BY <2>3, <2>4, <2>5
<1>4. CASE ~ (g.since < TestPeriod) /\ streak # RevokeStreak
  <2>1. PICK t : t = Tested(g)
    OBVIOUS
  <2>2. PICK h : h = [t EXCEPT !.streak = streak]
    OBVIOUS
  <2>3. TestOpen(g, alike) = h
    <3>1. TestOpen(g, alike) =
            [Tested(g) EXCEPT !.streak = IF alike = "dominant" THEN g.streak + 1 ELSE 0]
      BY <1>1, <1>4 DEF TestOpen
    <3>2. QED BY <1>1, <2>1, <2>2, <3>1
  <2>4. streak \in 0..1 /\ g.since = TestPeriod
    BY <1>1, <1>4, GuardFields DEF RevokeStreak, TestPeriod
  <2>5. /\ t \in Guard /\ t.since = 0 /\ t.validating = g.validating /\ t.age = g.age
        /\ t.block = g.block
    BY <2>1, <2>4, TestedFields
  <2>6. /\ h.validating = t.validating /\ h.age = t.age /\ h.since = t.since
        /\ h.block = t.block /\ h.streak = streak /\ h = Fields(h)
    BY <2>2, <2>5 DEF Guard, Fields
  <2>7. h \in Guard
    BY <2>4, <2>5, <2>6, GuardFields, GuardMade
  <2>8. QED BY <1>1, <2>3, <2>4, <2>5, <2>6, <2>7 DEF TestPeriod
<1>5. QED BY <1>2, <1>3, <1>4

\* With the gate closed, the guard finds an echo, waits, or has waited long enough.
LEMMA TestClosedFields ==
    ASSUME NEW g \in Guard, NEW alike \in Likeness, g.block = 0
    PROVE  /\ TestClosed(g, alike).guard \in Guard
           /\ \/ /\ TestClosed(g, alike).decision = "blocked" /\ alike # "none"
                 /\ ~ TestClosed(g, alike).guard.validating
                 /\ TestClosed(g, alike).guard.since = 0
              \/ /\ TestClosed(g, alike).decision = "open"
                 /\ ~ TestClosed(g, alike).guard.validating
              \/ /\ TestClosed(g, alike).decision = "hold"
                 /\ TestClosed(g, alike).guard.validating
                 /\ TestClosed(g, alike).guard.block = 0
                 /\ TestClosed(g, alike).guard.age = IF g.validating THEN g.age ELSE 0
                 /\ TestClosed(g, alike).guard.age # ValidateFrames
           /\ alike # "none" /\ TestClosed(g, alike).decision # "blocked" =>
                g.since # TestPeriod /\ TestClosed(g, alike).guard.since = g.since
<1>0. PICK v : v = Validating(g)
  OBVIOUS
<1>1. v \in Guard /\ v.validating = TRUE /\ v.since = g.since /\ v.block = 0
        /\ v.age = IF g.validating THEN g.age ELSE 0
  BY <1>0, ValidatingFields
<1>2. CASE g.since = TestPeriod /\ alike # "none"
  <2>1. TestClosed(g, alike) = [guard |-> Blocking(g), decision |-> "blocked"]
    BY <1>2 DEF TestClosed, Verdict
  <2>2. PICK b : b = Blocking(g)
    OBVIOUS
  <2>3. TestClosed(g, alike).guard = b /\ TestClosed(g, alike).decision = "blocked"
    BY <2>1, <2>2
  <2>4. b \in Guard /\ b.validating = FALSE /\ b.since = 0
    BY <2>2, BlockingFields
  <2>5. QED BY <1>2, <2>3, <2>4
<1>3. CASE ~ (g.since = TestPeriod /\ alike # "none") /\ v.age = ValidateFrames
  <2>1. TestClosed(g, alike) = [guard |-> Unjudged(Tested(v)), decision |-> "open"]
    BY <1>0, <1>3 DEF TestClosed, Verdict
  <2>2. PICK t : t = Tested(v)
    OBVIOUS
  <2>3. PICK u : u = Unjudged(t)
    OBVIOUS
  <2>4. TestClosed(g, alike).guard = u /\ TestClosed(g, alike).decision = "open"
    BY <2>1, <2>2, <2>3
  <2>5. t \in Guard /\ t.since = IF v.since = TestPeriod THEN 0 ELSE v.since
    BY <1>1, <2>2, TestedFields
  <2>6. u \in Guard /\ u.validating = FALSE /\ u.since = t.since
    BY <2>3, <2>5, UnjudgedFields
  <2>7. QED BY <1>1, <1>3, <2>4, <2>5, <2>6
<1>4. CASE ~ (g.since = TestPeriod /\ alike # "none") /\ v.age # ValidateFrames
  <2>1. TestClosed(g, alike) = [guard |-> Tested(v), decision |-> "hold"]
    BY <1>0, <1>4 DEF TestClosed, Verdict
  <2>2. PICK t : t = Tested(v)
    OBVIOUS
  <2>3. TestClosed(g, alike).guard = t /\ TestClosed(g, alike).decision = "hold"
    BY <2>1, <2>2
  <2>4. /\ t \in Guard /\ t.since = IF v.since = TestPeriod THEN 0 ELSE v.since
        /\ t.validating = TRUE /\ t.age = v.age /\ t.block = v.block
    BY <1>1, <2>2, TestedFields
  <2>5. QED BY <1>1, <1>4, <2>3, <2>4
<1>5. QED BY <1>2, <1>3, <1>4

\* A guard that is told that no frame in a row was dominated.
LEMMA CalmedFields ==
    ASSUME NEW g \in Guard
    PROVE  \E c \in Guard :
             /\ c = [g EXCEPT !.streak = 0]
             /\ c.validating = g.validating /\ c.age = g.age /\ c.since = g.since
             /\ c.block = g.block /\ c.streak = 0
<1>1. PICK c : c = [g EXCEPT !.streak = 0]
  OBVIOUS
<1>2. /\ c.validating = g.validating /\ c.age = g.age /\ c.since = g.since
      /\ c.block = g.block /\ c.streak = 0 /\ c = Fields(c)
  BY <1>1 DEF Guard, Fields
<1>3. c \in Guard
  BY <1>2, GuardFields, GuardMade
<1>4. QED BY <1>1, <1>2, <1>3

\* A frame that is not judged passes and ends the validation.
LEMMA NotedBelow ==
    ASSUME NEW g \in Guard, NEW above, NEW open, NEW f, above = FALSE
    PROVE  /\ NoteCapture(g, above, open, f).guard \in Guard
           /\ ~ NoteCapture(g, above, open, f).guard.validating
           /\ NoteCapture(g, above, open, f).decision = "open"
<1>1. PICK c : c = Captured(g, 1)
  OBVIOUS
<1>2. PICK u : u = Unjudged(c)
  OBVIOUS
<1>3. c \in Guard
  BY <1>1, CapturedFields
<1>4. u \in Guard /\ u.validating = FALSE
  BY <1>2, <1>3, UnjudgedFields
<1>5. NoteCapture(g, above, open, f) = [guard |-> u, decision |-> "open"]
  BY <1>1, <1>2 DEF NoteCapture, Verdict
<1>6. /\ NoteCapture(g, above, open, f).guard = u
      /\ NoteCapture(g, above, open, f).decision = "open"
  BY <1>5
<1>7. QED BY <1>4, <1>6

\* A judged frame with the gate open: it passes, or an echo is found.
WhileOpen(g, r, f) ==
    /\ r.guard \in Guard
    /\ r.decision = IF r.guard.block > 0 THEN "blocked" ELSE "open"
    /\ r.guard.block > 0 => ~ r.guard.validating
    /\ f.alike = "dominant" /\ r.decision = "open" =>
         \/ /\ r.guard.since < 3 /\ r.guard.since = g.since + 1
            /\ r.guard.streak = g.streak
         \/ g.since >= 2 /\ r.guard.since = 0 /\ r.guard.streak = g.streak + 1

\* And so it is.
LEMMA NotedOpen ==
    ASSUME NEW g \in Guard, NEW f \in Frame, g.block > 0 => ~ g.validating,
           NEW above, NEW open, above = TRUE, open = TRUE, NEW r, r = NoteCapture(g, above, open, f)
    PROVE  WhileOpen(g, r, f)
<1>1. PICK c : c = Captured(g, 1)
  OBVIOUS
<1>2. /\ c \in Guard /\ c.since = (IF g.since + 1 < 3 THEN g.since + 1 ELSE 3)
      /\ c.block = (IF g.block > 1 THEN g.block - 1 ELSE 0) /\ c.validating = g.validating
      /\ c.streak = g.streak
  BY <1>1, CapturedFields DEF Upper, Lower, TestPeriod
<1>3. PICK o : o = TestOpen(c, f.alike)
  OBVIOUS
<1>4. f.alike \in Likeness
  BY DEF Frame
<1>5. /\ o \in Guard /\ o.since < 3
      /\ o.validating => c.validating /\ o.block = c.block
      /\ f.alike = "dominant" /\ o.block = 0 =>
           \/ c.since < 3 /\ o = c
           \/ c.since = 3 /\ o.streak = c.streak + 1 /\ o.since = 0
  BY <1>2, <1>3, <1>4, TestOpenFields DEF TestPeriod
<1>6. r = [guard |-> o, decision |-> IF o.block > 0 THEN "blocked" ELSE "open"]
  <2>1. NoteCapture(g, above, open, f) =
          [guard |-> TestOpen(Captured(g, 1), f.alike),
           decision |-> IF TestOpen(Captured(g, 1), f.alike).block > 0 THEN "blocked"
                        ELSE "open"]
    BY DEF NoteCapture, Decide, Verdict
  <2>2. QED BY <1>1, <1>3, <2>1
<1>7. g.since \in 0..3 /\ g.block \in Nat /\ o.block \in Nat
  BY <1>5, GuardFields, BoundsAreNat
<1>8. r.guard = o /\ r.decision = IF o.block > 0 THEN "blocked" ELSE "open"
  <2>1. PICK d : d = IF o.block > 0 THEN "blocked" ELSE "open"
    OBVIOUS
  <2>2. r = [guard |-> o, decision |-> d]
    BY <1>6, <2>1
  <2>3. QED BY <2>1, <2>2
<1>9. QED BY <1>2, <1>5, <1>7, <1>8 DEF WhileOpen

\* A judged frame with the gate closed: blocked, held back, or let through; a frame like
\* the playout passes only before the next test.
WhileClosed(g, r, f) ==
    /\ r.guard \in Guard
    /\ r.guard.block > 0 => ~ r.guard.validating
    /\ \/ r.decision = "blocked" /\ g.block > 1 /\ r.guard.block = g.block - 1
       \/ r.decision = "blocked" /\ f.alike # "none"
       \/ r.decision = "open"
       \/ /\ r.decision = "hold" /\ g.block <= 1
          /\ r.guard.validating /\ r.guard.block = 0
          /\ r.guard.age = (IF g.validating THEN g.age + 1 ELSE 0)
          /\ r.guard.age < ValidateFrames
    /\ f.alike # "none" /\ ~ f.silent /\ r.decision # "blocked" =>
         g.since < 2 /\ r.guard.since = g.since + 1

\* And so it is.
LEMMA NotedClosed ==
    ASSUME NEW g \in Guard, NEW f \in Frame, g.block > 0 => ~ g.validating,
           NEW above, NEW open, above = TRUE, open = FALSE, NEW r, r = NoteCapture(g, above, open, f)
    PROVE  WhileClosed(g, r, f)
<1>1. PICK c1 : c1 = Captured(g, 1)
  OBVIOUS
<1>2. /\ c1 \in Guard /\ c1.since = (IF g.since + 1 < 3 THEN g.since + 1 ELSE 3)
      /\ c1.block = (IF g.block > 1 THEN g.block - 1 ELSE 0) /\ c1.validating = g.validating
      /\ c1.age = IF g.validating THEN Upper(g.age + 1, ValidateFrames) ELSE 0
  BY <1>1, CapturedFields DEF Upper, Lower, TestPeriod
<1>3. PICK c \in Guard :
        /\ c = [c1 EXCEPT !.streak = 0]
        /\ c.validating = c1.validating /\ c.age = c1.age /\ c.since = c1.since
        /\ c.block = c1.block
  BY <1>2, CalmedFields
<1>4. /\ g.since \in 0..3 /\ g.block \in Nat /\ c.block \in Nat
      /\ g.age \in Nat /\ ValidateFrames \in Nat /\ f.alike \in Likeness
  BY GuardFields, BoundsAreNat DEF Frame
<1>5. r = IF c.block > 0 THEN [guard |-> c, decision |-> "blocked"]
          ELSE IF f.silent THEN [guard |-> c, decision |-> "open"]
          ELSE TestClosed(c, f.alike)
  <2>1. NoteCapture(g, above, open, f) =
          IF [Captured(g, 1) EXCEPT !.streak = 0].block > 0
          THEN [guard |-> [Captured(g, 1) EXCEPT !.streak = 0], decision |-> "blocked"]
          ELSE IF f.silent
          THEN [guard |-> [Captured(g, 1) EXCEPT !.streak = 0], decision |-> "open"]
          ELSE TestClosed([Captured(g, 1) EXCEPT !.streak = 0], f.alike)
    BY DEF NoteCapture, Decide, Verdict
  <2>2. c = [Captured(g, 1) EXCEPT !.streak = 0]
    BY <1>1, <1>3
  <2>3. QED BY <2>1, <2>2
<1>6. CASE c.block > 0
  <2>1. r.guard = c /\ r.decision = "blocked"
    <3>1. r = [guard |-> c, decision |-> "blocked"]
      BY <1>5, <1>6
    <3>2. QED BY <3>1
  <2>2. QED BY <1>2, <1>3, <1>4, <1>6, <2>1 DEF WhileClosed
<1>7. CASE ~ (c.block > 0) /\ f.silent
  <2>1. r.guard = c /\ r.decision = "open"
    <3>1. r = [guard |-> c, decision |-> "open"]
      BY <1>5, <1>7
    <3>2. QED BY <3>1
  <2>2. QED BY <1>2, <1>3, <1>4, <1>7, <2>1 DEF WhileClosed
<1>8. CASE ~ (c.block > 0) /\ ~ f.silent
  <2>1. r = TestClosed(c, f.alike) /\ c.block = 0
    BY <1>4, <1>5, <1>8
  <2>2. /\ r.guard \in Guard
        /\ \/ r.decision = "blocked" /\ f.alike # "none" /\ ~ r.guard.validating
           \/ r.decision = "open" /\ ~ r.guard.validating
           \/ /\ r.decision = "hold" /\ r.guard.validating /\ r.guard.block = 0
              /\ r.guard.age = IF c.validating THEN c.age ELSE 0
              /\ r.guard.age # ValidateFrames
        /\ f.alike # "none" /\ r.decision # "blocked" =>
             c.since # 3 /\ r.guard.since = c.since
    BY <1>4, <2>1, TestClosedFields DEF TestPeriod
  <2>3. QED BY <1>2, <1>3, <1>4, <1>8, <2>1, <2>2, BoundsAreNat DEF Upper, WhileClosed
<1>9. QED BY <1>6, <1>7, <1>8

-----------------------------------------------------------------------------
(* A frame. *)

\* What the guard's verdict on a frame says about its next state.
Noted(r, f) ==
    /\ r.guard \in Guard
    /\ r.decision \in Decision
    /\ r.guard.block > 0 => ~ r.guard.validating
    /\ ~ (guardActive /\ VoiceNow(f)) => r.decision = "open" /\ ~ r.guard.validating
    /\ guardActive /\ VoiceNow(f) /\ talking => WhileOpen(echo, r, f)
    /\ guardActive /\ VoiceNow(f) /\ ~ talking => WhileClosed(echo, r, f)

\* A step of the loop takes one frame and the guard's verdict on it.
LEMMA FrameTaken ==
    ASSUME Types, BlockIsCalm, CaptureFrame
    PROVE  \E f, expired, r :
             /\ f \in Frame /\ expired \in BOOLEAN /\ Noted(r, f) /\ echo' = r.guard
             /\ HoldBack(f, r) \/ Bar(f, r) \/ Pass(f, r, expired)
             /\ Witness(f, talking', r.decision)
<1>1. PICK f \in Frame, expired \in BOOLEAN :
        LET r == NoteCapture(echo, guardActive /\ VoiceNow(f), guardActive /\ talking, f)
        IN  /\ echo' = r.guard
            /\ HoldBack(f, r) \/ Bar(f, r) \/ Pass(f, r, expired)
            /\ Witness(f, talking', r.decision)
  BY DEF CaptureFrame
<1>2. PICK above : above = (guardActive /\ VoiceNow(f))
  OBVIOUS
<1>3. PICK open : open = (guardActive /\ talking)
  OBVIOUS
<1>4. PICK r : r = NoteCapture(echo, above, open, f)
  OBVIOUS
<1>5. /\ echo' = r.guard
      /\ HoldBack(f, r) \/ Bar(f, r) \/ Pass(f, r, expired)
      /\ Witness(f, talking', r.decision)
  BY <1>1, <1>2, <1>3, <1>4
<1>6. echo \in Guard /\ (echo.block > 0 => ~ echo.validating)
  BY DEF Types, BlockIsCalm
<1>7. CASE ~ (guardActive /\ VoiceNow(f))
  <2>1. above = FALSE
    BY <1>2, <1>7
  <2>2. r.guard \in Guard /\ ~ r.guard.validating /\ r.decision = "open"
    BY <1>4, <1>6, <2>1, NotedBelow
  <2>3. Noted(r, f)
    BY <1>7, <2>2 DEF Noted, Decision
  <2>4. QED BY <1>5, <2>3
<1>8. CASE guardActive /\ VoiceNow(f) /\ talking
  <2>1. above = TRUE /\ open = TRUE
    BY <1>2, <1>3, <1>8
  <2>2. WhileOpen(echo, r, f)
    BY <1>4, <1>6, <2>1, NotedOpen
  <2>3. /\ r.guard \in Guard /\ (r.guard.block > 0 => ~ r.guard.validating)
        /\ r.decision \in Decision
    BY <2>2 DEF WhileOpen, Decision
  <2>4. Noted(r, f)
    BY <1>8, <2>2, <2>3 DEF Noted
  <2>5. QED BY <1>5, <2>4
<1>9. CASE guardActive /\ VoiceNow(f) /\ ~ talking
  <2>1. above = TRUE /\ open = FALSE
    BY <1>2, <1>3, <1>9
  <2>2. WhileClosed(echo, r, f)
    BY <1>4, <1>6, <2>1, NotedClosed
  <2>3. /\ r.guard \in Guard /\ (r.guard.block > 0 => ~ r.guard.validating)
        /\ r.decision \in Decision
    BY <2>2 DEF WhileClosed, Decision
  <2>4. Noted(r, f)
    BY <1>9, <2>2, <2>3 DEF Noted
  <2>5. QED BY <1>5, <2>4
<1>10. QED BY <1>7, <1>8, <1>9

\* A step of the loop preserves the invariant.
LEMMA FrameKeeps ==
    ASSUME IInv, CaptureFrame
    PROVE  IInv'
<1>1. PICK f, expired, r :
        /\ f \in Frame /\ expired \in BOOLEAN /\ Noted(r, f) /\ echo' = r.guard
        /\ HoldBack(f, r) \/ Bar(f, r) \/ Pass(f, r, expired)
        /\ Witness(f, talking', r.decision)
  BY FrameTaken DEF IInv
<1>2. /\ looping /\ tx /\ buf' = buf - 1 /\ looping' = (buf' > 0)
      /\ UNCHANGED <<options, tx, keysOf>>
  BY DEF CaptureFrame, IInv, GateSound
<1>3. /\ f.alike \in Likeness /\ f.loud \in BOOLEAN /\ f.silent \in BOOLEAN
      /\ r.decision \in {"open", "hold", "blocked"}
      /\ echo \in Guard /\ echo' \in Guard
  BY <1>1 DEF Frame, Noted, Decision, IInv, Types
<1>4. /\ echo.age \in Nat /\ echo.since \in 0..3 /\ echo.block \in 0..EchoHoldFrames
      /\ echo.streak \in 0..1 /\ echo.validating \in BOOLEAN
      /\ echo'.age \in Nat /\ echo'.since \in 0..3 /\ echo'.block \in 0..EchoHoldFrames
      /\ echo'.streak \in 0..1 /\ echo'.validating \in BOOLEAN
  BY <1>3, GuardFields
<1>5. Types'
  <2>1. /\ mode' \in Mode /\ guard' \in BOOLEAN /\ tx' \in BOOLEAN
        /\ key' \in BOOLEAN /\ pttHeld' \in BOOLEAN /\ releaseDue' \in BOOLEAN
        /\ oldTimers' \in 0..MaxTimers /\ whisperHeld' \in BOOLEAN
        /\ changes' \in 0..MaxChanges
    BY <1>2 DEF IInv, Types, options, keysOf
  <2>2. looping' \in BOOLEAN
    BY <1>2
  <2>3. /\ talking \in BOOLEAN /\ ramp \in 0..3 /\ cue \in BOOLEAN /\ pending \in 0..PendingCap
        /\ held \in Nat /\ echoed \in Nat /\ dominated \in Nat /\ unheard \in Nat
        /\ mixed \in BOOLEAN
    BY DEF IInv, Types, Ramp
  <2>4. /\ held' \in Nat /\ echoed' \in Nat /\ dominated' \in Nat /\ unheard' \in Nat
    BY <1>1, <2>3 DEF Witness, Upper, TestPeriod
  <2>5. mixed' \in BOOLEAN
    BY <1>1 DEF Witness
  <2>6. /\ talking' \in BOOLEAN /\ ramp' \in 0..3 /\ cue' \in BOOLEAN /\ pending' \in 0..PendingCap
    <3>1. CASE HoldBack(f, r)
      <4>1. talking' \in BOOLEAN /\ cue' \in BOOLEAN
        BY <2>3, <3>1 DEF HoldBack
      <4>2. ramp' \in 0..3 /\ pending' \in 0..PendingCap
        BY <2>3, <3>1, BoundsAreNat DEF HoldBack, Upper
      <4>3. QED BY <4>1, <4>2
    <3>2. CASE Bar(f, r)
      <4>1. talking' \in BOOLEAN /\ cue' \in BOOLEAN
        BY <2>3, <3>2 DEF Bar
      <4>2. ramp' \in 0..3 /\ pending' \in 0..PendingCap
        BY <2>3, <3>2, BoundsAreNat DEF Bar, Lower, Ramp
      <4>3. QED BY <4>1, <4>2
    <3>3. CASE Pass(f, r, expired)
      <4>1. talking' \in BOOLEAN /\ cue' \in BOOLEAN
        BY <2>3, <3>3 DEF Pass
      <4>2. ramp' \in 0..3 /\ pending' \in 0..PendingCap
        BY <2>3, <3>3, BoundsAreNat DEF Pass, Lower, Ramp, RampAfter
      <4>3. QED BY <4>1, <4>2
    <3>4. QED BY <1>1, <3>1, <3>2, <3>3
  <2>7. QED BY <1>3, <2>1, <2>2, <2>4, <2>5, <2>6 DEF Types, Ramp
<1>6. BufferEnds'
  <2>1. buf \in 0..2 * MaxBatch /\ buf > 0
    BY <1>2 DEF IInv, BufferEnds
  <2>2. buf' \in 0..2 * MaxBatch
    BY <1>2, <2>1, BoundsAreNat
  <2>3. /\ looping' => buf' > 0
        /\ ~ looping' => ~ (buf' > 0)
    BY <1>2
  <2>4. ~ looping' => buf' = 0
    BY <2>2, <2>3, BoundsAreNat
  <2>5. QED BY <2>2, <2>3, <2>4, BoundsAreNat DEF BufferEnds
<1>7. KeyKnown'
  BY <1>2 DEF IInv, KeyKnown, keysOf
<1>8. GateSound'
  <2>1. (talking => ramp = 0 /\ pending = 0) /\ ramp \in 0..3 /\ tx'
    BY <1>2 DEF IInv, GateSound, RampNeverEatsSpeech, Types, Ramp, options
  <2>2. talking' => ramp' = 0 /\ pending' = 0
    <3>1. CASE HoldBack(f, r)
      <4>1. guardActive /\ VoiceNow(f) /\ ~ talking
        BY <1>1, <3>1 DEF Noted, WhileOpen, HoldBack
      <4>2. QED BY <3>1, <4>1 DEF HoldBack
    <3>2. CASE Bar(f, r)
      BY <3>2 DEF Bar
    <3>3. CASE Pass(f, r, expired)
      <4>1. CASE VoiceNow(f) /\ ~ talking
        BY <3>3, <4>1 DEF Pass, RampAfter, Lower
      <4>2. CASE ~ (VoiceNow(f) /\ ~ talking)
        <5>1. SUFFICES ASSUME talking' PROVE ramp' = 0 /\ pending' = 0
          OBVIOUS
        <5>2. talking /\ ~ (~ VoiceNow(f) /\ talking /\ expired)
          BY <3>3, <4>2, <5>1 DEF Pass
        <5>3. QED BY <2>1, <3>3, <4>2, <5>2 DEF Pass, RampAfter, Lower
      <4>3. QED BY <4>1, <4>2
    <3>4. QED BY <1>1, <3>1, <3>2, <3>3
  <2>3. QED BY <2>1, <2>2 DEF GateSound, RampNeverEatsSpeech, MutedIsMuted
<1>9. BlockIsCalm'
  BY <1>1 DEF Noted, BlockIsCalm
<1>10. EchoedLags'
  <2>1. echoed \in Nat /\ echoed <= echo.since /\ (echo.since = 3 => echoed = 0)
    BY DEF IInv, Types, EchoedLags, TestPeriod
  <2>2. CASE Judged(f) /\ ~ talking /\ r.decision # "blocked" /\ ~ f.silent /\ f.alike # "none"
    <3>1. WhileClosed(echo, r, f)
      BY <1>1, <2>2 DEF Noted, Judged, VoiceNow
    <3>2. echo.since < 2 /\ echo'.since = echo.since + 1
      BY <1>1, <2>2, <3>1 DEF WhileClosed
    <3>3. echoed' = IF echoed + 1 < 3 THEN echoed + 1 ELSE 3
      BY <1>1, <2>2 DEF Witness, Upper, TestPeriod
    <3>4. QED BY <1>4, <2>1, <3>2, <3>3 DEF EchoedLags, TestPeriod
  <2>3. CASE ~ (Judged(f) /\ ~ talking /\ r.decision # "blocked" /\ ~ f.silent
                  /\ f.alike # "none")
    <3>1. echoed' = 0
      BY <1>1, <2>3 DEF Witness
    <3>2. QED BY <1>4, <3>1 DEF EchoedLags
  <2>4. QED BY <2>2, <2>3
<1>11. DominatedLags'
  <2>1. /\ dominated \in Nat /\ dominated <= 3 * echo.streak + echo.since
        /\ (echo.since = 3 => dominated = 0)
    BY DEF IInv, Types, DominatedLags, TestPeriod
  <2>2. CASE Judged(f) /\ talking /\ r.decision # "blocked" /\ f.alike = "dominant"
    <3>1. WhileOpen(echo, r, f)
      BY <1>1, <2>2 DEF Noted, Judged, VoiceNow
    <3>2. r.decision = "open"
      BY <2>2, <3>1 DEF WhileOpen
    <3>3. \/ echo'.since < 3 /\ echo'.since = echo.since + 1 /\ echo'.streak = echo.streak
          \/ echo.since >= 2 /\ echo'.since = 0 /\ echo'.streak = echo.streak + 1
      BY <1>1, <2>2, <3>1, <3>2 DEF WhileOpen
    <3>4. dominated' = dominated + 1
      BY <1>1, <2>2 DEF Witness
    <3>5. QED BY <1>4, <2>1, <3>3, <3>4 DEF DominatedLags, TestPeriod
  <2>3. CASE ~ (Judged(f) /\ talking /\ r.decision # "blocked" /\ f.alike = "dominant")
    <3>1. dominated' = 0
      BY <1>1, <2>3 DEF Witness
    <3>2. QED BY <1>4, <3>1 DEF DominatedLags, TestPeriod
  <2>4. QED BY <2>2, <2>3
<1>12. UnheardLags'
  <2>1. /\ unheard \in Nat
        /\ unheard <= EchoHoldFrames - echo.block + (IF echo.validating THEN echo.age ELSE 0)
        /\ echo.block = 0 /\ ~ echo.validating => unheard = 0
        /\ echo.block > 0 => ~ echo.validating
    BY DEF IInv, Types, UnheardLags, BlockIsCalm
  <2>2. CASE Judged(f) /\ ~ talking' /\ ~ talking /\ f.alike = "none"
    <3>1. WhileClosed(echo, r, f) /\ guardActive /\ VoiceNow(f)
      BY <1>1, <2>2 DEF Noted, Judged, VoiceNow
    <3>2. r.decision # "open"
      BY <1>1, <2>2, <3>1 DEF HoldBack, Bar, Pass
    <3>3. \/ echo.block > 1 /\ echo'.block = echo.block - 1
          \/ /\ echo.block <= 1 /\ echo'.validating /\ echo'.block = 0
             /\ echo'.age = (IF echo.validating THEN echo.age + 1 ELSE 0)
             /\ echo'.age < ValidateFrames
      BY <1>1, <2>2, <3>1, <3>2 DEF WhileClosed
    <3>4. unheard' = unheard + 1
      BY <1>1, <2>2 DEF Witness
    <3>5. CASE echo.block > 1 /\ echo'.block = echo.block - 1
      <4>1. ~ echo'.validating
        BY <1>4, <1>9, <3>5 DEF BlockIsCalm
      <4>2. QED BY <1>4, <2>1, <3>4, <3>5, <4>1, BoundsAreNat DEF UnheardLags, SpeechGetsThrough
    <3>6. CASE /\ echo.block <= 1 /\ echo'.validating /\ echo'.block = 0
               /\ echo'.age = (IF echo.validating THEN echo.age + 1 ELSE 0)
               /\ echo'.age < ValidateFrames
      <4>1. unheard + 1 <= EchoHoldFrames + echo'.age
        <5>1. CASE echo.validating
          BY <1>4, <2>1, <3>6, <5>1, BoundsAreNat
        <5>2. CASE ~ echo.validating
          BY <1>4, <2>1, <3>6, <5>2, BoundsAreNat
        <5>3. QED BY <5>1, <5>2
      <4>2. QED BY <1>4, <2>1, <3>4, <3>6, <4>1, BoundsAreNat DEF UnheardLags, SpeechGetsThrough
    <3>7. QED BY <3>3, <3>5, <3>6
  <2>3. CASE ~ (Judged(f) /\ ~ talking' /\ ~ talking /\ f.alike = "none")
    <3>1. unheard' = 0
      BY <1>1, <2>3 DEF Witness
    <3>2. QED BY <1>4, <3>1, BoundsAreNat DEF UnheardLags, SpeechGetsThrough
  <2>4. QED BY <2>2, <2>3
<1>13. HeldIsValidated'
  <2>1. /\ held \in Nat
        /\ echo.validating => held <= echo.age + 1
        /\ ~ echo.validating => held = 0
    BY DEF IInv, Types, HeldIsValidated
  <2>2. CASE r.decision = "hold"
    <3>1. guardActive /\ VoiceNow(f) /\ ~ talking
      BY <1>1, <2>2 DEF Noted, WhileOpen
    <3>2. WhileClosed(echo, r, f)
      BY <1>1, <3>1 DEF Noted
    <3>3. echo'.validating /\ echo'.age = (IF echo.validating THEN echo.age + 1 ELSE 0)
      BY <1>1, <2>2, <3>2 DEF WhileClosed
    <3>4. held' = held + 1
      BY <1>1, <2>2 DEF Witness
    <3>5. held' <= echo'.age + 1
      BY <1>4, <2>1, <3>3, <3>4
    <3>6. mode' = "voice" /\ guard'
      BY <1>2, <3>1 DEF guardActive, options
    <3>7. QED BY <3>3, <3>5, <3>6 DEF HeldIsValidated
  <2>3. CASE r.decision # "hold"
    <3>1. held' = 0
      BY <1>1, <2>3 DEF Witness
    <3>2. QED BY <1>4, <3>1 DEF HeldIsValidated
  <2>4. QED BY <2>2, <2>3
<1>14. PendingIsHeld'
  <2>1. SUFFICES ASSUME PendingCap >= ValidateFrames, ~ mixed'
                 PROVE  pending' = held'
    BY DEF PendingIsHeld
  <2>2. pending \in 0..PendingCap /\ held \in Nat /\ (~ mixed => pending = held)
    BY <2>1 DEF IInv, Types, PendingIsHeld
  <2>3. mixed => ~ (pending' > 0)
    BY <1>1, <2>1 DEF Witness
  <2>4. pending' \in 0..PendingCap
    BY <1>5 DEF Types
  <2>5. CASE HoldBack(f, r)
    <3>1. r.decision = "hold"
      BY <2>5 DEF HoldBack
    <3>2. guardActive /\ VoiceNow(f) /\ ~ talking
      BY <1>1, <3>1 DEF Noted, WhileOpen
    <3>3. WhileClosed(echo, r, f)
      BY <1>1, <3>2 DEF Noted
    <3>4. /\ echo'.age = (IF echo.validating THEN echo.age + 1 ELSE 0)
          /\ echo'.age < ValidateFrames
      BY <1>1, <3>1, <3>3 DEF WhileClosed
    <3>5. held <= echo'.age
      BY <1>4, <2>2, <3>4 DEF IInv, HeldIsValidated
    <3>6. held' = held + 1 /\ pending' = IF pending + 1 < PendingCap THEN pending + 1 ELSE PendingCap
      BY <1>1, <2>5, <3>1 DEF Witness, HoldBack, Upper
    <3>7. ~ mixed
      BY <2>2, <2>3, <3>6, BoundsAreNat
    <3>8. QED BY <1>4, <2>1, <2>2, <3>4, <3>5, <3>6, <3>7, BoundsAreNat
  <2>6. CASE Bar(f, r)
    BY <1>1, <2>6 DEF Bar, Witness
  <2>7. CASE Pass(f, r, expired)
    <3>1. r.decision # "hold"
      BY <1>1, <2>7 DEF Pass, Noted
    <3>2. held' = 0
      BY <1>1, <3>1 DEF Witness
    <3>3. CASE mixed
      BY <2>3, <2>4, <3>2, <3>3, BoundsAreNat
    <3>4. CASE ~ mixed /\ VoiceNow(f) /\ ~ talking
      BY <2>7, <3>2, <3>4 DEF Pass
    <3>5. CASE ~ mixed /\ VoiceNow(f) /\ talking
      <4>1. pending = 0
        BY <3>5 DEF IInv, GateSound
      <4>2. QED BY <2>7, <3>2, <3>5, <4>1 DEF Pass
    <3>6. CASE ~ mixed /\ ~ VoiceNow(f) /\ guardActive
      BY <2>7, <3>2, <3>6 DEF Pass
    <3>7. CASE ~ mixed /\ ~ VoiceNow(f) /\ ~ guardActive
      <4>1. ~ (mode = "voice" /\ guard)
        BY <3>7 DEF VoiceNow, guardActive
      <4>2. held = 0
        BY <4>1 DEF IInv, HeldIsValidated
      <4>3. pending' = pending
        BY <2>7, <3>7 DEF Pass
      <4>4. QED BY <2>2, <3>2, <3>7, <4>2, <4>3
    <3>8. QED BY <3>3, <3>4, <3>5, <3>6, <3>7
  <2>8. QED BY <1>1, <2>5, <2>6, <2>7
<1>15. QED BY <1>5, <1>6, <1>7, <1>8, <1>9, <1>10, <1>11, <1>12, <1>13, <1>14 DEF IInv

-----------------------------------------------------------------------------
(* The other actions. *)

\* What the invariant says about the guard and about the frames held back.
EchoInv ==
    /\ BlockIsCalm /\ EchoedLags /\ DominatedLags /\ UnheardLags /\ HeldIsValidated
    /\ PendingIsHeld

\* A step that leaves the guard, the list and the options alone keeps it.
LEMMA EchoUntouched ==
    ASSUME IInv, UNCHANGED <<mode, guard, pending, echo, held, mixed, echoed, unheard>>,
           dominated' \in {0, dominated}
    PROVE  EchoInv'
<1>1. echo \in Guard
  BY DEF IInv, Types
<1>2. echo.since \in 0..3 /\ echo.streak \in 0..1
  BY <1>1, GuardFields
<1>3. DominatedLags'
  BY <1>2 DEF IInv, DominatedLags, TestPeriod
<1>4. BlockIsCalm' /\ EchoedLags' /\ HeldIsValidated' /\ PendingIsHeld'
  BY DEF IInv, BlockIsCalm, EchoedLags, HeldIsValidated, PendingIsHeld
<1>5. UnheardLags'
  BY DEF IInv, UnheardLags, SpeechGetsThrough
<1>6. QED BY <1>3, <1>4, <1>5 DEF EchoInv

\* So does a step that starts the counts again.
LEMMA EchoAnew ==
    ASSUME echo' \in Guard, BlockIsCalm', PendingIsHeld',
           held' = 0, echoed' = 0, dominated' = 0, unheard' = 0
    PROVE  EchoInv'
<1>1. /\ echo'.age \in 0..ValidateFrames /\ echo'.since \in 0..3
      /\ echo'.block \in 0..EchoHoldFrames /\ echo'.streak \in 0..1
  BY GuardFields
<1>2. EchoedLags' /\ DominatedLags' /\ HeldIsValidated'
  BY <1>1, BoundsAreNat DEF EchoedLags, DominatedLags, HeldIsValidated, TestPeriod
<1>3. UnheardLags'
  BY <1>1, BoundsAreNat DEF UnheardLags, SpeechGetsThrough
<1>4. QED BY <1>2, <1>3 DEF EchoInv

\* Frames that are heard without being judged leave a calm guard.
LEMMA UnheededCalm ==
    ASSUME echo \in Guard, BlockIsCalm, NEW n \in Nat, Unheeded(n)
    PROVE  echo' \in Guard /\ BlockIsCalm'
<1>1. CASE n > 0
  <2>1. PICK c : c = Captured(echo, n)
    OBVIOUS
  <2>2. PICK u : u = Unjudged(c)
    OBVIOUS
  <2>3. c \in Guard
    BY <2>1, CapturedFields
  <2>4. u \in Guard /\ u.validating = FALSE
    BY <2>2, <2>3, UnjudgedFields
  <2>5. echo' = u
    BY <1>1, <2>1, <2>2 DEF Unheeded
  <2>6. QED BY <2>4, <2>5 DEF BlockIsCalm
<1>2. CASE ~ (n > 0)
  BY <1>2 DEF Unheeded, BlockIsCalm
<1>3. QED BY <1>1, <1>2

\* Closing the gate sends no more than its ramp, and empties the buffer before the ramp ends.
LEMMA Flushed ==
    ASSUME Types, BufferEnds, GateSound, ~ looping, CloseAndFlush
    PROVE  /\ talking' = FALSE /\ ramp' \in 0..3 /\ buf' \in 0..MaxBatch
           /\ ramp' > 0 => buf' = 0
           /\ ~ tx => ramp' = 0
           /\ sent' \in 0..3
<1>1. PICK n \in 0..MaxBatch :
        LET left == IF talking THEN Ramp ELSE ramp
            heard == IF tx /\ left > 0 THEN buf + n ELSE buf
        IN  /\ talking' = FALSE
            /\ sent' = IF tx THEN Upper(heard, left) ELSE 0
            /\ ramp' = left - sent'
            /\ buf' = IF heard - sent' > Overflow /\ left > 0 /\ tx THEN 0 ELSE heard - sent'
  BY DEF CloseAndFlush
<1>2. PICK left : left = IF talking THEN 3 ELSE ramp
  OBVIOUS
<1>3. PICK heard : heard = IF tx /\ left > 0 THEN buf + n ELSE buf
  OBVIOUS
<1>4. /\ talking' = FALSE
      /\ sent' = IF tx THEN (IF heard < left THEN heard ELSE left) ELSE 0
      /\ ramp' = left - sent'
      /\ buf' = IF heard - sent' > 8 /\ left > 0 /\ tx THEN 0 ELSE heard - sent'
  BY <1>1, <1>2, <1>3 DEF Upper, Ramp, Overflow
<1>5. ramp \in 0..3 /\ buf \in 0..MaxBatch /\ MaxBatch \in Nat
  BY BoundsAreNat DEF Types, BufferEnds, Ramp
<1>6. left \in 0..3 /\ (left > 0 => buf = 0) /\ (~ tx => left = 0)
  <2>1. CASE talking
    BY <1>2, <2>1 DEF BufferEnds, GateSound, MutedIsMuted
  <2>2. CASE ~ talking
    BY <1>2, <1>5, <2>2 DEF BufferEnds, GateSound, MutedIsMuted
  <2>3. QED BY <2>1, <2>2
<1>7. heard \in 0..MaxBatch
  BY <1>3, <1>5, <1>6
<1>8. CASE tx
  BY <1>4, <1>6, <1>7, <1>5, <1>8
<1>9. CASE ~ tx
  <2>1. left = 0 /\ heard = buf
    BY <1>3, <1>6, <1>9
  <2>2. sent' = 0 /\ buf' = heard - sent'
    BY <1>4, <1>9
  <2>3. buf' = buf /\ ramp' = 0
    <3>1. ramp' = left - sent'
      BY <1>4
    <3>2. QED BY <1>5, <2>1, <2>2, <3>1
  <2>4. talking' = FALSE
    BY <1>4
  <2>5. QED BY <1>5, <2>2, <2>3, <2>4
<1>10. QED BY <1>8, <1>9

\* The steps of captureTick outside its loop preserve the invariant.
LEMMA TickKeeps ==
    ASSUME IInv, StartLoop \/ TickMuted \/ TickIdle
    PROVE  IInv'
<1>1. echo \in Guard /\ MaxBatch \in Nat /\ buf \in 0..2 * MaxBatch /\ ramp \in 0..3
  BY BoundsAreNat DEF IInv, Types, BufferEnds, Ramp
<1>2. CASE StartLoop
  <2>1. PICK n \in 0..MaxBatch : buf' = buf + n
    BY <1>2 DEF StartLoop
  <2>2. ~ looping /\ buf \in 0..MaxBatch /\ buf' > 0 /\ looping' = TRUE /\ tx
    BY <1>1, <1>2 DEF StartLoop, IInv, BufferEnds
  <2>3. BufferEnds'
    BY <1>1, <2>1, <2>2 DEF BufferEnds
  <2>4. Types' /\ KeyKnown' /\ GateSound'
    BY <1>2, <2>2 DEF StartLoop, IInv, Types, KeyKnown, GateSound, RampNeverEatsSpeech,
                     MutedIsMuted, options, keysOf, history
  <2>5. EchoInv'
    BY <1>2, EchoUntouched DEF StartLoop, options, history
  <2>6. QED BY <2>3, <2>4, <2>5 DEF IInv, EchoInv
<1>3. CASE TickMuted
  <2>1. PICK n \in 1..MaxBatch : Unheeded(buf + n)
    BY <1>3 DEF TickMuted
  <2>2. buf + n \in Nat
    BY <1>1
  <2>3. echo' \in Guard /\ BlockIsCalm'
    BY <1>1, <2>1, <2>2, UnheededCalm DEF IInv
  <2>4. /\ held' = 0 /\ mixed' = FALSE /\ echoed' = 0 /\ dominated' = 0 /\ unheard' = 0
        /\ pending' = 0 /\ ramp' = 0 /\ talking' = FALSE
    BY <1>3 DEF TickMuted, Forgotten, IInv, GateSound, MutedIsMuted, Types
  <2>5. EchoInv'
    BY <2>3, <2>4, EchoAnew DEF PendingIsHeld
  <2>6. KeyKnown' /\ BufferEnds'
    BY <1>1, <1>3, <2>4 DEF TickMuted, IInv, KeyKnown, BufferEnds, keysOf
  <2>7. Types'
    <3>1. /\ pending' \in 0..PendingCap /\ ramp' \in 0..Ramp /\ held' \in Nat /\ echoed' \in Nat
          /\ dominated' \in Nat /\ unheard' \in Nat
      BY <2>4, BoundsAreNat DEF Ramp
    <3>2. mixed' \in BOOLEAN /\ talking' \in BOOLEAN /\ cue' \in BOOLEAN
      BY <1>3, <2>4 DEF TickMuted
    <3>3. QED BY <1>3, <2>3, <3>1, <3>2 DEF TickMuted, IInv, Types, options, keysOf
  <2>8. GateSound'
    BY <1>3, <2>4 DEF TickMuted, IInv, GateSound, RampNeverEatsSpeech, MutedIsMuted
  <2>9. QED BY <2>5, <2>6, <2>7, <2>8 DEF IInv, EchoInv
<1>4. CASE TickIdle
  <2>1. PICK n \in 0..MaxBatch :
          LET left == IF talking THEN Ramp ELSE ramp
          IN  /\ sent' = Upper(buf + n, left)
              /\ ramp' = Lower(left, sent')
              /\ Unheeded(buf + n - sent')
              /\ cue' \in IF buf + n > sent' THEN BOOLEAN ELSE {cue}
    BY <1>4 DEF TickIdle
  <2>2. PICK left : left = IF talking THEN Ramp ELSE ramp
    OBVIOUS
  <2>3. left \in 0..3
    BY <1>1, <2>2 DEF Ramp
  <2>4. buf + n - sent' \in Nat /\ ramp' \in 0..3
    BY <1>1, <2>1, <2>2, <2>3 DEF Upper, Lower
  <2>5. echo' \in Guard /\ BlockIsCalm'
    BY <1>1, <2>1, <2>4, UnheededCalm DEF IInv
  <2>6. /\ held' = 0 /\ mixed' = mixed /\ echoed' = 0 /\ dominated' = 0 /\ unheard' = 0
        /\ pending' = pending /\ talking' = FALSE /\ mode = "push" /\ tx /\ tx'
    BY <1>4 DEF TickIdle
  <2>7. PendingIsHeld'
    BY <2>6 DEF IInv, PendingIsHeld, HeldIsValidated
  <2>8. EchoInv'
    BY <2>5, <2>6, <2>7, EchoAnew
  <2>9. cue' \in BOOLEAN
    BY <2>1 DEF IInv, Types
  <2>10. KeyKnown' /\ BufferEnds'
    BY <1>1, <1>4 DEF TickIdle, IInv, KeyKnown, BufferEnds, keysOf
  <2>11. Types'
    <3>1. /\ ramp' \in 0..Ramp /\ held' \in Nat /\ echoed' \in Nat
          /\ dominated' \in Nat /\ unheard' \in Nat
      BY <2>4, <2>6 DEF Ramp
    <3>2. mixed' \in BOOLEAN /\ talking' \in BOOLEAN /\ pending' \in 0..PendingCap
      BY <2>6 DEF IInv, Types
    <3>3. QED BY <1>4, <2>5, <2>9, <3>1, <3>2 DEF TickIdle, IInv, Types, options, keysOf
  <2>12. GateSound'
    BY <1>4, <2>6 DEF TickIdle, GateSound, RampNeverEatsSpeech, MutedIsMuted
  <2>13. QED BY <2>8, <2>10, <2>11, <2>12 DEF IInv, EchoInv
<1>5. QED BY <1>2, <1>3, <1>4

\* What a step that closes the gate, or leaves it alone, does to the invariant.
LEMMA GateKeeps ==
    ASSUME IInv, ~ looping,
           CloseAndFlush \/ UNCHANGED <<talking, ramp, buf>>,
           UNCHANGED <<options, tx, looping, cue, pending, echo, held, mixed, echoed, unheard>>,
           dominated' \in {0, dominated},
           oldTimers' \in 0..MaxTimers, {key', pttHeld', releaseDue', whisperHeld'} \subseteq BOOLEAN,
           KeyKnown'
    PROVE  IInv'
<1>1. EchoInv'
  BY EchoUntouched DEF options
<1>2. /\ talking' \in BOOLEAN /\ ramp' \in 0..3 /\ (talking' => talking) /\ BufferEnds'
      /\ (talking' => ramp' = 0) /\ (~ tx => ramp' = 0)
  <2>1. CASE CloseAndFlush
    <3>1. /\ talking' = FALSE /\ ramp' \in 0..3 /\ buf' \in 0..MaxBatch
          /\ ramp' > 0 => buf' = 0
          /\ ~ tx => ramp' = 0
      BY <2>1, Flushed DEF IInv
    <3>2. buf' \in 0..2 * MaxBatch /\ buf' <= MaxBatch
      BY <3>1, BoundsAreNat
    <3>3. BufferEnds'
      BY <3>1, <3>2 DEF BufferEnds
    <3>4. QED BY <3>1, <3>3
  <2>2. CASE UNCHANGED <<talking, ramp, buf>>
    BY <2>2 DEF IInv, Types, BufferEnds, GateSound, RampNeverEatsSpeech, MutedIsMuted, Ramp
  <2>3. QED BY <2>1, <2>2
<1>3. GateSound'
  BY <1>2 DEF IInv, GateSound, RampNeverEatsSpeech, MutedIsMuted
<1>4. Types'
  <2>1. dominated' \in Nat
    BY DEF IInv, Types
  <2>2. QED BY <1>2, <2>1 DEF IInv, Types, options, Ramp
<1>5. QED BY <1>1, <1>2, <1>3, <1>4 DEF IInv, EchoInv

\* The keys preserve the invariant.
LEMMA KeysKeep ==
    ASSUME IInv, \/ PressPtt \/ ReleasePtt \/ ReleasePttLater \/ ReleaseTimer \/ OldTimer
                 \/ PressWhisper \/ ReleaseWhisper
    PROVE  IInv'
<1>1. /\ oldTimers \in 0..MaxTimers /\ MaxTimers \in Nat
      /\ {key, pttHeld, releaseDue, whisperHeld} \subseteq BOOLEAN
      /\ pttHeld = (key \/ releaseDue) /\ (releaseDue => ~ key)
  BY BoundsAreNat DEF IInv, Types, KeyKnown
<1>2. CASE PressPtt
  <2>1. oldTimers' \in 0..MaxTimers
    BY <1>1, <1>2 DEF PressPtt
  <2>2. {key', pttHeld', releaseDue', whisperHeld'} \subseteq BOOLEAN /\ KeyKnown'
    BY <1>1, <1>2 DEF PressPtt, KeyKnown
  <2>3. QED BY <1>2, <2>1, <2>2, GateKeeps DEF PressPtt, history
<1>3. CASE ReleasePtt
  <2>1. oldTimers' \in 0..MaxTimers
    BY <1>1, <1>3 DEF ReleasePtt
  <2>2. {key', pttHeld', releaseDue', whisperHeld'} \subseteq BOOLEAN /\ KeyKnown'
    BY <1>1, <1>3 DEF ReleasePtt, KeyKnown
  <2>3. QED BY <1>3, <2>1, <2>2, GateKeeps DEF ReleasePtt
<1>4. CASE ReleasePttLater
  <2>1. oldTimers' \in 0..MaxTimers
    BY <1>1, <1>4 DEF ReleasePttLater
  <2>2. {key', pttHeld', releaseDue', whisperHeld'} \subseteq BOOLEAN /\ KeyKnown'
    BY <1>1, <1>4 DEF ReleasePttLater, KeyKnown
  <2>3. QED BY <1>4, <2>1, <2>2, GateKeeps DEF ReleasePttLater, history
<1>5. CASE ReleaseTimer
  <2>1. oldTimers' \in 0..MaxTimers
    BY <1>1, <1>5 DEF ReleaseTimer
  <2>2. {key', pttHeld', releaseDue', whisperHeld'} \subseteq BOOLEAN /\ KeyKnown'
    BY <1>1, <1>5 DEF ReleaseTimer, KeyKnown
  <2>3. QED BY <1>5, <2>1, <2>2, GateKeeps DEF ReleaseTimer
<1>6. CASE OldTimer
  <2>1. oldTimers' \in 0..MaxTimers
    BY <1>1, <1>6 DEF OldTimer
  <2>2. {key', pttHeld', releaseDue', whisperHeld'} \subseteq BOOLEAN /\ KeyKnown'
    BY <1>1, <1>6 DEF OldTimer, KeyKnown
  <2>3. QED BY <1>6, <2>1, <2>2, GateKeeps DEF OldTimer, history
<1>7. CASE PressWhisper
  <2>1. oldTimers' \in 0..MaxTimers
    BY <1>1, <1>7 DEF PressWhisper
  <2>2. {key', pttHeld', releaseDue', whisperHeld'} \subseteq BOOLEAN /\ KeyKnown'
    BY <1>1, <1>7 DEF PressWhisper, KeyKnown
  <2>3. QED BY <1>7, <2>1, <2>2, GateKeeps DEF PressWhisper, history
<1>8. CASE ReleaseWhisper
  <2>1. oldTimers' \in 0..MaxTimers
    BY <1>1, <1>8 DEF ReleaseWhisper
  <2>2. {key', pttHeld', releaseDue', whisperHeld'} \subseteq BOOLEAN /\ KeyKnown'
    BY <1>1, <1>8 DEF ReleaseWhisper, KeyKnown
  <2>3. CloseAndFlush \/ UNCHANGED <<talking, ramp, buf>>
    BY <1>8 DEF ReleaseWhisper
  <2>4. QED BY <1>8, <2>1, <2>2, <2>3, GateKeeps DEF ReleaseWhisper
<1>9. QED BY <1>2, <1>3, <1>4, <1>5, <1>6, <1>7, <1>8

\* The mute, the playout and the options preserve the invariant.
LEMMA SettingsKeep ==
    ASSUME IInv, Mute \/ Unmute \/ NotePlayout \/ ChangeOptions
    PROVE  IInv'
<1>1. /\ echo \in Guard /\ echo.since \in 0..3 /\ echo.streak \in 0..1
      /\ echo.validating \in BOOLEAN /\ echo.age \in 0..ValidateFrames
      /\ echo.block \in 0..EchoHoldFrames
  BY GuardFields DEF IInv, Types
<1>2. CASE Mute
  <2>1. /\ held' = 0 /\ mixed' = FALSE /\ echoed' = 0 /\ dominated' = 0 /\ unheard' = 0
        /\ pending' = 0 /\ ramp' = 0 /\ talking' = FALSE /\ cue' = FALSE /\ tx' = FALSE
        /\ echo' = echo /\ ~ looping /\ ~ looping' /\ buf' = buf
    BY <1>2 DEF Mute, Forgotten
  <2>2. EchoInv'
    BY <1>1, <2>1, EchoAnew DEF IInv, BlockIsCalm, PendingIsHeld
  <2>3. BufferEnds'
    BY <2>1 DEF IInv, BufferEnds
  <2>4. GateSound' /\ KeyKnown'
    BY <1>2, <2>1 DEF Mute, IInv, GateSound, RampNeverEatsSpeech, MutedIsMuted, KeyKnown, keysOf
  <2>5. /\ pending' \in 0..PendingCap /\ ramp' \in 0..Ramp /\ held' \in Nat /\ echoed' \in Nat
        /\ dominated' \in Nat /\ unheard' \in Nat
    BY <2>1, BoundsAreNat DEF Ramp
  <2>6. Types'
    BY <1>2, <2>1, <2>5 DEF Mute, IInv, Types, options, keysOf
  <2>7. QED BY <2>2, <2>3, <2>4, <2>6 DEF IInv, EchoInv
<1>3. CASE Unmute
  <2>1. /\ pending = 0 /\ pending' = 0 /\ ramp = 0 /\ ramp' = 0 /\ tx' = TRUE
        /\ UNCHANGED <<options, keysOf, buf, looping, talking, cue, echo, history>>
    BY <1>3 DEF Unmute, IInv, GateSound, MutedIsMuted
  <2>2. EchoInv'
    BY <2>1, EchoUntouched DEF options, history
  <2>3. BufferEnds' /\ GateSound' /\ KeyKnown'
    BY <2>1 DEF IInv, BufferEnds, GateSound, RampNeverEatsSpeech, MutedIsMuted, KeyKnown, keysOf
  <2>4. Types'
    BY <2>1 DEF IInv, Types, options, keysOf, history
  <2>5. QED BY <2>2, <2>3, <2>4 DEF IInv, EchoInv
<1>4. CASE NotePlayout
  <2>1. /\ echo.since = 3 /\ echo.validating
        /\ UNCHANGED <<options, tx, keysOf, buf, looping, talking, ramp, cue, pending, history>>
    BY <1>4 DEF NotePlayout, TestPeriod
  <2>2. PICK h : h = [echo EXCEPT !.since = 0]
    OBVIOUS
  <2>3. echo' = h
    BY <1>4, <2>2 DEF NotePlayout
  <2>4. /\ h.validating = echo.validating /\ h.age = echo.age /\ h.block = echo.block
        /\ h.streak = echo.streak /\ h.since = 0 /\ h = Fields(h)
    BY <1>1, <2>2 DEF Guard, Fields
  <2>5. h \in Guard
    BY <1>1, <2>4, GuardMade
  <2>6. echoed = 0 /\ dominated = 0
    BY <2>1 DEF IInv, EchoedLags, DominatedLags, TestPeriod
  <2>7. EchoedLags' /\ DominatedLags'
    BY <1>1, <2>1, <2>3, <2>4, <2>6 DEF EchoedLags, DominatedLags, TestPeriod, history
  <2>8. BlockIsCalm' /\ UnheardLags' /\ HeldIsValidated' /\ PendingIsHeld'
    BY <2>1, <2>3, <2>4 DEF IInv, BlockIsCalm, UnheardLags, SpeechGetsThrough, HeldIsValidated,
                            PendingIsHeld, history, options
  <2>9. BufferEnds' /\ GateSound' /\ KeyKnown'
    BY <2>1 DEF IInv, BufferEnds, GateSound, RampNeverEatsSpeech, MutedIsMuted, KeyKnown, keysOf
  <2>10. Types'
    BY <2>1, <2>3, <2>5 DEF IInv, Types, options, keysOf, history
  <2>11. QED BY <2>7, <2>8, <2>9, <2>10 DEF IInv
<1>5. CASE ChangeOptions
  <2>1. /\ mode' \in Mode /\ guard' \in BOOLEAN /\ changes < MaxChanges /\ changes' = changes + 1
        /\ mixed' = (pending > 0)
        /\ held' = 0 /\ echoed' = 0 /\ dominated' = 0 /\ unheard' = 0
        /\ UNCHANGED <<tx, keysOf, buf, looping, talking, ramp, cue, pending, echo>>
    BY <1>5 DEF ChangeOptions
  <2>2. pending \in 0..PendingCap /\ changes \in 0..MaxChanges /\ BlockIsCalm
    BY DEF IInv, Types
  <2>3. PendingIsHeld'
    <3>1. SUFFICES ASSUME ~ mixed' PROVE pending' = 0
      BY <2>1 DEF PendingIsHeld
    <3>2. ~ (pending > 0)
      BY <2>1, <3>1
    <3>3. QED BY <2>1, <2>2, <3>2, BoundsAreNat
  <2>4. EchoInv'
    BY <1>1, <2>1, <2>2, <2>3, EchoAnew DEF BlockIsCalm
  <2>5. BufferEnds' /\ GateSound' /\ KeyKnown'
    BY <2>1 DEF IInv, BufferEnds, GateSound, RampNeverEatsSpeech, MutedIsMuted, KeyKnown, keysOf
  <2>6. changes' \in 0..MaxChanges /\ mixed' \in BOOLEAN
    BY <2>1, <2>2, BoundsAreNat
  <2>7. Types'
    BY <1>1, <2>1, <2>6 DEF IInv, Types, keysOf
  <2>8. QED BY <2>4, <2>5, <2>7 DEF IInv, EchoInv
<1>6. QED BY <1>2, <1>3, <1>4, <1>5

\* Nothing happens.
LEMMA StutterKeeps ==
    ASSUME IInv, UNCHANGED vars
    PROVE  IInv'
<1>1. EchoInv'
  BY EchoUntouched DEF vars, options, history
<1>2. Types' /\ BufferEnds'
  BY DEF IInv, Types, BufferEnds, vars, options, keysOf, history
<1>3. GateSound' /\ KeyKnown'
  BY DEF IInv, GateSound, RampNeverEatsSpeech, MutedIsMuted, KeyKnown, vars, keysOf
<1>4. QED BY <1>1, <1>2, <1>3 DEF IInv, EchoInv

-----------------------------------------------------------------------------
(* The theorems. *)

\* The invariant holds initially.
LEMMA InitHolds ==
    ASSUME Init
    PROVE  IInv
<1>1. PICK h : h = FreshGuard
  OBVIOUS
<1>2. /\ h.validating = FALSE /\ h.age = 0 /\ h.since = 0 /\ h.block = 0 /\ h.streak = 0
      /\ h = Fields(h)
  BY <1>1 DEF FreshGuard, Fields
<1>3. h \in Guard
  <2>1. h.validating \in BOOLEAN
    BY <1>2
  <2>2. /\ h.age \in 0..ValidateFrames /\ h.since \in 0..3
        /\ h.block \in 0..EchoHoldFrames /\ h.streak \in 0..1
    BY <1>2, BoundsAreNat
  <2>3. QED BY <1>2, <2>1, <2>2, GuardMade
<1>4. echo = h
  BY <1>1 DEF Init
<1>5. BlockIsCalm /\ EchoedLags /\ DominatedLags /\ HeldIsValidated /\ PendingIsHeld
  BY <1>2, <1>4 DEF Init, BlockIsCalm, EchoedLags, DominatedLags, HeldIsValidated, PendingIsHeld,
                    TestPeriod
<1>6. UnheardLags
  BY <1>2, <1>4, BoundsAreNat DEF Init, UnheardLags, SpeechGetsThrough
<1>7. BufferEnds /\ KeyKnown /\ GateSound
  <2>1. BufferEnds
    BY BoundsAreNat DEF Init, BufferEnds
  <2>2. KeyKnown
    BY DEF Init, KeyKnown
  <2>3. GateSound
    BY DEF Init, GateSound, RampNeverEatsSpeech, MutedIsMuted
  <2>4. QED BY <2>1, <2>2, <2>3
<1>8. Types
  <2>1. /\ oldTimers \in 0..MaxTimers /\ ramp \in 0..Ramp /\ pending \in 0..PendingCap
        /\ changes \in 0..MaxChanges
    BY BoundsAreNat DEF Init, Ramp
  <2>2. QED BY <1>3, <1>4, <2>1 DEF Init, Types
<1>9. QED BY <1>5, <1>6, <1>7, <1>8 DEF IInv

\* The invariant of the gate, the keys and the echo guard is inductive.
THEOREM Inductive == Spec => []IInv
<1>1. Init => IInv
  BY InitHolds
<1>2. IInv /\ [Next]_vars => IInv'
  <2>1. SUFFICES ASSUME IInv, [Next]_vars PROVE IInv'
    OBVIOUS
  <2>2. CASE CaptureFrame
    BY <2>1, <2>2, FrameKeeps
  <2>3. CASE StartLoop \/ TickMuted \/ TickIdle
    BY <2>1, <2>3, TickKeeps
  <2>4. CASE \/ PressPtt \/ ReleasePtt \/ ReleasePttLater \/ ReleaseTimer \/ OldTimer
             \/ PressWhisper \/ ReleaseWhisper
    BY <2>1, <2>4, KeysKeep
  <2>5. CASE Mute \/ Unmute \/ NotePlayout \/ ChangeOptions
    BY <2>1, <2>5, SettingsKeep
  <2>6. CASE UNCHANGED vars
    BY <2>1, <2>6, StutterKeeps
  <2>7. QED BY <2>1, <2>2, <2>3, <2>4, <2>5, <2>6 DEF Next
<1>3. QED BY <1>1, <1>2, PTL DEF Spec

\* A step sends at most the frames held back, the present one, or what is left of a ramp.
LEMMA SentFits ==
    ASSUME IInv, [Next]_vars, sent \in 0..PendingCap + Ramp
    PROVE  sent' \in 0..PendingCap + Ramp
<1>1. /\ pending \in 0..PendingCap /\ ramp \in 0..3 /\ buf \in 0..2 * MaxBatch
      /\ PendingCap \in Nat /\ MaxBatch \in Nat
  BY BoundsAreNat DEF IInv, Types, BufferEnds, Ramp
<1>2. CASE CaptureFrame
  <2>1. PICK f, expired, r :
          HoldBack(f, r) \/ Bar(f, r) \/ Pass(f, r, expired)
    BY <1>2, FrameTaken DEF IInv
  <2>2. CASE HoldBack(f, r)
    BY <1>1, <2>2 DEF HoldBack, Ramp
  <2>3. CASE Bar(f, r)
    BY <1>1, <2>3 DEF Bar, Upper, Ramp
  <2>4. CASE Pass(f, r, expired)
    BY <1>1, <2>4 DEF Pass, Ramp
  <2>5. QED BY <2>1, <2>2, <2>3, <2>4
<1>3. CASE TickIdle
  <2>1. PICK n \in 0..MaxBatch : sent' = Upper(buf + n, IF talking THEN Ramp ELSE ramp)
    BY <1>3 DEF TickIdle
  <2>2. QED BY <1>1, <2>1 DEF Upper, Ramp
<1>4. CASE ~ looping /\ CloseAndFlush
  <2>1. sent' \in 0..3
    BY <1>4, Flushed DEF IInv
  <2>2. QED BY <1>1, <2>1 DEF Ramp
<1>5. CASE sent' = 0
  BY <1>1, <1>5 DEF Ramp
<1>6. CASE UNCHANGED vars
  BY <1>6 DEF vars
<1>7. CASE ReleaseWhisper
  BY <1>4, <1>5, <1>7 DEF ReleaseWhisper
<1>8. QED
  BY <1>2, <1>3, <1>4, <1>5, <1>6, <1>7 DEF Next, StartLoop, TickMuted, PressPtt, ReleasePtt,
     ReleasePttLater, ReleaseTimer, OldTimer, PressWhisper, Mute, Unmute, NotePlayout,
     ChangeOptions

\* Every variable keeps its type: in particular the rest of the buffer stays within two
\* deliveries of the device.
THEOREM TypeCorrect == Spec => []TypeOK
<1>1. Init => sent \in 0..PendingCap + Ramp
  BY BoundsAreNat DEF Init, Ramp
<1>2. IInv /\ sent \in 0..PendingCap + Ramp => TypeOK
  <2>1. SUFFICES ASSUME IInv, sent \in 0..PendingCap + Ramp PROVE TypeOK
    OBVIOUS
  <2>2. echo \in Guard /\ echoed \in Nat
    BY <2>1 DEF IInv, Types
  <2>3. echo.since \in 0..3
    BY <2>2, GuardFields
  <2>4. echoed \in 0..TestPeriod
    BY <2>1, <2>2, <2>3 DEF IInv, EchoedLags, TestPeriod
  <2>5. QED BY <2>1, <2>4 DEF IInv, Types, BufferEnds, TypeOK
<1>3. IInv /\ [Next]_vars /\ sent \in 0..PendingCap + Ramp => (sent \in 0..PendingCap + Ramp)'
  BY SentFits
<1>4. QED BY <1>1, <1>2, <1>3, Inductive, PTL DEF Spec

\* No timer of an earlier release cuts a new press (setPttHeld's generations).
THEOREM KeyHolds == Spec => []PttFollowsKey
<1>1. IInv => PttFollowsKey
  BY DEF IInv, KeyKnown, PttFollowsKey
<1>2. QED BY <1>1, Inductive, PTL

\* No speech is sent under an old closing ramp.
THEOREM SpeechIsWhole == Spec => []RampNeverEatsSpeech
<1>1. IInv => RampNeverEatsSpeech
  BY DEF IInv, GateSound
<1>2. QED BY <1>1, Inductive, PTL

\* A mute leaves nothing to be sent or announced when it ends.
THEOREM MuteIsComplete == Spec => []MutedIsMuted
<1>1. IInv => MutedIsMuted
  BY DEF IInv, GateSound
<1>2. QED BY <1>1, Inductive, PTL

\* However long a validation or a block is, a test falls on one of three echoes in a row.
THEOREM EchoesAreCaught == Spec => []EchoIsCaught
<1>1. IInv => EchoIsCaught
  <2>1. SUFFICES ASSUME IInv PROVE EchoIsCaught
    OBVIOUS
  <2>2. echo \in Guard /\ echoed \in Nat
    BY <2>1 DEF IInv, Types
  <2>3. echo.since \in 0..3
    BY <2>2, GuardFields
  <2>4. QED BY <2>1, <2>2, <2>3 DEF IInv, EchoedLags, EchoIsCaught, TestPeriod
<1>2. QED BY <1>1, Inductive, PTL

\* An echo that dominates loses an open gate within two test periods.
THEOREM EchoesAreRevoked == Spec => []EchoIsRevoked
<1>1. IInv => EchoIsRevoked
  <2>1. SUFFICES ASSUME IInv PROVE EchoIsRevoked
    OBVIOUS
  <2>2. echo \in Guard /\ dominated \in Nat
    BY <2>1 DEF IInv, Types
  <2>3. echo.since \in 0..3 /\ echo.streak \in 0..1
    BY <2>2, GuardFields
  <2>4. dominated <= 3 * echo.streak + echo.since /\ (echo.since = 3 => dominated = 0)
    BY <2>1 DEF IInv, DominatedLags, TestPeriod
  <2>5. QED BY <2>2, <2>3, <2>4 DEF EchoIsRevoked, TestPeriod, RevokeStreak
<1>2. QED BY <1>1, Inductive, PTL

\* Speech unlike the playout is heard after a block and a validation at the latest.
THEOREM SpeechIsHeard == Spec => []SpeechGetsThrough
<1>1. IInv => SpeechGetsThrough
  BY DEF IInv, UnheardLags
<1>2. QED BY <1>1, Inductive, PTL

\* If the list of held frames is as long as a validation, an opening gate sends all that
\* was held back of the utterance, and nothing else.
THEOREM BackfillIsWhole ==
    ASSUME PendingCap >= ValidateFrames
    PROVE  Spec => BackfillIsTheUtterance
<1>1. IInv /\ [Next]_vars => [talking' /\ ~ talking /\ ~ mixed => sent' = held + 1]_vars
  <2>1. SUFFICES ASSUME IInv, Next, talking', ~ talking, ~ mixed
                 PROVE  sent' = held + 1
    OBVIOUS
  <2>2. CaptureFrame
    BY <2>1 DEF Next, StartLoop, TickMuted, TickIdle, PressPtt, ReleasePtt, ReleasePttLater,
                ReleaseTimer, OldTimer, PressWhisper, ReleaseWhisper, Mute, Unmute, NotePlayout,
                ChangeOptions, CloseAndFlush
  <2>3. PICK f, expired, r :
          /\ f \in Frame /\ expired \in BOOLEAN /\ Noted(r, f) /\ echo' = r.guard
          /\ HoldBack(f, r) \/ Bar(f, r) \/ Pass(f, r, expired)
          /\ Witness(f, talking', r.decision)
    BY <2>1, <2>2, FrameTaken DEF IInv
  <2>4. Pass(f, r, expired)
    BY <2>1, <2>3 DEF HoldBack, Bar
  <2>5. VoiceNow(f)
    BY <2>1, <2>4 DEF Pass
  <2>6. sent' = pending + 1
    BY <2>1, <2>4, <2>5 DEF Pass
  <2>7. pending = held
    BY <2>1 DEF IInv, PendingIsHeld
  <2>8. QED BY <2>6, <2>7
<1>2. QED BY <1>1, Inductive, PTL DEF Spec, BackfillIsTheUtterance
=============================================================================
