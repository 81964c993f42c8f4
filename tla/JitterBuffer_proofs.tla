------------------------- MODULE JitterBuffer_proofs -------------------------
(***************************************************************************)
(* Proofs about JitterBuffer for all sets of voices and streams and all     *)
(* bounds.  The type invariant is inductive; the action properties follow    *)
(* from it.                                                                  *)
(***************************************************************************)
EXTENDS JitterBuffer, FiniteSetTheorems, TLAPS

USE PlaybackAssumption

(* The ranges that the bounds of frames define. *)
LEMMA Bounds ==
    /\ TargetMin \in Nat /\ TargetMin > 0
    /\ TargetMax \in Nat /\ TargetMin =< TargetMax
    /\ ShedCeiling \in Nat /\ ShedFloor \in Nat /\ ShedFloor > 0 /\ ShedFloor =< ShedCeiling
    /\ VoiceCap \in Nat /\ ShedCeiling =< VoiceCap
    /\ StreamStart \in Nat /\ StreamStart > 0
    /\ StreamFloor \in Nat /\ StreamCeiling \in Nat /\ StreamFloor =< StreamCeiling
    /\ Grace \in Nat /\ StreamGap \in Nat /\ PluginCap \in Nat /\ SinkFrames \in Nat
    /\ MaxChunk \in Nat
  OBVIOUS

(* A set of voices has a number of members, and its subsets have no more. *)
LEMMA VoiceCount ==
  ASSUME NEW S \in SUBSET Voices, NEW R \in SUBSET S
  PROVE  Cardinality(S) \in Nat /\ Cardinality(R) \in Nat /\ Cardinality(R) =< Cardinality(S)
<1>1. IsFiniteSet(S)
  BY FS_Subset
<1>2. IsFiniteSet(R) /\ Cardinality(R) =< Cardinality(S)
  BY <1>1, FS_Subset
<1> QED
  BY <1>1, <1>2, FS_CardinalityType

(* The target grows within its range, and more with more causes. *)
LEMMA GrownInRange ==
  ASSUME target \in TargetMin..TargetMax, NEW m \in Nat, NEW n \in Nat, m =< n
  PROVE  Grown(n) \in TargetMin..TargetMax /\ Grown(m) =< Grown(n)
  BY Bounds DEF Grown, Least

(* Ageing keeps moments in their range. *)
LEMMA AgedInRange ==
  ASSUME NEW D, NEW bound \in Nat, NEW f \in [D -> -1..bound + 1]
  PROVE  Aged(f, bound) \in [D -> -1..bound + 1]
<1>1. \A x \in D : f[x] \in -1..bound + 1
  OBVIOUS
<1> QED
  BY <1>1 DEF Aged, Never, Least

LEMMA InitType == Init => TypeOK
<1> SUFFICES ASSUME Init PROVE TypeOK
  OBVIOUS
<1>1. TargetFirst \in TargetMin..TargetMax
  <2>1. TargetFirst \in Nat /\ TargetMin =< TargetFirst /\ TargetFirst =< TargetMax
    OBVIOUS
  <2> QED
    BY <2>1, Bounds
<1>2. queue \in [Voices -> -1..VoiceCap] /\ dry \in [Voices -> -1..Grace + 1]
  BY Bounds DEF Init, Absent, Never
<1>3. stream \in [Streams -> 0..StreamCeiling] /\ silence \in [Streams -> -1..StreamGap + 1]
  BY Bounds DEF Init, Never
<1>4. plugin \in 0..PluginCap /\ sink \in 0..SinkFrames /\ rounds \in {0, SinkFrames - sink}
  BY Bounds DEF Init
<1>5. target \in TargetMin..TargetMax
  BY <1>1 DEF Init
<1>6. primed \subseteq Voices /\ started \subseteq Streams
      /\ trouble \in BOOLEAN /\ speakers \in BOOLEAN
  BY DEF Init
<1> QED
  BY <1>2, <1>3, <1>4, <1>5, <1>6 DEF TypeOK

(* A round keeps the type: what plays has a frame to give, the target grows   *)
(* within its range, and the room left is the device's.                       *)
LEMMA RoundType ==
  ASSUME TypeOK, Round
  PROVE  TypeOK'
<1> USE DEF TypeOK
<1>1. queue' \in [Voices -> -1..VoiceCap]
  <2>1. ASSUME NEW v \in Playing
        PROVE  Shed(queue[v]) - 1 \in -1..VoiceCap
    BY <2>1, Bounds DEF Playing, Primes, Shed
  <2>2. \A v \in Voices :
          (IF v \in Playing THEN Shed(queue[v]) - 1 ELSE queue[v]) \in -1..VoiceCap
    BY <2>1
  <2>3. queue' = [v \in Voices |-> IF v \in Playing THEN Shed(queue[v]) - 1 ELSE queue[v]]
    BY DEF Round
  <2> QED
    BY <2>2, <2>3
<1>2. primed' \subseteq Voices /\ started' \subseteq Streams
  BY DEF Round, Primes, Starts
<1>3. dry' \in [Voices -> -1..Grace + 1]
  BY Bounds DEF Round, Never
<1>4. target' \in TargetMin..TargetMax /\ trouble' \in BOOLEAN
  <2>1. Cardinality(LetGo) \in Nat
    BY VoiceCount DEF LetGo
  <2> QED
    BY <2>1, GrownInRange DEF Round
<1>5. plugin' \in 0..PluginCap
  BY Bounds DEF Round
<1>6. stream' \in [Streams -> 0..StreamCeiling]
  <2>1. \A s \in Streaming : s \in Streams => stream[s] - 1 \in 0..StreamCeiling
    BY Bounds DEF Streaming
  <2> QED
    BY <2>1 DEF Round
<1>7. sink' \in 0..SinkFrames /\ rounds' \in {0, SinkFrames - sink'}
  BY Bounds DEF Round, Between
<1>8. silence' \in [Streams -> -1..StreamGap + 1] /\ speakers' \in BOOLEAN
  BY DEF Round
<1> QED
  BY <1>1, <1>2, <1>3, <1>4, <1>5, <1>6, <1>7, <1>8

(* The type invariant is inductive. *)
LEMMA NextType ==
  ASSUME TypeOK, [Next]_vars
  PROVE  TypeOK'
<1> USE DEF TypeOK
<1>1. ASSUME NEW v \in Voices, VoicePacket(v) PROVE TypeOK'
  <2>1. Least(VoiceCap, IF queue[v] = Absent THEN 1 ELSE queue[v] + 1) \in -1..VoiceCap
    BY Bounds DEF Least, Absent
  <2> QED
    BY <1>1, <2>1 DEF VoicePacket, targetVars, streamVars
<1>2. ASSUME NEW gone \in SUBSET Voices, StateChanged(gone) PROVE TypeOK'
  BY <1>2, Bounds DEF StateChanged, targetVars, streamVars, Absent, Never
<1>3. ASSUME NEW n \in 1..MaxChunk, PlayPluginPcm(n) PROVE TypeOK'
  <2>1. Least(PluginCap, plugin + n) \in 0..PluginCap
    BY Bounds DEF Least
  <2> QED
    BY <1>3, <2>1 DEF PlayPluginPcm, voiceVars, targetVars, streamVars
<1>4. ASSUME NEW s \in Streams, NEW n \in 0..MaxChunk, PlayStreamPcm(s, n) PROVE TypeOK'
  <2> DEFINE length == (IF silence[s] # Never /\ silence[s] > StreamGap
                        THEN 0 ELSE stream[s]) + n
  <2>1. (IF n > 0 /\ length > StreamCeiling THEN StreamFloor ELSE length) \in 0..StreamCeiling
    <3>1. stream[s] \in 0..StreamCeiling
      OBVIOUS
    <3>2. length = n \/ length = stream[s] + n
      OBVIOUS
    <3> QED
      BY <3>1, <3>2, Bounds
  <2>2. stream' \in [Streams -> 0..StreamCeiling]
    BY <1>4, <2>1 DEF PlayStreamPcm
  <2>3. started' \subseteq Streams
    BY <1>4 DEF PlayStreamPcm
  <2>4. silence' \in [Streams -> -1..StreamGap + 1]
    <3>1. silence' = [silence EXCEPT ![s] = 0]
      BY <1>4 DEF PlayStreamPcm
    <3> QED
      BY <3>1, Bounds
  <2> QED
    BY <1>4, <2>2, <2>3, <2>4 DEF PlayStreamPcm, voiceVars, targetVars
<1>5. ASSUME NEW s \in Streams, ClearStreamPcm(s) PROVE TypeOK'
  BY <1>5, Bounds DEF ClearStreamPcm, voiceVars, targetVars, Never
<1>6. ASSUME NEW on \in BOOLEAN, SetSpeakersEnabled(on) PROVE TypeOK'
  BY <1>6 DEF SetSpeakersEnabled, voiceVars, targetVars, streamVars
<1>7. CASE AdaptVoiceTarget
  <2>1. target' = target \/ (target > TargetMin /\ target' = target - 1)
    BY <1>7 DEF AdaptVoiceTarget
  <2>2. target' \in TargetMin..TargetMax
    BY <2>1, Bounds
  <2> QED
    BY <1>7, <2>2 DEF AdaptVoiceTarget, voiceVars, streamVars
<1>8. CASE DropAll
  <2>1. queue' \in [Voices -> -1..VoiceCap] /\ dry' \in [Voices -> -1..Grace + 1]
    BY <1>8, Bounds DEF DropAll, Absent, Never
  <2>2. stream' \in [Streams -> 0..StreamCeiling] /\ silence' \in [Streams -> -1..StreamGap + 1]
    BY <1>8, Bounds DEF DropAll, Never
  <2> QED
    BY <1>8, <2>1, <2>2, Bounds DEF DropAll, targetVars
<1>9. CASE BeginTick
  <2>1. Grown(1) \in TargetMin..TargetMax
    BY GrownInRange
  <2>2. target' \in TargetMin..TargetMax /\ trouble' \in BOOLEAN
    BY <1>9, <2>1 DEF BeginTick
  <2>3. started' \subseteq Streams /\ rounds' \in {0, SinkFrames - sink'}
    BY <1>9 DEF BeginTick
  <2> QED
    BY <1>9, <2>2, <2>3 DEF BeginTick, voiceVars
<1>10. CASE Round
  BY <1>10, RoundType
<1>11. CASE Elapse
  <2>1. dry' \in [Voices -> -1..Grace + 1] /\ silence' \in [Streams -> -1..StreamGap + 1]
    BY <1>11, AgedInRange, Bounds DEF Elapse
  <2>2. sink' \in 0..SinkFrames /\ rounds' = 0
    BY <1>11, Bounds DEF Elapse, Between
  <2> QED
    BY <1>11, <2>1, <2>2 DEF Elapse, targetVars
<1>12. CASE UNCHANGED vars
  BY <1>12 DEF vars, voiceVars, targetVars, streamVars
<1> QED
  BY <1>1, <1>2, <1>3, <1>4, <1>5, <1>6, <1>7, <1>8, <1>9, <1>10, <1>11, <1>12 DEF Next

(* The queues, ages and the target of VoiceEngine's playback never leave the  *)
(* ranges of their bounds, and a tick fills exactly the room it found.         *)
THEOREM TypeCorrect == Spec => []TypeOK
<1>1. Init => TypeOK
  BY InitType
<1>2. TypeOK /\ [Next]_vars => TypeOK'
  BY NextType
<1> QED
  BY <1>1, <1>2, PTL DEF Spec

-----------------------------------------------------------------------------
(* A voice with frames left is never unprimed while the loudspeakers are on. *)
LEMMA PrimeStays ==
  ASSUME [Next]_vars, speakers, NEW v \in primed, queue[v] > 0
  PROVE  v \in primed'
<1>1. CASE Round
  <2>1. v \notin LetGo
    BY DEF LetGo
  <2> QED
    BY <1>1, <2>1 DEF Round
<1>2. CASE primed' = primed
  BY <1>2
<1>3. Round \/ primed' = primed
  BY DEF Next, VoicePacket, StateChanged, PlayPluginPcm, PlayStreamPcm, ClearStreamPcm,
         SetSpeakersEnabled, AdaptVoiceTarget, DropAll, BeginTick, Elapse, vars, voiceVars
<1> QED
  BY <1>1, <1>2, <1>3

(* A voice that has frames goes on playing through droughts, underruns and    *)
(* the departures of others, whatever their number: the old reset of all       *)
(* primes is gone from playbackTick.                                           *)
THEOREM VoicesKeepPlaying == Spec => KeepsPlaying
<1>1. [Next]_vars => [speakers => \A v \in primed : queue[v] > 0 => v \in primed']_vars
  BY PrimeStays
<1> QED
  BY <1>1, PTL DEF Spec, KeepsPlaying

(* Inside of a tick only its loop takes steps. *)
LEMMA OnlyRounds ==
  ASSUME [Next]_vars, TypeOK, rounds > 0
  PROVE  Round \/ UNCHANGED vars
<1>1. ~Between
  BY Bounds DEF Between, TypeOK
<1> QED
  BY <1>1 DEF Next, VoicePacket, StateChanged, PlayPluginPcm, PlayStreamPcm, ClearStreamPcm,
         SetSpeakersEnabled, AdaptVoiceTarget, DropAll, BeginTick, Elapse

(* What a round takes from a voice or a stream, unless it sheds, is what it   *)
(* writes.                                                                     *)
LEMMA RoundTakesOne ==
  ASSUME TypeOK, Round
  PROVE  /\ \A v \in Voices : queue[v] =< ShedCeiling /\ queue[v] # queue'[v]
                                => queue[v] - queue'[v] = sink' - sink
         /\ \A s \in Streams : stream[s] # stream'[s]
                                => stream[s] - stream'[s] = sink' - sink
<1>1. ASSUME NEW v \in Voices, queue[v] =< ShedCeiling, queue[v] # queue'[v]
      PROVE  queue[v] - queue'[v] = sink' - sink
  <2>1. v \in Playing
    BY <1>1 DEF Round, TypeOK
  <2>2. queue'[v] = queue[v] - 1
    BY <1>1, <2>1, Bounds DEF Round, Shed, TypeOK
  <2>3. sink' = sink + 1
    BY <2>1 DEF Round, HasFrame
  <2> QED
    BY <2>2, <2>3, Bounds DEF TypeOK
<1>2. ASSUME NEW s \in Streams, stream[s] # stream'[s]
      PROVE  stream[s] - stream'[s] = sink' - sink
  <2>1. s \in Streaming
    BY <1>2 DEF Round, TypeOK
  <2>2. stream'[s] = stream[s] - 1
    BY <2>1 DEF Round
  <2>3. sink' = sink + 1
    BY <2>1 DEF Round, HasFrame
  <2> QED
    BY <2>2, <2>3, Bounds DEF TypeOK
<1> QED
  BY <1>1, <1>2

(* A tick loses no frame of a burst below the ceiling, for every ceiling, and  *)
(* of a stream none at all.                                                    *)
THEOREM BurstsAreWhole == Spec => BurstsPlayWhole
<1>1. TypeOK /\ [Next]_vars =>
        [ rounds > 0 =>
          /\ \A v \in Voices : queue[v] =< ShedCeiling /\ queue[v] # queue'[v]
                                 => queue[v] - queue'[v] = sink' - sink
          /\ \A s \in Streams : stream[s] # stream'[s]
                                 => stream[s] - stream'[s] = sink' - sink ]_vars
  BY OnlyRounds, RoundTakesOne
<1> QED
  BY <1>1, TypeCorrect, PTL DEF Spec, BurstsPlayWhole

(* The loop ends with room left only if its last round found nothing to play,  *)
(* and then nothing that may play is left.                                     *)
LEMMA LastRoundFindsNothing ==
  ASSUME TypeOK, Round, rounds' = 0, sink' < SinkFrames
  PROVE  /\ plugin' = 0
         /\ \A v \in Voices : queue'[v] > 0 => v \notin primed' /\ queue'[v] < target'
         /\ \A s \in Streams : stream'[s] > 0
                                 => s \notin started' /\ stream'[s] < StreamStart
<1>1. ~HasFrame
  BY Bounds DEF Round, TypeOK, Between
<1>2. plugin' = 0
  BY <1>1, Bounds DEF Round, HasFrame, TypeOK
<1>3. ASSUME NEW v \in Voices, queue'[v] > 0
      PROVE  v \notin primed' /\ queue'[v] < target'
  <2>1. queue'[v] = queue[v]
    BY <1>1 DEF Round, HasFrame
  <2>2. v \notin primed /\ v \notin Primes
    BY <1>1, <1>3, <2>1 DEF HasFrame, Playing
  <2>3. ~(queue[v] >= Grown(Cardinality({w \in LetGo : w < v})))
    BY <2>2 DEF Primes
  <2>4. Grown(Cardinality({w \in LetGo : w < v})) =< Grown(Cardinality(LetGo))
    BY VoiceCount, GrownInRange DEF LetGo, TypeOK
  <2>5. /\ Grown(Cardinality({w \in LetGo : w < v})) \in Int
        /\ Grown(Cardinality(LetGo)) \in Int
    BY VoiceCount, GrownInRange, Bounds, SMTT(30) DEF LetGo, TypeOK
  <2> QED
    BY <2>1, <2>2, <2>3, <2>4, <2>5, Bounds DEF Round, TypeOK
<1>4. ASSUME NEW s \in Streams, stream'[s] > 0
      PROVE  s \notin started' /\ stream'[s] < StreamStart
  <2>1. stream'[s] = stream[s]
    BY <1>1 DEF Round, HasFrame
  <2>2. s \notin started /\ s \notin Starts
    BY <1>1, <1>4, <2>1 DEF HasFrame, Streaming
  <2> QED
    BY <2>1, <2>2, Bounds DEF Round, Starts, TypeOK
<1> QED
  BY <1>2, <1>3, <1>4

(* The device is never left short while there is something that may play. *)
THEOREM NothingIsLeftWaiting == Spec => NothingPlayableWaits
<1>1. TypeOK /\ [Next]_vars =>
        [ rounds > 0 /\ rounds' = 0 /\ sink' < SinkFrames =>
          /\ plugin' = 0
          /\ \A v \in Voices : queue'[v] > 0 => v \notin primed' /\ queue'[v] < target'
          /\ \A s \in Streams : stream'[s] > 0
                                  => s \notin started' /\ stream'[s] < StreamStart ]_vars
  BY OnlyRounds, LastRoundFindsNothing
<1> QED
  BY <1>1, TypeCorrect, PTL DEF Spec, NothingPlayableWaits
=============================================================================
