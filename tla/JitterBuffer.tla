---------------------------- MODULE JitterBuffer ----------------------------
(***************************************************************************)
(* The playback of VoiceEngine: the frames of 20 ms that wait for the       *)
(* loudspeaker.  Every voice has a queue that starts to play when it holds   *)
(* `target' frames, goes on through short droughts, and is cut when it gets  *)
(* too long; `target' grows with every drought and shrinks when there was    *)
(* none for a while.  Every stream (the sound of a shared screen) has a      *)
(* queue with a fixed start, and the sounds of plugins have one without.     *)
(*                                                                         *)
(* A queue is its length: all frames are whole.  Packets of users muted      *)
(* locally and packets that do not decode change nothing here and are left   *)
(* out.  Every user with an entry here has a decoder, by which the engine    *)
(* finds those that left.  One unit of time is one frame.                    *)
(*                                                                         *)
(* playbackTick computes the room of the device once and then fills it in a  *)
(* loop that takes one step per frame; the tick runs on the thread of all    *)
(* other actions, which wait for its end, as does the clock.                 *)
(***************************************************************************)
EXTENDS Integers, FiniteSets

CONSTANTS
    Voices,                          \* ids of users whose packets arrive
    Streams,                         \* ids of users whose screen is watched
    TargetMin, TargetFirst, TargetMax,  \* 2, 4 and 8 frames
    Grace,                           \* kVoiceDryGraceMs
    ShedCeiling, ShedFloor,          \* kVoiceShedCeilingFrames, kVoiceShedFloorFrames
    VoiceCap,                        \* frames a voice's queue holds at most
    StreamStart,                     \* kStreamPrebufferFrames
    StreamCeiling, StreamFloor,      \* 20 and 6 frames
    StreamGap,                       \* the 120 ms that interrupt a stream
    PluginCap,                       \* frames of plugin sounds at most
    SinkFrames,                      \* frames in the device's buffer
    MaxChunk                         \* bound: frames in one call of a stream or a plugin

ASSUME PlaybackAssumption ==
    /\ Voices \subseteq Nat /\ IsFiniteSet(Voices)
    /\ {TargetMin, TargetFirst, TargetMax, Grace, ShedCeiling, ShedFloor, VoiceCap,
        StreamStart, StreamCeiling, StreamFloor, StreamGap, PluginCap, SinkFrames,
        MaxChunk} \subseteq Nat \ {0}
    /\ TargetMin =< TargetFirst /\ TargetFirst =< TargetMax
    /\ TargetMax =< ShedCeiling /\ ShedFloor =< ShedCeiling /\ ShedCeiling =< VoiceCap
    /\ StreamStart =< StreamFloor /\ StreamFloor =< StreamCeiling

Absent == -1     \* no queue for this voice
Never == -1      \* no such moment

VARIABLES
    queue,      \* m_remoteQueues: its length for every voice, or Absent
    primed,     \* m_voicePrimed
    dry,        \* m_voiceDryMs: time since the moment it records, or Never
    target,     \* m_voiceTargetFrames
    trouble,    \* m_voiceUnderruns or m_voiceDries differ from their values AtAdapt
    plugin,     \* m_remoteQueues of the plugins
    stream,     \* m_streamQueues
    started,    \* m_primedStreams
    silence,    \* time since m_streamLastPacketMs, or Never
    speakers,   \* m_spkEnabled
    sink,       \* frames in the device's buffer
    rounds      \* frames that playbackTick's loop may still write; 0 outside of it

voiceVars  == <<queue, primed, dry>>
targetVars == <<target, trouble>>
streamVars == <<stream, started, silence>>
vars == <<voiceVars, targetVars, plugin, streamVars, speakers, sink, rounds>>

Least(a, b) == IF a < b THEN a ELSE b
Between == rounds = 0       \* no playbackTick runs

-----------------------------------------------------------------------------
Init ==
    /\ queue = [v \in Voices |-> Absent] /\ primed = {} /\ dry = [v \in Voices |-> Never]
    /\ target = TargetFirst /\ trouble = FALSE
    /\ plugin = 0
    /\ stream = [s \in Streams |-> 0] /\ started = {} /\ silence = [s \in Streams |-> Never]
    /\ speakers = TRUE /\ sink = 0 /\ rounds = 0

(* A packet of v that decodes: its frame goes to the end of the queue. *)
VoicePacket(v) ==
    /\ Between
    /\ queue' = [queue EXCEPT ![v] = Least(VoiceCap, IF @ = Absent THEN 1 ELSE @ + 1)]
    /\ UNCHANGED <<primed, dry, targetVars, plugin, streamVars, speakers, sink, rounds>>

(* NetSession's state changed and the users in `gone' are not among the users *)
(* of the server.                                                             *)
StateChanged(gone) ==
    /\ Between
    /\ queue' = [v \in Voices |-> IF v \in gone THEN Absent ELSE queue[v]]
    /\ dry' = [v \in Voices |-> IF v \in gone THEN Never ELSE dry[v]]
    /\ UNCHANGED <<primed, targetVars, plugin, streamVars, speakers, sink, rounds>>

PlayPluginPcm(n) ==
    /\ Between
    /\ plugin' = Least(PluginCap, plugin + n)
    /\ UNCHANGED <<voiceVars, targetVars, streamVars, speakers, sink, rounds>>

(* n frames for the stream of s; none if the samples are refused, which     *)
(* counts as a sign of life all the same.                                   *)
PlayStreamPcm(s, n) ==
    LET interrupted == silence[s] # Never /\ silence[s] > StreamGap
        length == (IF interrupted THEN 0 ELSE stream[s]) + n
        overfull == n > 0 /\ length > StreamCeiling
    IN
    /\ Between
    /\ stream' = [stream EXCEPT ![s] = IF overfull THEN StreamFloor ELSE length]
    /\ started' = (started \ (IF interrupted THEN {s} ELSE {}))
                    \cup (IF overfull THEN {s} ELSE {})
    /\ silence' = [silence EXCEPT ![s] = 0]
    /\ UNCHANGED <<voiceVars, targetVars, plugin, speakers, sink, rounds>>

ClearStreamPcm(s) ==
    /\ Between
    /\ stream' = [stream EXCEPT ![s] = 0]
    /\ started' = started \ {s}
    /\ silence' = [silence EXCEPT ![s] = Never]
    /\ UNCHANGED <<voiceVars, targetVars, plugin, speakers, sink, rounds>>

SetSpeakersEnabled(on) ==
    /\ Between
    /\ speakers' = on
    /\ UNCHANGED <<voiceVars, targetVars, plugin, streamVars, sink, rounds>>

\* Mutant of AdaptVoiceTarget: the counters are compared with those of the last decay.
AdaptSinceDecay ==
    /\ Between
    /\ ~trouble /\ target > TargetMin
    /\ target' = target - 1 /\ trouble' = FALSE
    /\ UNCHANGED <<voiceVars, plugin, streamVars, speakers, sink, rounds>>

(* Every fifteen seconds. *)
AdaptVoiceTarget ==
    /\ Between
    /\ target' = IF ~trouble /\ target > TargetMin THEN target - 1 ELSE target
    /\ trouble' = FALSE
    /\ UNCHANGED <<voiceVars, plugin, streamVars, speakers, sink, rounds>>

-----------------------------------------------------------------------------
(* playbackTick with the loudspeakers off: everything that waits is dropped. *)
DropAll ==
    /\ Between /\ ~speakers
    /\ queue' = [v \in Voices |-> Absent] /\ primed' = {} /\ dry' = [v \in Voices |-> Never]
    /\ plugin' = 0
    /\ stream' = [s \in Streams |-> 0] /\ started' = {} /\ silence' = [s \in Streams |-> Never]
    /\ UNCHANGED <<targetVars, speakers, sink, rounds>>

Grown(n) == Least(TargetMax, target + n)

\* Mutant of BeginTick: an underrun unprimes every voice.
BeginTickUnpriming ==
    LET idle == sink = 0 IN
    /\ Between /\ speakers
    /\ started' = IF idle THEN {} ELSE started
    /\ primed' = IF idle THEN {} ELSE primed
    /\ target' = IF idle /\ primed # {} THEN Grown(1) ELSE target
    /\ trouble' = (trouble \/ (idle /\ primed # {}))
    /\ rounds' = SinkFrames - sink
    /\ UNCHANGED <<queue, dry, plugin, stream, silence, speakers, sink>>

(* playbackTick up to its loop.  QAudio::IdleState is the device with an     *)
(* empty buffer.                                                             *)
BeginTick ==
    LET idle == sink = 0
        underrun == idle /\ primed # {}
    IN
    /\ Between /\ speakers
    /\ started' = IF idle THEN {} ELSE started
    /\ target' = IF underrun THEN Grown(1) ELSE target
    /\ trouble' = (trouble \/ underrun)
    /\ rounds' = SinkFrames - sink
    /\ UNCHANGED <<voiceVars, plugin, stream, silence, speakers, sink>>

(* The voices a round of the loop unprimes, primes and plays.  The loop      *)
(* takes the voices in the order of their ids, and a voice it unprimes       *)
(* raises the target for the ones after it.                                  *)
LetGo == {v \in primed : queue[v] = 0 /\ dry[v] # Never /\ dry[v] > Grace}
\* Mutant of Primes: the queue is compared with the target for equality.
PrimesAtTarget == {v \in Voices \ primed : queue[v] = target}

Primes == {v \in Voices \ primed :
             queue[v] >= Grown(Cardinality({w \in LetGo : w < v}))}
Playing == {v \in primed \cup Primes : queue[v] > 0}

\* Mutant of RunsDry: every round restarts the time.
RunsDryAgain == {v \in primed : queue[v] = 0 /\ v \notin LetGo}

RunsDry == {v \in primed : queue[v] = 0 /\ dry[v] = Never}

\* Mutant of Shed: a queue at the ceiling is cut.
ShedAtCeiling(n) == IF n >= ShedCeiling THEN ShedFloor ELSE n

Shed(n) == IF n > ShedCeiling THEN ShedFloor ELSE n

Starts == {s \in Streams \ started : stream[s] >= StreamStart}
Streaming == {s \in started \cup Starts : stream[s] > 0}

\* Mutant of HasFrame: streams do not keep the loop going.
HasVoiceFrame == Playing # {} \/ plugin > 0

HasFrame == Playing # {} \/ Streaming # {} \/ plugin > 0

(* One round: a frame of everything that plays is mixed and written.  A      *)
(* round that finds none ends the loop.                                      *)
Round ==
    /\ ~Between
    /\ queue' = [v \in Voices |-> IF v \in Playing THEN Shed(queue[v]) - 1 ELSE queue[v]]
    /\ primed' = (primed \cup Primes) \ LetGo
    /\ dry' = [v \in Voices |-> IF v \in Playing \cup LetGo THEN Never
                                ELSE IF v \in RunsDry THEN 0 ELSE dry[v]]
    /\ target' = Grown(Cardinality(LetGo))
    /\ trouble' = (trouble \/ LetGo # {})
    /\ plugin' = IF plugin > 0 THEN plugin - 1 ELSE 0
    /\ stream' = [s \in Streams |-> IF s \in Streaming THEN stream[s] - 1 ELSE stream[s]]
    /\ started' = started \cup Starts
    /\ sink' = IF HasFrame THEN sink + 1 ELSE sink
    /\ rounds' = IF HasFrame THEN rounds - 1 ELSE 0
    /\ UNCHANGED <<silence, speakers>>

-----------------------------------------------------------------------------
Aged(moments, bound) ==
    [x \in DOMAIN moments |->
        IF moments[x] = Never THEN Never ELSE Least(bound + 1, moments[x] + 1)]

(* The time of a frame passes: the device plays one, if it has one.  Ages    *)
(* beyond their limit are all alike.                                         *)
Elapse ==
    /\ Between
    /\ sink' = IF sink > 0 THEN sink - 1 ELSE 0
    /\ dry' = Aged(dry, Grace)
    /\ silence' = Aged(silence, StreamGap)
    /\ UNCHANGED <<queue, primed, targetVars, plugin, stream, started, speakers, rounds>>

Next ==
    \/ \E v \in Voices : VoicePacket(v)
    \/ \E gone \in SUBSET Voices : StateChanged(gone)
    \/ \E n \in 1..MaxChunk : PlayPluginPcm(n)
    \/ \E s \in Streams, n \in 0..MaxChunk : PlayStreamPcm(s, n)
    \/ \E s \in Streams : ClearStreamPcm(s)
    \/ \E on \in BOOLEAN : SetSpeakersEnabled(on)
    \/ AdaptVoiceTarget \/ DropAll \/ BeginTick \/ Round \/ Elapse

(* Time passes however often the timers fire (the strong fairness: a tick     *)
(* holds the clock for its own length only), the two timers fire again and     *)
(* again, and a tick ends.  Nothing is assumed of packets, users and plugins.  *)
Fairness ==
    /\ SF_vars(Elapse) /\ SF_vars(AdaptVoiceTarget)
    /\ WF_vars(DropAll \/ BeginTick) /\ WF_vars(Round)

Spec == Init /\ [][Next]_vars /\ Fairness

-----------------------------------------------------------------------------
(* The queues, ages and the target stay in the ranges of their bounds, and a  *)
(* tick fills all the room it found.                                          *)
TypeOK ==
    /\ queue \in [Voices -> -1..VoiceCap] /\ primed \subseteq Voices
    /\ dry \in [Voices -> -1..Grace + 1]
    /\ target \in TargetMin..TargetMax /\ trouble \in BOOLEAN
    /\ plugin \in 0..PluginCap
    /\ stream \in [Streams -> 0..StreamCeiling] /\ started \subseteq Streams
    /\ silence \in [Streams -> -1..StreamGap + 1]
    /\ speakers \in BOOLEAN
    /\ sink \in 0..SinkFrames /\ rounds \in {0, SinkFrames - sink}

(* A voice that has frames keeps its prime through every drought, underrun   *)
(* and departure of others, as long as the loudspeakers are on: it is never   *)
(* silent while its buffer is rebuilt.  playbackTick, "RETOMAR NA HORA".      *)
KeepsPlaying ==
    [][ speakers => \A v \in primed : queue[v] > 0 => v \in primed' ]_vars

(* A tick plays bursts whole: from a queue no longer than the ceiling it      *)
(* takes exactly the frames that it writes to the device, of voices and of    *)
(* streams.  playbackTick, "rajadas comuns de GUI/rede agora tocam inteiras". *)
BurstsPlayWhole ==
    [][ rounds > 0 =>
          /\ \A v \in Voices : queue[v] =< ShedCeiling /\ queue[v] # queue'[v]
                                 => queue[v] - queue'[v] = sink' - sink
          /\ \A s \in Streams : stream[s] # stream'[s]
                                 => stream[s] - stream'[s] = sink' - sink ]_vars

(* If a tick ends with room left in the device, nothing that may play is      *)
(* left: no frame of a primed voice, of a started stream or of a plugin, and   *)
(* no queue that has reached its start.  playbackTick's loop and its break.    *)
NothingPlayableWaits ==
    [][ rounds > 0 /\ rounds' = 0 /\ sink' < SinkFrames =>
          /\ plugin' = 0
          /\ \A v \in Voices : queue'[v] > 0 => v \notin primed' /\ queue'[v] < target'
          /\ \A s \in Streams : stream'[s] > 0
                                  => s \notin started' /\ stream'[s] < StreamStart ]_vars

(* A primed voice that falls silent for good is let go, whatever the others   *)
(* play, so that its next utterance gets a buffer again.  playbackTick's       *)
(* grace.                                                                      *)
SilentVoiceLetsGo ==
    \A v \in Voices : v \in primed /\ queue[v] = 0 ~> v \notin primed \/ queue[v] # 0

(* A voice whose queue reaches the highest target is primed or its queue       *)
(* falls below it, though the target may grow while it waits.                  *)
BacklogIsHeard ==
    \A v \in Voices : queue[v] >= TargetMax ~> v \in primed \/ queue[v] < TargetMax

(* Once no voice is primed for good, the target falls to its least value:      *)
(* latency acquired in a bad moment does not stay.  adaptVoiceTarget.          *)
LatencyDecays == <>[](primed = {}) => <>[](target = TargetMin)
=============================================================================
