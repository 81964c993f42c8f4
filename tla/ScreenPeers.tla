---------------------------- MODULE ScreenPeers ----------------------------
(***************************************************************************)
(* The table of peers of a screen share (webrtc/HallaWebRtcSession.cpp)    *)
(* and the threads that work on it:                                        *)
(*   - the GUI thread, which handles signals and the user's commands;      *)
(*   - WebRTC's signaling thread, which runs the observers' callbacks;     *)
(*   - the decoder, which delivers frames of a remote screen.              *)
(* peersMutex guards the table.  A call of the GUI thread into the library *)
(* (creating or closing a connection, starting an operation, adding a      *)
(* candidate, all synchronous) runs on the signaling thread, so it waits   *)
(* until the callback that runs there has ended; on the signaling thread   *)
(* itself such a call runs in place.                                       *)
(***************************************************************************)
EXTENDS Naturals, FiniteSets

CONSTANTS Peers,        \* identifiers of users
          Contexts,     \* PeerContext objects, used again once freed
          None,         \* no context, no peer
          MaxPending,   \* limit of pendingRemoteIce (128)
          MaxDispatches, \* bound: deliveries of one user in the GUI's queue
          MaxOps        \* bound: operations the library has when one is added

ASSUME NoneAssumption == None \notin Contexts /\ None \notin Peers
ASSUME LimitAssumption == MaxPending \in Nat /\ MaxDispatches \in Nat /\ MaxOps \in Nat

VARIABLES
    table,      \* peers: the context of each user, or None
    owner,      \* the user a context was made for; None: not allocated
    remote,     \* contexts whose connection has a remote description
    ready,      \* contexts with remoteDescriptionSet
    waiting,    \* size of a context's pendingRemoteIce
    video,      \* contexts with a sink in remoteVideo
    audio,      \* contexts with a sink in remoteAudio
    ops,        \* <<operation, context>>: what the library still works at
    lockedBy,   \* who holds peersMutex from one step to the next
    gui,        \* what the GUI thread is at
    sig,        \* what the signaling thread is at
    frames,     \* users with an entry in m_pendingRemoteFrames
    marked,     \* m_remoteFrameDispatchPosted
    dispatches, \* deliveries of each user waiting in the GUI's queue
    playing     \* the audio device pulls the decoded sound

tableVars == <<table, owner>>
linkVars  == <<remote, ready, waiting, video, audio>>
frameVars == <<frames, marked, dispatches>>
vars == <<table, owner, remote, ready, waiting, video, audio, ops,
          lockedBy, gui, sig, frames, marked, dispatches, playing>>

Operations == {"offer", "setOffer", "answer", "setAnswer"}

GuiSteps == {"idle", "create", "call", "keep", "apply", "close", "forget", "quiet", "stop", "next"}
\* What follows once the present call is over.
GuiPlans == {"offer", "setOffer", "setAnswer", "watch", "done", "all"}
SigSteps == {"idle", "local", "ready", "flush", "answer", "raw", "video", "audio", "play"}

GuiAt(at, p, c, then) == [at |-> at, peer |-> p, ctx |-> c, then |-> then]
GuiIdle == GuiAt("idle", None, None, "done")
SigAt(at, p, op, raw) == [at |-> at, peer |-> p, op |-> op, raw |-> raw]
SigIdle == SigAt("idle", None, "offer", None)

Idle == gui.at = "idle"
LibraryFree == sig.at = "idle"
LockFree == lockedBy = "nobody"
Unallocated == {c \in Contexts : owner[c] = None /\ c # sig.raw}

Init ==
    /\ table = [p \in Peers |-> None]
    /\ owner = [c \in Contexts |-> None]
    /\ remote = {} /\ ready = {} /\ video = {} /\ audio = {}
    /\ waiting = [c \in Contexts |-> 0]
    /\ ops = {}
    /\ lockedBy = "nobody"
    /\ gui = GuiIdle
    /\ sig = SigIdle
    /\ frames = {} /\ marked = {}
    /\ dispatches = [p \in Peers |-> 0]
    /\ playing = FALSE

----------------------------------------------------------------------------
(* The GUI thread.                                                         *)

\* ensurePeer on the GUI thread: the context that is there, or, with the
\* lock held, a call into the library for a new one.
EnsurePeer(p, then) ==
    /\ LockFree
    /\ IF table[p] # None
         THEN /\ gui' = IF then = "watch" THEN GuiIdle ELSE GuiAt("call", p, table[p], then)
              /\ UNCHANGED lockedBy
         ELSE /\ gui' = GuiAt("create", p, None, then)
              /\ lockedBy' = "gui"
    /\ UNCHANGED <<tableVars, linkVars, frameVars, ops, sig, playing>>

\* A signal (watch request, offer, answer) or the user's wish to watch.
Handle(p, then) ==
    /\ Idle
    /\ then # "watch" => Cardinality(ops) < MaxOps
    /\ EnsurePeer(p, then)

GuiCreate ==
    /\ gui.at = "create"
    /\ LibraryFree
    /\ \E c \in Unallocated :
         /\ owner' = [owner EXCEPT ![c] = gui.peer]
         /\ table' = [table EXCEPT ![gui.peer] = c]
         /\ gui' = IF gui.then = "watch" THEN GuiIdle ELSE GuiAt("call", gui.peer, c, gui.then)
    /\ lockedBy' = "nobody"
    /\ UNCHANGED <<linkVars, frameVars, ops, sig, playing>>

\* CreateOffer or SetRemoteDescription: the library works at it from now on.
GuiCall ==
    /\ gui.at = "call"
    /\ LibraryFree
    /\ ops' = ops \cup {<<gui.then, gui.ctx>>}
    /\ gui' = GuiIdle
    /\ UNCHANGED <<tableVars, linkVars, frameVars, lockedBy, sig, playing>>

\* addRemoteIce: whether the description is set is read under the lock ...
RemoteIce(p) ==
    /\ Idle
    /\ LockFree
    /\ table[p] # None
    /\ gui' = GuiAt(IF table[p] \in ready THEN "apply" ELSE "keep", p, table[p], "done")
    /\ UNCHANGED <<tableVars, linkVars, frameVars, ops, lockedBy, sig, playing>>

\* ... and used after it: the candidate is kept in the table's context,
GuiKeepIce ==
    /\ gui.at = "keep"
    /\ LockFree
    /\ LET c == table[gui.peer] IN
         waiting' = IF c # None /\ waiting[c] < MaxPending
                      THEN [waiting EXCEPT ![c] = @ + 1] ELSE waiting
    /\ gui' = GuiIdle
    /\ UNCHANGED <<tableVars, remote, ready, video, audio, frameVars, ops,
                   lockedBy, sig, playing>>

\* or handed to the connection.
GuiApplyIce ==
    /\ gui.at = "apply"
    /\ LibraryFree
    /\ gui' = GuiIdle
    /\ UNCHANGED <<tableVars, linkVars, frameVars, ops, lockedBy, sig, playing>>

\* Mutant of Erase: to begin anew the peer is forgotten without being closed.
EraseOnly(p, then) ==
    /\ LockFree
    /\ table' = [table EXCEPT ![p] = None]
    /\ gui' = GuiAt(IF table[p] = None \/ then = "watch" THEN "forget" ELSE "close",
                    p, table[p], then)
    /\ UNCHANGED <<owner, linkVars, frameVars, ops, lockedBy, sig, playing>>

\* closePeer takes the context out of the table ...
Erase(p, then) ==
    /\ LockFree
    /\ table' = [table EXCEPT ![p] = None]
    /\ gui' = GuiAt(IF table[p] = None THEN "forget" ELSE "close", p, table[p], then)
    /\ UNCHANGED <<owner, linkVars, frameVars, ops, lockedBy, sig, playing>>

\* ... for a watch_stop or the user, to begin anew, or for all peers in turn.
ClosePeer(p, then) == Idle /\ (then = "all" => table[p] # None) /\ Erase(p, then)

\* Mutant of GuiClose: the context is freed without waiting for the callback.
GuiCloseAtOnce ==
    /\ gui.at = "close"
    /\ LET c == gui.ctx IN
         /\ owner' = [owner EXCEPT ![c] = None]
         /\ remote' = remote \ {c}
         /\ ready' = ready \ {c}
         /\ video' = video \ {c}
         /\ audio' = audio \ {c}
         /\ waiting' = [waiting EXCEPT ![c] = 0]
         /\ ops' = {o \in ops : o[2] # c}
    /\ gui' = GuiAt("forget", gui.peer, None, gui.then)
    /\ UNCHANGED <<table, lockedBy, sig, frameVars, playing>>

\* RemoveSink waits for the decoder, Close for the signaling thread; then
\* the context is freed.  What the library was still at is given up.
GuiClose ==
    /\ gui.at = "close"
    /\ LibraryFree
    /\ LET c == gui.ctx IN
         /\ owner' = [owner EXCEPT ![c] = None]
         /\ remote' = remote \ {c}
         /\ ready' = ready \ {c}
         /\ video' = video \ {c}
         /\ audio' = audio \ {c}
         /\ waiting' = [waiting EXCEPT ![c] = 0]
         /\ ops' = {o \in ops : o[2] # c}
    /\ gui' = GuiAt("forget", gui.peer, None, gui.then)
    /\ UNCHANGED <<table, lockedBy, sig, frameVars, playing>>

\* Mutant of GuiForget: the mark is dropped, the frame stays.
GuiForgetMark ==
    /\ gui.at = "forget"
    /\ marked' = marked \ {gui.peer}
    /\ gui' = [gui EXCEPT !.at = "quiet"]
    /\ UNCHANGED <<tableVars, linkVars, frames, ops, lockedBy, sig, dispatches, playing>>

\* The frame that waits, and the mark of a posted delivery, are dropped.
GuiForget ==
    /\ gui.at = "forget"
    /\ frames' = frames \ {gui.peer}
    /\ marked' = marked \ {gui.peer}
    /\ gui' = [gui EXCEPT !.at = "quiet"]
    /\ UNCHANGED <<tableVars, linkVars, ops, lockedBy, sig, dispatches, playing>>

\* Mutant of GuiQuiet: the table is not looked at.
GuiQuietAlways ==
    /\ gui.at = "quiet"
    /\ LockFree
    /\ gui' = [gui EXCEPT !.at = IF playing THEN "stop" ELSE "next"]
    /\ UNCHANGED <<tableVars, linkVars, frameVars, ops, lockedBy, sig, playing>>

\* Without peers the audio device stops: decided under the lock, done after it.
GuiQuiet ==
    /\ gui.at = "quiet"
    /\ LockFree
    /\ gui' = [gui EXCEPT !.at = IF (\A p \in Peers : table[p] = None) /\ playing
                                   THEN "stop" ELSE "next"]
    /\ UNCHANGED <<tableVars, linkVars, frameVars, ops, lockedBy, sig, playing>>

GuiStop ==
    /\ gui.at = "stop"
    /\ playing' = FALSE
    /\ gui' = [gui EXCEPT !.at = "next"]
    /\ UNCHANGED <<tableVars, linkVars, frameVars, ops, lockedBy, sig>>

\* closePeer is over: restartWatch goes on with startWatching, the loops of
\* stopBroadcast and detachFromNet with the next peer.
GuiNext ==
    /\ gui.at = "next"
    /\ \/ gui.then = "watch" /\ EnsurePeer(gui.peer, "watch")
       \/ gui.then = "all" /\ \E p \in Peers : table[p] # None /\ Erase(p, "all")
       \/ /\ gui.then = "done" \/ (gui.then = "all" /\ \A p \in Peers : table[p] = None)
          /\ gui' = GuiIdle
          /\ UNCHANGED <<tableVars, linkVars, frameVars, ops, lockedBy, sig, playing>>

----------------------------------------------------------------------------
(* The signaling thread.                                                   *)

\* An operation succeeds; its observer is called.  A description can only be
\* answered once it is set.
Succeed(op, c) ==
    /\ LibraryFree
    /\ <<op, c>> \in ops
    /\ op = "answer" => c \in remote
    /\ ops' = ops \ {<<op, c>>}
    /\ remote' = IF op \in {"setOffer", "setAnswer"} THEN remote \cup {c} ELSE remote
    /\ sig' = SigAt(IF op \in {"offer", "answer"} THEN "local" ELSE "ready", owner[c], op, None)
    /\ UNCHANGED <<tableVars, ready, waiting, video, audio, frameVars, lockedBy, gui,
                   playing>>

\* It fails: the observers only log.
Fail(op, c) ==
    /\ LibraryFree
    /\ <<op, c>> \in ops
    /\ ops' = ops \ {<<op, c>>}
    /\ UNCHANGED <<tableVars, linkVars, frameVars, lockedBy, gui, sig, playing>>

\* OfferObserver and AnswerObserver: the description is set on the connection
\* the table has for the user by now, and its sending is posted.
SetLocal ==
    /\ sig.at = "local"
    /\ LockFree
    /\ sig' = SigIdle
    /\ UNCHANGED <<tableVars, linkVars, frameVars, ops, lockedBy, gui, playing>>

\* An offer is answered once its candidates are handed over.
AfterReady == IF sig.op = "setOffer" THEN [sig EXCEPT !.at = "answer"] ELSE SigIdle

\* remoteDescriptionReady: the flag is set and the kept candidates are taken.
DescriptionReady ==
    /\ sig.at = "ready"
    /\ LockFree
    /\ LET c == table[sig.peer] IN
         IF c = None
           THEN UNCHANGED <<ready, waiting>>
           ELSE /\ ready' = ready \cup {c}
                /\ waiting' = [waiting EXCEPT ![c] = 0]
    /\ sig' = IF table[sig.peer] # None /\ waiting[table[sig.peer]] > 0
                 THEN [sig EXCEPT !.at = "flush"] ELSE AfterReady
    /\ UNCHANGED <<tableVars, remote, video, audio, frameVars, ops, lockedBy, gui,
                   playing>>

\* They are handed over one by one, each looking the peer up again.
Flush ==
    /\ sig.at = "flush"
    /\ LockFree
    /\ sig' = AfterReady
    /\ UNCHANGED <<tableVars, linkVars, frameVars, ops, lockedBy, gui, playing>>

\* createAnswerForPeer: ensurePeer, here on the signaling thread, finds the
\* context or makes one; its address is used after the lock is released.
AnswerEnsure ==
    /\ sig.at = "answer"
    /\ LockFree
    /\ \/ /\ table[sig.peer] # None
          /\ sig' = [sig EXCEPT !.at = "raw", !.raw = table[sig.peer]]
          /\ UNCHANGED tableVars
       \/ /\ table[sig.peer] = None
          /\ \E c \in Unallocated :
               /\ owner' = [owner EXCEPT ![c] = sig.peer]
               /\ table' = [table EXCEPT ![sig.peer] = c]
               /\ sig' = [sig EXCEPT !.at = "raw", !.raw = c]
    /\ UNCHANGED <<linkVars, frameVars, ops, lockedBy, gui, playing>>

CreateAnswer ==
    /\ sig.at = "raw"
    /\ ops' = ops \cup {<<"answer", sig.raw>>}
    /\ sig' = SigIdle
    /\ UNCHANGED <<tableVars, linkVars, frameVars, lockedBy, gui, playing>>

\* OnTrack and OnAddTrack of a connection with a remote description.
Track(c, kind) ==
    /\ LibraryFree
    /\ c \in remote
    /\ sig' = SigAt(kind, owner[c], "offer", None)
    /\ UNCHANGED <<tableVars, linkVars, frameVars, ops, lockedBy, gui, playing>>

AttachVideo ==
    /\ sig.at = "video"
    /\ LockFree
    /\ LET c == table[sig.peer] IN video' = IF c # None THEN video \cup {c} ELSE video
    /\ sig' = SigIdle
    /\ UNCHANGED <<tableVars, remote, ready, waiting, audio, frameVars, ops, lockedBy,
                   gui, playing>>

\* attachRemoteAudioTrack: the binding under the lock (once per track), the
\* audio device after it.
AttachAudio ==
    /\ sig.at = "audio"
    /\ LockFree
    /\ LET c == table[sig.peer] IN
         IF c = None \/ c \in audio
           THEN sig' = SigIdle /\ UNCHANGED audio
           ELSE sig' = [sig EXCEPT !.at = "play"] /\ audio' = audio \cup {c}
    /\ UNCHANGED <<tableVars, remote, ready, waiting, video, frameVars, ops, lockedBy,
                   gui, playing>>

StartPlayout ==
    /\ sig.at = "play"
    /\ playing' = TRUE
    /\ sig' = SigIdle
    /\ UNCHANGED <<tableVars, linkVars, frameVars, ops, lockedBy, gui>>

----------------------------------------------------------------------------
(* Frames of a remote screen.                                              *)

\* deliverRemoteFrame: the newest frame replaces the one that waits; only
\* the first one posts a delivery.
Frame(c) ==
    /\ c \in video
    /\ dispatches[owner[c]] < MaxDispatches
    /\ frames' = frames \cup {owner[c]}
    /\ marked' = marked \cup {owner[c]}
    /\ dispatches' = [dispatches EXCEPT ![owner[c]] = IF owner[c] \in marked THEN @ ELSE @ + 1]
    /\ UNCHANGED <<tableVars, linkVars, ops, lockedBy, gui, sig, playing>>

\* Mutant of Deliver: the mark of the delivery stays.
DeliverKeepsMark(p) ==
    /\ Idle
    /\ dispatches[p] > 0
    /\ dispatches' = [dispatches EXCEPT ![p] = @ - 1]
    /\ frames' = frames \ {p}
    /\ UNCHANGED <<tableVars, linkVars, marked, ops, lockedBy, gui, sig, playing>>

\* The posted delivery shows what waits, if anything still does.
Deliver(p) ==
    /\ Idle
    /\ dispatches[p] > 0
    /\ dispatches' = [dispatches EXCEPT ![p] = @ - 1]
    /\ frames' = frames \ {p}
    /\ marked' = marked \ {p}
    /\ UNCHANGED <<tableVars, linkVars, ops, lockedBy, gui, sig, playing>>

----------------------------------------------------------------------------
GuiGoesOn == GuiCreate \/ GuiCall \/ GuiKeepIce \/ GuiApplyIce \/ GuiClose \/ GuiForget
             \/ GuiQuiet \/ GuiStop \/ GuiNext
SigGoesOn == SetLocal \/ DescriptionReady \/ Flush \/ AnswerEnsure \/ CreateAnswer
             \/ AttachVideo \/ AttachAudio \/ StartPlayout

Next ==
    \/ \E p \in Peers : \/ \E plan \in {"offer", "setOffer", "setAnswer", "watch"} : Handle(p, plan)
                        \/ \E plan \in {"done", "watch", "all"} : ClosePeer(p, plan)
                        \/ RemoteIce(p)
                        \/ Deliver(p)
    \/ \E c \in Contexts : \/ \E op \in Operations : Succeed(op, c) \/ Fail(op, c)
                           \/ \E kind \in {"video", "audio"} : Track(c, kind)
                           \/ Frame(c)
    \/ GuiGoesOn
    \/ SigGoesOn

Spec == Init /\ [][Next]_vars

----------------------------------------------------------------------------
TypeOK ==
    /\ table \in [Peers -> Contexts \cup {None}]
    /\ owner \in [Contexts -> Peers \cup {None}]
    /\ remote \subseteq Contexts /\ ready \subseteq Contexts
    /\ video \subseteq Contexts /\ audio \subseteq Contexts
    /\ waiting \in [Contexts -> 0..MaxPending]
    /\ ops \subseteq Operations \X Contexts
    /\ lockedBy \in {"nobody", "gui"}
    /\ gui \in [at : GuiSteps, peer : Peers \cup {None}, ctx : Contexts \cup {None}, then : GuiPlans]
    /\ sig \in [at : SigSteps, peer : Peers \cup {None}, op : Operations, raw : Contexts \cup {None}]
    /\ frames \subseteq Peers /\ marked \subseteq Peers
    /\ dispatches \in [Peers -> 0..MaxDispatches]
    /\ playing \in BOOLEAN

\* The addresses of contexts that a thread uses without the lock are those of
\* contexts that are not freed, although the other thread may take them out of
\* the table meanwhile (createOfferForPeer, createAnswerForPeer, closePeer).
NoFreedContextIsUsed ==
    /\ gui.at \in {"call", "close"} => owner[gui.ctx] = gui.peer
    /\ sig.at = "raw" => owner[sig.raw] = sig.peer

\* Two threads make contexts and one frees them; every connection that exists
\* is in the table under its user or is being closed: none is forgotten, and
\* a user never has two.
EveryPeerIsKnown ==
    \A c \in Contexts : owner[c] # None =>
        table[owner[c]] = c \/ (gui.at = "close" /\ gui.ctx = c)

\* A frame that waits will be shown: its delivery is in the GUI's queue,
\* whatever closePeer and earlier deliveries took away.
WaitingFrameIsPosted ==
    \A p \in frames : dispatches[p] > 0

\* Once closePeer is over no frame of the closed screen is shown, although
\* its deliveries may still be in the GUI's queue.
NoFrameOutlivesItsPeer ==
    \A p \in frames : \/ table[p] # None /\ table[p] \in video
                      \/ gui.peer = p /\ gui.at \in {"close", "forget"}

\* The audio device pulls the sound as long as a peer has some: the last
\* closed peer that stops it never silences one that was attached meanwhile.
AttachedSoundIsPulled ==
    \A p \in Peers : table[p] # None /\ table[p] \in audio => playing \/ sig.at = "play"

\* A user is connected while its context is in the table, while the one that
\* was taken out is not closed yet, or while its last frame is not dropped yet.
Connected == {p \in Peers : \/ table[p] # None
                            \/ gui.at = "close" /\ gui.peer = p
                            \/ gui.at = "forget" /\ gui.peer = p /\ p \in frames}
Mailbox == INSTANCE PeerMailbox WITH open <- Connected, full <- frames

\* The table, the lock, the two threads, the marks and the posted deliveries
\* together are an atomic table of peers with one mailbox each: whatever the
\* interleaving of ensurePeer, closePeer and deliverRemoteFrame, each of them
\* takes effect at once, and no frame is shown but the newest of an open peer.
IsMailbox == Mailbox!Spec

\* The comment in closePeer says that holding the lock during a call into the
\* library would block both threads for good; no code path should do it.
Blocked == gui.at = "create" /\ sig.at \in {"local", "ready", "flush", "answer", "video", "audio"}
ThreadsDoNotBlock == ~Blocked

============================================================================
