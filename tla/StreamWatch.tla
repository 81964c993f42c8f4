---------------------------- MODULE StreamWatch ----------------------------
(***************************************************************************)
(* Watching and sharing screens from the main window (app/MainWindow.cpp). *)
(* One window, one watchdog and one binding per identifier of a user, one  *)
(* pending watch, one WebRTC session: all of them shared by the tabs of    *)
(* all servers, between which the user changes at any time.  Everything    *)
(* runs on the GUI thread; the password dialog and the share dialog run    *)
(* event loops of their own, in which timers and messages go on while the  *)
(* user cannot click anything else.                                        *)
(***************************************************************************)
EXTENDS FiniteSets, Naturals

CONSTANTS Tabs,       \* servers the user may be connected to
          Users,      \* identifiers of users that stream, the same on every server
          Channels,
          Where,      \* the channel of each stream
          Legacy,     \* <<tab, user>>: streams in the old JPEG mode
          None,
          PollLimit   \* polls before a pending watch is given up (40)

ASSUME StreamAssumption ==
    /\ Where \in [Users -> Channels]
    /\ Legacy \subseteq Tabs \X Users
    /\ None \notin Tabs /\ None \notin Users /\ "gone" \notin Tabs
    /\ PollLimit \in Nat

VARIABLES
    open,      \* the tabs there are
    closing,   \* m_disconnectingTabs
    current,   \* the tab in front
    link,      \* m_net of the WebRTC session; "gone": a deleted connection
    at,        \* the channel the user is in, as each tab knows it; None: no tab
    window,    \* m_screenShareWindows and what each shows
    seen,      \* windows that hold a picture
    unreadable, \* windows whose last frame could not be decoded
    watchdog,  \* m_watchNoFrameTimers
    pending,   \* m_pendingWatch and m_pendingWatchTab
    polling,   \* m_pendingWatchPoll runs
    ticks,     \* m_pendingWatchTicks
    asking,    \* the tab the password dialog is for; "gone": closed meanwhile
    choosing,  \* the tab the share dialog was opened in; "gone": closed meanwhile
    binding,   \* m_peerNet; "gone": a deleted connection
    asked,     \* watches the servers know of
    broadcasting, \* m_broadcasting
    sharing    \* the share button is down

tabVars    == <<open, closing, current>>
windowVars == <<window, seen, unreadable, watchdog>>
pendVars   == <<pending, polling, ticks>>
rtcVars    == <<link, binding, asked>>
shareVars  == <<broadcasting, sharing>>
dialogVars == <<asking, choosing>>
vars == <<tabVars, windowVars, pendVars, rtcVars, shareVars, dialogVars, at>>

\* "failed" and "late" are errors with a button to try again: the connection
\* failed, or no frame came in time.
Status == {"none", "waiting", "picture", "error", "failed", "late"}

NoWatch == [user |-> None, tab |-> None]
UserFree == asking = None /\ choosing = None

Init ==
    /\ open = {} /\ closing = {} /\ current = None /\ link = None
    /\ at = [t \in Tabs |-> None]
    /\ window = [u \in Users |-> "none"]
    /\ seen = {} /\ unreadable = {} /\ watchdog = {}
    /\ pending = NoWatch /\ polling = FALSE /\ ticks = 0
    /\ asking = None /\ choosing = None
    /\ binding = [u \in Users |-> None] /\ asked = {}
    /\ broadcasting = FALSE /\ sharing = FALSE

----------------------------------------------------------------------------
(* Tabs.                                                                   *)

\* welcome: the tab comes to the front, the WebRTC session follows.
Open(t) ==
    /\ t \notin open
    /\ open' = open \cup {t}
    /\ current' = t
    /\ link' = t
    /\ \E c \in Channels : at' = [at EXCEPT ![t] = c]
    /\ UNCHANGED <<closing, windowVars, pendVars, binding, asked, shareVars, dialogVars>>

Switch(t) ==
    /\ UserFree
    /\ t \in open \ {current}
    /\ current' = t
    /\ link' = t
    /\ UNCHANGED <<open, closing, at, windowVars, pendVars, binding, asked, shareVars, dialogVars>>

\* The user closes the tab or its connection is lost; the tab goes a second
\* later.
DisconnectTab(t) ==
    /\ t \in open \ closing
    /\ closing' = closing \cup {t}
    /\ UNCHANGED <<open, current, at, windowVars, pendVars, rtcVars, shareVars, dialogVars>>

\* closePeer on every peer there is: the peers that have a context lose their binding.
PeersClosed == {[u \in Users |-> IF u \in peers THEN None ELSE binding[u]] : peers \in SUBSET Users}

\* Mutant of Detached: nothing, unless there is a broadcast to end.
DetachedSharing(t) ==
    IF link # t \/ ~ broadcasting
      THEN {[net |-> link, broadcasting |-> broadcasting, binding |-> binding]}
      ELSE [net : {None}, broadcasting : {FALSE}, binding : PeersClosed]

\* detachFromNet: nothing, if the session works for another tab by now.
Detached(t) ==
    IF link # t THEN {[net |-> link, broadcasting |-> broadcasting, binding |-> binding]}
                ELSE [net : {None}, broadcasting : {FALSE}, binding : PeersClosed]

\* finishDisconnectTab: the windows of all tabs are deleted, which tells no
\* server.  Whether the tab that stays in front gets a currentChanged depends
\* on its place.
FinishDisconnect(t) ==
    /\ t \in closing
    /\ open' = open \ {t}
    /\ closing' = closing \ {t}
    /\ window' = [u \in Users |-> "none"]
    /\ seen' = {} /\ unreadable' = {}
    /\ sharing' = FALSE
    /\ \E left \in Detached(t) :
          /\ broadcasting' = left.broadcasting
          /\ binding' = [u \in Users |-> IF left.binding[u] = t THEN None ELSE left.binding[u]]
          /\ \/ /\ current # t
                /\ current' = current
                /\ link' \in {left.net, current}
             \/ /\ current = t
                /\ IF open = {t} THEN current' = None /\ link' = left.net
                                 ELSE current' \in open \ {t} /\ link' = current'
    /\ asked' = {w \in asked : w[1] # t}
    /\ pending' = [pending EXCEPT !.tab = IF @ = t THEN None ELSE @]
    /\ asking' = IF asking = t THEN "gone" ELSE asking
    /\ choosing' = IF choosing = t THEN "gone" ELSE choosing
    /\ at' = [at EXCEPT ![t] = None]
    /\ UNCHANGED <<watchdog, polling, ticks>>

\* The server moves the user, who asked for it or not.
Moved(t, c) ==
    /\ t \in open
    /\ at[t] # c
    /\ at' = [at EXCEPT ![t] = c]
    /\ UNCHANGED <<tabVars, windowVars, pendVars, rtcVars, shareVars, dialogVars>>

----------------------------------------------------------------------------
(* Watching.                                                               *)

\* armWatchdog: twelve seconds without a frame from now on.
Arm(u) == watchdog' = watchdog \cup {u} /\ unreadable' = unreadable \ {u}

\* Mutant of BeginWatching: the session keeps the tab it works for.
BeginWatchingByLink(t, u) ==
    /\ link' = link
    /\ window' = IF window[u] = "none" THEN [window EXCEPT ![u] = "waiting"] ELSE window
    /\ Arm(u)
    /\ IF <<t, u>> \in Legacy \/ link = None
         THEN UNCHANGED <<binding, asked>>
         ELSE /\ binding' = [binding EXCEPT ![u] = link]
              /\ asked' = asked \cup {<<link, u>>}

\* beginWatching: the session works for tab t, the window opens unless there
\* is one for that identifier, a WebRTC stream is asked for.
BeginWatching(t, u) ==
    /\ link' = t
    /\ window' = IF window[u] = "none" THEN [window EXCEPT ![u] = "waiting"] ELSE window
    /\ Arm(u)
    /\ IF <<t, u>> \in Legacy
         THEN UNCHANGED <<binding, asked>>
         ELSE /\ binding' = [binding EXCEPT ![u] = t]
              /\ asked' = asked \cup {<<t, u>>}

\* watchStream: at once in the stream's channel, else after moving there.
WatchStream(u) ==
    /\ UserFree
    /\ current # None
    /\ IF at[current] = Where[u]
         THEN BeginWatching(current, u) /\ UNCHANGED pendVars
         ELSE /\ pending' = [user |-> u, tab |-> current]
              /\ polling' = TRUE
              /\ ticks' = 0
              /\ UNCHANGED <<window, unreadable, watchdog, rtcVars>>
    /\ UNCHANGED <<tabVars, at, seen, shareVars, dialogVars>>

GiveUp == pending' = NoWatch /\ polling' = FALSE

\* The poll of 150 ms: has the pending watch's tab entered the channel?
Poll ==
    /\ polling
    /\ IF pending.tab = None
         THEN GiveUp /\ UNCHANGED <<ticks, window, unreadable, watchdog, rtcVars>>
         ELSE IF at[pending.tab] = Where[pending.user]
         THEN GiveUp /\ BeginWatching(pending.tab, pending.user) /\ UNCHANGED ticks
         ELSE /\ IF ticks >= PollLimit THEN GiveUp /\ ticks' = 0
                                       ELSE ticks' = ticks + 1 /\ UNCHANGED <<pending, polling>>
              /\ UNCHANGED <<window, unreadable, watchdog, rtcVars>>
    /\ UNCHANGED <<tabVars, at, seen, shareVars, dialogVars>>

\* handleWatchServerError, from whatever tab: the pending watch is given up.
ServerError ==
    /\ pending.user # None
    /\ GiveUp
    /\ watchdog' = watchdog \ {pending.user}
    /\ window' = [window EXCEPT ![pending.user] = IF @ = "none" THEN @ ELSE "error"]
    /\ UNCHANGED <<tabVars, at, seen, unreadable, ticks, rtcVars, shareVars, dialogVars>>

\* bad_channel_pass: the user is asked for the password, for a tab that is
\* still there, also over an open share dialog.  Bound: one such dialog at a
\* time.
AskPassword ==
    /\ asking = None
    /\ pending.user # None
    /\ IF pending.tab = None THEN pending' = NoWatch /\ UNCHANGED asking
                             ELSE asking' = pending.tab /\ UNCHANGED pending
    /\ UNCHANGED <<tabVars, at, windowVars, polling, ticks, rtcVars, shareVars, choosing>>

\* Mutant of AnswerPassword: cancelling only stops the poll.
AnswerPasswordKeeps ==
    /\ asking # None
    /\ asking' = None
    /\ \/ asking \in Tabs /\ ticks' = 0 /\ polling' = TRUE /\ UNCHANGED pending
       \/ polling' = FALSE /\ UNCHANGED <<pending, ticks>>
       \/ asking = "gone" /\ UNCHANGED pendVars
    /\ UNCHANGED <<tabVars, at, windowVars, rtcVars, shareVars, choosing>>

\* The password is sent for what is pending by then, or the watch is given
\* up.  With the tab gone the code calls a deleted object; what follows from
\* that is left out.
AnswerPassword ==
    /\ asking # None
    /\ asking' = None
    /\ \/ asking \in Tabs /\ ticks' = 0 /\ polling' = TRUE /\ UNCHANGED pending
       \/ GiveUp /\ UNCHANGED ticks
       \/ asking = "gone" /\ UNCHANGED pendVars
    /\ UNCHANGED <<tabVars, at, windowVars, rtcVars, shareVars, choosing>>

\* stopWatching: the server the peer is bound to is told, or the session's.
StopWatching(u) ==
    /\ asked' = asked \ {<<IF binding[u] # None THEN binding[u] ELSE link, u>>}
    /\ binding' = [binding EXCEPT ![u] = None]
    /\ UNCHANGED link

\* The window is closed by the user.
CloseWindow(u) ==
    /\ UserFree
    /\ window[u] # "none"
    /\ window' = [window EXCEPT ![u] = "none"]
    /\ seen' = seen \ {u} /\ unreadable' = unreadable \ {u}
    /\ watchdog' = watchdog \ {u}
    /\ StopWatching(u)
    /\ UNCHANGED <<tabVars, at, pendVars, shareVars, dialogVars>>

\* handleScreenshareStateChanged: a stream ended, on whatever server.
StreamEnded(u) ==
    /\ current # None
    /\ window' = [window EXCEPT ![u] = "none"]
    /\ seen' = seen \ {u} /\ unreadable' = unreadable \ {u}
    /\ watchdog' = watchdog \ {u}
    /\ IF pending.user = u THEN GiveUp ELSE UNCHANGED <<pending, polling>>
    /\ IF window[u] # "none" THEN StopWatching(u) ELSE UNCHANGED rtcVars
    /\ UNCHANGED <<tabVars, at, ticks, shareVars, dialogVars>>

\* A frame is shown, whatever the window said.
Frame(u) ==
    /\ watchdog' = watchdog \ {u}
    /\ IF window[u] = "none"
         THEN UNCHANGED <<window, seen, unreadable>>
         ELSE /\ window' = [window EXCEPT ![u] = "picture"]
              /\ seen' = seen \cup {u}
              /\ unreadable' = unreadable \ {u}
    /\ UNCHANGED <<tabVars, at, pendVars, rtcVars, shareVars, dialogVars>>

\* A JPEG frame that cannot be decoded ends the watchdog as well and takes
\* the picture, but not what is on the screen, and the button.
UnreadableFrame(u) ==
    /\ \E t \in Tabs : <<t, u>> \in Legacy
    /\ window[u] # "none"
    /\ watchdog' = watchdog \ {u}
    /\ window' = [window EXCEPT ![u] = IF u \notin seen THEN "waiting"
                                       ELSE IF @ = "picture" THEN @ ELSE "error"]
    /\ seen' = seen \ {u}
    /\ unreadable' = unreadable \cup {u}
    /\ UNCHANGED <<tabVars, at, pendVars, rtcVars, shareVars, dialogVars>>

\* The watchdog: no frame in twelve seconds.
Timeout(u) ==
    /\ u \in watchdog
    /\ watchdog' = watchdog \ {u}
    /\ window' = [window EXCEPT ![u] = IF @ = "none" THEN @ ELSE "late"]
    /\ UNCHANGED <<tabVars, at, seen, unreadable, pendVars, rtcVars, shareVars, dialogVars>>

\* Mutant of PeerFailed: the window that waits goes on saying so.
PeerFailedQuietly(u) ==
    /\ watchdog' = watchdog \ {u}
    /\ UNCHANGED <<tabVars, at, window, seen, unreadable, pendVars, rtcVars, shareVars, dialogVars>>

\* The connection to the peer failed, which may be closed by now.
PeerFailed(u) ==
    /\ watchdog' = watchdog \ {u}
    /\ window' = [window EXCEPT ![u] = IF @ = "none" THEN @ ELSE "failed"]
    /\ UNCHANGED <<tabVars, at, seen, unreadable, pendVars, rtcVars, shareVars, dialogVars>>

\* The button: the window waits again, unless it holds a picture, and the
\* stream is asked for on the server the session works for by now.
Retry(u) ==
    /\ UserFree
    /\ window[u] \in {"failed", "late"}
    /\ window' = [window EXCEPT ![u] = IF u \in seen THEN "error" ELSE "waiting"]
    /\ Arm(u)
    /\ IF window[u] = "late" /\ <<current, u>> \in Legacy
         THEN UNCHANGED <<binding, asked>>
         ELSE /\ binding' = [binding EXCEPT ![u] = link]
              /\ asked' = IF link \in Tabs THEN asked \cup {<<link, u>>} ELSE asked
    /\ UNCHANGED <<tabVars, at, seen, pendVars, link, shareVars, dialogVars>>

\* handleSignal binds a user's peer to the tab its signal came through; a
\* watch_stop closes the peer.
Signal(t, u) ==
    /\ t \in open
    /\ binding' \in {[binding EXCEPT ![u] = t], [binding EXCEPT ![u] = None]}
    /\ UNCHANGED <<tabVars, at, windowVars, pendVars, link, asked, shareVars, dialogVars>>

----------------------------------------------------------------------------
(* Sharing.                                                                *)

\* toggleScreenShare: the button goes down and the share dialog opens.
OpenShareDialog ==
    /\ UserFree
    /\ current # None
    /\ ~ sharing
    /\ sharing' = TRUE
    /\ choosing' = current
    /\ UNCHANGED <<tabVars, at, windowVars, pendVars, rtcVars, broadcasting, asking>>

\* Cancelled, or accepted in a build without WebRTC, or accepted: the session
\* works for the tab the dialog was opened in, which need not be in front any
\* more, and whose deleted connection is read if it was closed.  A broadcast
\* that still runs is not started again; starting one may set the library up
\* anew, without its peers, or fail.
AnswerShareDialog ==
    /\ choosing # None
    /\ asking = None
    /\ choosing' = None
    /\ \/ sharing' = FALSE /\ UNCHANGED <<rtcVars, broadcasting>>
       \/ UNCHANGED <<rtcVars, shareVars>>
       \/ /\ link' = choosing
          /\ IF broadcasting
               THEN UNCHANGED <<broadcasting, binding>>
               ELSE broadcasting' \in BOOLEAN /\ binding' \in PeersClosed
          /\ UNCHANGED <<asked, sharing>>
    /\ UNCHANGED <<tabVars, at, windowVars, pendVars, asking>>

Unshare ==
    /\ UserFree
    /\ current # None
    /\ sharing
    /\ sharing' = FALSE
    /\ broadcasting' = FALSE
    /\ binding' \in IF broadcasting THEN PeersClosed ELSE {binding}
    /\ UNCHANGED <<tabVars, at, windowVars, pendVars, link, asked, dialogVars>>

----------------------------------------------------------------------------
Next ==
    \/ \E t \in Tabs : \/ Open(t) \/ Switch(t) \/ DisconnectTab(t) \/ FinishDisconnect(t)
                       \/ \E c \in Channels : Moved(t, c)
                       \/ \E u \in Users : Signal(t, u)
    \/ \E u \in Users : \/ WatchStream(u) \/ CloseWindow(u) \/ StreamEnded(u)
                        \/ Frame(u) \/ UnreadableFrame(u) \/ Timeout(u) \/ PeerFailed(u)
                        \/ Retry(u)
    \/ Poll \/ ServerError \/ AskPassword \/ AnswerPassword
    \/ OpenShareDialog \/ AnswerShareDialog \/ Unshare

Spec == Init /\ [][Next]_vars

----------------------------------------------------------------------------
TypeOK ==
    /\ open \subseteq Tabs /\ closing \subseteq open
    /\ current \in Tabs \cup {None} /\ link \in Tabs \cup {None, "gone"}
    /\ at \in [Tabs -> Channels \cup {None}]
    /\ window \in [Users -> Status]
    /\ seen \subseteq Users /\ unreadable \subseteq Users /\ watchdog \subseteq Users
    /\ pending \in [user : Users \cup {None}, tab : Tabs \cup {None}]
    /\ polling \in BOOLEAN /\ ticks \in 0..PollLimit
    /\ asking \in Tabs \cup {None, "gone"} /\ choosing \in Tabs \cup {None, "gone"}
    /\ binding \in [Users -> Tabs \cup {None, "gone"}]
    /\ asked \subseteq Tabs \X Users
    /\ broadcasting \in BOOLEAN /\ sharing \in BOOLEAN

\* No window says "waiting" without a watchdog that will put an end to it,
\* unless frames come that cannot be decoded.
WaitingIsWatched ==
    \A u \in Users : window[u] = "waiting" => u \in watchdog \/ u \in unreadable

\* A watch that waits for the channel is polled, whatever becomes of dialogs,
\* errors and tabs.
PendingIsPolled == pending.user # None => polling

\* However tabs close while the session works for them, while their streams
\* are watched and while dialogs are open, the end of a tab leaves neither the
\* session nor a peer with its connection.  The one exception is "gone": a
\* share dialog that is accepted after its tab was closed hands the session
\* the deleted connection, and a retry then binds a peer to it.
LinkIsOpen ==
    /\ current \in open \cup {None}
    /\ link \in open \cup {None, "gone"}
    /\ \A u \in Users : binding[u] \in open \cup {None, "gone"}

\* A click, or the poll that follows it, asks the server of the tab that was
\* clicked in, and only when the user is in the stream's channel there,
\* although tabs and channels change between the click and the poll.
RequestFollowsClick ==
    [][\A w \in asked' \ asked :
          \/ Retry(w[2])
          \/ /\ at[w[1]] = Where[w[2]]
             /\ w[1] = current \/ pending = [user |-> w[2], tab |-> w[1]]]_vars

============================================================================
