------------------------- MODULE StreamWatch_proofs -------------------------
(***************************************************************************)
(* Proofs about StreamWatch: the windows, the pending watch and the WebRTC *)
(* session keep up with tabs that come, change places and go, for any      *)
(* number of servers, streams and channels.                                *)
(***************************************************************************)
EXTENDS StreamWatch, TLAPS

\* A pending watch whose tab is still there is for a user, and the tab is open.
PendingShape ==
    pending.tab # None => pending.user \in Users /\ pending.tab \in open

\* The share dialog's tab is open, unless the dialog outlived it.
ChoosingShape == choosing \in open \cup {None, "gone"}

IInv == TypeOK /\ PendingShape /\ ChoosingShape /\ WaitingIsWatched /\ PendingIsPolled /\ LinkIsOpen

\* What closing every peer leaves of the bindings.
LEMMA ClosedFacts ==
    ASSUME TypeOK, NEW b \in PeersClosed
    PROVE  /\ b \in [Users -> Tabs \cup {None, "gone"}]
           /\ \A u \in Users : b[u] \in {binding[u], None}
<1>1. PICK peers \in SUBSET Users : b = [u \in Users |-> IF u \in peers THEN None ELSE binding[u]]
  BY DEF PeersClosed
<1>2. \A u \in Users : binding[u] \in Tabs \cup {None, "gone"}
  BY DEF TypeOK
<1> QED BY <1>1, <1>2

\* What the end of a tab leaves of the session: not the tab's connection.
LEMMA DetachedFacts ==
    ASSUME TypeOK, NEW t \in Tabs, NEW left \in Detached(t)
    PROVE  /\ left.net \in {link, None} /\ left.net # t
           /\ left.broadcasting \in {broadcasting, FALSE}
           /\ left.binding \in [Users -> Tabs \cup {None, "gone"}]
           /\ \A u \in Users : left.binding[u] \in {binding[u], None}
<1>1. CASE link # t
  <2>1. left = [net |-> link, broadcasting |-> broadcasting, binding |-> binding]
    BY <1>1 DEF Detached
  <2> QED BY <1>1, <2>1 DEF TypeOK
<1>2. CASE link = t
  <2>1. left.net = None /\ left.broadcasting = FALSE /\ left.binding \in PeersClosed
    BY <1>2 DEF Detached
  <2> QED BY <2>1, ClosedFacts, StreamAssumption
<1> QED BY <1>1, <1>2

\* Every step keeps the types.
LEMMA KeepsType == ASSUME TypeOK, PendingShape, [Next]_vars PROVE TypeOK'
<1> USE StreamAssumption DEF TypeOK, PendingShape, NoWatch, Status, tabVars, windowVars, pendVars, rtcVars, shareVars, dialogVars
<1>1. ASSUME NEW t \in Tabs, Open(t) PROVE TypeOK'
  BY <1>1 DEF Open
<1>2. ASSUME NEW t \in Tabs, Switch(t) PROVE TypeOK'
  BY <1>2 DEF Switch
<1>3. ASSUME NEW t \in Tabs, DisconnectTab(t) PROVE TypeOK'
  BY <1>3 DEF DisconnectTab
<1>4. ASSUME NEW t \in Tabs, FinishDisconnect(t) PROVE TypeOK'
  <2>1. PICK left \in Detached(t) :
          /\ broadcasting' = left.broadcasting
          /\ binding' = [u \in Users |-> IF left.binding[u] = t THEN None ELSE left.binding[u]]
          /\ link' \in {left.net} \cup open \cup {current}
    BY <1>4 DEF FinishDisconnect
  <2>2. /\ left.net \in {link, None} /\ left.broadcasting \in {broadcasting, FALSE}
        /\ left.binding \in [Users -> Tabs \cup {None, "gone"}]
    BY DetachedFacts
  <2>a. broadcasting' \in BOOLEAN
    BY <2>1, <2>2, Zenon
  <2>3. /\ link' \in Tabs \cup {None, "gone"}
        /\ binding' \in [Users -> Tabs \cup {None, "gone"}]
    BY <2>1, <2>2
  <2>4. open' \subseteq Tabs /\ closing' \subseteq open' /\ current' \in Tabs \cup {None}
    BY <1>4 DEF FinishDisconnect
  <2>5. pending' \in [user : Users \cup {None}, tab : Tabs \cup {None}]
    BY <1>4 DEF FinishDisconnect
  <2>6. /\ window' \in [Users -> Status] /\ seen' \subseteq Users /\ unreadable' \subseteq Users
        /\ at' \in [Tabs -> Channels \cup {None}]
        /\ UNCHANGED <<watchdog, polling, ticks>> /\ asked' \subseteq Tabs \X Users
        /\ asking' \in Tabs \cup {None, "gone"} /\ choosing' \in Tabs \cup {None, "gone"}
        /\ sharing' \in BOOLEAN
    BY <1>4 DEF FinishDisconnect
  <2> QED BY <2>a, <2>3, <2>4, <2>5, <2>6
<1>5. ASSUME NEW t \in Tabs, NEW c \in Channels, Moved(t, c) PROVE TypeOK'
  BY <1>5 DEF Moved
<1>6. ASSUME NEW t \in Tabs, NEW u \in Users, Signal(t, u) PROVE TypeOK'
  BY <1>6 DEF Signal
<1>7. ASSUME NEW u \in Users, WatchStream(u) PROVE TypeOK'
  <2>0. at' = at /\ UNCHANGED <<tabVars, seen, shareVars, dialogVars>>
    BY <1>7 DEF WatchStream
  <2>1. CASE BeginWatching(current, u) /\ UNCHANGED pendVars
    <3>1. current \in Tabs BY <1>7 DEF WatchStream
    <3> QED BY <2>0, <2>1, <3>1 DEF BeginWatching, Arm
  <2>2. CASE /\ pending' = [user |-> u, tab |-> current] /\ polling' = TRUE /\ ticks' = 0
             /\ UNCHANGED <<window, unreadable, watchdog, rtcVars>>
    BY <2>0, <2>2, <1>7 DEF WatchStream
  <2> QED BY <1>7, <2>1, <2>2 DEF WatchStream
<1>8. ASSUME NEW u \in Users, CloseWindow(u) PROVE TypeOK'
  BY <1>8 DEF CloseWindow, StopWatching
<1>9. ASSUME NEW u \in Users, StreamEnded(u) PROVE TypeOK'
  <2>1. UNCHANGED <<tabVars, at, ticks, shareVars, dialogVars, link>>
    BY <1>9 DEF StreamEnded, StopWatching
  <2>2. window' \in [Users -> Status] /\ seen' \subseteq Users /\ unreadable' \subseteq Users
        /\ watchdog' \subseteq Users
    BY <1>9 DEF StreamEnded
  <2>3. pending' \in {pending, NoWatch} /\ polling' \in BOOLEAN
    BY <1>9 DEF StreamEnded, GiveUp
  <2>4. binding' \in [Users -> Tabs \cup {None, "gone"}] /\ asked' \subseteq Tabs \X Users
    BY <1>9 DEF StreamEnded, StopWatching
  <2> QED BY <2>1, <2>2, <2>3, <2>4
<1>10. ASSUME NEW u \in Users, Frame(u) PROVE TypeOK'
  BY <1>10 DEF Frame
<1>11. ASSUME NEW u \in Users, UnreadableFrame(u) PROVE TypeOK'
  BY <1>11 DEF UnreadableFrame
<1>12. ASSUME NEW u \in Users, Timeout(u) PROVE TypeOK'
  BY <1>12 DEF Timeout
<1>13. ASSUME NEW u \in Users, PeerFailed(u) PROVE TypeOK'
  BY <1>13 DEF PeerFailed
<1>14. ASSUME NEW u \in Users, Retry(u) PROVE TypeOK'
  BY <1>14 DEF Retry, Arm
<1>15. ASSUME Poll PROVE TypeOK'
  <2>0. at' = at /\ UNCHANGED <<tabVars, seen, shareVars, dialogVars>>
    BY <1>15 DEF Poll
  <2>1. CASE /\ pending.tab # None
             /\ GiveUp /\ BeginWatching(pending.tab, pending.user) /\ UNCHANGED ticks
    <3>1. pending.tab \in Tabs /\ pending.user \in Users BY <2>1
    <3>2. /\ window' \in [Users -> Status] /\ watchdog' \subseteq Users
          /\ unreadable' \subseteq Users
      BY <2>1, <3>1 DEF BeginWatching, Arm
    <3>3. /\ link' \in Tabs /\ binding' \in [Users -> Tabs \cup {None, "gone"}]
          /\ asked' \subseteq Tabs \X Users
      BY <2>1, <3>1 DEF BeginWatching
    <3>4. pending' = NoWatch /\ polling' = FALSE /\ ticks' = ticks
      BY <2>1 DEF GiveUp
    <3> QED BY <2>0, <3>2, <3>3, <3>4
  <2>2. CASE UNCHANGED <<window, unreadable, watchdog, rtcVars>>
    <3>1. pending' = NoWatch \/ pending' = pending
      BY <1>15, <2>2 DEF Poll, GiveUp
    <3>2. polling' \in BOOLEAN
      BY <1>15, <2>2 DEF Poll, GiveUp
    <3>3. ticks' \in 0..PollLimit
      <4>1. ticks' = ticks \/ ticks' = 0 \/ (ticks' = ticks + 1 /\ ~ (ticks >= PollLimit))
        BY <1>15 DEF Poll
      <4>2. ticks \in 0..PollLimit /\ PollLimit \in Nat OBVIOUS
      <4> HIDE DEF TypeOK
      <4> QED BY <4>1, <4>2
    <3> QED BY <2>0, <2>2, <3>1, <3>2, <3>3
  <2> QED BY <1>15, <2>1, <2>2 DEF Poll
<1>16. ASSUME ServerError PROVE TypeOK'
  BY <1>16 DEF ServerError, GiveUp
<1>17. ASSUME AskPassword PROVE TypeOK'
  BY <1>17 DEF AskPassword
<1>18. ASSUME AnswerPassword PROVE TypeOK'
  <2>1. pending' \in {pending, NoWatch} /\ polling' \in BOOLEAN /\ ticks' \in {ticks, 0}
    BY <1>18 DEF AnswerPassword, GiveUp
  <2> QED BY <1>18, <2>1 DEF AnswerPassword
<1>19. ASSUME OpenShareDialog PROVE TypeOK'
  BY <1>19 DEF OpenShareDialog
<1>20. ASSUME AnswerShareDialog PROVE TypeOK'
  <2>1. \/ binding' = binding
        \/ binding' \in PeersClosed
    BY <1>20 DEF AnswerShareDialog
  <2>2. binding' \in [Users -> Tabs \cup {None, "gone"}]
    BY <2>1, ClosedFacts
  <2> QED BY <1>20, <2>2 DEF AnswerShareDialog
<1>21. ASSUME Unshare PROVE TypeOK'
  <2>1. \/ binding' = binding
        \/ binding' \in PeersClosed
    BY <1>21 DEF Unshare
  <2>2. binding' \in [Users -> Tabs \cup {None, "gone"}]
    BY <2>1, ClosedFacts
  <2> QED BY <1>21, <2>2 DEF Unshare
<1>22. CASE UNCHANGED vars
  BY <1>22 DEF vars
<1> QED
  BY <1>1, <1>2, <1>3, <1>4, <1>5, <1>6, <1>7, <1>8, <1>9, <1>10, <1>11, <1>12, <1>13, <1>14, <1>15, <1>16, <1>17, <1>18, <1>19, <1>20, <1>21, <1>22 DEF Next

\* A pending watch keeps its shape.
LEMMA KeepsPending == ASSUME TypeOK, PendingShape, LinkIsOpen, [Next]_vars PROVE PendingShape'
<1> USE StreamAssumption DEF TypeOK, PendingShape, LinkIsOpen, NoWatch, tabVars, windowVars, pendVars, rtcVars, shareVars, dialogVars
<1>1. ASSUME NEW t \in Tabs, Open(t) PROVE PendingShape'
  BY <1>1 DEF Open
<1>2. ASSUME NEW t \in Tabs, Switch(t) PROVE PendingShape'
  BY <1>2 DEF Switch
<1>3. ASSUME NEW t \in Tabs, DisconnectTab(t) PROVE PendingShape'
  BY <1>3 DEF DisconnectTab
<1>4. ASSUME NEW t \in Tabs, FinishDisconnect(t) PROVE PendingShape'
  BY <1>4 DEF FinishDisconnect
<1>5. ASSUME NEW t \in Tabs, NEW c \in Channels, Moved(t, c) PROVE PendingShape'
  BY <1>5 DEF Moved
<1>6. ASSUME NEW t \in Tabs, NEW u \in Users, Signal(t, u) PROVE PendingShape'
  BY <1>6 DEF Signal
<1>7. ASSUME NEW u \in Users, WatchStream(u) PROVE PendingShape'
  <2>0. UNCHANGED <<tabVars>> /\ current \in open
    BY <1>7 DEF WatchStream
  <2>1. CASE UNCHANGED pendVars BY <2>0, <2>1
  <2>2. CASE pending' = [user |-> u, tab |-> current]
    BY <2>0, <2>2
  <2> QED BY <1>7, <2>1, <2>2 DEF WatchStream
<1>8. ASSUME NEW u \in Users, CloseWindow(u) PROVE PendingShape'
  BY <1>8 DEF CloseWindow, StopWatching
<1>9. ASSUME NEW u \in Users, StreamEnded(u) PROVE PendingShape'
  BY <1>9 DEF StreamEnded, StopWatching, GiveUp
<1>10. ASSUME NEW u \in Users, Frame(u) PROVE PendingShape'
  BY <1>10 DEF Frame
<1>11. ASSUME NEW u \in Users, UnreadableFrame(u) PROVE PendingShape'
  BY <1>11 DEF UnreadableFrame
<1>12. ASSUME NEW u \in Users, Timeout(u) PROVE PendingShape'
  BY <1>12 DEF Timeout
<1>13. ASSUME NEW u \in Users, PeerFailed(u) PROVE PendingShape'
  BY <1>13 DEF PeerFailed
<1>14. ASSUME NEW u \in Users, Retry(u) PROVE PendingShape'
  BY <1>14 DEF Retry, Arm
<1>15. ASSUME Poll PROVE PendingShape'
  <2>1. UNCHANGED <<tabVars>> /\ (pending' = NoWatch \/ pending' = pending)
    BY <1>15 DEF Poll, GiveUp
  <2> QED BY <2>1
<1>16. ASSUME ServerError PROVE PendingShape'
  BY <1>16 DEF ServerError, GiveUp
<1>17. ASSUME AskPassword PROVE PendingShape'
  BY <1>17 DEF AskPassword
<1>18. ASSUME AnswerPassword PROVE PendingShape'
  BY <1>18 DEF AnswerPassword, GiveUp
<1>19. ASSUME OpenShareDialog PROVE PendingShape'
  BY <1>19 DEF OpenShareDialog
<1>20. ASSUME AnswerShareDialog PROVE PendingShape'
  BY <1>20 DEF AnswerShareDialog
<1>21. ASSUME Unshare PROVE PendingShape'
  BY <1>21 DEF Unshare
<1>22. CASE UNCHANGED vars
  BY <1>22 DEF vars
<1> QED
  BY <1>1, <1>2, <1>3, <1>4, <1>5, <1>6, <1>7, <1>8, <1>9, <1>10, <1>11, <1>12, <1>13, <1>14, <1>15, <1>16, <1>17, <1>18, <1>19, <1>20, <1>21, <1>22 DEF Next

\* Whatever makes a window wait arms its watchdog, and what ends a watchdog
\* changes the window.
LEMMA KeepsWatched == ASSUME TypeOK, PendingShape, WaitingIsWatched, [Next]_vars PROVE WaitingIsWatched'
<1> USE StreamAssumption DEF TypeOK, PendingShape, WaitingIsWatched, tabVars, windowVars, pendVars, rtcVars, shareVars, dialogVars
<1>1. ASSUME NEW t \in Tabs, Open(t) PROVE WaitingIsWatched'
  BY <1>1 DEF Open
<1>2. ASSUME NEW t \in Tabs, Switch(t) PROVE WaitingIsWatched'
  BY <1>2 DEF Switch
<1>3. ASSUME NEW t \in Tabs, DisconnectTab(t) PROVE WaitingIsWatched'
  BY <1>3 DEF DisconnectTab
<1>4. ASSUME NEW t \in Tabs, FinishDisconnect(t) PROVE WaitingIsWatched'
  BY <1>4 DEF FinishDisconnect
<1>5. ASSUME NEW t \in Tabs, NEW c \in Channels, Moved(t, c) PROVE WaitingIsWatched'
  BY <1>5 DEF Moved
<1>6. ASSUME NEW t \in Tabs, NEW u \in Users, Signal(t, u) PROVE WaitingIsWatched'
  BY <1>6 DEF Signal
<1>7. ASSUME NEW u \in Users, WatchStream(u) PROVE WaitingIsWatched'
  BY <1>7 DEF WatchStream, BeginWatching, Arm
<1>8. ASSUME NEW u \in Users, CloseWindow(u) PROVE WaitingIsWatched'
  BY <1>8 DEF CloseWindow, StopWatching
<1>9. ASSUME NEW u \in Users, StreamEnded(u) PROVE WaitingIsWatched'
  BY <1>9 DEF StreamEnded, StopWatching, GiveUp
<1>10. ASSUME NEW u \in Users, Frame(u) PROVE WaitingIsWatched'
  BY <1>10 DEF Frame
<1>11. ASSUME NEW u \in Users, UnreadableFrame(u) PROVE WaitingIsWatched'
  BY <1>11 DEF UnreadableFrame
<1>12. ASSUME NEW u \in Users, Timeout(u) PROVE WaitingIsWatched'
  BY <1>12 DEF Timeout
<1>13. ASSUME NEW u \in Users, PeerFailed(u) PROVE WaitingIsWatched'
  BY <1>13 DEF PeerFailed
<1>14. ASSUME NEW u \in Users, Retry(u) PROVE WaitingIsWatched'
  BY <1>14 DEF Retry, Arm
<1>15. ASSUME Poll PROVE WaitingIsWatched'
  BY <1>15 DEF Poll, BeginWatching, Arm, GiveUp
<1>16. ASSUME ServerError PROVE WaitingIsWatched'
  BY <1>16 DEF ServerError, GiveUp
<1>17. ASSUME AskPassword PROVE WaitingIsWatched'
  BY <1>17 DEF AskPassword
<1>18. ASSUME AnswerPassword PROVE WaitingIsWatched'
  BY <1>18 DEF AnswerPassword, GiveUp
<1>19. ASSUME OpenShareDialog PROVE WaitingIsWatched'
  BY <1>19 DEF OpenShareDialog
<1>20. ASSUME AnswerShareDialog PROVE WaitingIsWatched'
  BY <1>20 DEF AnswerShareDialog
<1>21. ASSUME Unshare PROVE WaitingIsWatched'
  BY <1>21 DEF Unshare
<1>22. CASE UNCHANGED vars
  BY <1>22 DEF vars
<1> QED
  BY <1>1, <1>2, <1>3, <1>4, <1>5, <1>6, <1>7, <1>8, <1>9, <1>10, <1>11, <1>12, <1>13, <1>14, <1>15, <1>16, <1>17, <1>18, <1>19, <1>20, <1>21, <1>22 DEF Next

\* The poll ends only with the pending watch.
LEMMA KeepsPolled == ASSUME TypeOK, PendingIsPolled, [Next]_vars PROVE PendingIsPolled'
<1> USE StreamAssumption DEF TypeOK, PendingIsPolled, NoWatch, tabVars, windowVars, pendVars, rtcVars, shareVars, dialogVars
<1>1. ASSUME NEW t \in Tabs, Open(t) PROVE PendingIsPolled'
  BY <1>1 DEF Open
<1>2. ASSUME NEW t \in Tabs, Switch(t) PROVE PendingIsPolled'
  BY <1>2 DEF Switch
<1>3. ASSUME NEW t \in Tabs, DisconnectTab(t) PROVE PendingIsPolled'
  BY <1>3 DEF DisconnectTab
<1>4. ASSUME NEW t \in Tabs, FinishDisconnect(t) PROVE PendingIsPolled'
  BY <1>4 DEF FinishDisconnect
<1>5. ASSUME NEW t \in Tabs, NEW c \in Channels, Moved(t, c) PROVE PendingIsPolled'
  BY <1>5 DEF Moved
<1>6. ASSUME NEW t \in Tabs, NEW u \in Users, Signal(t, u) PROVE PendingIsPolled'
  BY <1>6 DEF Signal
<1>7. ASSUME NEW u \in Users, WatchStream(u) PROVE PendingIsPolled'
  BY <1>7 DEF WatchStream, BeginWatching, Arm
<1>8. ASSUME NEW u \in Users, CloseWindow(u) PROVE PendingIsPolled'
  BY <1>8 DEF CloseWindow, StopWatching
<1>9. ASSUME NEW u \in Users, StreamEnded(u) PROVE PendingIsPolled'
  BY <1>9 DEF StreamEnded, StopWatching, GiveUp
<1>10. ASSUME NEW u \in Users, Frame(u) PROVE PendingIsPolled'
  BY <1>10 DEF Frame
<1>11. ASSUME NEW u \in Users, UnreadableFrame(u) PROVE PendingIsPolled'
  BY <1>11 DEF UnreadableFrame
<1>12. ASSUME NEW u \in Users, Timeout(u) PROVE PendingIsPolled'
  BY <1>12 DEF Timeout
<1>13. ASSUME NEW u \in Users, PeerFailed(u) PROVE PendingIsPolled'
  BY <1>13 DEF PeerFailed
<1>14. ASSUME NEW u \in Users, Retry(u) PROVE PendingIsPolled'
  BY <1>14 DEF Retry, Arm
<1>15. ASSUME Poll PROVE PendingIsPolled'
  <2>1. GiveUp \/ UNCHANGED <<pending, polling>>
    BY <1>15 DEF Poll
  <2> QED BY <2>1 DEF GiveUp
<1>16. ASSUME ServerError PROVE PendingIsPolled'
  BY <1>16 DEF ServerError, GiveUp
<1>17. ASSUME AskPassword PROVE PendingIsPolled'
  BY <1>17 DEF AskPassword
<1>18. ASSUME AnswerPassword PROVE PendingIsPolled'
  BY <1>18 DEF AnswerPassword, GiveUp
<1>19. ASSUME OpenShareDialog PROVE PendingIsPolled'
  BY <1>19 DEF OpenShareDialog
<1>20. ASSUME AnswerShareDialog PROVE PendingIsPolled'
  BY <1>20 DEF AnswerShareDialog
<1>21. ASSUME Unshare PROVE PendingIsPolled'
  BY <1>21 DEF Unshare
<1>22. CASE UNCHANGED vars
  BY <1>22 DEF vars
<1> QED
  BY <1>1, <1>2, <1>3, <1>4, <1>5, <1>6, <1>7, <1>8, <1>9, <1>10, <1>11, <1>12, <1>13, <1>14, <1>15, <1>16, <1>17, <1>18, <1>19, <1>20, <1>21, <1>22 DEF Next

\* A share dialog that outlives its tab is known to have done so.
LEMMA KeepsChoosing == ASSUME ChoosingShape, LinkIsOpen, [Next]_vars PROVE ChoosingShape'
<1> USE DEF ChoosingShape, tabVars, dialogVars
<1>1. ASSUME NEW t \in Tabs, FinishDisconnect(t) PROVE ChoosingShape'
  BY <1>1 DEF FinishDisconnect
<1>2. ASSUME OpenShareDialog PROVE ChoosingShape'
  BY <1>2 DEF OpenShareDialog, LinkIsOpen
<1>3. ASSUME AnswerShareDialog PROVE ChoosingShape'
  BY <1>3 DEF AnswerShareDialog
<1>4. ASSUME AskPassword \/ AnswerPassword PROVE ChoosingShape'
  BY <1>4 DEF AskPassword, AnswerPassword
<1>5. ASSUME NEW t \in Tabs, Open(t) PROVE ChoosingShape'
  BY <1>5 DEF Open
<1>6. ASSUME NEW t \in Tabs, Switch(t) \/ DisconnectTab(t) PROVE ChoosingShape'
  BY <1>6 DEF Switch, DisconnectTab
<1>7. ASSUME NEW t \in Tabs, \/ \E c \in Channels : Moved(t, c)
                             \/ \E u \in Users : Signal(t, u)
      PROVE  ChoosingShape'
  BY <1>7 DEF Moved, Signal
<1>8. ASSUME NEW u \in Users, WatchStream(u) \/ CloseWindow(u) \/ StreamEnded(u) \/ Retry(u)
      PROVE  ChoosingShape'
  BY <1>8 DEF WatchStream, CloseWindow, StreamEnded, Retry
<1>9. ASSUME NEW u \in Users, Frame(u) \/ UnreadableFrame(u) \/ Timeout(u) \/ PeerFailed(u)
      PROVE  ChoosingShape'
  BY <1>9 DEF Frame, UnreadableFrame, Timeout, PeerFailed
<1>10. ASSUME Poll \/ ServerError \/ Unshare PROVE ChoosingShape'
  BY <1>10 DEF Poll, ServerError, Unshare
<1>11. CASE UNCHANGED vars
  BY <1>11 DEF vars
<1> QED
  BY <1>1, <1>2, <1>3, <1>4, <1>5, <1>6, <1>7, <1>8, <1>9, <1>10, <1>11 DEF Next

\* A tab that goes takes its place in the session and its bindings with it.
LEMMA KeepsLink == ASSUME TypeOK, PendingShape, ChoosingShape, LinkIsOpen, [Next]_vars PROVE LinkIsOpen'
<1> USE StreamAssumption DEF TypeOK, PendingShape, ChoosingShape, LinkIsOpen, tabVars, windowVars, pendVars, rtcVars, shareVars, dialogVars
<1>1. ASSUME NEW t \in Tabs, Open(t) PROVE LinkIsOpen'
  BY <1>1 DEF Open
<1>2. ASSUME NEW t \in Tabs, Switch(t) PROVE LinkIsOpen'
  BY <1>2 DEF Switch
<1>3. ASSUME NEW t \in Tabs, DisconnectTab(t) PROVE LinkIsOpen'
  BY <1>3 DEF DisconnectTab
<1>4. ASSUME NEW t \in Tabs, FinishDisconnect(t) PROVE LinkIsOpen'
  <2>1. PICK left \in Detached(t) :
          /\ binding' = [u \in Users |-> IF left.binding[u] = t THEN None ELSE left.binding[u]]
          /\ \/ current # t /\ current' = current /\ link' \in {left.net, current}
             \/ current' = None /\ link' = left.net
             \/ current' \in open \ {t} /\ link' = current'
    BY <1>4 DEF FinishDisconnect
  <2>2. /\ left.net \in {link, None} /\ left.net # t
        /\ left.binding \in [Users -> Tabs \cup {None, "gone"}]
        /\ \A u \in Users : left.binding[u] \in {binding[u], None}
    BY DetachedFacts
  <2>3. open' = open \ {t}
    BY <1>4 DEF FinishDisconnect
  <2>4. current' \in open' \cup {None} /\ link' \in open' \cup {None, "gone"}
    BY <2>1, <2>2, <2>3
  <2>5. ASSUME NEW u \in Users PROVE binding'[u] \in open' \cup {None, "gone"}
    <3>1. binding'[u] = IF left.binding[u] = t THEN None ELSE left.binding[u]
      BY <2>1
    <3>2. left.binding[u] \in {binding[u], None} /\ binding[u] \in open \cup {None, "gone"}
      BY <2>2
    <3> HIDE DEF TypeOK, LinkIsOpen
    <3> QED BY <2>3, <3>1, <3>2
  <2> QED BY <2>4, <2>5
<1>5. ASSUME NEW t \in Tabs, NEW c \in Channels, Moved(t, c) PROVE LinkIsOpen'
  BY <1>5 DEF Moved
<1>6. ASSUME NEW t \in Tabs, NEW u \in Users, Signal(t, u) PROVE LinkIsOpen'
  BY <1>6 DEF Signal
<1>7. ASSUME NEW u \in Users, WatchStream(u) PROVE LinkIsOpen'
  BY <1>7 DEF WatchStream, BeginWatching, Arm
<1>8. ASSUME NEW u \in Users, CloseWindow(u) PROVE LinkIsOpen'
  BY <1>8 DEF CloseWindow, StopWatching
<1>9. ASSUME NEW u \in Users, StreamEnded(u) PROVE LinkIsOpen'
  BY <1>9 DEF StreamEnded, StopWatching, GiveUp
<1>10. ASSUME NEW u \in Users, Frame(u) PROVE LinkIsOpen'
  BY <1>10 DEF Frame
<1>11. ASSUME NEW u \in Users, UnreadableFrame(u) PROVE LinkIsOpen'
  BY <1>11 DEF UnreadableFrame
<1>12. ASSUME NEW u \in Users, Timeout(u) PROVE LinkIsOpen'
  BY <1>12 DEF Timeout
<1>13. ASSUME NEW u \in Users, PeerFailed(u) PROVE LinkIsOpen'
  BY <1>13 DEF PeerFailed
<1>14. ASSUME NEW u \in Users, Retry(u) PROVE LinkIsOpen'
  BY <1>14 DEF Retry, Arm
<1>15. ASSUME Poll PROVE LinkIsOpen'
  <2>1. UNCHANGED <<open, current>>
    BY <1>15 DEF Poll
  <2>2. CASE pending.tab # None /\ BeginWatching(pending.tab, pending.user)
    <3>1. pending.tab \in open /\ pending.user \in Users BY <2>2
    <3>2. link' = pending.tab BY <2>2 DEF BeginWatching
    <3>3. binding' \in {binding, [binding EXCEPT ![pending.user] = pending.tab]}
      BY <2>2 DEF BeginWatching
    <3>4. \A u \in Users : binding'[u] \in {binding[u], pending.tab}
      BY <3>1, <3>3
    <3> QED BY <2>1, <3>1, <3>2, <3>4
  <2>3. CASE UNCHANGED rtcVars
    BY <2>1, <2>3
  <2> QED BY <1>15, <2>2, <2>3 DEF Poll
<1>16. ASSUME ServerError PROVE LinkIsOpen'
  BY <1>16 DEF ServerError, GiveUp
<1>17. ASSUME AskPassword PROVE LinkIsOpen'
  BY <1>17 DEF AskPassword
<1>18. ASSUME AnswerPassword PROVE LinkIsOpen'
  BY <1>18 DEF AnswerPassword, GiveUp
<1>19. ASSUME OpenShareDialog PROVE LinkIsOpen'
  BY <1>19 DEF OpenShareDialog
<1>20. ASSUME AnswerShareDialog PROVE LinkIsOpen'
  <2>1. UNCHANGED <<open, current>> /\ link' \in {link, choosing}
        /\ (binding' = binding \/ binding' \in PeersClosed)
    BY <1>20 DEF AnswerShareDialog
  <2>2. \A u \in Users : binding'[u] \in {binding[u], None}
    BY <2>1, ClosedFacts
  <2> QED BY <2>1, <2>2
<1>21. ASSUME Unshare PROVE LinkIsOpen'
  <2>1. UNCHANGED <<open, current, link>> /\ (binding' = binding \/ binding' \in PeersClosed)
    BY <1>21 DEF Unshare
  <2>2. \A u \in Users : binding'[u] \in {binding[u], None}
    BY <2>1, ClosedFacts
  <2> QED BY <2>1, <2>2
<1>22. CASE UNCHANGED vars
  BY <1>22 DEF vars
<1> QED
  BY <1>1, <1>2, <1>3, <1>4, <1>5, <1>6, <1>7, <1>8, <1>9, <1>10, <1>11, <1>12, <1>13, <1>14, <1>15, <1>16, <1>17, <1>18, <1>19, <1>20, <1>21, <1>22 DEF Next

\* The invariant holds in every reachable state.
THEOREM Inductive == Spec => []IInv
<1>1. Init => IInv
  <2> SUFFICES ASSUME Init PROVE IInv OBVIOUS
  <2> USE StreamAssumption DEF Init
  <2>1. TypeOK
    <3>1. window \in [Users -> Status] BY DEF Status
    <3>2. binding \in [Users -> Tabs \cup {None, "gone"}] OBVIOUS
    <3>3. pending \in [user : Users \cup {None}, tab : Tabs \cup {None}] BY DEF NoWatch
    <3>4. ticks \in 0..PollLimit OBVIOUS
    <3> QED BY <3>1, <3>2, <3>3, <3>4 DEF TypeOK
  <2>2. PendingShape /\ PendingIsPolled BY DEF PendingShape, PendingIsPolled, NoWatch
  <2>3. WaitingIsWatched /\ LinkIsOpen /\ ChoosingShape
    BY DEF WaitingIsWatched, LinkIsOpen, ChoosingShape
  <2> QED BY <2>1, <2>2, <2>3 DEF IInv
<1>2. IInv /\ [Next]_vars => IInv'
  BY KeepsType, KeepsPending, KeepsWatched, KeepsPolled, KeepsChoosing, KeepsLink
  DEF IInv
<1>3. QED BY <1>1, <1>2, PTL DEF Spec

\* The state of the window and of its session keeps its type.
THEOREM TypeCorrect == Spec => []TypeOK
<1>1. IInv => TypeOK BY DEF IInv
<1>2. QED BY <1>1, Inductive, PTL

\* No window waits without a watchdog, unless its frames cannot be decoded.
THEOREM WindowsAreWatched == Spec => []WaitingIsWatched
<1>1. IInv => WaitingIsWatched BY DEF IInv
<1>2. QED BY <1>1, Inductive, PTL

\* A watch that waits for the channel is polled.
THEOREM PendingWatchIsPolled == Spec => []PendingIsPolled
<1>1. IInv => PendingIsPolled BY DEF IInv
<1>2. QED BY <1>1, Inductive, PTL

\* A tab that ends leaves neither the session nor a peer with its connection; only a
\* share dialog accepted after that brings the deleted connection in.
THEOREM SessionUsesOpenTabs == Spec => []LinkIsOpen
<1>1. IInv => LinkIsOpen BY DEF IInv
<1>2. QED BY <1>1, Inductive, PTL

\* A request that is new was made by a retry, a click or the poll.
LEMMA NewRequest ==
    ASSUME IInv, [Next]_vars, NEW w \in asked' \ asked
    PROVE  \/ Retry(w[2])
           \/ /\ at[w[1]] = Where[w[2]]
              /\ w[1] = current \/ pending = [user |-> w[2], tab |-> w[1]]
<1> USE DEF rtcVars
<1>1. ASSUME NEW t \in Tabs, Open(t) PROVE FALSE
  BY <1>1 DEF Open
<1>2. ASSUME NEW t \in Tabs, Switch(t) PROVE FALSE
  BY <1>2 DEF Switch
<1>3. ASSUME NEW t \in Tabs, DisconnectTab(t) PROVE FALSE
  BY <1>3 DEF DisconnectTab
<1>4. ASSUME NEW t \in Tabs, FinishDisconnect(t) PROVE FALSE
  BY <1>4 DEF FinishDisconnect
<1>5. ASSUME NEW t \in Tabs, NEW c \in Channels, Moved(t, c) PROVE FALSE
  BY <1>5 DEF Moved
<1>6. ASSUME NEW t \in Tabs, NEW u \in Users, Signal(t, u) PROVE FALSE
  BY <1>6 DEF Signal
<1>7. ASSUME NEW u \in Users, CloseWindow(u) PROVE FALSE
  BY <1>7 DEF CloseWindow, StopWatching
<1>8. ASSUME NEW u \in Users, StreamEnded(u) PROVE FALSE
  BY <1>8 DEF StreamEnded, StopWatching
<1>9. ASSUME NEW u \in Users, Frame(u) PROVE FALSE
  BY <1>9 DEF Frame
<1>10. ASSUME NEW u \in Users, UnreadableFrame(u) PROVE FALSE
  BY <1>10 DEF UnreadableFrame
<1>11. ASSUME NEW u \in Users, Timeout(u) PROVE FALSE
  BY <1>11 DEF Timeout
<1>12. ASSUME NEW u \in Users, PeerFailed(u) PROVE FALSE
  BY <1>12 DEF PeerFailed
<1>13. ASSUME ServerError PROVE FALSE
  BY <1>13 DEF ServerError
<1>14. ASSUME AskPassword PROVE FALSE
  BY <1>14 DEF AskPassword
<1>15. ASSUME AnswerPassword PROVE FALSE
  BY <1>15 DEF AnswerPassword
<1>16. ASSUME OpenShareDialog \/ AnswerShareDialog PROVE FALSE
  BY <1>16 DEF OpenShareDialog, AnswerShareDialog
<1>17. ASSUME Unshare PROVE FALSE
  BY <1>17 DEF Unshare
<1>18. CASE UNCHANGED vars
  BY <1>18 DEF vars
<1>19. ASSUME NEW u \in Users, WatchStream(u)
      PROVE  at[w[1]] = Where[w[2]] /\ w[1] = current
  <2>1. at[current] = Where[u] /\ BeginWatching(current, u)
    BY <1>19 DEF WatchStream
  <2>2. w = <<current, u>>
    BY <2>1 DEF BeginWatching
  <2> QED BY <2>1, <2>2
<1>20. ASSUME Poll
      PROVE  at[w[1]] = Where[w[2]] /\ pending = [user |-> w[2], tab |-> w[1]]
  <2>1. at[pending.tab] = Where[pending.user] /\ BeginWatching(pending.tab, pending.user)
    BY <1>20 DEF Poll
  <2>2. w = <<pending.tab, pending.user>>
    BY <2>1 DEF BeginWatching
  <2>3. pending = [user |-> pending.user, tab |-> pending.tab]
    BY DEF IInv, TypeOK
  <2> QED BY <2>1, <2>2, <2>3
<1>21. ASSUME NEW u \in Users, Retry(u) PROVE Retry(w[2])
  <2>1. w = <<link, u>>
    BY <1>21 DEF Retry
  <2> QED BY <1>21, <2>1
<1> QED
  BY <1>1, <1>2, <1>3, <1>4, <1>5, <1>6, <1>7, <1>8, <1>9, <1>10, <1>11, <1>12, <1>13, <1>14, <1>15, <1>16, <1>17, <1>18, <1>19, <1>20, <1>21 DEF Next

\* A click, or the poll after it, asks the clicked tab's server, from the
\* stream's channel.
THEOREM RequestsFollowClicks == Spec => RequestFollowsClick
<1>1. IInv /\ [Next]_vars =>
        [\A w \in asked' \ asked :
            \/ Retry(w[2])
            \/ /\ at[w[1]] = Where[w[2]]
               /\ w[1] = current \/ pending = [user |-> w[2], tab |-> w[1]]]_vars
  BY NewRequest
<1>2. QED BY <1>1, Inductive, PTL DEF Spec, RequestFollowsClick

============================================================================
