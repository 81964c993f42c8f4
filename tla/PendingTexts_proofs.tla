------------------------ MODULE PendingTexts_proofs ------------------------
(***************************************************************************)
(* Proofs about the texts that wait for keys, for any users, channels and   *)
(* texts and any patience.  The queues and the table of fates say the same: *)
(* a name waits if and only if one entry, and only one, carries it.         *)
(*                                                                         *)
(* The last section is about KeyRecovery, whose questions bring the keys    *)
(* that these texts wait for.                                               *)
(***************************************************************************)
EXTENDS PendingTexts, KeyRecovery, FiniteSetTheorems, SequenceTheorems, WellFoundedInduction,
        TLAPS

Entries == Chats(Nat) \cup Outbox(Nat) \cup Inbox(Nat)

Verdicts == {"waiting", "sent", "refused", "shown"}

\* No text has two entries.
Single == \A e, f \in waiting : e.text = f.text => e = f

\* Texts wait in the queues, and the texts of the queues wait.
Waits ==
    /\ \A e \in waiting : fate[e.text] = "waiting"
    /\ \A t \in Texts : fate[t] = "waiting" => \E e \in waiting : e.text = t

IInv == TypeOK /\ Single /\ Waits

-----------------------------------------------------------------------------
(* Entries and their fates.                                                *)

LEMMA FateRange == \A e : FateOf(e) \in Verdicts /\ FateOf(e)' \in Verdicts
BY DEF FateOf, ChatFate, OfflineFate, InboxFate, Verdicts

LEMMA VerdictsAreFates == Verdicts \subseteq Fates
BY DEF Verdicts, Fates

\* A new entry is one of the queues'.
LEMMA NewEntries == Chats({0}) \cup Outbox({0}) \cup Inbox({0}) \subseteq Entries
BY DEF Entries, Chats, Outbox, Inbox

\* Requeueing touches an entry's age only, so its fate is the same.
LEMMA RequeuedKeeps ==
  ASSUME NEW e \in Entries
  PROVE  /\ Requeued(e) \in Entries
         /\ Requeued(e).text = e.text
         /\ FateOf(Requeued(e))' = FateOf(e)'
<1>1. CASE e.kind = "inbox" BY <1>1 DEF Requeued
<1>2. CASE e.kind # "inbox"
  <2>1. Requeued(e) = [e EXCEPT !.age = 0] BY <1>2 DEF Requeued
  <2>2. CASE e \in Chats(Nat)
    <3>1. Requeued(e) \in Chats(Nat) /\ Requeued(e).text = e.text /\ Requeued(e).kind = e.kind
      BY <2>1, <2>2 DEF Chats
    <3>2. e.kind \in {"server", "channel"} BY <2>2 DEF Chats
    <3> QED BY <3>1, <3>2 DEF Entries, FateOf, ChatFate, KeyOf
  <2>3. CASE e \in Outbox(Nat)
    <3>1. /\ Requeued(e) \in Outbox(Nat) /\ Requeued(e).text = e.text
          /\ Requeued(e).kind = "offline" /\ e.kind = "offline" /\ Requeued(e).to = e.to
      BY <2>1, <2>3 DEF Outbox
    <3> QED BY <3>1 DEF Entries, FateOf, OfflineFate
  <2>4. CASE e \in Inbox(Nat) BY <1>2, <2>4 DEF Inbox
  <2> QED BY <2>2, <2>3, <2>4 DEF Entries
<1> QED BY <1>1, <1>2

LEMMA EntryText ==
  ASSUME NEW e \in Entries PROVE e.text \in Texts
BY DEF Entries, Chats, Outbox, Inbox

\* An entry that grows older stays one.
LEMMA AgedKeeps ==
  ASSUME NEW e \in Entries
  PROVE  [e EXCEPT !.age = @ + 1] \in Entries /\ [e EXCEPT !.age = @ + 1].text = e.text
<1>1. CASE e \in Chats(Nat) BY <1>1 DEF Chats, Entries
<1>2. CASE e \in Outbox(Nat) BY <1>2 DEF Outbox, Entries
<1>3. CASE e \in Inbox(Nat) BY <1>3 DEF Inbox, Entries
<1> QED BY <1>1, <1>2, <1>3 DEF Entries

-----------------------------------------------------------------------------
(* A flush gives each text the fate of its entry.                          *)

LEMMA FlushFates ==
  ASSUME IInv, Flush
  PROVE  /\ fate' \in [Texts -> Fates]
         /\ \A e \in waiting : fate'[e.text] = FateOf(e)'
         /\ \A t \in Texts : (~\E e \in waiting : e.text = t) => fate'[t] = fate[t]
<1> DEFINE Right(t, f) == IF \E e \in waiting : e.text = t
                          THEN \E e \in waiting : e.text = t /\ f = FateOf(e)'
                          ELSE f = fate[t]
<1>0. waiting \subseteq Entries /\ fate \in [Texts -> Fates] BY DEF IInv, TypeOK, Entries
<1>1. fate' = [t \in Texts |-> CHOOSE f \in Fates : Right(t, f)] BY DEF Flush
<1>2. ASSUME NEW t \in Texts PROVE \E f \in Fates : Right(t, f)
  <2>1. CASE \E e \in waiting : e.text = t
    <3>1. PICK e \in waiting : e.text = t BY <2>1
    <3>2. FateOf(e)' \in Fates BY FateRange, VerdictsAreFates
    <3>3. Right(t, FateOf(e)') BY <3>1
    <3> QED BY <3>2, <3>3
  <2>2. CASE ~\E e \in waiting : e.text = t
    <3>1. fate[t] \in Fates BY <1>0
    <3>2. Right(t, fate[t]) BY <2>2
    <3> QED BY <3>1, <3>2
  <2> QED BY <2>1, <2>2
<1>3. ASSUME NEW t \in Texts PROVE fate'[t] \in Fates /\ Right(t, fate'[t])
  <2>1. fate'[t] = CHOOSE f \in Fates : Right(t, f)
    <3> HIDE DEF Right
    <3> QED BY <1>1
  <2> HIDE DEF Right
  <2> QED BY <1>2, <2>1
<1>4. fate' \in [Texts -> Fates]
  <2> HIDE DEF Right
  <2> QED BY <1>1, <1>2
<1>5. ASSUME NEW e \in waiting PROVE fate'[e.text] = FateOf(e)'
  <2>1. e.text \in Texts BY <1>0, EntryText
  <2>2. PICK g \in waiting : g.text = e.text /\ fate'[e.text] = FateOf(g)' BY <1>3, <2>1
  <2>3. g = e BY <2>2 DEF IInv, Single
  <2> QED BY <2>2, <2>3
<1>6. \A t \in Texts : (~\E e \in waiting : e.text = t) => fate'[t] = fate[t] BY <1>3
<1> QED BY <1>4, <1>5, <1>6

\* After a flush every entry waits for something that is still missing, and the
\* queues and the fates agree again.
LEMMA FlushKeeps ==
  ASSUME IInv, Flush
  PROVE  /\ waiting' \subseteq Entries /\ fate' \in [Texts -> Fates]
         /\ Single' /\ Waits'
         /\ \A e \in waiting' : FateOf(e)' = "waiting"
<1> DEFINE left == {e \in waiting : FateOf(e)' = "waiting"}
<1>0. waiting \subseteq Entries BY DEF IInv, TypeOK, Entries
<1>1. waiting' = {Requeued(e) : e \in left} BY DEF Flush
<1>2. \A e \in left : e \in Entries /\ e \in waiting /\ FateOf(e)' = "waiting" BY <1>0
<1> HIDE DEF left
<1>3. ASSUME NEW x \in waiting'
      PROVE  \E e \in left : x = Requeued(e) /\ x \in Entries /\ x.text = e.text /\ FateOf(x)' = "waiting"
  <2>1. PICK e \in left : x = Requeued(e) BY <1>1
  <2>2. x \in Entries /\ x.text = e.text BY <2>1, <1>2, RequeuedKeeps
  <2>3. FateOf(Requeued(e))' = FateOf(e)' BY <1>2, RequeuedKeeps
  <2>4. FateOf(x)' = "waiting" BY <2>1, <2>3, <1>2
  <2> QED BY <2>1, <2>2, <2>4
<1>4. waiting' \subseteq Entries BY <1>3
<1>5. Single'
  <2> SUFFICES ASSUME NEW x \in waiting', NEW y \in waiting', x.text = y.text PROVE x = y BY DEF Single
  <2>1. PICK e \in left : x = Requeued(e) /\ x.text = e.text BY <1>3
  <2>2. PICK f \in left : y = Requeued(f) /\ y.text = f.text BY <1>3
  <2>3. e = f BY <2>1, <2>2, <1>2 DEF IInv, Single
  <2> QED BY <2>1, <2>2, <2>3
<1>6. Waits'
  <2>1. ASSUME NEW x \in waiting' PROVE fate'[x.text] = "waiting"
    <3>1. PICK e \in left : x.text = e.text BY <1>3
    <3> QED BY <3>1, <1>2, FlushFates
  <2>2. ASSUME NEW t \in Texts, fate'[t] = "waiting" PROVE \E x \in waiting' : x.text = t
    <3>1. \E e \in waiting : e.text = t
      <4> SUFFICES ASSUME ~\E e \in waiting : e.text = t PROVE FALSE OBVIOUS
      <4>1. fate[t] = "waiting" BY FlushFates, <2>2
      <4> QED BY <4>1 DEF IInv, Waits
    <3>2. PICK e \in waiting : e.text = t BY <3>1
    <3>3. FateOf(e)' = "waiting" BY <3>2, <2>2, FlushFates
    <3>4. e \in left BY <3>2, <3>3 DEF left
    <3>5. Requeued(e) \in waiting' BY <3>4, <1>1
    <3>6. Requeued(e).text = t BY <3>2, <1>0, RequeuedKeeps
    <3> QED BY <3>5, <3>6
  <2> QED BY <2>1, <2>2 DEF Waits
<1> QED BY <1>3, <1>4, <1>5, <1>6, FlushFates

-----------------------------------------------------------------------------
(* The actions, by what they do to the queues.                             *)

LEMMA HandleKeeps ==
  ASSUME IInv, NEW e \in Entries, Handle(e)
  PROVE  IInv'
<1>0. e.text \in Texts /\ waiting \subseteq Entries BY EntryText DEF IInv, TypeOK, Entries
<1>1. \A t \in Texts : fate'[t] = IF t = e.text THEN FateOf(e) ELSE fate[t]
  BY <1>0 DEF Handle, IInv, TypeOK
<1>2. FateOf(e) \in Fates BY FateRange, VerdictsAreFates
<1>3. fate' \in [Texts -> Fates] BY <1>2 DEF Handle, IInv, TypeOK
<1>4. \A f \in waiting : f.text \in Texts /\ f.text # e.text
  BY <1>0, EntryText DEF IInv, Waits, Handle
<1>5. CASE FateOf(e) = "waiting"
  <2>1. waiting' = waiting \cup {e} BY <1>5 DEF Handle
  <2>2. Sought(e) \subseteq Peers BY DEF Sought, Entries, Chats, Outbox, Inbox
  <2>3. asked' \subseteq Peers BY <2>2, <1>5 DEF Handle, IInv, TypeOK
  <2>4. TypeOK' BY <1>0, <1>3, <2>1, <2>3 DEF Handle, IInv, TypeOK, Entries
  <2>5. Single' BY <1>4, <2>1 DEF IInv, Single
  <2>6. Waits' BY <1>0, <1>1, <1>4, <1>5, <2>1 DEF IInv, Waits
  <2> QED BY <2>4, <2>5, <2>6 DEF IInv
<1>6. CASE FateOf(e) # "waiting"
  <2>1. waiting' = waiting BY <1>6 DEF Handle
  <2>2. TypeOK' BY <1>3, <1>6 DEF Handle, IInv, TypeOK
  <2>3. Single' BY <2>1 DEF IInv, Single
  <2>4. Waits' BY <1>0, <1>1, <1>4, <1>6, <2>1 DEF IInv, Waits
  <2> QED BY <2>2, <2>3, <2>4 DEF IInv
<1> QED BY <1>5, <1>6

\* What the actions around a flush leave well typed.
LEMMA FlushInvariant ==
  ASSUME IInv, Flush, online' \in BOOLEAN, view' \in [Peers -> Entry],
         directory' \subseteq Peers, keys' \subseteq Scopes, channel' \in Scopes
  PROVE  IInv'
<1>1. \A e \in waiting : Sought(e) \subseteq Peers
  BY DEF Sought, IInv, TypeOK, Chats, Outbox, Inbox
<1>2. asked' \subseteq Peers BY <1>1 DEF Flush, IInv, TypeOK
<1>3. TypeOK' BY <1>2, FlushKeeps DEF TypeOK, Entries
<1> QED BY <1>3, FlushKeeps DEF IInv

\* So does every action that leaves the queues alone.
LEMMA QuietInvariant ==
  ASSUME IInv, UNCHANGED <<waiting, fate>>, online' \in BOOLEAN, view' \in [Peers -> Entry],
         directory' \subseteq Peers, asked' \subseteq Peers, keys' \subseteq Scopes, channel' \in Scopes
  PROVE  IInv'
BY DEF IInv, TypeOK, Single, Waits

LEMMA HousekeepingKeeps ==
  ASSUME IInv, Housekeeping
  PROVE  IInv'
<1> DEFINE older(e) == [e EXCEPT !.age = @ + 1]
           aged == {older(e) : e \in waiting}
           late == {e \in aged : e.age > Life(e)}
<1>0. waiting \subseteq Entries BY DEF IInv, TypeOK, Entries
<1>1. /\ waiting' = aged \ late
      /\ fate' = [t \in Texts |->
             IF \E e \in late : e.text = t
             THEN IF \E e \in late : e.text = t /\ e.kind = "inbox" THEN "unread" ELSE "refused"
             ELSE fate[t]]
  BY DEF Housekeeping
<1>2. \A e \in waiting : older(e) \in Entries /\ older(e).text = e.text BY <1>0, AgedKeeps
<1>3. \A x \in aged : \E e \in waiting : x = older(e) OBVIOUS
<1>4. \A e \in waiting : older(e) \in aged OBVIOUS
<1>5. late \subseteq aged OBVIOUS
<1> HIDE DEF older, aged, late
<1>6. \A x \in aged : x \in Entries /\ fate[x.text] = "waiting"
  BY <1>2, <1>3 DEF IInv, Waits
<1>7. \A x, y \in aged : x.text = y.text => x = y
  BY <1>2, <1>3 DEF IInv, Single
<1>8. fate' \in [Texts -> Fates] BY <1>1 DEF IInv, TypeOK, Fates
<1>9. TypeOK' BY <1>1, <1>6, <1>8 DEF Housekeeping, IInv, TypeOK, Entries
<1>10. Single' BY <1>1, <1>7 DEF Single
<1>11. Waits'
  <2>1. ASSUME NEW x \in waiting' PROVE fate'[x.text] = "waiting"
    <3>1. x \in aged /\ x \notin late BY <1>1
    <3>2. ~\E e \in late : e.text = x.text BY <3>1, <1>5, <1>7
    <3>3. x.text \in Texts BY <3>1, <1>6, EntryText
    <3>4. fate'[x.text] = fate[x.text] BY <1>1, <3>2, <3>3
    <3> QED BY <3>1, <3>4, <1>6
  <2>2. ASSUME NEW t \in Texts, fate'[t] = "waiting" PROVE \E x \in waiting' : x.text = t
    <3>1. ~(\E e \in late : e.text = t) /\ fate[t] = "waiting" BY <1>1, <2>2
    <3>2. PICK e \in waiting : e.text = t BY <3>1 DEF IInv, Waits
    <3>3. older(e) \in aged /\ older(e).text = t BY <3>2, <1>2, <1>4
    <3> QED BY <3>1, <3>3, <1>1
  <2> QED BY <2>1, <2>2 DEF Waits
<1> QED BY <1>9, <1>10, <1>11 DEF IInv

LEMMA DisconnectedKeeps ==
  ASSUME IInv, Disconnected
  PROVE  IInv'
<1>1. fate' = [t \in Texts |-> IF fate[t] = "waiting" THEN "dropped" ELSE fate[t]] /\ waiting' = {}
  BY DEF Disconnected
<1>2. fate' \in [Texts -> Fates] BY <1>1 DEF IInv, TypeOK, Fates
<1>3. TypeOK' BY <1>1, <1>2 DEF Disconnected, IInv, TypeOK
<1>4. Single' /\ Waits' BY <1>1 DEF Single, Waits
<1> QED BY <1>3, <1>4 DEF IInv

-----------------------------------------------------------------------------
\* A step flushes, or it brings no key and names nobody whom the view does not show.
LEMMA StepKinds ==
  ASSUME IInv, [Next]_vars
  PROVE  /\ IInv'
         /\ \/ Flush
            \/ keys' \subseteq keys /\ (view' = view => directory' \subseteq directory)
<1> DEFINE Plain == keys' \subseteq keys /\ (view' = view => directory' \subseteq directory)
<1> USE DEF IInv, TypeOK
<1>1. ASSUME NEW e \in Entries, Handle(e) PROVE IInv' /\ Plain
  <2>1. IInv' BY <1>1, HandleKeeps
  <2> QED BY <2>1, <1>1 DEF Handle
<1>2. CASE SendChat \/ OfflineSend \/ OfflineMsg
  BY <1>1, <1>2, NewEntries DEF SendChat, OfflineSend, OfflineMsg
<1>3. ASSUME NEW t \in Texts, NEW p \in Peers, SendPrivate(t, p) PROVE IInv' /\ Plain
  <2>1. TypeOK' BY <1>3 DEF SendPrivate, Fates
  <2>2. Single' BY <1>3 DEF SendPrivate, Single
  <2>3. ~\E e \in waiting : e.text = t BY <1>3 DEF SendPrivate, Waits
  <2>4. \A u \in Texts : fate'[u] = IF u = t THEN fate'[t] ELSE fate[u] BY <1>3 DEF SendPrivate
  <2>5. fate'[t] # "waiting" BY <1>3 DEF SendPrivate
  <2>6. \A e \in waiting : e.text \in Texts BY EntryText DEF Entries
  <2>7. Waits' BY <1>3, <2>3, <2>4, <2>5, <2>6 DEF SendPrivate, Waits
  <2> QED BY <1>3, <2>1, <2>2, <2>7 DEF SendPrivate
<1>4. CASE KeyArrives
  <2>1. Flush /\ keys' \subseteq Scopes BY <1>4 DEF KeyArrives, KeysCome
  <2>2. IInv' BY <1>4, <2>1, FlushInvariant DEF KeyArrives
  <2> QED BY <2>1, <2>2
<1>5. CASE KeyForgotten
  <2>1. IInv' BY <1>5, QuietInvariant DEF KeyForgotten
  <2> QED BY <2>1, <1>5 DEF KeyForgotten
<1>6. ASSUME NEW p \in Peers, NEW entry \in Entry, UserJoined(p, entry) PROVE IInv' /\ Plain
  <2>1. IInv' BY <1>6, QuietInvariant DEF UserJoined
  <2>2. view'[p] # view[p] BY <1>6 DEF UserJoined
  <2> QED BY <2>1, <2>2, <1>6 DEF UserJoined
<1>7. ASSUME NEW p \in Peers, IdentityData(p) PROVE IInv' /\ Flush
  BY <1>7, FlushInvariant DEF IdentityData
<1>8. ASSUME NEW p \in Peers, UserLeft(p) PROVE IInv' /\ (Flush \/ Plain)
  <2>1. view' \in [Peers -> Entry] BY <1>8 DEF UserLeft, Entry
  <2>2. CASE KeysCome
    <3>1. Flush /\ keys' \subseteq Scopes BY <2>2 DEF KeysCome
    <3>2. IInv' BY <1>8, <2>1, <3>1, FlushInvariant DEF UserLeft
    <3> QED BY <3>1, <3>2
  <2>3. CASE KeysStay
    <3>1. IInv' BY <1>8, <2>1, <2>3, QuietInvariant DEF UserLeft, KeysStay
    <3> QED BY <1>8, <2>3, <3>1 DEF UserLeft, KeysStay
  <2> QED BY <1>8, <2>2, <2>3 DEF UserLeft
<1>9. ASSUME NEW c \in Channels, Moved(c) PROVE IInv' /\ (Flush \/ Plain)
  <2>1. channel' \in Scopes BY <1>9 DEF Moved, Scopes
  <2>2. CASE KeysCome
    <3>1. Flush /\ keys' \subseteq Scopes BY <2>2 DEF KeysCome
    <3>2. IInv' BY <1>9, <2>1, <3>1, FlushInvariant DEF Moved
    <3> QED BY <3>1, <3>2
  <2>3. CASE KeysStay
    <3>1. IInv' BY <1>9, <2>1, <2>3, QuietInvariant DEF Moved, KeysStay
    <3> QED BY <1>9, <2>3, <3>1 DEF Moved, KeysStay
  <2> QED BY <1>9, <2>2, <2>3 DEF Moved
<1>10. ASSUME NEW c \in Channels, ChanRemoved(c) PROVE IInv' /\ Plain
  <2>1. channel' \in Scopes BY <1>10 DEF ChanRemoved, Scopes
  <2>2. IInv' BY <1>10, <2>1, QuietInvariant DEF ChanRemoved
  <2> QED BY <1>10, <2>2 DEF ChanRemoved
<1>11. CASE Housekeeping
  <2>1. IInv' BY <1>11, HousekeepingKeeps
  <2> QED BY <1>11, <2>1 DEF Housekeeping
<1>12. CASE Disconnected
  <2>1. IInv' BY <1>12, DisconnectedKeeps
  <2> QED BY <1>12, <2>1 DEF Disconnected
<1>13. CASE UNCHANGED vars
  <2>1. IInv' BY <1>13, QuietInvariant DEF vars
  <2> QED BY <1>13, <2>1 DEF vars
<1> HIDE DEF Plain, IInv, TypeOK
<1> QED BY <1>2, <1>3, <1>4, <1>5, <1>6, <1>7, <1>8, <1>9, <1>10, <1>11, <1>12, <1>13 DEF Next, Plain

LEMMA InitHolds == Init => IInv
BY PendingAssumption DEF Init, IInv, TypeOK, Single, Waits, Scopes, Fates

\* The queues and the table of fates always agree.
THEOREM Inductive == Spec => []IInv
<1>1. IInv /\ [Next]_vars => IInv' BY StepKinds
<1> QED BY <1>1, InitHolds, PTL DEF Spec

\* The types hold.
THEOREM TypeCorrect == Spec => []TypeOK
<1>1. IInv => TypeOK BY DEF IInv
<1> QED BY <1>1, Inductive, PTL

\* A text that waits is in one place of one queue and any other in none, however
\* keys, identities and departures interleave with the housekeeper.
THEOREM OneFate == Spec => []TextsHaveOneFate
<1>1. IInv => TextsHaveOneFate
  <2> SUFFICES ASSUME IInv, NEW t \in Texts
               PROVE  Cardinality({e \in waiting : e.text = t}) = (IF fate[t] = "waiting" THEN 1 ELSE 0)
    BY DEF TextsHaveOneFate
  <2>1. CASE fate[t] = "waiting"
    <3>1. PICK e \in waiting : e.text = t BY <2>1 DEF IInv, Waits
    <3>2. {f \in waiting : f.text = t} = {e} BY <3>1 DEF IInv, Single
    <3> QED BY <2>1, <3>2, FS_Singleton
  <2>2. CASE fate[t] # "waiting"
    <3>1. {f \in waiting : f.text = t} = {} BY <2>2 DEF IInv, Waits
    <3> QED BY <2>2, <3>1, FS_EmptySet
  <2> QED BY <2>1, <2>2
<1> QED BY <1>1, Inductive, PTL

\* Keys and identities free what waits for them in the step that brings them.
THEOREM KeysFree == Spec => KeysFreeTexts
<1> DEFINE Frees ==
      /\ \A k \in keys' \ keys : ~\E e \in waiting' :
            e.kind \in {"server", "channel"} /\ KeyOf(e.kind)' = k
      /\ view' = view => \A p \in directory' \ directory : ~\E e \in waiting' :
            \/ e.kind = "offline" /\ e.to = p
            \/ e.kind = "inbox" /\ e.from = p /\ e.sound /\ view[p] # "wrong"
<1>1. ASSUME IInv, [Next]_vars PROVE Frees
  <2>1. CASE Flush
    <3>1. \A e \in waiting' : FateOf(e)' = "waiting" BY <1>1, <2>1, FlushKeeps
    <3>2. ASSUME NEW e \in waiting', e.kind \in {"server", "channel"} PROVE KeyOf(e.kind)' \notin keys'
      BY <3>1, <3>2 DEF FateOf, ChatFate
    <3>3. ASSUME NEW e \in waiting', e.kind = "offline" PROVE e.to \notin directory'
      BY <3>1, <3>3 DEF FateOf, OfflineFate
    <3>4. ASSUME NEW e \in waiting', e.kind = "inbox", e.sound, e.from \in directory',
                 e.from \in Peers, view' = view
          PROVE  view[e.from] = "wrong"
      <4>1. InboxFate(e)' = "waiting" BY <3>1, <3>4 DEF FateOf
      <4>2. ~(view'[e.from] = "good" \/ view'[e.from] \in {"absent", "bare"})
        BY <4>1, <3>4 DEF InboxFate
      <4> QED BY <1>1, <3>4, <4>2 DEF IInv, TypeOK, Entry
    <3>5. directory' \subseteq Peers BY <1>1, StepKinds DEF IInv, TypeOK
    <3> QED BY <3>2, <3>3, <3>4, <3>5
  <2>2. CASE keys' \subseteq keys /\ (view' = view => directory' \subseteq directory) BY <2>2
  <2> QED BY <1>1, <2>1, <2>2, StepKinds
<1>2. IInv /\ [Next]_vars => [Frees]_vars BY <1>1
<1>3. KeysFreeTexts <=> [][Frees]_vars BY DEF KeysFreeTexts
<1> QED BY <1>2, <1>3, Inductive, PTL DEF Spec

-----------------------------------------------------------------------------
(* The questions that bring the keys the texts wait for: KeyRecovery. *)

\* The records a handler works on.
Local == [held : [Scope -> KeyOrNone], age : 0..OldAge, tries : [Scope -> 0..FewTries],
          queue : SUBSET QueuedChat, asked : SUBSET Scope]

\* A client's own data, as a handler finds them.
LEMMA LocalTyped ==
  ASSUME RecoveryTypeOK, NEW c \in Client
  PROVE  LocalOf(c) \in Local
BY DEF RecoveryTypeOK, LocalOf, Local

\* The limiter: a question goes out, and its clock starts over, or nothing changes.
LEMMA Requested ==
  ASSUME NEW L \in Local, NEW s \in Scope
  PROVE  /\ Request(L, s) \in Local
         /\ \/ Request(L, s) = L /\ L.age < 3
            \/ Request(L, s) = [L EXCEPT !.age = 0, !.asked = @ \cup {s}] /\ L.age >= 3
<1> DEFINE M == [L EXCEPT !.age = 0, !.asked = @ \cup {s}]
<1>1. M \in Local
  <2>1. 0 \in 0..OldAge BY DEF OldAge, SlowAge
  <2>2. L.asked \cup {s} \in SUBSET Scope BY DEF Local
  <2> QED BY <2>1, <2>2 DEF Local
<1>2. L.age \in Nat BY DEF Local, OldAge, SlowAge
<1> QED BY <1>1, <1>2 DEF Request, LimiterOpens

\* The same, field by field.
LEMMA RequestedFields ==
  ASSUME NEW L \in Local, NEW s \in Scope, NEW M, M = Request(L, s)
  PROVE  /\ M \in Local /\ M.held = L.held /\ M.tries = L.tries /\ M.queue = L.queue
         /\ \/ M.age = L.age /\ M.asked = L.asked /\ L.age < 3
            \/ M.age = 0 /\ M.asked = L.asked \cup {s} /\ L.age >= 3
<1>1. M \in Local BY Requested
<1>2. CASE M = L /\ L.age < 3 BY <1>1, <1>2
<1>3. CASE M = [L EXCEPT !.age = 0, !.asked = @ \cup {s}] /\ L.age >= 3 BY <1>1, <1>3 DEF Local
<1> QED BY <1>2, <1>3, Requested

\* A missing key is asked for as soon as its interval is over.
LEMMA MissingRequested ==
  ASSUME NEW L \in Local, NEW s \in Scope, NEW M, M = RequestMissing(L, s)
  PROVE  /\ M \in Local /\ M.held = L.held
         /\ \/ /\ M = L
               /\ L.held[s] = NoKey =>
                    L.age < OldAge /\ (L.tries[s] < FewTries => L.age <= 3)
            \/ /\ L.held[s] = NoKey /\ L.age > 3
               /\ M.age = 0 /\ M.asked = L.asked \cup {s}
               /\ \A r \in Scope \ {s} : M.tries[r] = L.tries[r]
<1> DEFINE K == [L EXCEPT !.tries[s] = IF @ = FewTries THEN @ ELSE @ + 1]
<1>1. L.age \in 0..16 /\ L.tries \in [Scope -> 0..10] /\ L.tries[s] \in 0..10
  BY DEF Local, OldAge, SlowAge, FewTries
<1>2. CASE L.held[s] = NoKey /\ IntervalOver(L.age, L.tries[s])
  <2>1. K.tries = [L.tries EXCEPT ![s] = IF @ = FewTries THEN @ ELSE @ + 1] BY DEF Local
  <2>2. K.tries \in [Scope -> 0..10] BY <1>1, <2>1 DEF FewTries
  <2>3. /\ K \in Local /\ K.held = L.held /\ K.age = L.age /\ K.asked = L.asked
     BY <2>1, <2>2 DEF Local, FewTries
  <2>4. M = Request(K, s) BY <1>2 DEF RequestMissing
  <2>5. L.age > 3 BY <1>1, <1>2 DEF IntervalOver, SlowAge, FewTries
  <2>6. \A r \in Scope \ {s} : K.tries[r] = L.tries[r] BY <1>1, <2>1
  <2> HIDE DEF K
  <2>7. /\ M \in Local /\ M.held = L.held /\ M.age = 0 /\ M.asked = L.asked \cup {s} /\ M.tries = K.tries
     BY <1>1, <2>3, <2>4, <2>5, RequestedFields
  <2> QED BY <1>2, <2>5, <2>6, <2>7
<1>3. CASE ~ (L.held[s] = NoKey /\ IntervalOver(L.age, L.tries[s]))
  <2>1. M = L BY <1>3 DEF RequestMissing
  <2>2. L.held[s] = NoKey => L.age < OldAge /\ (L.tries[s] < FewTries => L.age <= 3)
     BY <1>1, <1>3 DEF IntervalOver, OldAge, SlowAge, FewTries
  <2> QED BY <2>1, <2>2
<1> QED BY <1>2, <1>3

\* Among chats that wait there is one that was written first.
LEMMA FirstWritten ==
  ASSUME NEW Q \in SUBSET QueuedChat, Q # {}
  PROVE  FirstOf(Q) \in Q
<1> DEFINE Numbers == {p.n : p \in Q}
           O == OpToRel(<, Nat)
<1>1. Numbers \subseteq Nat /\ Numbers # {} BY DEF QueuedChat
<1>2. IsWellFoundedOn(O, Nat) BY NatLessThanWellFounded
<1>3. \A x, y \in Nat : (<<y, x>> \in O) <=> y < x BY DEF OpToRel
<1> HIDE DEF O, Numbers
<1>4. \E x \in Numbers : \A y \in Numbers : ~ (<<y, x>> \in O) BY <1>1, <1>2, WFMin
<1>5. PICK x \in Numbers : \A y \in Numbers : ~ (y < x) BY <1>1, <1>3, <1>4
<1>6. PICK p \in Q : p.n = x BY DEF Numbers
<1>7. ASSUME NEW q \in Q PROVE p.n <= q.n
  <2>1. q.n \in Numbers BY DEF Numbers
  <2>2. ~ (q.n < x) /\ q.n \in Nat /\ x \in Nat BY <1>1, <1>5, <2>1
  <2>3. x <= q.n BY <2>2
  <2> QED BY <1>6, <2>3
<1> QED BY <1>6, <1>7 DEF FirstOf

\* A flush asks, if at all, for a key that is missing.
LEMMA Flushed ==
  ASSUME NEW L \in Local, NEW M, M = FlushChats(L)
  PROVE  /\ M \in Local /\ M.held = L.held /\ M.tries = L.tries
         /\ \/ M.age = L.age /\ M.asked = L.asked
            \/ \E s \in Scope : /\ L.held[s] = NoKey /\ L.age >= 3
                                /\ M.age = 0 /\ M.asked = L.asked \cup {s}
<1> DEFINE again == {p \in L.queue : L.held[p.scope] = NoKey}
           fresh == {[p EXCEPT !.age = 0] : p \in again}
           K == [L EXCEPT !.queue = fresh]
<1>1. again \subseteq QueuedChat BY DEF Local
<1>2. fresh \subseteq QueuedChat BY <1>1 DEF QueuedChat, ChatPatience
<1>3. K \in Local /\ K.held = L.held /\ K.tries = L.tries /\ K.age = L.age /\ K.asked = L.asked
  <2> HIDE DEF fresh
  <2> QED BY <1>2 DEF Local
<1>4. CASE again = {}
  <2>1. M = K BY <1>4 DEF FlushChats
  <2> HIDE DEF K
  <2> QED BY <1>3, <2>1
<1>5. CASE again # {}
  <2>1. M = Request(K, FirstOf(again).scope) BY <1>5 DEF FlushChats
  <2>2. FirstOf(again) \in again
    <3> HIDE DEF again
    <3> QED BY <1>1, <1>5, FirstWritten
  <2>3. FirstOf(again).scope \in Scope /\ L.held[FirstOf(again).scope] = NoKey
     BY <1>1, <2>2 DEF QueuedChat
  <2> HIDE DEF K, again
  <2> QED BY <1>3, <2>1, <2>3, RequestedFields
<1> QED BY <1>4, <1>5

\* What a handler's record writes.
LEMMA Committed ==
  ASSUME RecoveryTypeOK, NEW c \in Client, NEW M \in Local, Commit(c, M)
  PROVE  /\ held' \in [Client -> [Scope -> KeyOrNone]]
         /\ age' \in [Client -> 0..OldAge]
         /\ tries' \in [Client -> [Scope -> 0..FewTries]]
         /\ queue' \in [Client -> SUBSET QueuedChat]
         /\ asks' \subseteq Ask /\ asks \subseteq asks'
         /\ unasked' \in [Client -> 0..MaxUnasked + 1]
         /\ held'[c] = M.held /\ age'[c] = M.age /\ tries'[c] = M.tries
         /\ unasked'[c] = IF Voice \in M.asked \/ M.held[Voice] # NoKey THEN 0 ELSE unasked[c]
         /\ \A d \in Client \ {c} : /\ held'[d] = held[d] /\ age'[d] = age[d]
                                    /\ tries'[d] = tries[d] /\ unasked'[d] = unasked[d]
<1>1. /\ M.held \in [Scope -> KeyOrNone] /\ M.age \in 0..OldAge
      /\ M.tries \in [Scope -> 0..FewTries] /\ M.queue \in SUBSET QueuedChat
      /\ M.asked \in SUBSET Scope
  BY DEF Local
<1>2. /\ held' = [held EXCEPT ![c] = M.held] /\ age' = [age EXCEPT ![c] = M.age]
      /\ tries' = [tries EXCEPT ![c] = M.tries] /\ queue' = [queue EXCEPT ![c] = M.queue]
      /\ held \in [Client -> [Scope -> KeyOrNone]] /\ age \in [Client -> 0..OldAge]
      /\ tries \in [Client -> [Scope -> 0..FewTries]] /\ queue \in [Client -> SUBSET QueuedChat]
  BY DEF Commit, RecoveryTypeOK
<1>3. asks' \subseteq Ask /\ asks \subseteq asks'
  <2>1. asks' = asks \cup [from : {c}, to : Client \ {c}, scope : M.asked] BY DEF Commit
  <2>2. asks \subseteq Ask BY DEF RecoveryTypeOK
  <2> QED BY <1>1, <2>1, <2>2 DEF Ask
<1>4. /\ unasked' \in [Client -> 0..MaxUnasked + 1]
      /\ unasked'[c] = IF Voice \in M.asked \/ M.held[Voice] # NoKey THEN 0 ELSE unasked[c]
      /\ \A d \in Client \ {c} : unasked'[d] = unasked[d]
  <2>1. unasked' = [unasked EXCEPT ![c] = IF Voice \in M.asked \/ M.held[Voice] # NoKey
                                         THEN 0 ELSE @]
    BY DEF Commit
  <2>2. unasked \in [Client -> 0..MaxUnasked + 1] /\ 0 \in 0..MaxUnasked + 1 BY ClientAssumption, NumberAssumption DEF RecoveryTypeOK
  <2> QED BY <2>1, <2>2
<1> QED BY <1>1, <1>2, <1>3, <1>4

\* A round of the housekeeper looks for the missing keys; a client that lacks only its voice
\* key asks for it, or its interval is not over, or the planned check of scope 0 comes first.
LEMMA Housekept ==
  ASSUME RecoveryTypeOK, NEW c \in Client, Housekeep(c),
         verify[c] # <<>> => Head(verify[c]) \in Scope
  PROVE  \E M \in Local :
           /\ Commit(c, M) /\ M.held = held[c]
           /\ held[c][Server] # NoKey /\ held[c][Voice] = NoKey =>
                \/ Voice \in M.asked /\ M.age = 0
                \/ /\ M.age = age[c] /\ M.tries = tries[c] /\ age[c] < OldAge
                   /\ tries[c][Voice] < FewTries => age[c] <= 3
                \/ /\ verify[c] # <<>> /\ Head(verify[c]) = Server
                   /\ M.age = 0 /\ M.tries = tries[c]
<1> DEFINE L == LocalOf(c)
           checks == verify[c] # <<>> /\ L.held[Head(verify[c])] # NoKey
           checked == IF checks THEN Request(L, Head(verify[c])) ELSE L
           served == RequestMissing(checked, Server)
           asked_ == RequestMissing(served, Voice)
           M == [asked_ EXCEPT !.queue = {p \in @ : p.age <= ChatPatience}]
<1>1. /\ L \in Local /\ L.held = held[c] /\ L.age = age[c] /\ L.tries = tries[c] /\ L.asked = {}
  BY LocalTyped DEF LocalOf
<1>2. Commit(c, M) BY DEF Housekeep
<1>3. Server \in Scope /\ Voice \in Scope /\ Server # Voice
  BY DEF Scope, Server, Voice
<1>4. /\ checked \in Local /\ checked.held = held[c] /\ checked.tries = tries[c]
      /\ \/ checked.age = age[c] /\ checked = L /\ (checks => age[c] < 3)
         \/ checks /\ checked.age = 0
  <2> HIDE DEF L
  <2>1. CASE checks
    <3>1. Head(verify[c]) \in Scope /\ checked = Request(L, Head(verify[c])) BY <2>1
    <3> HIDE DEF checked, checks
    <3>2. /\ checked \in Local /\ checked.held = L.held /\ checked.tries = L.tries
          /\ L.age < 3 \/ checked.age = 0
      BY <1>1, <3>1, RequestedFields
    <3>3. checked = L \/ L.age >= 3 BY <1>1, <3>1, Requested
    <3>4. L.age \in Nat BY <1>1 DEF Local, OldAge, SlowAge
    <3> QED BY <1>1, <2>1, <3>2, <3>3, <3>4
  <2>2. CASE ~ checks BY <1>1, <2>2
  <2> QED BY <2>1, <2>2
<1> HIDE DEF checked, L
<1>5. served \in Local /\ served.held = held[c] BY <1>3, <1>4, MissingRequested
<1>6. held[c][Server] # NoKey => served = checked BY <1>3, <1>4, MissingRequested
<1> HIDE DEF served
<1>7. /\ asked_ \in Local /\ asked_.held = held[c]
      /\ \/ /\ asked_ = served
            /\ held[c][Voice] = NoKey =>
                 served.age < OldAge /\ (served.tries[Voice] < FewTries => served.age <= 3)
         \/ served.age > 3 /\ asked_.age = 0 /\ Voice \in asked_.asked
  BY <1>3, <1>5, MissingRequested
<1> HIDE DEF asked_
<1>8. M \in Local /\ M.held = asked_.held /\ M.age = asked_.age /\ M.asked = asked_.asked
      /\ M.tries = asked_.tries
  BY <1>7 DEF Local
<1> HIDE DEF M
<1>9. ASSUME held[c][Server] # NoKey, held[c][Voice] = NoKey
      PROVE  \/ Voice \in M.asked /\ M.age = 0
             \/ /\ M.age = age[c] /\ M.tries = tries[c] /\ age[c] < OldAge
                /\ tries[c][Voice] < FewTries => age[c] <= 3
             \/ /\ verify[c] # <<>> /\ Head(verify[c]) = Server
                /\ M.age = 0 /\ M.tries = tries[c]
  <2>1. served = checked BY <1>6, <1>9
  <2>2. checks => verify[c] # <<>> /\ Head(verify[c]) = Server
    <3>1. L.held = held[c] /\ (verify[c] # <<>> => Head(verify[c]) \in Scope) BY <1>1
    <3> QED BY <1>9, <3>1 DEF Scope
  <2> HIDE DEF checks
  <2>3. CASE asked_ = served BY <1>1, <1>4, <1>7, <1>8, <1>9, <2>1, <2>2, <2>3
  <2>4. CASE served.age > 3 /\ asked_.age = 0 /\ Voice \in asked_.asked BY <1>8, <2>4
  <2> QED BY <1>7, <2>3, <2>4
<1> QED BY <1>2, <1>7, <1>8, <1>9

\* A queue of checks without its head.
LEMMA VerifyTail ==
  ASSUME NEW q \in Seq(Scope)
  PROVE  /\ (IF q = <<>> THEN q ELSE Tail(q)) \in Seq(Scope)
         /\ q # <<>> => Head(q) \in Scope
BY HeadTailProperties

\* An arriving key wins or is dropped, then a question may go out for one still missing.
LEMMA Received ==
  ASSUME RecoveryTypeOK, NEW e \in mail, Receive(e)
  PROVE  \E M \in Local :
           /\ Commit(e.to, M) /\ M.tries = tries[e.to]
           /\ \A s \in Scope : M.held[s] = NoKey => held[e.to][s] = NoKey
           /\ M.held[e.scope] # NoKey
           /\ \/ M.age = age[e.to] /\ M.asked = {}
              \/ \E s \in Scope : /\ M.held[s] = NoKey /\ age[e.to] >= 3
                                  /\ M.age = 0 /\ M.asked = {s}
<1> DEFINE L == LocalOf(e.to)
           K == IF Wins(L.held[e.scope], e.key) THEN [L EXCEPT !.held[e.scope] = e.key] ELSE L
           M == FlushChats(K)
<1>1. e.to \in Client /\ e.scope \in Scope /\ e.key \in Epochs BY DEF RecoveryTypeOK, Envelope
<1>2. /\ L \in Local /\ L.held = held[e.to] /\ L.age = age[e.to] /\ L.tries = tries[e.to]
      /\ L.asked = {}
  BY <1>1, LocalTyped DEF LocalOf
<1>3. Commit(e.to, M) BY DEF Receive
<1>4. /\ K \in Local /\ K.age = L.age /\ K.tries = L.tries /\ K.asked = L.asked
      /\ \A s \in Scope : K.held[s] = NoKey => L.held[s] = NoKey
      /\ K.held[e.scope] # NoKey
  <2> HIDE DEF L
  <2>1. L.held \in [Scope -> KeyOrNone] /\ e.key \in KeyOrNone /\ e.key # NoKey
    BY <1>1, <1>2, NumberAssumption DEF Local, KeyOrNone, NoKey
  <2>2. CASE Wins(L.held[e.scope], e.key)
    <3>1. K = [L EXCEPT !.held[e.scope] = e.key] BY <2>2
    <3>2. K.held = [L.held EXCEPT ![e.scope] = e.key] /\ K.age = L.age /\ K.tries = L.tries
          /\ K.asked = L.asked /\ K.queue = L.queue /\ K \in Local
      BY <1>1, <1>2, <2>1, <3>1 DEF Local
    <3> HIDE DEF K
    <3> QED BY <1>1, <2>1, <3>2
  <2>3. CASE ~ Wins(L.held[e.scope], e.key)
    <3>1. K = L BY <2>3
    <3>2. e.key \in Nat /\ e.key > 0
      <4>1. Epochs \subseteq Nat \ {0} BY ClientAssumption, NumberAssumption
      <4>2. e.key \in Nat /\ e.key # 0 BY <1>1, <4>1
      <4> QED BY <4>2
    <3>3. ~ (e.key > L.held[e.scope]) BY <2>3 DEF Wins
    <3> QED BY <1>2, <3>1, <3>2, <3>3 DEF NoKey
  <2> QED BY <2>2, <2>3
<1> HIDE DEF K, L
<1>5. /\ M \in Local /\ M.held = K.held /\ M.tries = K.tries
      /\ \/ M.age = K.age /\ M.asked = K.asked
         \/ \E s \in Scope : /\ K.held[s] = NoKey /\ K.age >= 3
                             /\ M.age = 0 /\ M.asked = K.asked \cup {s}
  BY <1>4, Flushed
<1> HIDE DEF M
<1>6. ASSUME NEW s \in Scope, M.asked = K.asked \cup {s} PROVE M.asked = {s}
  BY <1>2, <1>4, <1>6
<1> QED BY <1>2, <1>3, <1>4, <1>5, <1>6

\* A chat without its key waits, and asks if the limiter lets it.
LEMMA Chatted ==
  ASSUME RecoveryTypeOK, NEW c \in Client, NEW s \in Scope, Chat(c, s)
  PROVE  \E M \in Local :
           /\ Commit(c, M) /\ M.held = held[c] /\ M.tries = tries[c]
           /\ \/ M.age = age[c] /\ M.asked = {}
              \/ M.age = 0 /\ M.asked = {s} /\ age[c] >= 3
<1> DEFINE L == LocalOf(c)
           new == [n |-> chats', scope |-> s, age |-> 0]
           K == [L EXCEPT !.queue = @ \cup {new}]
           M == Request(K, s)
<1>1. /\ L \in Local /\ L.held = held[c] /\ L.age = age[c] /\ L.tries = tries[c] /\ L.asked = {}
  BY LocalTyped DEF LocalOf
<1>2. Commit(c, M) BY DEF Chat
<1>3. new \in QueuedChat
  <2>1. chats' \in Nat \ {0} BY ClientAssumption, NumberAssumption, SMTT(30) DEF Chat, RecoveryTypeOK
  <2> QED BY <2>1 DEF QueuedChat, ChatPatience
<1>4. K \in Local /\ K.held = L.held /\ K.age = L.age /\ K.tries = L.tries /\ K.asked = L.asked
  <2> HIDE DEF L, new
  <2> QED BY <1>1, <1>3 DEF Local
<1> HIDE DEF K, L
<1>5. /\ M \in Local /\ M.held = K.held /\ M.tries = K.tries
      /\ \/ M.age = K.age /\ M.asked = K.asked
         \/ M.age = 0 /\ M.asked = K.asked \cup {s} /\ K.age >= 3
  BY <1>4, RequestedFields
<1> HIDE DEF M
<1>6. M.asked = K.asked \cup {s} => M.asked = {s} BY <1>1, <1>4
<1> QED BY <1>1, <1>2, <1>4, <1>5, <1>6

\* Every variable of KeyRecovery keeps its type.
LEMMA RecoveryTypeStep ==
  ASSUME RecoveryTypeOK, [RecoveryNext]_recoveryVars
  PROVE  RecoveryTypeOK'
<1> USE ClientAssumption, NumberAssumption
<1>1. ASSUME Second PROVE RecoveryTypeOK'
  <2>1. /\ due \in [Client -> 0..2] /\ age \in [Client -> 0..16] /\ calm \in [Client -> 0..31]
        /\ unasked \in [Client -> 0..MaxUnasked + 1] /\ queue \in [Client -> SUBSET QueuedChat]
        /\ held \in [Client -> [Scope -> KeyOrNone]]
    BY DEF RecoveryTypeOK, HousekeeperPeriod, OldAge, SlowAge, RecoverPause
  <2>2. due' \in [Client -> 0..2]
    <3>1. due' = [c \in Client |-> due[c] - 1] /\ \A c \in Client : due[c] > 0 BY <1>1 DEF Second
    <3> QED BY <2>1, <3>1
  <2>3. age' \in [Client -> 0..16]
    <3>1. age' = [c \in Client |-> UpTo(age[c], 16)] BY <1>1 DEF Second, OldAge, SlowAge
    <3> QED BY <2>1, <3>1 DEF UpTo
  <2>4. calm' \in [Client -> 0..31]
    <3>1. calm' = [c \in Client |-> UpTo(calm[c], 31)] BY <1>1 DEF Second, RecoverPause
    <3>2. ASSUME NEW n \in 0..31 PROVE UpTo(n, 31) \in 0..31 BY <3>2 DEF UpTo
    <3> QED BY <2>1, <3>1, <3>2
  <2>5. unasked' \in [Client -> 0..MaxUnasked + 1]
    <3>1. unasked' = [c \in Client |-> IF held[c][Voice] = NoKey
                                       THEN UpTo(unasked[c], MaxUnasked + 1) ELSE 0]
      BY <1>1 DEF Second
    <3>2. ASSUME NEW u \in 0..MaxUnasked + 1 PROVE UpTo(u, MaxUnasked + 1) \in 0..MaxUnasked + 1
      BY <3>2 DEF UpTo
    <3> QED BY <2>1, <3>1, <3>2
  <2>6. queue' \in [Client -> SUBSET QueuedChat]
    <3>1. queue' = [c \in Client |-> {[p EXCEPT !.age = UpTo(@, ChatPatience + 1)] : p \in queue[c]}]
      BY <1>1 DEF Second
    <3>2. ASSUME NEW p \in QueuedChat
          PROVE  [p EXCEPT !.age = UpTo(@, ChatPatience + 1)] \in QueuedChat
      BY <3>2 DEF QueuedChat, UpTo, ChatPatience
    <3> QED BY <2>1, <3>1, <3>2
  <2>7. air' \in [Client -> KeyOrNone]
    <3>1. air' = [c \in Client |-> IF c \in Talkers THEN held[c][Voice] ELSE NoKey]
      BY <1>1 DEF Second
    <3>2. Voice \in Scope /\ NoKey \in KeyOrNone BY DEF Scope, KeyOrNone
    <3> QED BY <2>1, <3>1, <3>2
  <2>8. UNCHANGED <<held, tries, verify, asks, mail, chats>> BY <1>1 DEF Second
  <2> QED BY <2>2, <2>3, <2>4, <2>5, <2>6, <2>7, <2>8
          DEF RecoveryTypeOK, HousekeeperPeriod, OldAge, SlowAge, RecoverPause
<1>2. ASSUME NEW c \in Client, Housekeep(c) PROVE RecoveryTypeOK'
  <2>1. verify \in [Client -> Seq(Scope)] BY DEF RecoveryTypeOK
  <2>2. verify' \in [Client -> Seq(Scope)]
    <3>1. verify' = [verify EXCEPT ![c] = IF @ = <<>> THEN @ ELSE Tail(@)] BY <1>2 DEF Housekeep
    <3> QED BY <2>1, <3>1, VerifyTail
  <2>3. \E M \in Local : Commit(c, M) BY <1>2, <2>1, VerifyTail, Housekept
  <2>4. due' \in [Client -> 0..HousekeeperPeriod]
    BY <1>2 DEF Housekeep, RecoveryTypeOK, HousekeeperPeriod
  <2>5. UNCHANGED <<calm, air, mail, chats>> BY <1>2 DEF Housekeep
  <2> QED BY <2>2, <2>3, <2>4, <2>5, Committed DEF RecoveryTypeOK
<1>3. ASSUME NEW a \in asks, Answer(a) PROVE RecoveryTypeOK'
  <2>1. a \in Ask BY DEF RecoveryTypeOK
  <2>2. held[a.to][a.scope] \in KeyOrNone BY <2>1 DEF RecoveryTypeOK, Ask
  <2>3. mail' \subseteq Envelope
    BY <1>3, <2>1, <2>2, SMTT(30) DEF Answer, RecoveryTypeOK, Envelope, Ask, KeyOrNone
  <2>4. asks' \subseteq Ask BY <1>3 DEF Answer, RecoveryTypeOK
  <2>5. UNCHANGED <<held, age, tries, verify, due, calm, air, queue, chats, unasked>>
    BY <1>3 DEF Answer
  <2> QED BY <2>3, <2>4, <2>5 DEF RecoveryTypeOK
<1>4. ASSUME NEW e \in mail, Receive(e) PROVE RecoveryTypeOK'
  <2>1. \E M \in Local : Commit(e.to, M) BY <1>4, Received
  <2>2. mail' \subseteq Envelope /\ UNCHANGED <<verify, due, calm, air, chats>>
    BY <1>4 DEF Receive, RecoveryTypeOK
  <2>3. e.to \in Client BY DEF RecoveryTypeOK, Envelope
  <2> QED BY <2>1, <2>2, <2>3, Committed DEF RecoveryTypeOK
<1>5. ASSUME NEW c \in Client, NEW s \in Scope, Chat(c, s) PROVE RecoveryTypeOK'
  <2>1. \E M \in Local : Commit(c, M) BY <1>5, Chatted
  <2>2. chats' \in 0..MaxChats BY <1>5, SMTT(30) DEF Chat, RecoveryTypeOK
  <2>3. UNCHANGED <<verify, due, calm, air, mail>> BY <1>5 DEF Chat
  <2> QED BY <2>1, <2>2, <2>3, Committed DEF RecoveryTypeOK
<1>6. ASSUME NEW c \in Client, NEW t \in Client, Recover(c, t) PROVE RecoveryTypeOK'
  <2>1. Voice \in Scope /\ NoKey \in KeyOrNone BY DEF Scope, KeyOrNone
  <2>2. held' \in [Client -> [Scope -> KeyOrNone]]
    BY <1>6, <2>1 DEF Recover, RecoverLeaving, RecoveryTypeOK
  <2>3. tries' \in [Client -> [Scope -> 0..FewTries]]
    BY <1>6, <2>1 DEF Recover, RecoverLeaving, RecoveryTypeOK, FewTries
  <2>4. calm' \in [Client -> 0..RecoverPause + 1]
    BY <1>6 DEF Recover, RecoverLeaving, RecoveryTypeOK, RecoverPause
  <2>5. UNCHANGED <<age, verify, due, air, queue, asks, mail, chats, unasked>>
    BY <1>6 DEF Recover, RecoverLeaving
  <2> QED BY <2>2, <2>3, <2>4, <2>5 DEF RecoveryTypeOK
<1>7. CASE UNCHANGED recoveryVars BY <1>7 DEF recoveryVars, RecoveryTypeOK
<1> QED BY <1>1, <1>2, <1>3, <1>4, <1>5, <1>6, <1>7 DEF RecoveryNext

\* The newcomer's first question for the server's key, or its answer, is under way.
Greeting ==
    \/ \E c \in Others : [from |-> Newcomer, to |-> c, scope |-> Server] \in asks
    \/ \E e \in mail : e.to = Newcomer /\ e.scope = Server

\* Nobody but a newcomer in its first second lacks the server's key.
Served ==
    \A c \in Client : held[c][Server] = NoKey =>
        c = Newcomer /\ due[c] = HousekeeperPeriod /\ age[c] = 0 /\ Greeting

\* A client waits for its voice key no longer than since its last question, but for the two
\* seconds before the one planned check that may come first; and what is left until the
\* next round of the housekeeper fits into the rest of the slow interval.
Patient(c) ==
    /\ held[c][Voice] # NoKey => unasked[c] = 0
    /\ unasked[c] + due[c] <= 17
    /\ age[c] < OldAge => /\ unasked[c] <= age[c] + 2
                          /\ unasked[c] <= age[c] \/ tries[c][Voice] = 0
    /\ verify[c] # <<>> /\ Head(verify[c]) = Server =>
         tries[c][Voice] = 0 /\ unasked[c] + due[c] <= 2
    /\ verify[c] \in {<<>>, <<Voice>>, <<Server, Voice>>}

AllPatient == \A c \in Client : Patient(c)

\* At the start the newcomer asks for the server's key unless it leads.
LEMMA InitServed ==
  ASSUME RecoveryInit
  PROVE  RecoveryTypeOK /\ (Others # {} => Served) /\ AllPatient
<1> USE ClientAssumption, NumberAssumption
<1>1. PICK leads \in Leadership, own \in Epochs :
        \E shared \in Epochs \ {own}, voices \in [Others -> KeyOrNone \ {own}] :
            /\ Voice \in leads \/ \E c \in Others : voices[c] # NoKey
            /\ held = [c \in Client |-> [s \in Scope |->
                  IF c = Newcomer THEN IF s \in leads THEN own ELSE NoKey
                  ELSE IF s = Server THEN shared ELSE voices[c]]]
            /\ mail = [to : Others, scope : leads, key : {own}]
            /\ asks = [from : {Newcomer}, to : Others, scope : FirstAsked(leads)]
            /\ verify = [c \in Client |-> IF c = Newcomer THEN Planned(leads) ELSE <<>>]
            /\ age = [c \in Client |-> IF c = Newcomer /\ leads # Scope THEN 0 ELSE OldAge]
  BY Zenon DEF RecoveryInit
<1>2. PICK shared \in Epochs \ {own}, voices \in [Others -> KeyOrNone \ {own}] :
            /\ held = [c \in Client |-> [s \in Scope |->
                  IF c = Newcomer THEN IF s \in leads THEN own ELSE NoKey
                  ELSE IF s = Server THEN shared ELSE voices[c]]]
            /\ mail = [to : Others, scope : leads, key : {own}]
            /\ asks = [from : {Newcomer}, to : Others, scope : FirstAsked(leads)]
            /\ verify = [c \in Client |-> IF c = Newcomer THEN Planned(leads) ELSE <<>>]
            /\ age = [c \in Client |-> IF c = Newcomer /\ leads # Scope THEN 0 ELSE OldAge]
  BY <1>1
<1>3. /\ tries = [c \in Client |-> [s \in Scope |-> 0]]
      /\ due \in [Client -> 1..HousekeeperPeriod] /\ due[Newcomer] = HousekeeperPeriod
      /\ calm = [c \in Client |-> RecoverPause + 1]
      /\ air = [c \in Client |-> NoKey] /\ queue = [c \in Client |-> {}]
      /\ chats = 0 /\ unasked = [c \in Client |-> 0]
  BY DEF RecoveryInit
<1>4. /\ Server \in Scope /\ Voice \in Scope /\ Server # Voice
      /\ Scope = {Server, Voice}
  BY DEF Scope, Server, Voice
<1>5. leads \in {{}, {Voice}, Scope} BY DEF Leadership
<1>6. \A c \in Client : verify[c] \in {<<>>, <<Voice>>, <<Server, Voice>>}
  BY <1>2, <1>5 DEF Planned
<1>7. RecoveryTypeOK
  <2>1. held \in [Client -> [Scope -> KeyOrNone]]
    <3>1. \A c \in Client \ {Newcomer} : voices[c] \in KeyOrNone BY <1>2 DEF Others
    <3>2. own \in KeyOrNone /\ shared \in KeyOrNone /\ NoKey \in KeyOrNone
      BY <1>1, <1>2 DEF KeyOrNone
    <3> QED BY <1>2, <3>1, <3>2
  <2>2. asks \subseteq Ask
    <3>1. FirstAsked(leads) \subseteq Scope BY <1>4 DEF FirstAsked
    <3> QED BY <1>2, <3>1 DEF Ask, Others
  <2>3. mail \subseteq Envelope
    <3>1. leads \subseteq Scope BY <1>4, <1>5
    <3> QED BY <1>1, <1>2, <3>1 DEF Envelope, Others
  <2>4. verify \in [Client -> Seq(Scope)]
    <3>1. <<>> \in Seq(Scope) /\ <<Voice>> \in Seq(Scope) /\ <<Server, Voice>> \in Seq(Scope)
      BY <1>4
    <3>2. \A c \in Client : verify[c] \in Seq(Scope) BY <1>6, <3>1
    <3> QED BY <1>2, <3>2
  <2>5. age \in [Client -> 0..OldAge] BY <1>2 DEF OldAge, SlowAge
  <2>6. /\ tries \in [Client -> [Scope -> 0..FewTries]]
        /\ calm \in [Client -> 0..RecoverPause + 1]
        /\ air \in [Client -> KeyOrNone] /\ queue \in [Client -> SUBSET QueuedChat]
        /\ chats \in 0..MaxChats /\ unasked \in [Client -> 0..MaxUnasked + 1]
    BY <1>3 DEF FewTries, RecoverPause, KeyOrNone
  <2>7. due \in [Client -> 0..HousekeeperPeriod] BY <1>3 DEF HousekeeperPeriod
  <2> QED BY <2>1, <2>2, <2>3, <2>4, <2>5, <2>6, <2>7 DEF RecoveryTypeOK
<1>8. ASSUME Others # {} PROVE Served
  <2> SUFFICES ASSUME NEW c \in Client, held[c][Server] = NoKey
               PROVE  c = Newcomer /\ due[c] = HousekeeperPeriod /\ age[c] = 0 /\ Greeting
    BY DEF Served
  <2>1. own # NoKey /\ shared # NoKey BY <1>1, <1>2 DEF NoKey
  <2>2. c = Newcomer /\ Server \notin leads BY <1>2, <1>4, <2>1
  <2>3. leads # Scope /\ FirstAsked(leads) = {Server} BY <1>4, <2>2 DEF FirstAsked
  <2>4. age[c] = 0 BY <1>2, <2>2, <2>3
  <2>5. PICK d \in Others : TRUE BY <1>8
  <2>6. [from |-> Newcomer, to |-> d, scope |-> Server] \in asks BY <1>2, <2>3, <2>5
  <2> QED BY <1>3, <2>2, <2>4, <2>6 DEF Greeting
<1>9. ASSUME NEW c \in Client PROVE Patient(c)
  <2>1. unasked[c] = 0 /\ tries[c][Voice] = 0 /\ due[c] \in 1..2 BY <1>3, <1>4 DEF HousekeeperPeriod
  <2>2. age[c] \in Nat BY <1>2 DEF OldAge, SlowAge
  <2> QED BY <1>6, <2>1, <2>2 DEF Patient
<1> QED BY <1>7, <1>8, <1>9 DEF AllPatient

\* The server's key comes to everybody before the first second is over.
LEMMA ServedStep ==
  ASSUME RecoveryTypeOK, Newcomer \in Reachable, Served, [RecoveryNext]_recoveryVars
  PROVE  Served'
<1> SUFFICES ASSUME NEW c \in Client, held'[c][Server] = NoKey
             PROVE  /\ c = Newcomer /\ due'[c] = HousekeeperPeriod /\ age'[c] = 0
                    /\ Greeting'
  BY DEF Served
<1>1. Server \in Scope /\ Voice \in Scope /\ Server # Voice
  BY DEF Scope, Server, Voice
<1> DEFINE Before == held[c][Server] = NoKey
<1>2. Before => c = Newcomer /\ due[c] = HousekeeperPeriod /\ age[c] = 0 /\ Greeting
  BY DEF Served
<1>3. asks \subseteq asks' /\ mail \subseteq mail' /\ Greeting => Greeting' BY DEF Greeting
<1> HIDE DEF Before
<1>4. ASSUME Second PROVE FALSE
  <2>1. held' = held /\ asks = {} /\ mail = {} BY <1>4 DEF Second
  <2> QED BY <1>2, <2>1 DEF Greeting, Before
<1>5. ASSUME NEW b \in Client, Housekeep(b) PROVE c = Newcomer /\ due'[c] = 2 /\ age'[c] = 0 /\ Greeting'
  <2>1. verify[b] \in Seq(Scope) BY DEF RecoveryTypeOK
  <2>2. PICK M \in Local : Commit(b, M) /\ M.held = held[b] BY <1>5, <2>1, VerifyTail, Housekept
  <2>3. /\ held'[b] = held[b] /\ asks \subseteq asks'
        /\ \A d \in Client \ {b} : held'[d] = held[d] /\ age'[d] = age[d]
    BY <2>2, Committed
  <2>4. Before BY <2>3 DEF Before
  <2>5. due[b] = 0 /\ mail' = mail /\ due' = [due EXCEPT ![b] = HousekeeperPeriod]
    BY <1>5 DEF Housekeep
  <2>6. b # c BY <1>2, <2>4, <2>5 DEF HousekeeperPeriod
  <2>7. due'[c] = due[c] BY <2>5, <2>6 DEF RecoveryTypeOK
  <2> QED BY <1>2, <1>3, <2>3, <2>4, <2>5, <2>6, <2>7 DEF HousekeeperPeriod
<1>6. ASSUME NEW a \in asks, Answer(a) PROVE Greeting' /\ Before /\ UNCHANGED <<held, due, age>>
  <2>1. a \in Ask /\ asks' = asks \ {a} /\ mail \subseteq mail' /\ UNCHANGED <<held, due, age>>
    BY <1>6 DEF Answer, RecoveryTypeOK
  <2>2. Before BY <2>1 DEF Before
  <2>3. CASE \E d \in Others : a = [from |-> Newcomer, to |-> d, scope |-> Server]
    <3>1. PICK d \in Others : a = [from |-> Newcomer, to |-> d, scope |-> Server] BY <2>3
    <3>2. held[d][Server] # NoKey BY <3>1 DEF Served, Others
    <3>3. [to |-> Newcomer, scope |-> Server, key |-> held[d][Server]] \in mail'
      BY <1>6, <3>1, <3>2 DEF Answer
    <3> QED BY <2>1, <2>2, <3>3 DEF Greeting
  <2>4. CASE ~ \E d \in Others : a = [from |-> Newcomer, to |-> d, scope |-> Server]
    <3>1. Greeting BY <1>2, <2>2
    <3> QED BY <2>1, <2>2, <2>4, <3>1 DEF Greeting
  <2> QED BY <2>3, <2>4
<1>7. ASSUME NEW e \in mail, Receive(e)
      PROVE  Before /\ UNCHANGED due /\ age'[c] = age[c] /\ Greeting'
  <2>1. PICK M \in Local :
           /\ Commit(e.to, M) /\ M.tries = tries[e.to]
           /\ \A s \in Scope : M.held[s] = NoKey => held[e.to][s] = NoKey
           /\ M.held[e.scope] # NoKey
           /\ \/ M.age = age[e.to] /\ M.asked = {}
              \/ \E s \in Scope : /\ M.held[s] = NoKey /\ age[e.to] >= 3
                                  /\ M.age = 0 /\ M.asked = {s}
    BY <1>7, Received
  <2>2. e.to \in Client /\ e.scope \in Scope BY DEF RecoveryTypeOK, Envelope
  <2>3. /\ held'[e.to] = M.held /\ age'[e.to] = M.age /\ asks \subseteq asks'
        /\ \A d \in Client \ {e.to} : held'[d] = held[d] /\ age'[d] = age[d]
    BY <2>1, <2>2, Committed
  <2>4. Before BY <1>1, <2>1, <2>3 DEF Before
  <2>5. ~ (e.to = Newcomer /\ e.scope = Server) BY <1>2, <2>1, <2>3, <2>4
  <2>6. mail' = mail \ {e} /\ UNCHANGED due BY <1>7 DEF Receive
  <2>7. Greeting' BY <1>2, <2>3, <2>4, <2>5, <2>6 DEF Greeting
  <2>8. age'[c] = age[c] BY <1>2, <2>1, <2>3, <2>4
  <2> QED BY <2>4, <2>6, <2>7, <2>8
<1>8. ASSUME NEW b \in Client, NEW s \in Scope, Chat(b, s)
      PROVE  Before /\ UNCHANGED due /\ age'[c] = age[c] /\ Greeting'
  <2>1. PICK M \in Local : /\ Commit(b, M) /\ M.held = held[b]
                           /\ M.age = age[b] \/ (M.age = 0 /\ age[b] >= 3)
    BY <1>8, Chatted
  <2>2. /\ held'[b] = M.held /\ age'[b] = M.age /\ asks \subseteq asks'
        /\ \A d \in Client \ {b} : held'[d] = held[d] /\ age'[d] = age[d]
    BY <2>1, Committed
  <2>3. Before BY <2>1, <2>2 DEF Before
  <2>4. UNCHANGED <<mail, due>> BY <1>8 DEF Chat
  <2>5. age'[c] = age[c] BY <1>2, <2>1, <2>2, <2>3
  <2> QED BY <1>2, <1>3, <2>2, <2>3, <2>4, <2>5
<1>9. ASSUME NEW b \in Client, NEW t \in Client, Recover(b, t)
      PROVE  Before /\ UNCHANGED <<due, age, asks, mail>>
  <2>1. held' = [held EXCEPT ![b][Voice] = NoKey] /\ UNCHANGED <<due, age, asks, mail>>
    BY <1>9 DEF Recover, RecoverLeaving
  <2>2. held'[c][Server] = held[c][Server] BY <1>1, <2>1 DEF RecoveryTypeOK
  <2> QED BY <2>1, <2>2 DEF Before
<1>10. CASE UNCHANGED recoveryVars BY <1>2, <1>3, <1>10 DEF recoveryVars, Before
<1>11. CASE \E b \in Client : Housekeep(b) BY <1>5, <1>11 DEF HousekeeperPeriod
<1>12. CASE \E a \in asks : Answer(a) BY <1>2, <1>6, <1>12
<1>13. CASE \E e \in mail : Receive(e) BY <1>2, <1>7, <1>13
<1>14. CASE \E b \in Client, s \in Scope : Chat(b, s) BY <1>2, <1>8, <1>14
<1>15. CASE \E b, t \in Client : Recover(b, t) BY <1>2, <1>3, <1>9, <1>15
<1> QED BY <1>4, <1>10, <1>11, <1>12, <1>13, <1>14, <1>15 DEF RecoveryNext

\* A question of a handler leaves a client patient: whatever is asked is the voice key, or
\* the voice key is there.
LEMMA AskedPatient ==
  ASSUME RecoveryTypeOK, NEW c \in Client, Patient(c), NEW M \in Local, Commit(c, M),
         M.tries = tries[c], UNCHANGED <<due, verify>>,
         M.held[Voice] = NoKey => held[c][Voice] = NoKey,
         \/ M.age = age[c]
         \/ M.age = 0 /\ (Voice \in M.asked \/ M.held[Voice] # NoKey)
  PROVE  Patient(c)'
<1>1. /\ held'[c] = M.held /\ age'[c] = M.age /\ tries'[c] = tries[c]
      /\ unasked'[c] = IF Voice \in M.asked \/ M.held[Voice] # NoKey THEN 0 ELSE unasked[c]
      /\ due'[c] = due[c] /\ verify'[c] = verify[c]
  BY Committed
<1>2. unasked[c] \in Nat /\ due[c] \in 0..2 /\ age[c] \in Nat /\ M.age \in Nat
  BY DEF RecoveryTypeOK, Local, HousekeeperPeriod, OldAge, SlowAge
<1>3. CASE unasked'[c] = 0
  <2>1. unasked'[c] <= age'[c] /\ unasked'[c] <= age'[c] + 2 BY <1>1, <1>2, <1>3
  <2>2. unasked'[c] + due'[c] <= 2 /\ unasked'[c] + due'[c] <= 17 BY <1>1, <1>2, <1>3
  <2>3. verify'[c] # <<>> /\ Head(verify'[c]) = Server => tries'[c][Voice] = 0
    BY <1>1 DEF Patient
  <2>4. verify'[c] \in {<<>>, <<Voice>>, <<Server, Voice>>} BY <1>1 DEF Patient
  <2> QED BY <1>3, <2>1, <2>2, <2>3, <2>4 DEF Patient
<1>4. CASE unasked'[c] # 0
  <2>1. unasked'[c] = unasked[c] /\ age'[c] = age[c] /\ M.held[Voice] = NoKey BY <1>1, <1>4
  <2> QED BY <1>1, <2>1 DEF Patient
<1> QED BY <1>3, <1>4

\* Every step leaves everybody patient.
LEMMA PatientStep ==
  ASSUME RecoveryTypeOK, MaxUnasked >= 17, Served, AllPatient, [RecoveryNext]_recoveryVars
  PROVE  AllPatient'
<1>1. /\ Server \in Scope /\ Voice \in Scope /\ Server # Voice
      /\ Scope = {Server, Voice}
  BY DEF Scope, Server, Voice
<1> SUFFICES ASSUME NEW c \in Client PROVE Patient(c)'
  BY DEF AllPatient
<1>2. Patient(c) BY DEF AllPatient
<1>3. /\ unasked[c] \in Nat /\ due[c] \in 0..2 /\ age[c] \in 0..16
      /\ held[c][Server] = NoKey => due[c] = 2 /\ age[c] = 0
  BY DEF RecoveryTypeOK, Served, HousekeeperPeriod, OldAge, SlowAge
<1>4. ASSUME UNCHANGED <<held[c], age[c], tries[c], due[c], verify[c], unasked[c]>>
      PROVE  Patient(c)'
  BY <1>2, <1>4 DEF Patient
<1>5. ASSUME Second PROVE Patient(c)'
  <2>1. /\ due'[c] = due[c] - 1 /\ due[c] > 0 /\ age'[c] = UpTo(age[c], OldAge)
        /\ unasked'[c] = IF held[c][Voice] = NoKey THEN UpTo(unasked[c], MaxUnasked + 1) ELSE 0
        /\ held' = held /\ tries' = tries /\ verify' = verify
    BY <1>5 DEF Second
  <2>2. unasked'[c] \in 0..unasked[c] + 1 BY <1>3, <2>1, ClientAssumption, NumberAssumption DEF UpTo
  <2>3. age'[c] \in 0..16 /\ (age'[c] < 16 => age'[c] = age[c] + 1)
    BY <1>3, <2>1 DEF UpTo, OldAge, SlowAge
  <2>4. held[c][Voice] # NoKey => unasked'[c] = 0 BY <2>1
  <2>5. unasked'[c] + due'[c] <= unasked[c] + due[c] BY <1>3, <2>1, <2>2
  <2>6. unasked[c] + due[c] <= 17 => unasked'[c] + due'[c] <= 17 BY <1>3, <2>1, <2>2
  <2>7. unasked[c] + due[c] <= 2 => unasked'[c] + due'[c] <= 2 BY <1>3, <2>1, <2>2
  <2>8. age'[c] < 16 => /\ age[c] < 16
                        /\ unasked[c] <= age[c] + 2 => unasked'[c] <= age'[c] + 2
                        /\ unasked[c] <= age[c] => unasked'[c] <= age'[c]
    BY <1>3, <2>2, <2>3
  <2>9. OldAge = 16 BY DEF OldAge, SlowAge
  <2> QED BY <1>2, <2>1, <2>4, <2>6, <2>7, <2>8, <2>9 DEF Patient
<1>6. ASSUME NEW b \in Client, Housekeep(b) PROVE Patient(c)'
  <2>1. verify[b] \in Seq(Scope) /\ due \in [Client -> 0..2] /\ verify \in [Client -> Seq(Scope)]
    BY DEF RecoveryTypeOK, HousekeeperPeriod
  <2>2. PICK M \in Local :
           /\ Commit(b, M) /\ M.held = held[b]
           /\ held[b][Server] # NoKey /\ held[b][Voice] = NoKey =>
                \/ Voice \in M.asked /\ M.age = 0
                \/ /\ M.age = age[b] /\ M.tries = tries[b] /\ age[b] < OldAge
                   /\ tries[b][Voice] < FewTries => age[b] <= 3
                \/ /\ verify[b] # <<>> /\ Head(verify[b]) = Server
                   /\ M.age = 0 /\ M.tries = tries[b]
    BY <1>6, <2>1, VerifyTail, Housekept
  <2>3. /\ due[b] = 0 /\ due' = [due EXCEPT ![b] = 2]
        /\ verify' = [verify EXCEPT ![b] = IF @ = <<>> THEN @ ELSE Tail(@)]
    BY <1>6 DEF Housekeep, HousekeeperPeriod
  <2>4. CASE b # c
    <3>1. UNCHANGED <<held[c], age[c], tries[c], unasked[c]>> BY <2>2, <2>4, Committed
    <3>2. UNCHANGED <<due[c], verify[c]>> BY <2>1, <2>3, <2>4
    <3> QED BY <1>4, <3>1, <3>2
  <2>5. CASE b = c
    <3>1. /\ held'[c] = held[c] /\ age'[c] = M.age /\ tries'[c] = M.tries
          /\ unasked'[c] = IF Voice \in M.asked \/ M.held[Voice] # NoKey THEN 0 ELSE unasked[c]
      BY <2>2, <2>5, Committed
    <3>2. due[c] = 0 /\ due'[c] = 2 BY <2>1, <2>3, <2>5
    <3>3. /\ verify'[c] \in {<<>>, <<Voice>>, <<Server, Voice>>}
          /\ ~ (verify'[c] # <<>> /\ Head(verify'[c]) = Server)
      <4>1. verify'[c] = IF verify[c] = <<>> THEN <<>> ELSE Tail(verify[c]) BY <2>1, <2>3, <2>5
      <4>2. verify[c] \in {<<>>, <<Voice>>, <<Server, Voice>>} BY <1>2 DEF Patient
      <4>3. Tail(<<Voice>>) = <<>> /\ Tail(<<Server, Voice>>) = <<Voice>> OBVIOUS
      <4>4. verify'[c] \in {<<>>, <<Voice>>} BY <4>1, <4>2, <4>3
      <4> QED BY <1>1, <4>4
    <3>4. M.age \in Nat BY DEF Local, OldAge, SlowAge
    <3>5. CASE unasked'[c] = 0
      <4>1. unasked'[c] + due'[c] <= 17 /\ unasked'[c] <= age'[c] + 2 /\ unasked'[c] <= age'[c]
        BY <3>1, <3>2, <3>4, <3>5
      <4> QED BY <3>3, <3>5, <4>1 DEF Patient
    <3>6. CASE unasked'[c] # 0
      <4>1. /\ unasked'[c] = unasked[c] /\ held[c][Voice] = NoKey /\ Voice \notin M.asked
        BY <2>2, <2>5, <3>1, <3>6
      <4>2. held[c][Server] # NoKey BY <1>3, <3>2
      <4>3. CASE /\ M.age = age[c] /\ M.tries = tries[c] /\ age[c] < OldAge
                 /\ tries[c][Voice] < FewTries => age[c] <= 3
        <5>1. unasked[c] <= age[c] + 2 /\ (unasked[c] <= age[c] \/ tries[c][Voice] = 0)
          BY <1>2, <4>3 DEF Patient
        <5>2. age[c] <= 15 /\ (tries[c][Voice] = 0 => age[c] <= 3)
          BY <1>3, <4>3 DEF OldAge, SlowAge, FewTries
        <5>3. unasked[c] <= 15 BY <1>3, <5>1, <5>2
        <5>4. unasked'[c] + due'[c] <= 17 BY <1>3, <3>2, <4>1, <5>3
        <5>5. age'[c] = age[c] /\ tries'[c] = tries[c] BY <3>1, <4>3
        <5>6. unasked'[c] <= age'[c] + 2 /\ (unasked'[c] <= age'[c] \/ tries'[c][Voice] = 0)
          BY <4>1, <5>1, <5>5
        <5> QED BY <3>1, <3>3, <4>1, <5>4, <5>6 DEF Patient
      <4>4. CASE /\ verify[c] # <<>> /\ Head(verify[c]) = Server /\ M.age = 0 /\ M.tries = tries[c]
        <5>1. tries[c][Voice] = 0 /\ unasked[c] + due[c] <= 2 BY <1>2, <4>4 DEF Patient
        <5>2. unasked'[c] <= 2 BY <1>3, <3>2, <4>1, <5>1
        <5>3. unasked'[c] + due'[c] <= 17 /\ unasked'[c] <= 0 + 2 BY <1>3, <3>2, <4>1, <5>2
        <5>4. age'[c] = 0 /\ tries'[c][Voice] = 0 BY <3>1, <4>4, <5>1
        <5> QED BY <3>1, <3>3, <4>1, <5>3, <5>4 DEF Patient
      <4> QED BY <2>2, <2>5, <4>1, <4>2, <4>3, <4>4
    <3> QED BY <3>5, <3>6
  <2> QED BY <2>4, <2>5
<1>7. ASSUME NEW a \in asks, Answer(a) PROVE Patient(c)'
  BY <1>4, <1>7 DEF Answer
<1>8. ASSUME NEW e \in mail, Receive(e) PROVE Patient(c)'
  <2>1. PICK M \in Local :
           /\ Commit(e.to, M) /\ M.tries = tries[e.to]
           /\ \A s \in Scope : M.held[s] = NoKey => held[e.to][s] = NoKey
           /\ M.held[e.scope] # NoKey
           /\ \/ M.age = age[e.to] /\ M.asked = {}
              \/ \E s \in Scope : /\ M.held[s] = NoKey /\ age[e.to] >= 3
                                  /\ M.age = 0 /\ M.asked = {s}
    BY <1>8, Received
  <2>2. e.to \in Client BY DEF RecoveryTypeOK, Envelope
  <2>3. UNCHANGED <<due, verify>> BY <1>8 DEF Receive
  <2>4. CASE e.to # c
    <3>1. UNCHANGED <<held[c], age[c], tries[c], unasked[c]>> BY <2>1, <2>2, <2>4, Committed
    <3> QED BY <1>4, <2>3, <3>1
  <2>5. CASE e.to = c
    <3>1. M.age = age[c] \/ (M.age = 0 /\ Voice \in M.asked)
      <4>1. ASSUME NEW s \in Scope, M.held[s] = NoKey, age[c] >= 3, M.asked = {s}
            PROVE  Voice \in M.asked
        <5>1. held[c][s] = NoKey BY <2>1, <2>5, <4>1
        <5>2. s # Server BY <1>3, <4>1, <5>1
        <5> QED BY <1>1, <4>1, <5>2
      <4> QED BY <2>1, <2>5, <4>1
    <3> QED BY <1>1, <1>2, <2>1, <2>3, <2>5, <3>1, AskedPatient
  <2> QED BY <2>4, <2>5
<1>9. ASSUME NEW b \in Client, NEW s \in Scope, Chat(b, s) PROVE Patient(c)'
  <2>1. PICK M \in Local :
           /\ Commit(b, M) /\ M.held = held[b] /\ M.tries = tries[b]
           /\ \/ M.age = age[b] /\ M.asked = {}
              \/ M.age = 0 /\ M.asked = {s} /\ age[b] >= 3
    BY <1>9, Chatted
  <2>2. UNCHANGED <<due, verify>> /\ held[b][s] = NoKey BY <1>9 DEF Chat
  <2>3. CASE b # c
    <3>1. UNCHANGED <<held[c], age[c], tries[c], unasked[c]>> BY <2>1, <2>3, Committed
    <3> QED BY <1>4, <2>2, <3>1
  <2>4. CASE b = c
    <3>1. M.age = age[c] \/ (M.age = 0 /\ Voice \in M.asked) BY <1>1, <1>3, <2>1, <2>2, <2>4
    <3> QED BY <1>2, <2>1, <2>2, <2>4, <3>1, AskedPatient
  <2> QED BY <2>3, <2>4
<1>10. ASSUME NEW b \in Client, NEW t \in Client, Recover(b, t) PROVE Patient(c)'
  <2>1. /\ held' = [held EXCEPT ![b][Voice] = NoKey] /\ tries' = [tries EXCEPT ![b][Voice] = 0]
        /\ UNCHANGED <<age, verify, due, unasked>>
    BY <1>10 DEF Recover, RecoverLeaving
  <2>2. /\ held'[c] = IF b = c THEN [held[c] EXCEPT ![Voice] = NoKey] ELSE held[c]
        /\ tries'[c] = IF b = c THEN [tries[c] EXCEPT ![Voice] = 0] ELSE tries[c]
    BY <2>1 DEF RecoveryTypeOK
  <2>3. CASE b # c BY <1>4, <2>1, <2>2, <2>3
  <2>4. CASE b = c
    <3>1. held'[c][Voice] = NoKey /\ tries'[c][Voice] = 0 BY <1>1, <2>2, <2>4 DEF RecoveryTypeOK
    <3> QED BY <1>2, <2>1, <3>1 DEF Patient
  <2> QED BY <2>3, <2>4
<1>11. CASE UNCHANGED recoveryVars BY <1>4, <1>11 DEF recoveryVars
<1> QED BY <1>5, <1>6, <1>7, <1>8, <1>9, <1>10, <1>11 DEF RecoveryNext

\* Every variable of KeyRecovery keeps its type, for any clients, epochs and numbers of chats.
THEOREM RecoveryTyped == RecoverySpec => []RecoveryTypeOK
<1>1. RecoveryInit => RecoveryTypeOK BY InitServed
<1>2. RecoveryTypeOK /\ [RecoveryNext]_recoveryVars => RecoveryTypeOK' BY RecoveryTypeStep
<1> QED BY <1>1, <1>2, PTL DEF RecoverySpec

\* A client in company whose entry the others have verified never stays silent about a missing
\* voice key for more than 17 s, whoever forgets its key and however many chats are written: the
\* slow interval of 15 s, exceeded, and the housekeeper's grid of 2 s.
THEOREM KeyIsAskedFor ==
  ASSUME Others # {}, Newcomer \in Reachable, MaxUnasked >= 17
  PROVE  RecoverySpec => []KeepsAsking
<1>1. RecoveryInit => RecoveryTypeOK /\ Served /\ AllPatient BY InitServed
<1>2. RecoveryTypeOK /\ Served /\ AllPatient /\ [RecoveryNext]_recoveryVars
        => (RecoveryTypeOK /\ Served /\ AllPatient)'
  BY RecoveryTypeStep, ServedStep, PatientStep
<1>3. RecoveryTypeOK /\ AllPatient => KeepsAsking
  <2> SUFFICES ASSUME RecoveryTypeOK, AllPatient, NEW c \in Client PROVE unasked[c] <= MaxUnasked
    BY DEF KeepsAsking
  <2>1. unasked[c] + due[c] <= 17 /\ unasked[c] \in Nat /\ due[c] \in Nat
    BY SMTT(30) DEF AllPatient, Patient, RecoveryTypeOK, HousekeeperPeriod
  <2> QED BY <2>1, ClientAssumption, NumberAssumption
<1> QED BY <1>1, <1>2, <1>3, PTL DEF RecoverySpec
=============================================================================
