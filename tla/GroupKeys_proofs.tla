--------------------------- MODULE GroupKeys_proofs ---------------------------
(***************************************************************************)
(* Proofs about the group-key engine, for any number of sessions and        *)
(* channels, any clocks and any identities.                                 *)
(*                                                                         *)
(* A handler is a chain of operators on a Local record.  Good(L) says of    *)
(* such a record what TypeOK and KeysKeepTheirEpoch say of the state, and   *)
(* Climbs(L, M) what NeverAnOlderKey says of a step.  Every operator takes  *)
(* a good record to a good one that climbs, so every chain of them does.    *)
(*                                                                         *)
(* The second half is about behaviours in which events come one at a time.  *)
(* There the server is ahead of a client by one event at most (Orderly), and *)
(* a handler's turn is told by what it sends and keeps (Turn): the members  *)
(* of a component hear of every key passed on for it (AllHeard), a key      *)
(* minted for a component stays inside it (FreshSafe), and the server's key *)
(* is on its way to whoever lacks it (ServerKeyed).                         *)
(***************************************************************************)
EXTENDS GroupKeys, Integers, FiniteSets, FiniteSetTheorems, WellFoundedInduction,
        SequenceTheorems, TLAPS

-----------------------------------------------------------------------------
(* A finite non-empty set of naturals has a greatest element: what the CHOOSE of
   an epoch rests on.  The induction over the cardinality is carried by the
   minimal elements of well-founded relations. *)

\* A non-empty set of naturals has a least element.
LEMMA NatLeast ==
  ASSUME NEW T \in SUBSET Nat, T # {}
  PROVE  \E x \in T : \A y \in T : x <= y
<1> DEFINE R == OpToRel(<, Nat)
<1>1. IsWellFoundedOn(R, Nat) BY NatLessThanWellFounded
<1>2. \A x, y \in Nat : (<<y, x>> \in R) <=> y < x
  BY DEF OpToRel
<1> HIDE DEF R
<1>3. \E x \in T : \A y \in T : ~ (<<y, x>> \in R)
  BY <1>1, WFMin
<1>4. PICK x \in T : \A y \in T : ~ (<<y, x>> \in R) BY <1>3
<1>5. ASSUME NEW y \in T PROVE x <= y
  <2>1. ~ (y < x) BY <1>4, <1>2
  <2> QED BY <2>1
<1> QED BY <1>5

\* A finite set of naturals has an upper bound: a minimal counterexample loses one
\* element and is bounded after all.
LEMMA FiniteBounded ==
  ASSUME NEW S \in SUBSET Nat, IsFiniteSet(S)
  PROVE  \E b \in Nat : \A x \in S : x <= b
<1> DEFINE Bounded(A) == \E b \in Nat : \A x \in A : x <= b
           T == {n \in Nat : \E A \in SUBSET S : Cardinality(A) = n /\ ~ Bounded(A)}
<1> SUFFICES ASSUME ~ Bounded(S) PROVE FALSE OBVIOUS
<1>1. Cardinality(S) \in T BY FS_CardinalityType
<1>2. PICK n \in T : \A m \in T : n <= m 
  <2>1. T \in SUBSET Nat /\ T # {} BY <1>1
  <2> HIDE DEF T
  <2> QED BY <2>1, NatLeast
<1>3. PICK A \in SUBSET S : Cardinality(A) = n /\ ~ Bounded(A) BY <1>2
<1>4. IsFiniteSet(A) BY FS_Subset
<1>5. A # {}
  <2>1. 0 \in Nat OBVIOUS
  <2>2. \A x \in {} : x <= 0 OBVIOUS
  <2>3. Bounded({}) BY <2>1, <2>2
  <2> HIDE DEF Bounded
  <2> QED BY <2>3, <1>3
<1>6. PICK a \in A : TRUE BY <1>5
<1>7. Cardinality(A \ {a}) = n - 1 /\ n - 1 \in Nat
  <2>1. IsFiniteSet(A \ {a}) /\ Cardinality(A \ {a}) = Cardinality(A) - 1
     BY <1>4, <1>6, FS_RemoveElement
  <2>2. Cardinality(A \ {a}) \in Nat BY <2>1, FS_CardinalityType
  <2> QED BY <2>1, <2>2, <1>3
<1>8. Bounded(A \ {a})
   BY <1>2, <1>7
<1>9. PICK b \in Nat : \A x \in A \ {a} : x <= b BY <1>8
<1>10. \A x \in A : x <= b + a
   BY <1>9
<1> QED BY <1>10, <1>3

\* A finite non-empty set of naturals has a greatest element.
LEMMA FiniteMax ==
  ASSUME NEW S \in SUBSET Nat, IsFiniteSet(S), S # {}
  PROVE  \E m \in S : \A x \in S : x <= m
<1>1. PICK b \in Nat : \A x \in S : x <= b BY FiniteBounded
<1> DEFINE U == {u \in Nat : \A x \in S : x <= u}
<1>2. U \in SUBSET Nat /\ U # {} BY <1>1
<1>3. PICK u \in U : \A w \in U : u <= w 
  <2> HIDE DEF U
  <2> QED BY <1>2, NatLeast
<1>4. u \in S
  <2> SUFFICES ASSUME u \notin S PROVE FALSE OBVIOUS
  <2>1. PICK y \in S : TRUE OBVIOUS
  <2>2. u - 1 \in Nat BY <2>1, <1>3
  <2>3. u - 1 \in U
    <3>1. ASSUME NEW x \in S PROVE x <= u - 1
      <4>1. x <= u /\ x # u BY <1>3
      <4>2. x \in Nat /\ u \in Nat BY <1>3
      <4> QED BY <4>1, <4>2
    <3> QED BY <2>2, <3>1
  <2> QED BY <2>3, <1>3
<1> QED BY <1>3, <1>4

-----------------------------------------------------------------------------
(* Records and what a step may do to them.                                 *)

LocalType ==
    [keys : [Scope -> KeyOrNone], epochs : [Scope -> Nat], minted : [Session -> Seq(Epoch)],
     out : [Session -> Seq(Message)], rewrap : BOOLEAN, passed : [Scope -> KeyOrNone],
     fresh : [Scope -> KeyOrNone], declined : SUBSET Key]

MintedIn(M, k, e) == k.n \in 1..Len(M[k.by]) /\ M[k.by][k.n] = e

\* No envelope of the sequence contradicts the table of minted keys.
Truthful(M, q) ==
    \A i \in 1..Len(q) : q[i].type = "e2e_key" => MintedIn(M, q[i].key, q[i].epoch)

Good(L) ==
    /\ L \in LocalType
    /\ \A s \in Scope :
          IF L.keys[s] = NoKey THEN L.epochs[s] = 0 ELSE MintedIn(L.minted, L.keys[s], L.epochs[s])
    /\ \A d \in Session : Truthful(L.minted, L.out[d])

\* N records every key that M records.
Extends(M, N) ==
    \A d \in Session : Len(M[d]) <= Len(N[d]) /\ \A i \in 1..Len(M[d]) : N[d][i] = M[d][i]

\* From L to M a scope keeps its key and epoch or gains in epoch.
Climbs(L, M) ==
    /\ \A s \in Scope :
          \/ M.keys[s] = L.keys[s] /\ M.epochs[s] = L.epochs[s]
          \/ M.epochs[s] > L.epochs[s]
    /\ Extends(L.minted, M.minted)

\* What every operator on a good record guarantees.
Leads(L, M) == Good(M) /\ Climbs(L, M)
-----------------------------------------------------------------------------
(* Lemmas about the relations. *)

\* The absent key is no key.
LEMMA NoKeyIsNone == NoKey \notin Key
BY DEF NoKey, Key

\* A longer record of minted keys confirms what a shorter one confirms.
LEMMA ExtendsConfirms ==
  ASSUME NEW M \in [Session -> Seq(Epoch)], NEW N \in [Session -> Seq(Epoch)], Extends(M, N),
         NEW k \in Key, NEW e, MintedIn(M, k, e)
  PROVE  MintedIn(N, k, e)
<1>1. k.by \in Session /\ k.n \in Nat BY DEF Key
<1>2. Len(M[k.by]) \in Nat /\ Len(N[k.by]) \in Nat BY <1>1
<1> QED BY <1>1, <1>2 DEF Extends, MintedIn

\* The keys of a queue that a record confirms are confirmed by a longer one.
LEMMA ExtendsTruthful ==
  ASSUME NEW M \in [Session -> Seq(Epoch)], NEW N \in [Session -> Seq(Epoch)], Extends(M, N),
         NEW q \in Seq(Message), Truthful(M, q)
  PROVE  Truthful(N, q)
<1> SUFFICES ASSUME NEW i \in 1..Len(q), q[i].type = "e2e_key"
             PROVE  MintedIn(N, q[i].key, q[i].epoch)
    BY DEF Truthful
<1>1. q[i].key \in Key
  <2>1. q[i] \in Message OBVIOUS
  <2> QED BY <2>1 DEF Message
<1>2. MintedIn(M, q[i].key, q[i].epoch) BY DEF Truthful
<1> QED BY <1>1, <1>2, ExtendsConfirms

\* Extends is transitive.
LEMMA ExtendsTransitive ==
  ASSUME NEW K \in [Session -> Seq(Epoch)], NEW M \in [Session -> Seq(Epoch)],
         NEW N \in [Session -> Seq(Epoch)], Extends(K, M), Extends(M, N)
  PROVE  Extends(K, N)
<1> SUFFICES ASSUME NEW d \in Session
             PROVE  Len(K[d]) <= Len(N[d]) /\ \A i \in 1..Len(K[d]) : N[d][i] = K[d][i]
    BY DEF Extends
<1>1. Len(K[d]) \in Nat /\ Len(M[d]) \in Nat /\ Len(N[d]) \in Nat OBVIOUS
<1>2. Len(K[d]) <= Len(M[d]) /\ Len(M[d]) <= Len(N[d]) BY DEF Extends
<1>3. 1..Len(K[d]) \subseteq 1..Len(M[d]) BY <1>1, <1>2
<1> QED BY <1>1, <1>2, <1>3 DEF Extends

\* A good record leads to itself.
LEMMA LeadsReflexive ==
  ASSUME NEW L, Good(L)
  PROVE  Leads(L, L)
<1>1. L.minted \in [Session -> Seq(Epoch)] BY DEF Good, LocalType
<1>2. \A d \in Session : Len(L.minted[d]) \in Nat BY <1>1
<1> QED BY <1>2 DEF Leads, Climbs, Extends

\* Operators chain.
LEMMA LeadsTransitive ==
  ASSUME NEW L, NEW M, NEW N, Good(L), Leads(L, M), Leads(M, N)
  PROVE  Leads(L, N)
<1>1. L \in LocalType /\ M \in LocalType /\ N \in LocalType BY DEF Leads, Good
<1>2. Extends(L.minted, N.minted)
  <2>1. /\ L.minted \in [Session -> Seq(Epoch)] /\ M.minted \in [Session -> Seq(Epoch)]
        /\ N.minted \in [Session -> Seq(Epoch)]
      BY <1>1 DEF LocalType
  <2> QED BY <2>1, ExtendsTransitive DEF Leads, Climbs
<1>3. ASSUME NEW s \in Scope
      PROVE  \/ N.keys[s] = L.keys[s] /\ N.epochs[s] = L.epochs[s]
             \/ N.epochs[s] > L.epochs[s]
  <2>1. L.epochs[s] \in Nat /\ M.epochs[s] \in Nat /\ N.epochs[s] \in Nat BY <1>1 DEF LocalType
  <2>2. \/ M.keys[s] = L.keys[s] /\ M.epochs[s] = L.epochs[s]
        \/ M.epochs[s] > L.epochs[s]
      BY DEF Leads, Climbs
  <2>3. \/ N.keys[s] = M.keys[s] /\ N.epochs[s] = M.epochs[s]
        \/ N.epochs[s] > M.epochs[s]
      BY DEF Leads, Climbs
  <2> QED BY <2>1, <2>2, <2>3
<1> QED BY <1>2, <1>3 DEF Leads, Climbs
-----------------------------------------------------------------------------
(* Lemmas about components. *)

\* A component consists of channels.
LEMMA ComponentType ==
  ASSUME NEW v \in View, NEW ch
  PROVE  ComponentOf(v, ch) \in SUBSET Channel
BY DEF ComponentOf, View

\* A key covers scopes.
LEMMA KeyedScopesType ==
  ASSUME NEW v \in View, NEW s
  PROVE  KeyedScopes(v, s) \in SUBSET Scope
BY ComponentType DEF KeyedScopes, Scope

\* Members are sessions.
LEMMA MembersType ==
  ASSUME NEW v, NEW comp
  PROVE  MembersOf(v, comp) \in SUBSET Session
BY DEF MembersOf

\* The first scope of a component is one of its scopes.
LEMMA FirstInComponent ==
  ASSUME NEW v \in View, NEW s, NEW c \in Session, KeyedScopes(v, s) # {}
  PROVE  First(c, KeyedScopes(v, s)) \in KeyedScopes(v, s)
<1>1. CASE s = 0 BY <1>1 DEF KeyedScopes, First
<1>2. CASE s # 0
  <2>1. KeyedScopes(v, s) \in SUBSET Channel BY <1>2, ComponentType DEF KeyedScopes
  <2>2. KeyedScopes(v, s) # {0} BY <2>1, ChannelAssumption
  <2> QED BY <2>1, <2>2, FirstOfAssumption DEF First
<1> QED BY <1>1, <1>2
-----------------------------------------------------------------------------
(* The operators lead from good records to good records. *)

\* An e2e_key message is a message.
LEMMA KeyMsgType ==
  ASSUME NEW comp \in SUBSET Scope, NEW k \in Key, NEW e \in Nat
  PROVE  KeyMsg(comp, k, e) \in Message
BY DEF KeyMsg, Message

\* e2eeShareKeyWith spreads a key only with its own epoch.
LEMMA ShareLeads ==
  ASSUME NEW L, Good(L), NEW c \in Session, NEW v \in View, NEW targets,
         NEW comp \in SUBSET Scope, NEW k \in Key, NEW e \in Nat, MintedIn(L.minted, k, e)
  PROVE  LET M == Share(c, v, L, targets, comp, k, e)
         IN  Leads(L, M) /\ M.keys = L.keys /\ M.epochs = L.epochs /\ M.minted = L.minted
<1> DEFINE out == [d \in Session |->
                      IF d \in targets /\ d # c /\ v.where[d] # Absent
                      THEN Append(L.out[d], KeyMsg(comp, k, e)) ELSE L.out[d]]
           M == [L EXCEPT !.out = out]
<1>1. L \in LocalType BY DEF Good
<1>2. ASSUME NEW d \in Session PROVE out[d] \in Seq(Message) /\ Truthful(L.minted, out[d])
  <2>1. L.out[d] \in Seq(Message) /\ Truthful(L.minted, L.out[d]) BY <1>1 DEF Good, LocalType
  <2>2. KeyMsg(comp, k, e) \in Message BY KeyMsgType
  <2>3. CASE out[d] = L.out[d] BY <2>1, <2>3
  <2>4. CASE out[d] = Append(L.out[d], KeyMsg(comp, k, e))
    <3>1. out[d] \in Seq(Message) BY <2>1, <2>2, <2>4
    <3>2. ASSUME NEW i \in 1..Len(out[d]), out[d][i].type = "e2e_key"
          PROVE  MintedIn(L.minted, out[d][i].key, out[d][i].epoch)
      <4>1. CASE i \in 1..Len(L.out[d])
        <5>1. out[d][i] = L.out[d][i] BY <2>1, <2>4, <4>1
        <5> QED BY <2>1, <3>2, <4>1, <5>1 DEF Truthful
      <4>2. CASE i = Len(L.out[d]) + 1
        <5>1. out[d][i] = KeyMsg(comp, k, e) BY <2>1, <2>4, <4>2
        <5> QED BY <5>1 DEF KeyMsg
      <4> QED BY <2>1, <2>4, <4>1, <4>2
    <3> QED BY <3>1, <3>2 DEF Truthful
  <2> QED BY <2>3, <2>4
<1>3. /\ M \in LocalType /\ M.keys = L.keys /\ M.epochs = L.epochs /\ M.minted = L.minted
      /\ M.out = out
  BY <1>1, <1>2 DEF LocalType
<1>4. Good(M) BY <1>2, <1>3 DEF Good
<1>5. Climbs(L, M) BY <1>3, LeadsReflexive DEF Leads, Climbs
<1>6. Share(c, v, L, targets, comp, k, e) = M BY DEF Share
<1> QED BY <1>3, <1>4, <1>5, <1>6 DEF Leads

\* The key a good record stores for a scope is minted with the epoch stored with it.
LEMMA StoredKey ==
  ASSUME NEW L, Good(L), NEW s \in Scope, L.keys[s] # NoKey
  PROVE  L.keys[s] \in Key /\ L.epochs[s] \in Nat /\ MintedIn(L.minted, L.keys[s], L.epochs[s])
BY DEF Good, LocalType, KeyOrNone

\* Clearing or setting the rewrap flag matters to nothing else.
LEMMA RewrapLeads ==
  ASSUME NEW L, Good(L), NEW b \in BOOLEAN
  PROVE  LET M == [L EXCEPT !.rewrap = b]
         IN  Leads(L, M) /\ M.keys = L.keys /\ M.epochs = L.epochs /\ M.minted = L.minted
<1> DEFINE M == [L EXCEPT !.rewrap = b]
<1>1. L \in LocalType BY DEF Good
<1>2. /\ M \in LocalType /\ M.keys = L.keys /\ M.epochs = L.epochs /\ M.minted = L.minted
      /\ M.out = L.out
  BY <1>1 DEF LocalType
<1>3. Good(M) BY <1>2 DEF Good
<1>4. Climbs(L, M) BY <1>2, LeadsReflexive DEF Leads, Climbs
<1> QED BY <1>2, <1>3, <1>4 DEF Leads

\* e2eeDistributeWhisperKey spreads the stored key of the client's own channel.
LEMMA ShareWhisperLeads ==
  ASSUME NEW L, Good(L), NEW c \in Session, NEW v \in View, NEW targets
  PROVE  Leads(L, ShareWhisper(c, v, targets, L))
<1> DEFINE here == v.where[c]
           comp == ComponentOf(v, here)
           M == [L EXCEPT !.rewrap = FALSE]
           outside == targets \ MembersOf(v, comp)
<1>1. CASE targets = {} \/ here \notin Channel \/ L.keys[here] = NoKey
  BY <1>1, LeadsReflexive DEF ShareWhisper
<1>2. CASE ~ (targets = {} \/ here \notin Channel \/ L.keys[here] = NoKey)
  <2>1. here \in Scope BY <1>2 DEF Scope
  <2>2. Leads(L, M) /\ M.keys = L.keys /\ M.epochs = L.epochs /\ M.minted = L.minted
      BY RewrapLeads
  <2>3. /\ L.keys[here] \in Key /\ L.epochs[here] \in Nat
        /\ MintedIn(L.minted, L.keys[here], L.epochs[here])
      BY <1>2, <2>1, StoredKey
  <2>4. comp \in SUBSET Scope BY ComponentType DEF Scope
  <2>5. Leads(M, Share(c, v, M, outside, comp, L.keys[here], L.epochs[here]))
      BY <2>2, <2>3, <2>4, ShareLeads DEF Leads
  <2>6. ShareWhisper(c, v, targets, L)
          = Share(c, v, M, outside, comp, L.keys[here], L.epochs[here])
      BY <1>2 DEF ShareWhisper
  <2> QED BY <2>2, <2>5, <2>6, LeadsTransitive
<1> QED BY <1>1, <1>2

\* The epoch of a new key exceeds the stored epochs of all its scopes.
LEMMA MintEpochClimbs ==
  ASSUME NEW L \in LocalType, NEW comp \in SUBSET Scope, NEW clock \in Nat
  PROVE  /\ MintEpoch(L, comp, clock) \in Nat
         /\ \A s \in comp : MintEpoch(L, comp, clock) > L.epochs[s]
<1> DEFINE floor == {clock} \cup {L.epochs[s] + 1 : s \in comp}
<1>1. \A s \in Scope : L.epochs[s] \in Nat BY DEF LocalType
<1>2. floor \in SUBSET Nat /\ floor # {} BY <1>1
<1>3. IsFiniteSet(floor)
  <2>1. IsFiniteSet(Scope) BY ChannelAssumption, FS_Singleton, FS_Union DEF Scope
  <2>2. IsFiniteSet(comp) BY <2>1, FS_Subset
  <2>3. IsFiniteSet({L.epochs[s] + 1 : s \in comp})
    <3> DEFINE T == {L.epochs[s] + 1 : s \in comp}
               f == [s \in comp |-> L.epochs[s] + 1]
    <3>1. f \in Surjection(comp, T) BY DEF Surjection
    <3> HIDE DEF f, T
    <3> QED BY <2>2, <3>1, FS_Surjection DEF T
  <2>4. IsFiniteSet({clock}) BY FS_Singleton
  <2> QED BY <2>3, <2>4, FS_Union
<1>4. \E e \in floor : \A f \in floor : f <= e
  <2> HIDE DEF floor
  <2> QED BY <1>2, <1>3, FiniteMax
<1> DEFINE top == CHOOSE e \in floor : \A f \in floor : f <= e
<1>5. top \in floor /\ \A f \in floor : f <= top
  <2> HIDE DEF floor
  <2> QED BY <1>4
<1>6. MintEpoch(L, comp, clock) = top BY DEF MintEpoch
<1>7. top \in Nat BY <1>2, <1>5
<1>8. ASSUME NEW s \in comp PROVE top > L.epochs[s]
  <2>1. L.epochs[s] + 1 \in floor OBVIOUS
  <2>2. L.epochs[s] + 1 <= top BY <1>5, <2>1
  <2> HIDE DEF top
  <2> QED BY <1>1, <1>7, <2>2
<1> QED BY <1>6, <1>7, <1>8

\* A fresh key: the new record confirms it, and it leads every scope it covers.
LEMMA MintKeyLeads ==
  ASSUME NEW L, Good(L), NEW c \in Session, NEW v \in View, NEW W,
         NEW comp \in SUBSET Scope, comp # {}, NEW clock \in Nat
  PROVE  LET M == MintKey(c, v, W, L, comp, clock)
         IN  Leads(L, M) /\ \A s \in comp : M.keys[s] # NoKey
<1> DEFINE e == MintEpoch(L, comp, clock)
           k == [by |-> c, n |-> Len(L.minted[c]) + 1]
           fs == [s \in Scope |-> IF s \notin comp THEN L.fresh[s]
                                  ELSE IF c \in MembersOf(v, comp) THEN k ELSE NoKey]
           M == MintKey(c, v, W, L, comp, clock)
<1>1. L \in LocalType BY DEF Good
<1>2. e \in Nat /\ \A s \in comp : e > L.epochs[s] BY <1>1, MintEpochClimbs
<1> HIDE DEF e
<1>3. e \in Epoch
  <2>1. PICK s \in comp : TRUE OBVIOUS
  <2>2. L.epochs[s] \in Nat BY <1>1, <2>1 DEF LocalType
  <2> QED BY <1>2, <2>1, <2>2 DEF Epoch
<1>4. L.minted[c] \in Seq(Epoch) /\ Len(L.minted[c]) \in Nat BY <1>1 DEF LocalType
<1>5. k \in Key /\ k # NoKey BY <1>4, NoKeyIsNone DEF Key
<1>6. /\ M.keys = [s \in Scope |-> IF s \in comp THEN k ELSE L.keys[s]]
      /\ M.epochs = [s \in Scope |-> IF s \in comp THEN e ELSE L.epochs[s]]
      /\ M.minted = [L.minted EXCEPT ![c] = Append(@, e)]
      /\ M.out = L.out
      /\ M.rewrap = (L.rewrap \/ (W # {} /\ comp # {0}))
      /\ M.passed = L.passed /\ M.fresh = fs /\ M.declined = L.declined
      /\ M = [keys |-> M.keys, epochs |-> M.epochs, minted |-> M.minted, out |-> M.out,
              rewrap |-> M.rewrap, passed |-> M.passed, fresh |-> M.fresh,
              declined |-> M.declined]
    BY DEF MintKey, e
<1> HIDE DEF k, fs, M
<1>7. /\ M.minted \in [Session -> Seq(Epoch)]
      /\ M.minted[c] = Append(L.minted[c], e)
      /\ \A d \in Session \ {c} : M.minted[d] = L.minted[d]
    BY <1>1, <1>3, <1>4, <1>6 DEF LocalType
<1>8. Extends(L.minted, M.minted)
  <2>1. ASSUME NEW d \in Session
        PROVE  /\ Len(L.minted[d]) <= Len(M.minted[d])
               /\ \A i \in 1..Len(L.minted[d]) : M.minted[d][i] = L.minted[d][i]
    <3>1. CASE d = c BY <1>3, <1>4, <1>7, <3>1
    <3>2. CASE d # c
      <4>1. Len(L.minted[d]) \in Nat BY <1>1 DEF LocalType
      <4> QED BY <1>7, <3>2, <4>1
    <3> QED BY <3>1, <3>2
  <2> QED BY <2>1 DEF Extends
<1>9. MintedIn(M.minted, k, e)
  <2>1. M.minted[c][Len(L.minted[c]) + 1] = e /\ Len(M.minted[c]) = Len(L.minted[c]) + 1
      BY <1>3, <1>4, <1>7
  <2> QED BY <1>4, <2>1 DEF MintedIn, k
<1>10. M \in LocalType
  <2>1. M.keys \in [Scope -> KeyOrNone] BY <1>1, <1>5, <1>6 DEF LocalType, KeyOrNone
  <2>2. M.epochs \in [Scope -> Nat] BY <1>1, <1>2, <1>6 DEF LocalType
  <2>3. M.out \in [Session -> Seq(Message)] BY <1>1, <1>6 DEF LocalType
  <2>4. M.rewrap \in BOOLEAN BY <1>1, <1>6 DEF LocalType
  <2>5. M.fresh \in [Scope -> KeyOrNone] BY <1>1, <1>5, <1>6 DEF LocalType, KeyOrNone, fs
  <2>6. M.passed \in [Scope -> KeyOrNone] /\ M.declined \in SUBSET Key BY <1>1, <1>6 DEF LocalType
  <2> QED BY <1>6, <1>7, <2>1, <2>2, <2>3, <2>4, <2>5, <2>6 DEF LocalType
<1>11. ASSUME NEW s \in Scope
       PROVE  IF M.keys[s] = NoKey THEN M.epochs[s] = 0
              ELSE MintedIn(M.minted, M.keys[s], M.epochs[s])
  <2>1. CASE s \in comp BY <1>5, <1>6, <1>9, <2>1
  <2>2. CASE s \notin comp
    <3>1. M.keys[s] = L.keys[s] /\ M.epochs[s] = L.epochs[s] BY <1>6, <2>2
    <3>2. CASE L.keys[s] = NoKey BY <3>1, <3>2 DEF Good
    <3>3. CASE L.keys[s] # NoKey
      <4>1. L.keys[s] \in Key /\ MintedIn(L.minted, L.keys[s], L.epochs[s]) BY <3>3, StoredKey
      <4>2. L.minted \in [Session -> Seq(Epoch)] BY <1>1 DEF LocalType
      <4>3. MintedIn(M.minted, L.keys[s], L.epochs[s])
          BY <1>7, <1>8, <4>1, <4>2, ExtendsConfirms
      <4> QED BY <3>1, <3>3, <4>3
    <3> QED BY <3>2, <3>3
  <2> QED BY <2>1, <2>2
<1>12. ASSUME NEW d \in Session PROVE Truthful(M.minted, M.out[d])
  <2>1. L.minted \in [Session -> Seq(Epoch)] /\ L.out[d] \in Seq(Message) BY <1>1 DEF LocalType
  <2>2. Truthful(L.minted, L.out[d]) BY DEF Good
  <2> QED BY <1>6, <1>7, <1>8, <2>1, <2>2, ExtendsTruthful
<1>13. Good(M) BY <1>10, <1>11, <1>12 DEF Good
<1>14. Climbs(L, M)
  <2>1. ASSUME NEW s \in Scope
        PROVE  \/ M.keys[s] = L.keys[s] /\ M.epochs[s] = L.epochs[s]
               \/ M.epochs[s] > L.epochs[s]
      BY <1>2, <1>6
  <2> QED BY <1>8, <2>1 DEF Climbs
<1>15. \A s \in comp : M.keys[s] # NoKey BY <1>5, <1>6
<1> QED BY <1>13, <1>14, <1>15 DEF Leads, M

\* The histories of what was passed on matter to no table.
LEMMA RememberedLeads ==
  ASSUME NEW L, Good(L), NEW comp \in SUBSET Scope, NEW k \in Key,
         NEW M, M = Remembered(L, comp, k)
  PROVE  /\ Leads(L, M) /\ M.keys = L.keys /\ M.epochs = L.epochs /\ M.minted = L.minted
         /\ M.out = L.out /\ M.fresh = L.fresh /\ M.rewrap = L.rewrap
<1> DEFINE ps == [s \in Scope |-> IF s \in comp THEN k ELSE L.passed[s]]
           ds == L.declined \cup (IF \A s \in comp : L.keys[s] = k THEN {} ELSE {k})
<1>1. L \in LocalType BY DEF Good
<1>2. ps \in [Scope -> KeyOrNone] /\ ds \in SUBSET Key BY <1>1 DEF LocalType, KeyOrNone
<1>3. M = [[L EXCEPT !.passed = ps] EXCEPT !.declined = ds] BY <1>1 DEF Remembered, LocalType
<1>4. /\ M \in LocalType /\ M.keys = L.keys /\ M.epochs = L.epochs /\ M.minted = L.minted
      /\ M.out = L.out /\ M.fresh = L.fresh /\ M.rewrap = L.rewrap
      /\ M.passed = ps /\ M.declined = ds
  <2> HIDE DEF ps, ds
  <2> QED BY <1>1, <1>2, <1>3 DEF LocalType
<1> HIDE DEF ps, ds
<1>5. Good(M) BY <1>4 DEF Good
<1>6. Climbs(L, M) BY <1>4, LeadsReflexive DEF Leads, Climbs
<1> QED BY <1>4, <1>5, <1>6 DEF Leads

\* The stored key of a scope is passed on under its epoch.
LEMMA ShareStoredLeads ==
  ASSUME NEW L, Good(L), NEW c \in Session, NEW v \in View, NEW W,
         NEW comp \in SUBSET Scope, NEW s \in Scope, L.keys[s] # NoKey
  PROVE  Leads(L, ShareStored(c, v, W, L, comp, s))
<1> DEFINE R == Remembered(L, comp, L.keys[s])
           M == Share(c, v, R, MembersOf(v, comp), comp, L.keys[s], L.epochs[s])
<1>1. /\ L.keys[s] \in Key /\ L.epochs[s] \in Nat
      /\ MintedIn(L.minted, L.keys[s], L.epochs[s])
    BY StoredKey
<1>r. R = Remembered(L, comp, L.keys[s]) OBVIOUS
<1> HIDE DEF R
<1>2. Leads(L, R) /\ R.minted = L.minted BY <1>1, <1>r, RememberedLeads
<1>3. Leads(R, M) BY <1>1, <1>2, ShareLeads DEF Leads
<1> HIDE DEF M
<1>4. Leads(M, ShareWhisper(c, v, W, M)) BY <1>3, ShareWhisperLeads DEF Leads
<1>5. Leads(L, M) BY <1>2, <1>3, LeadsTransitive
<1>6. Leads(L, ShareWhisper(c, v, W, M)) BY <1>4, <1>5, LeadsTransitive
<1> QED BY <1>6 DEF ShareStored, M, R

\* e2eeEnsureComponentKey.
LEMMA EnsureLeads ==
  ASSUME NEW L, Good(L), NEW c \in Session, NEW v \in View, NEW W, NEW s, NEW clock \in Nat
  PROVE  Leads(L, Ensure(c, v, W, L, s, clock))
<1> DEFINE comp == KeyedScopes(v, s)
           K == IF HasAll(L, comp) THEN L ELSE MintKey(c, v, W, L, comp, clock)
           first == First(c, comp)
           idle == comp = {} \/ (HasAll(L, comp) /\ L.epochs[first] = 0)
<1>1. CASE idle BY <1>1, LeadsReflexive DEF Ensure
<1>2. CASE ~ idle
  <2>1. comp \in SUBSET Scope BY KeyedScopesType
  <2>2. first \in comp BY <1>2, FirstInComponent
  <2>3. Leads(L, K) /\ K.keys[first] # NoKey
    <3>1. CASE HasAll(L, comp) BY <2>2, <3>1, LeadsReflexive DEF HasAll
    <3>2. CASE ~ HasAll(L, comp) BY <1>2, <2>1, <2>2, <3>2, MintKeyLeads
    <3> QED BY <3>1, <3>2
  <2>4. Ensure(c, v, W, L, s, clock) = ShareStored(c, v, W, K, comp, first)
      BY <1>2 DEF Ensure
  <2> HIDE DEF K, comp, first
  <2>5. Leads(K, ShareStored(c, v, W, K, comp, first))
      BY <2>1, <2>2, <2>3, ShareStoredLeads DEF Leads
  <2> QED BY <2>3, <2>4, <2>5, LeadsTransitive
<1> QED BY <1>1, <1>2

\* e2eeRotateComponentKey.
LEMMA RotateLeads ==
  ASSUME NEW L, Good(L), NEW c \in Session, NEW v \in View, NEW W, NEW s, NEW clock \in Nat
  PROVE  Leads(L, Rotate(c, v, W, L, s, clock))
<1> DEFINE comp == KeyedScopes(v, s)
           K == MintKey(c, v, W, L, comp, clock)
           first == First(c, comp)
<1>1. CASE comp = {} BY <1>1, LeadsReflexive DEF Rotate
<1>2. CASE comp # {}
  <2>1. comp \in SUBSET Scope BY KeyedScopesType
  <2>2. first \in comp BY <1>2, FirstInComponent
  <2>3. Leads(L, K) /\ K.keys[first] # NoKey BY <1>2, <2>1, <2>2, MintKeyLeads
  <2>4. Rotate(c, v, W, L, s, clock) = ShareStored(c, v, W, K, comp, first)
      BY <1>2 DEF Rotate
  <2> HIDE DEF K, comp, first
  <2>5. Leads(K, ShareStored(c, v, W, K, comp, first))
      BY <2>1, <2>2, <2>3, ShareStoredLeads DEF Leads
  <2> QED BY <2>3, <2>4, <2>5, LeadsTransitive
<1> QED BY <1>1, <1>2

\* e2eeApplyGroupKey with an envelope whose epoch is its key's.
LEMMA AdoptLeads ==
  ASSUME NEW L, Good(L), NEW comp \in SUBSET Scope, NEW k \in Key, NEW e \in Nat,
         MintedIn(L.minted, k, e)
  PROVE  Leads(L, Adopt(L, comp, k, e))
<1> DEFINE ks == [s \in Scope |-> IF s \in comp /\ e > L.epochs[s] THEN k ELSE L.keys[s]]
           es == [s \in Scope |-> IF s \in comp /\ e > L.epochs[s] THEN e ELSE L.epochs[s]]
           M == Adopt(L, comp, k, e)
<1>1. L \in LocalType BY DEF Good
<1>2. ks \in [Scope -> KeyOrNone] /\ es \in [Scope -> Nat] BY <1>1 DEF LocalType, KeyOrNone
<1>3. M = [[L EXCEPT !.keys = ks] EXCEPT !.epochs = es] BY DEF Adopt
<1> HIDE DEF M, ks, es
<1>4. /\ M \in LocalType /\ M.keys = ks /\ M.epochs = es
      /\ M.minted = L.minted /\ M.out = L.out
    BY <1>1, <1>2, <1>3 DEF LocalType
<1>5. ASSUME NEW s \in Scope
      PROVE  IF M.keys[s] = NoKey THEN M.epochs[s] = 0
             ELSE MintedIn(M.minted, M.keys[s], M.epochs[s])
  <2>1. k # NoKey BY NoKeyIsNone
  <2>2. CASE s \in comp /\ e > L.epochs[s] BY <1>4, <2>1, <2>2 DEF ks, es
  <2>3. CASE ~ (s \in comp /\ e > L.epochs[s]) BY <1>4, <2>3 DEF ks, es, Good
  <2> QED BY <2>2, <2>3
<1>6. Good(M) BY <1>4, <1>5 DEF Good
<1>7. ASSUME NEW s \in Scope
      PROVE  \/ M.keys[s] = L.keys[s] /\ M.epochs[s] = L.epochs[s]
             \/ M.epochs[s] > L.epochs[s]
    BY <1>4 DEF ks, es
<1>8. Climbs(L, M) BY <1>4, <1>7, LeadsReflexive DEF Climbs, Leads
<1> QED BY <1>6, <1>8 DEF Leads, M

\* Declining a key changes no table.
LEMMA DeclineLeads ==
  ASSUME NEW L, Good(L), NEW k \in Key
  PROVE  LET M == [L EXCEPT !.declined = @ \cup {k}]
         IN  /\ Leads(L, M) /\ M.keys = L.keys /\ M.epochs = L.epochs /\ M.minted = L.minted
             /\ M.out = L.out /\ M.fresh = L.fresh /\ M.passed = L.passed
             /\ M.declined = L.declined \cup {k}
<1> DEFINE M == [L EXCEPT !.declined = @ \cup {k}]
<1>1. L \in LocalType BY DEF Good
<1>2. /\ M \in LocalType /\ M.keys = L.keys /\ M.epochs = L.epochs /\ M.minted = L.minted
      /\ M.out = L.out /\ M.fresh = L.fresh /\ M.passed = L.passed
      /\ M.declined = L.declined \cup {k}
    BY <1>1 DEF LocalType
<1> HIDE DEF M
<1>3. Good(M) BY <1>2 DEF Good
<1>4. Climbs(L, M) BY <1>2, LeadsReflexive DEF Leads, Climbs
<1> QED BY <1>2, <1>3, <1>4 DEF Leads, M

\* e2eeRequestKey spreads no key.
LEMMA AskLeads ==
  ASSUME NEW L, Good(L), NEW c \in Session, NEW s \in Scope, NEW ask
  PROVE  Leads(L, Ask(c, L, s, ask))
<1> DEFINE asked == {d \in Session \ {c} : d \in MembersOf(net, KeyedScopes(net, s))}
           out == [d \in Session |->
                      IF d \in asked THEN Append(L.out[d], RequestMsg(c, s)) ELSE L.out[d]]
           M == [L EXCEPT !.out = out]
<1>1. CASE Ask(c, L, s, ask) = L BY <1>1, LeadsReflexive
<1>2. CASE Ask(c, L, s, ask) = M
  <2>1. L \in LocalType BY DEF Good
  <2>2. RequestMsg(c, s) \in Message /\ RequestMsg(c, s).type # "e2e_key"
      BY DEF RequestMsg, Message
  <2> HIDE DEF asked
  <2>3. ASSUME NEW d \in Session PROVE out[d] \in Seq(Message) /\ Truthful(L.minted, out[d])
    <3>1. L.out[d] \in Seq(Message) /\ Truthful(L.minted, L.out[d]) BY <2>1 DEF Good, LocalType
    <3>2. CASE out[d] = L.out[d] BY <3>1, <3>2
    <3>3. CASE out[d] = Append(L.out[d], RequestMsg(c, s))
      <4>1. out[d] \in Seq(Message) BY <2>2, <3>1, <3>3
      <4>2. ASSUME NEW i \in 1..Len(out[d]), out[d][i].type = "e2e_key"
            PROVE  MintedIn(L.minted, out[d][i].key, out[d][i].epoch)
        <5>1. i # Len(L.out[d]) + 1 BY <2>2, <3>1, <3>3, <4>2
        <5>2. i \in 1..Len(L.out[d]) /\ out[d][i] = L.out[d][i] BY <2>2, <3>1, <3>3, <5>1
        <5> QED BY <3>1, <4>2, <5>2 DEF Truthful
      <4> QED BY <4>1, <4>2 DEF Truthful
    <3> QED BY <3>2, <3>3
  <2> HIDE DEF out
  <2>4. out \in [Session -> Seq(Message)] BY <2>3 DEF out
  <2>5. /\ M \in LocalType /\ M.keys = L.keys /\ M.epochs = L.epochs /\ M.minted = L.minted
        /\ M.out = out
      BY <2>1, <2>4 DEF LocalType
  <2>6. Good(M) BY <2>3, <2>5 DEF Good
  <2>7. Climbs(L, M) BY <2>5, LeadsReflexive DEF Leads, Climbs
  <2> QED BY <1>2, <2>6, <2>7 DEF Leads
<1> QED BY <1>1, <1>2 DEF Ask

\* Forgetting a scope keeps the record good; it does not climb.
LEMMA ForgetGood ==
  ASSUME NEW L, Good(L), NEW s \in Scope
  PROVE  LET M == Forget(L, s)
         IN  /\ Good(M) /\ M.minted = L.minted
             /\ M.keys[s] = NoKey /\ M.epochs[s] = 0
             /\ \A r \in Scope \ {s} : M.keys[r] = L.keys[r] /\ M.epochs[r] = L.epochs[r]
<1> DEFINE ks == [L.keys EXCEPT ![s] = NoKey]
           es == [L.epochs EXCEPT ![s] = 0]
           M == Forget(L, s)
<1>1. L \in LocalType BY DEF Good
<1>2. M = [[L EXCEPT !.keys = ks] EXCEPT !.epochs = es] BY <1>1 DEF Forget, LocalType
<1>3. /\ ks \in [Scope -> KeyOrNone] /\ es \in [Scope -> Nat]
      /\ ks[s] = NoKey /\ es[s] = 0
      /\ \A r \in Scope \ {s} : ks[r] = L.keys[r] /\ es[r] = L.epochs[r]
    BY <1>1 DEF LocalType, KeyOrNone
<1> HIDE DEF ks, es, M
<1>4. /\ M \in LocalType /\ M.keys = ks /\ M.epochs = es
      /\ M.minted = L.minted /\ M.out = L.out
    BY <1>1, <1>2, <1>3 DEF LocalType
<1>5. Good(M) BY <1>3, <1>4 DEF Good
<1> QED BY <1>3, <1>4, <1>5 DEF M
-----------------------------------------------------------------------------
(* The state.  IInv is inductive: the types, and the truth of every epoch that is
   stored or under way. *)

IInv == TypeOK /\ KeysKeepTheirEpoch

\* What NeverAnOlderKey says of one step.
StepClimbs ==
    \A c \in Session, s \in Scope :
        keys'[c][s] # keys[c][s] =>
            \/ keys'[c][s] = NoKey /\ epochs'[c][s] = 0
            \/ epochs'[c][s] > epochs[c][s]

\* The part of the state a handler writes through Commit.
CommitType ==
    /\ inbox \in [Session -> Seq(Message)]
    /\ keys \in [Session -> [Scope -> KeyOrNone]]
    /\ epochs \in [Session -> [Scope -> Nat]]
    /\ rewrap \in [Session -> BOOLEAN]
    /\ minted \in [Session -> Seq(Epoch)]
    /\ now \in Nat
    /\ passed \in [Scope -> KeyOrNone] /\ fresh \in [Scope -> KeyOrNone]
    /\ declined \in [Session -> SUBSET Key]

\* Queues confirmed by a record, in terms of it.
LEMMA KeysKeepTheirEpochIn ==
  KeysKeepTheirEpoch <=>
    /\ \A c \in Session, s \in Scope :
         IF keys[c][s] = NoKey THEN epochs[c][s] = 0
         ELSE MintedIn(minted, keys[c][s], epochs[c][s])
    /\ \A d \in Session : Truthful(minted, inbox[d])
BY DEF KeysKeepTheirEpoch, MintedAs, MintedIn, Truthful

\* A handler starts from a good record.
LEMMA LocalOfGood ==
  ASSUME IInv, NEW c \in Session
  PROVE  Good(LocalOf(c))
<1> DEFINE L == LocalOf(c)
<1>1. /\ L.keys = keys[c] /\ L.epochs = epochs[c] /\ L.minted = minted
      /\ L.out = [d \in Session |-> <<>>] /\ L.rewrap = rewrap[c]
    BY DEF LocalOf
<1>2. L \in LocalType
  <2>1. <<>> \in Seq(Message) OBVIOUS
  <2> QED BY <2>1 DEF LocalOf, LocalType, IInv, TypeOK
<1>3. \A d \in Session : Truthful(L.minted, L.out[d])
  <2>1. \A d \in Session : L.out[d] = <<>> BY <1>1
  <2> QED BY <2>1 DEF Truthful
<1> HIDE DEF L
<1>4. ASSUME NEW s \in Scope
      PROVE  IF L.keys[s] = NoKey THEN L.epochs[s] = 0
             ELSE MintedIn(L.minted, L.keys[s], L.epochs[s])
    BY <1>1, KeysKeepTheirEpochIn DEF IInv
<1> QED BY <1>2, <1>3, <1>4 DEF Good, L

\* Two queues a record confirms are confirmed when concatenated.
LEMMA ConcatTruthful ==
  ASSUME NEW M, NEW q \in Seq(Message), NEW r \in Seq(Message), Truthful(M, q), Truthful(M, r)
  PROVE  q \o r \in Seq(Message) /\ Truthful(M, q \o r)
<1>1. /\ q \o r \in Seq(Message) /\ Len(q \o r) = Len(q) + Len(r)
      /\ \A i \in 1..Len(q) + Len(r) :
            (q \o r)[i] = IF i <= Len(q) THEN q[i] ELSE r[i - Len(q)]
    BY ConcatProperties
<1>2. Len(q) \in Nat /\ Len(r) \in Nat OBVIOUS
<1>3. ASSUME NEW i \in 1..Len(q \o r), (q \o r)[i].type = "e2e_key"
      PROVE  MintedIn(M, (q \o r)[i].key, (q \o r)[i].epoch)
  <2>1. CASE i <= Len(q)
    <3>1. i \in 1..Len(q) /\ (q \o r)[i] = q[i] BY <1>1, <1>2, <2>1
    <3> QED BY <1>3, <3>1 DEF Truthful
  <2>2. CASE ~ (i <= Len(q))
    <3>1. i - Len(q) \in 1..Len(r) /\ (q \o r)[i] = r[i - Len(q)] BY <1>1, <1>2, <2>2
    <3> QED BY <1>3, <3>1 DEF Truthful
  <2> QED BY <2>1, <2>2
<1> QED BY <1>1, <1>3 DEF Truthful

\* What is left of a confirmed queue is confirmed.
LEMMA TailTruthful ==
  ASSUME NEW M, NEW q \in Seq(Message), q # <<>>, Truthful(M, q)
  PROVE  Tail(q) \in Seq(Message) /\ Truthful(M, Tail(q))
<1>1. /\ Tail(q) \in Seq(Message) /\ Len(Tail(q)) = Len(q) - 1
      /\ \A i \in 1..Len(Tail(q)) : Tail(q)[i] = q[i + 1]
    BY HeadTailProperties
<1>2. Len(q) \in Nat OBVIOUS
<1>3. ASSUME NEW i \in 1..Len(Tail(q)), Tail(q)[i].type = "e2e_key"
      PROVE  MintedIn(M, Tail(q)[i].key, Tail(q)[i].epoch)
  <2>1. i + 1 \in 1..Len(q) /\ Tail(q)[i] = q[i + 1] BY <1>1, <1>2
  <2> QED BY <1>3, <2>1 DEF Truthful
<1> QED BY <1>1, <1>3 DEF Truthful

\* Committing a good record that extends the minted keys keeps types and epochs.
LEMMA CommitPreserves ==
  ASSUME IInv, NEW c \in Session, NEW L, Good(L), Extends(minted, L.minted), NEW t \in Nat,
         NEW popped \in BOOLEAN, popped => inbox[c] # <<>>, Commit(c, L, t, popped)
  PROVE  CommitType' /\ KeysKeepTheirEpoch'
<1>1. L \in LocalType BY DEF Good
<1>2. /\ keys' = [keys EXCEPT ![c] = L.keys] /\ epochs' = [epochs EXCEPT ![c] = L.epochs]
      /\ rewrap' = [rewrap EXCEPT ![c] = L.rewrap] /\ minted' = L.minted
      /\ now' = IF L.minted = minted THEN now ELSE t
      /\ passed' = L.passed /\ fresh' = L.fresh
      /\ declined' = [declined EXCEPT ![c] = L.declined]
    BY DEF Commit
<1>3. /\ keys' \in [Session -> [Scope -> KeyOrNone]] /\ epochs' \in [Session -> [Scope -> Nat]]
      /\ rewrap' \in [Session -> BOOLEAN] /\ minted' \in [Session -> Seq(Epoch)] /\ now' \in Nat
      /\ passed' \in [Scope -> KeyOrNone] /\ fresh' \in [Scope -> KeyOrNone]
      /\ declined' \in [Session -> SUBSET Key]
    BY <1>1, <1>2 DEF LocalType, IInv, TypeOK
<1>4. minted \in [Session -> Seq(Epoch)] BY DEF IInv, TypeOK
<1>5. ASSUME NEW d \in Session, NEW s \in Scope
      PROVE  IF keys'[d][s] = NoKey THEN epochs'[d][s] = 0
             ELSE MintedIn(minted', keys'[d][s], epochs'[d][s])
  <2>1. CASE d = c
    <3>1. keys'[d] = L.keys /\ epochs'[d] = L.epochs BY <1>2, <2>1 DEF IInv, TypeOK
    <3> QED BY <1>2, <3>1 DEF Good
  <2>2. CASE d # c
    <3>1. keys'[d][s] = keys[d][s] /\ epochs'[d][s] = epochs[d][s]
        BY <1>2, <2>2 DEF IInv, TypeOK
    <3>2. CASE keys[d][s] = NoKey BY <3>1, <3>2, KeysKeepTheirEpochIn DEF IInv
    <3>3. CASE keys[d][s] # NoKey
      <4>1. keys[d][s] \in Key BY <3>3 DEF IInv, TypeOK, KeyOrNone
      <4>2. MintedIn(minted, keys[d][s], epochs[d][s]) BY <3>3, KeysKeepTheirEpochIn DEF IInv
      <4>3. MintedIn(minted', keys[d][s], epochs[d][s])
          BY <1>2, <1>3, <1>4, <4>1, <4>2, ExtendsConfirms
      <4> QED BY <3>1, <3>3, <4>3
    <3> QED BY <3>2, <3>3
  <2> QED BY <2>1, <2>2
<1>6. ASSUME NEW d \in Session
      PROVE  inbox'[d] \in Seq(Message) /\ Truthful(minted', inbox'[d])
  <2> DEFINE kept == IF d = c /\ popped THEN Tail(inbox[d]) ELSE inbox[d]
  <2>1. inbox[d] \in Seq(Message) /\ Truthful(minted, inbox[d])
      BY KeysKeepTheirEpochIn DEF IInv, TypeOK
  <2>2. Truthful(minted', inbox[d]) BY <1>2, <1>3, <1>4, <2>1, ExtendsTruthful
  <2>3. kept \in Seq(Message) /\ Truthful(minted', kept)
    <3>1. CASE d = c /\ popped BY <2>1, <2>2, <3>1, TailTruthful
    <3>2. CASE ~ (d = c /\ popped) BY <2>1, <2>2, <3>2
    <3> QED BY <3>1, <3>2
  <2>4. L.out[d] \in Seq(Message) /\ Truthful(minted', L.out[d])
      BY <1>1, <1>2 DEF Good, LocalType
  <2>5. inbox'[d] = IF Online(d) THEN kept \o L.out[d] ELSE kept BY DEF Commit
  <2> HIDE DEF kept
  <2> QED BY <2>3, <2>4, <2>5, ConcatTruthful
<1>7. inbox' \in [Session -> Seq(Message)]
  <2>1. inbox' = [d \in Session |-> inbox'[d]] BY DEF Commit
  <2> QED BY <1>6, <2>1
<1>8. KeysKeepTheirEpoch'
  <2>1. (/\ \A d \in Session, s \in Scope :
              IF keys[d][s] = NoKey THEN epochs[d][s] = 0
              ELSE MintedIn(minted, keys[d][s], epochs[d][s])
         /\ \A d \in Session : Truthful(minted, inbox[d]))'
      BY <1>5, <1>6
  <2> QED BY <2>1 DEF KeysKeepTheirEpoch, MintedAs, MintedIn, Truthful
<1> QED BY <1>3, <1>7, <1>8 DEF CommitType

\* Committing a record the handler's own leads to takes no session to an older key.
LEMMA CommitClimbs ==
  ASSUME IInv, NEW c \in Session, NEW L, Leads(LocalOf(c), L), NEW t, NEW popped,
         Commit(c, L, t, popped)
  PROVE  StepClimbs
<1> SUFFICES ASSUME NEW d \in Session, NEW s \in Scope, keys'[d][s] # keys[d][s]
             PROVE  epochs'[d][s] > epochs[d][s]
    BY DEF StepClimbs
<1>1. keys' = [keys EXCEPT ![c] = L.keys] /\ epochs' = [epochs EXCEPT ![c] = L.epochs]
    BY DEF Commit
<1>2. d = c BY <1>1 DEF IInv, TypeOK
<1>3. keys'[d][s] = L.keys[s] /\ epochs'[d][s] = L.epochs[s] BY <1>1, <1>2 DEF IInv, TypeOK
<1>4. \/ L.keys[s] = keys[c][s] /\ L.epochs[s] = epochs[c][s]
      \/ L.epochs[s] > epochs[c][s]
    BY DEF Leads, Climbs, LocalOf
<1> QED BY <1>2, <1>3, <1>4

\* What a handler's commit establishes.
LEMMA HandlerCommits ==
  ASSUME IInv, NEW c \in Session, NEW L, Leads(LocalOf(c), L), NEW t \in Nat,
         NEW popped \in BOOLEAN, popped => inbox[c] # <<>>, Commit(c, L, t, popped)
  PROVE  CommitType' /\ KeysKeepTheirEpoch' /\ StepClimbs
<1>1. Good(L) /\ Extends(minted, L.minted) BY DEF Leads, Climbs, LocalOf
<1> QED BY <1>1, CommitPreserves, CommitClimbs

\* The part of the state the handlers write directly.
RestType ==
    /\ net \in View
    /\ phase \in [Session -> {"new", "hello", "ready", "gone"}]
    /\ view \in [Session -> View]
    /\ verify \in [Session -> Seq(Scope)]
    /\ whisper \in [Session -> SUBSET Session]
    /\ events \in Nat /\ forgets \in Nat
    /\ raced \in BOOLEAN
    /\ confided \in SUBSET Session

\* Placing a session keeps a view a view.
LEMMA PlaceType ==
  ASSUME NEW v \in View, NEW d \in Session, NEW p \in Place
  PROVE  [v EXCEPT !.where[d] = p] \in View
<1> DEFINE w == [v.where EXCEPT ![d] = p]
<1>1. w \in [Session -> Place] BY DEF View
<1>2. [v EXCEPT !.where[d] = p] = [v EXCEPT !.where = w] BY DEF View
<1> HIDE DEF w
<1> QED BY <1>1, <1>2 DEF View

\* So do changes of the channels and of their links.
LEMMA LinksType ==
  ASSUME NEW v \in View, NEW ch \in Channel, NEW linked \in SUBSET Channel
  PROVE  /\ [v EXCEPT !.links = Relinked(@, ch, linked)] \in View
         /\ [v EXCEPT !.chans = @ \cup {ch}, !.links = Relinked(@, ch, linked)] \in View
         /\ [v EXCEPT !.chans = @ \ {ch}, !.links = {l \in @ : l[1] # ch}] \in View
<1>1. Relinked(v.links, ch, linked) \in SUBSET (Channel \X Channel) BY DEF Relinked, View
<1>2. {l \in v.links : l[1] # ch} \in SUBSET (Channel \X Channel) BY DEF View
<1>3. v.chans \cup {ch} \in SUBSET Channel /\ v.chans \ {ch} \in SUBSET Channel BY DEF View
<1> QED BY <1>1, <1>2, <1>3 DEF View

\* The fields of the messages.
LEMMA MessageFields ==
  ASSUME NEW m \in Message
  PROVE  /\ m.type = "welcome" => m.snapshot \in View
         /\ m.type \in {"user_joined", "user_left"} => m.id \in Session
         /\ m.type = "user_moved" => m.id \in Session /\ m.chan \in Channel
         /\ m.type = "chan_update" => m.chan \in Channel /\ m.linked \in SUBSET Channel
         /\ m.type = "chan_removed" => m.chan \in Channel
         /\ m.type = "e2e_key" => m.comp \in SUBSET Scope /\ m.key \in Key /\ m.epoch \in Nat
         /\ m.type = "e2e_key_request" => m.from \in Session /\ m.scope \in Scope
BY DEF Message

\* What a handler finds at the head of its inbox.
LEMMA ReceivesType ==
  ASSUME IInv, NEW c \in Session, NEW type, Receives(c, type)
  PROVE  Head(inbox[c]) \in Message /\ Head(inbox[c]).type = type /\ inbox[c] # <<>>
<1>1. inbox[c] \in Seq(Message) BY DEF IInv, TypeOK
<1> QED BY <1>1, HeadTailProperties DEF Receives

\* An envelope at the head of an inbox carries the truth about its key.
LEMMA HeadTruthful ==
  ASSUME IInv, NEW c \in Session, Receives(c, "e2e_key")
  PROVE  MintedIn(minted, Head(inbox[c]).key, Head(inbox[c]).epoch)
<1>1. inbox[c] \in Seq(Message) /\ Truthful(minted, inbox[c])
    BY KeysKeepTheirEpochIn DEF IInv, TypeOK
<1>2. inbox[c] # <<>> /\ Head(inbox[c]).type = "e2e_key" BY DEF Receives
<1>3. 1 \in 1..Len(inbox[c]) /\ Head(inbox[c]) = inbox[c][1] BY <1>1, <1>2
<1> QED BY <1>1, <1>2, <1>3 DEF Truthful

\* Clocks show naturals.
LEMMA ClockType ==
  ASSUME IInv, NEW c \in Session, NEW t \in Instant
  PROVE  t \in Nat /\ Wall(c, t) \in Nat
BY SkewAssumption DEF Instant, Wall, IInv, TypeOK

\* Wall-clock time is a natural.
LEMMA NowType == IInv => now \in Nat
BY DEF IInv, TypeOK
-----------------------------------------------------------------------------
(* The handlers. *)

\* Handling welcome, with its bootstrap, preserves the invariant and takes no key back.
LEMMA WelcomeStep ==
  ASSUME IInv, NEW c \in Session, HandleWelcome(c)
  PROVE  IInv' /\ StepClimbs
<1> DEFINE v == Head(inbox[c]).snapshot
           my == v.where[c]
           W == whisper[c]
           leads0 == IsMaster(c, v, 0)
           leads == my \in Channel /\ IsMaster(c, v, my)
           L0 == LocalOf(c)
           asks0 == ~ leads0 /\ Lacks(c, v, L0, 0)
<1>1. Head(inbox[c]) \in Message /\ inbox[c] # <<>> /\ v \in View
  <2>1. Receives(c, "welcome") BY DEF HandleWelcome
  <2> QED BY <2>1, ReceivesType, MessageFields
<1>2. PICK ask \in MayAsk(c), t \in Instant :
        LET L1 == IF leads0 THEN Ensure(c, v, W, L0, 0, Wall(c, t)) ELSE L0
            L2 == Ask(c, L1, 0, ask /\ asks0)
            L3 == IF leads THEN Ensure(c, v, W, L2, my, Wall(c, t))
                  ELSE Ask(c, L2, my, ask /\ ~ asks0 /\ my \in Channel /\ Lacks(c, v, L2, my))
        IN  /\ Commit(c, ShareWhisper(c, v, W, L3), t, TRUE)
            /\ view' = [view EXCEPT ![c] = v]
            /\ phase' = [phase EXCEPT ![c] = "ready"]
            /\ verify' = [verify EXCEPT ![c] =
                   @ \o (IF leads0 THEN <<0>> ELSE <<>>) \o (IF leads THEN <<my>> ELSE <<>>)]
    BY DEF HandleWelcome
<1> DEFINE L1 == IF leads0 THEN Ensure(c, v, W, L0, 0, Wall(c, t)) ELSE L0
           L2 == Ask(c, L1, 0, ask /\ asks0)
           L3 == IF leads THEN Ensure(c, v, W, L2, my, Wall(c, t))
                 ELSE Ask(c, L2, my, ask /\ ~ asks0 /\ my \in Channel /\ Lacks(c, v, L2, my))
           L4 == ShareWhisper(c, v, W, L3)
<1>3. t \in Nat /\ Wall(c, t) \in Nat BY ClockType
<1>4. Good(L0) BY LocalOfGood
<1>5. Leads(L0, L1)
  <2> HIDE DEF L0, v, W, leads0
  <2> QED BY <1>1, <1>3, <1>4, EnsureLeads, LeadsReflexive
<1>6. 0 \in Scope BY DEF Scope
<1>7. Leads(L1, L2)
  <2> HIDE DEF L0, L1, asks0
  <2> QED BY <1>5, <1>6, AskLeads DEF Leads
<1>8. Channel \subseteq Scope BY DEF Scope
<1>9. Leads(L2, L3)
  <2>1. CASE leads
    <3> HIDE DEF L0, L1, L2, v, W, my, leads0, leads
    <3> QED BY <1>1, <1>3, <1>7, <2>1, EnsureLeads DEF Leads
  <2>2. CASE ~ leads /\ my \in Channel
    <3> HIDE DEF L0, L1, L2, my, leads
    <3> QED BY <1>7, <1>8, <2>2, AskLeads DEF Leads
  <2>3. CASE ~ leads /\ my \notin Channel
    <3>1. L3 = L2 BY <2>3 DEF Ask
    <3> HIDE DEF L0, L1, L2, L3
    <3> QED BY <1>7, <3>1, LeadsReflexive DEF Leads
  <2> QED BY <2>1, <2>2, <2>3
<1>10. Leads(L0, L4)
  <2> HIDE DEF L0, L1, L2, L3, v, W
  <2>1. Leads(L3, L4) BY <1>1, <1>9, ShareWhisperLeads DEF Leads
  <2>2. Leads(L0, L2) BY <1>4, <1>5, <1>7, LeadsTransitive
  <2>3. Leads(L0, L3) BY <1>4, <1>9, <2>2, LeadsTransitive
  <2> QED BY <1>4, <2>1, <2>3, LeadsTransitive
<1>11. Commit(c, L4, t, TRUE) BY <1>2
<1>12. CommitType' /\ KeysKeepTheirEpoch' /\ StepClimbs
  <2> HIDE DEF L4
  <2> QED BY <1>1, <1>3, <1>10, <1>11, HandlerCommits
<1>13. RestType'
  <2>1. view' = [view EXCEPT ![c] = v] /\ phase' = [phase EXCEPT ![c] = "ready"] BY <1>2
  <2>2. view' \in [Session -> View] BY <1>1, <2>1 DEF IInv, TypeOK
  <2>3. phase' \in [Session -> {"new", "hello", "ready", "gone"}] BY <2>1 DEF IInv, TypeOK
  <2>4. verify' \in [Session -> Seq(Scope)]
    <3> DEFINE a == IF leads0 THEN <<0>> ELSE <<>>
               b == IF leads THEN <<my>> ELSE <<>>
    <3>1. my \in Scope \/ ~ leads BY <1>8
    <3>2. a \in Seq(Scope) /\ b \in Seq(Scope) BY <1>6, <3>1
    <3>3. verify' = [verify EXCEPT ![c] = @ \o a \o b] BY <1>2
    <3> HIDE DEF a, b
    <3>4. verify[c] \o a \o b \in Seq(Scope) BY <3>2, ConcatProperties DEF IInv, TypeOK
    <3> QED BY <3>3, <3>4 DEF IInv, TypeOK
  <2> QED BY <2>2, <2>3, <2>4 DEF HandleWelcome, RestType, IInv, TypeOK
<1> QED BY <1>12, <1>13 DEF IInv, TypeOK, CommitType, RestType

\* So does handling user_joined.
LEMMA UserJoinedStep ==
  ASSUME IInv, NEW c \in Session, HandleUserJoined(c)
  PROVE  IInv' /\ StepClimbs
<1> DEFINE d == Head(inbox[c]).id
           p == IF view[c].where[d] = Absent THEN Nowhere ELSE view[c].where[d]
           v == [view[c] EXCEPT !.where[d] = IF @ = Absent THEN Nowhere ELSE @]
           L == LocalOf(c)
           M == IF IsMaster(c, v, 0) /\ L.keys[0] # NoKey
                THEN Share(c, v, L, {d}, {0}, L.keys[0], L.epochs[0]) ELSE L
<1>1. Head(inbox[c]) \in Message /\ inbox[c] # <<>> /\ d \in Session
  <2>1. Receives(c, "user_joined") BY DEF HandleUserJoined
  <2> QED BY <2>1, ReceivesType, MessageFields
<1>2. v \in View
  <2>1. view[c] \in View BY DEF IInv, TypeOK
  <2>2. p \in Place BY <1>1, <2>1 DEF View, Place
  <2>3. v = [view[c] EXCEPT !.where[d] = p] BY <1>1, <2>1 DEF View
  <2> HIDE DEF d, p, v
  <2> QED BY <1>1, <2>1, <2>2, <2>3, PlaceType
<1>3. Good(L) BY LocalOfGood
<1>4. Leads(L, M)
  <2> HIDE DEF L, v, d
  <2>1. CASE IsMaster(c, v, 0) /\ L.keys[0] # NoKey
    <3>1. 0 \in Scope BY DEF Scope
    <3>2. /\ L.keys[0] \in Key /\ L.epochs[0] \in Nat
          /\ MintedIn(L.minted, L.keys[0], L.epochs[0])
        BY <1>3, <2>1, <3>1, StoredKey
    <3> QED BY <1>2, <1>3, <2>1, <3>1, <3>2, ShareLeads
  <2>2. CASE ~ (IsMaster(c, v, 0) /\ L.keys[0] # NoKey)
      BY <1>3, <2>2, LeadsReflexive
  <2> QED BY <2>1, <2>2
<1>5. Commit(c, M, now, TRUE) /\ view' = [view EXCEPT ![c] = v] /\ Steady
    BY DEF HandleUserJoined
<1> HIDE DEF L, M, v
<1>6. CommitType' /\ KeysKeepTheirEpoch' /\ StepClimbs
    BY <1>1, <1>4, <1>5, NowType, HandlerCommits DEF L
<1>7. RestType' BY <1>2, <1>5 DEF Steady, RestType, IInv, TypeOK
<1> QED BY <1>6, <1>7 DEF IInv, TypeOK, CommitType, RestType

\* So does handling user_left, with the rotation it may cause.
LEMMA UserLeftStep ==
  ASSUME IInv, NEW c \in Session, HandleUserLeft(c)
  PROVE  IInv' /\ StepClimbs
<1> DEFINE d == Head(inbox[c]).id
           old == view[c].where[d]
           v == [view[c] EXCEPT !.where[d] = Absent]
           W == whisper[c]
           L0 == LocalOf(c)
<1>1. Head(inbox[c]) \in Message /\ inbox[c] # <<>> /\ d \in Session
  <2>1. Receives(c, "user_left") BY DEF HandleUserLeft
  <2> QED BY <2>1, ReceivesType, MessageFields
<1>2. v \in View
  <2>1. view[c] \in View /\ Absent \in Place BY DEF IInv, TypeOK, Place
  <2> HIDE DEF d
  <2> QED BY <1>1, <2>1, PlaceType
<1>3. PICK t \in Instant :
        LET L1 == IF IsMaster(c, v, 0) /\ L0.keys[0] # NoKey
                  THEN Rotate(c, v, W, L0, 0, Wall(c, t)) ELSE L0
            L2 == IF old \in Channel /\ IsMaster(c, v, old)
                  THEN Rotate(c, v, W, L1, old, Wall(c, t)) ELSE L1
        IN  Commit(c, L2, t, TRUE)
    BY DEF HandleUserLeft
<1> DEFINE L1 == IF IsMaster(c, v, 0) /\ L0.keys[0] # NoKey
                 THEN Rotate(c, v, W, L0, 0, Wall(c, t)) ELSE L0
           L2 == IF old \in Channel /\ IsMaster(c, v, old)
                 THEN Rotate(c, v, W, L1, old, Wall(c, t)) ELSE L1
<1>4. t \in Nat /\ Wall(c, t) \in Nat BY ClockType
<1>5. Good(L0) BY LocalOfGood
<1>6. Leads(L0, L1)
  <2> HIDE DEF L0, v, W
  <2> QED BY <1>2, <1>4, <1>5, RotateLeads, LeadsReflexive
<1>7. Leads(L1, L2)
  <2> HIDE DEF L0, L1, v, W, old
  <2> QED BY <1>2, <1>4, <1>6, RotateLeads, LeadsReflexive DEF Leads
<1>8. Leads(L0, L2)
  <2> HIDE DEF L0, L1, L2
  <2> QED BY <1>5, <1>6, <1>7, LeadsTransitive
<1>9. Commit(c, L2, t, TRUE) BY <1>3
<1>10. CommitType' /\ KeysKeepTheirEpoch' /\ StepClimbs
  <2> HIDE DEF L2
  <2> QED BY <1>1, <1>4, <1>8, <1>9, HandlerCommits
<1>11. RestType'
  <2>1. view' = [view EXCEPT ![c] = v] /\ Steady BY DEF HandleUserLeft
  <2> HIDE DEF v
  <2> QED BY <1>2, <2>1 DEF Steady, RestType, IInv, TypeOK
<1> QED BY <1>10, <1>11 DEF IInv, TypeOK, CommitType, RestType

\* So does handling user_moved: a rotation of the channel left, a key for the one entered.
LEMMA UserMovedStep ==
  ASSUME IInv, NEW c \in Session, HandleUserMoved(c)
  PROVE  IInv' /\ StepClimbs
<1> DEFINE d == Head(inbox[c]).id
           ch == Head(inbox[c]).chan
           old == view[c].where[d]
           v == [view[c] EXCEPT !.where[d] = ch]
           W == whisper[c]
           L0 == LocalOf(c)
           leads == IsMaster(c, v, ch)
           hosts == d = c \/ v.where[c] \in ComponentOf(v, ch)
<1>1. /\ Head(inbox[c]) \in Message /\ inbox[c] # <<>>
      /\ d \in Session /\ ch \in Channel /\ ch \in Scope
  <2>1. Receives(c, "user_moved") BY DEF HandleUserMoved
  <2> QED BY <2>1, ReceivesType, MessageFields DEF Scope
<1>2. v \in View
  <2>1. view[c] \in View /\ ch \in Place BY <1>1 DEF IInv, TypeOK, Place
  <2> HIDE DEF d, ch
  <2> QED BY <1>1, <2>1, PlaceType
<1>3. PICK ask \in MayAsk(c), t \in Instant :
        LET L1 == IF leads /\ hosts THEN Ensure(c, v, W, L0, ch, Wall(c, t))
                  ELSE Ask(c, L0, ch, ask /\ d = c /\ Lacks(c, v, L0, ch))
            L2 == IF old \in Channel \ {ch} /\ IsMaster(c, v, old)
                  THEN Rotate(c, v, W, L1, old, Wall(c, t)) ELSE L1
        IN  Commit(c, L2, t, TRUE) /\ view' = [view EXCEPT ![c] = v]
    BY DEF HandleUserMoved
<1> DEFINE L1 == IF leads /\ hosts THEN Ensure(c, v, W, L0, ch, Wall(c, t))
                 ELSE Ask(c, L0, ch, ask /\ d = c /\ Lacks(c, v, L0, ch))
           L2 == IF old \in Channel \ {ch} /\ IsMaster(c, v, old)
                 THEN Rotate(c, v, W, L1, old, Wall(c, t)) ELSE L1
<1>4. t \in Nat /\ Wall(c, t) \in Nat BY ClockType
<1>5. Good(L0) BY LocalOfGood
<1>6. Leads(L0, L1)
  <2> HIDE DEF L0, v, W, d, ch, leads, hosts
  <2> QED BY <1>1, <1>2, <1>4, <1>5, EnsureLeads, AskLeads
<1>7. Leads(L1, L2)
  <2> HIDE DEF L0, L1, v, W, old, ch
  <2> QED BY <1>2, <1>4, <1>6, RotateLeads, LeadsReflexive DEF Leads
<1>8. Leads(L0, L2)
  <2> HIDE DEF L0, L1, L2
  <2> QED BY <1>5, <1>6, <1>7, LeadsTransitive
<1>9. Commit(c, L2, t, TRUE) /\ view' = [view EXCEPT ![c] = v] BY <1>3
<1>10. CommitType' /\ KeysKeepTheirEpoch' /\ StepClimbs
  <2> HIDE DEF L2
  <2> QED BY <1>1, <1>4, <1>8, <1>9, HandlerCommits
<1>11. RestType'
  <2>1. Steady BY DEF HandleUserMoved
  <2> HIDE DEF v
  <2> QED BY <1>2, <1>9, <2>1 DEF Steady, RestType, IInv, TypeOK
<1> QED BY <1>10, <1>11 DEF IInv, TypeOK, CommitType, RestType

\* So does handling chan_update, with the minting or rotation a relink causes.
LEMMA ChanUpdateStep ==
  ASSUME IInv, NEW c \in Session, HandleChanUpdate(c)
  PROVE  IInv' /\ StepClimbs
<1> DEFINE m == Head(inbox[c])
           v == [view[c] EXCEPT !.chans = @ \cup {m.chan}, !.links = Relinked(@, m.chan, m.linked)]
           my == v.where[c]
           W == whisper[c]
           L == LocalOf(c)
<1>1. m \in Message /\ inbox[c] # <<>> /\ m.chan \in Channel /\ m.linked \in SUBSET Channel
  <2>1. Receives(c, "chan_update") BY DEF HandleChanUpdate
  <2> QED BY <2>1, ReceivesType, MessageFields
<1>2. v \in View
  <2>1. view[c] \in View BY DEF IInv, TypeOK
  <2> HIDE DEF m
  <2> QED BY <1>1, <2>1, LinksType
<1>3. PICK ask \in MayAsk(c), t \in Instant :
        /\ view' = [view EXCEPT ![c] = v]
        /\ Commit(c, IF my \notin Channel THEN L
                     ELSE IF IsMaster(c, v, my) THEN Rotate(c, v, W, L, my, Wall(c, t))
                     ELSE Ask(c, L, my, ask /\ Lacks(c, v, L, my)), t, TRUE)
    BY DEF HandleChanUpdate
<1> DEFINE M == IF my \notin Channel THEN L
                ELSE IF IsMaster(c, v, my) THEN Rotate(c, v, W, L, my, Wall(c, t))
                ELSE Ask(c, L, my, ask /\ Lacks(c, v, L, my))
<1>4. t \in Nat /\ Wall(c, t) \in Nat BY ClockType
<1>5. Good(L) BY LocalOfGood
<1>6. Leads(L, M)
  <2> HIDE DEF L, v, W, my
  <2> QED BY <1>2, <1>4, <1>5, RotateLeads, AskLeads, LeadsReflexive DEF Scope
<1>7. Commit(c, M, t, TRUE) /\ view' = [view EXCEPT ![c] = v] BY <1>3
<1>8. CommitType' /\ KeysKeepTheirEpoch' /\ StepClimbs
  <2> HIDE DEF M
  <2> QED BY <1>1, <1>4, <1>6, <1>7, HandlerCommits
<1>9. RestType'
  <2>1. Steady BY DEF HandleChanUpdate
  <2> HIDE DEF v
  <2> QED BY <1>2, <1>7, <2>1 DEF Steady, RestType, IInv, TypeOK
<1> QED BY <1>8, <1>9 DEF IInv, TypeOK, CommitType, RestType

\* Committing a record that forgot a scope.
LEMMA ForgetCommits ==
  ASSUME IInv, NEW c \in Session, NEW s \in Scope, NEW popped \in BOOLEAN,
         popped => inbox[c] # <<>>, Commit(c, Forget(LocalOf(c), s), now, popped)
  PROVE  CommitType' /\ KeysKeepTheirEpoch' /\ StepClimbs
<1> DEFINE L == LocalOf(c)
           M == Forget(L, s)
<1>1. Good(L) BY LocalOfGood
<1>2. /\ Good(M) /\ M.minted = L.minted /\ M.keys[s] = NoKey /\ M.epochs[s] = 0
      /\ \A r \in Scope \ {s} : M.keys[r] = L.keys[r] /\ M.epochs[r] = L.epochs[r]
  <2> HIDE DEF L
  <2> QED BY <1>1, ForgetGood
<1>3. L.keys = keys[c] /\ L.epochs = epochs[c] /\ L.minted = minted BY DEF LocalOf
<1>4. Commit(c, M, now, popped) OBVIOUS
<1> HIDE DEF L, M
<1>5. Extends(minted, M.minted)
  <2>1. Leads(L, L) BY <1>1, LeadsReflexive
  <2> QED BY <1>2, <1>3, <2>1 DEF Leads, Climbs
<1>6. CommitType' /\ KeysKeepTheirEpoch' BY <1>2, <1>4, <1>5, NowType, CommitPreserves
<1>7. keys' = [keys EXCEPT ![c] = M.keys] /\ epochs' = [epochs EXCEPT ![c] = M.epochs]
    BY <1>4 DEF Commit
<1>8. ASSUME NEW d \in Session, NEW r \in Scope, keys'[d][r] # keys[d][r]
      PROVE  keys'[d][r] = NoKey /\ epochs'[d][r] = 0
  <2>1. d = c /\ keys'[d] = M.keys /\ epochs'[d] = M.epochs
      BY <1>7, <1>8 DEF IInv, TypeOK
  <2>2. r = s BY <1>2, <1>3, <1>8, <2>1
  <2> QED BY <1>2, <2>1, <2>2
<1> QED BY <1>6, <1>8 DEF StepClimbs

\* So does handling chan_removed: the keys of the channel go with their epochs.
LEMMA ChanRemovedStep ==
  ASSUME IInv, NEW c \in Session, HandleChanRemoved(c)
  PROVE  IInv' /\ StepClimbs
<1> DEFINE ch == Head(inbox[c]).chan
           v == [view[c] EXCEPT !.chans = @ \ {ch}, !.links = {l \in @ : l[1] # ch}]
<1>1. Head(inbox[c]) \in Message /\ inbox[c] # <<>> /\ ch \in Channel /\ ch \in Scope
  <2>1. Receives(c, "chan_removed") BY DEF HandleChanRemoved
  <2> QED BY <2>1, ReceivesType, MessageFields DEF Scope
<1>2. v \in View
  <2>1. view[c] \in View BY DEF IInv, TypeOK
  <2> HIDE DEF ch
  <2> QED BY <1>1, <2>1, LinksType
<1>3. Commit(c, Forget(LocalOf(c), ch), now, TRUE) /\ Steady BY DEF HandleChanRemoved
<1>4. view' = [view EXCEPT ![c] = v]
  <2>1. view' = [view EXCEPT ![c].chans = @ \ {ch}, ![c].links = {l \in @ : l[1] # ch}]
      BY DEF HandleChanRemoved
  <2>2. view \in [Session -> View] BY DEF IInv, TypeOK
  <2> HIDE DEF ch
  <2> QED BY <2>1, <2>2 DEF View
<1> HIDE DEF ch, v
<1>5. CommitType' /\ KeysKeepTheirEpoch' /\ StepClimbs BY <1>1, <1>3, ForgetCommits
<1>6. RestType' BY <1>2, <1>3, <1>4 DEF Steady, RestType, IInv, TypeOK
<1> QED BY <1>5, <1>6 DEF IInv, TypeOK, CommitType, RestType

\* So does handling an e2e_key envelope.
LEMMA KeyStep ==
  ASSUME IInv, NEW c \in Session, HandleKey(c)
  PROVE  IInv' /\ StepClimbs
<1> DEFINE m == Head(inbox[c])
           v == view[c]
           W == whisper[c]
           L0 == LocalOf(c)
           A == Adopt(L0, m.comp, m.key, m.epoch)
           b == A.rewrap \/ (W # {} /\ v.where[c] \in m.comp)
           L1 == [A EXCEPT !.rewrap = @ \/ (W # {} /\ v.where[c] \in m.comp)]
           refused == m.epoch > Wall(c, now) + MaxAhead \/ ~ (m.comp \subseteq {0} \cup v.chans)
           R == [L0 EXCEPT !.declined = @ \cup {m.key}]
           M == IF refused THEN R ELSE ShareWhisper(c, v, W, L1)
<1>1. /\ m \in Message /\ inbox[c] # <<>>
      /\ m.comp \in SUBSET Scope /\ m.key \in Key /\ m.epoch \in Nat
      /\ MintedIn(minted, m.key, m.epoch)
  <2>1. Receives(c, "e2e_key") BY DEF HandleKey
  <2> QED BY <2>1, ReceivesType, MessageFields, HeadTruthful
<1>2. v \in View BY DEF IInv, TypeOK
<1>3. Good(L0) /\ L0.minted = minted BY LocalOfGood DEF LocalOf
<1>4. Leads(L0, A)
  <2> HIDE DEF L0, m
  <2> QED BY <1>1, <1>3, AdoptLeads
<1>5. Leads(A, L1)
  <2>1. L1 = [A EXCEPT !.rewrap = b]
    <3> HIDE DEF A, m, v, W
    <3> QED OBVIOUS
  <2>2. b \in BOOLEAN OBVIOUS
  <2> HIDE DEF A, L1, b
  <2> QED BY <1>4, <2>1, <2>2, RewrapLeads DEF Leads
<1>6. Leads(L0, M)
  <2>4. Leads(L0, R)
    <3> HIDE DEF L0, m
    <3> QED BY <1>1, <1>3, DeclineLeads
  <2> HIDE DEF L0, A, L1, R, refused, v, W
  <2>1. Leads(L1, ShareWhisper(c, v, W, L1)) BY <1>2, <1>5, ShareWhisperLeads DEF Leads
  <2>2. Leads(L0, L1) BY <1>3, <1>4, <1>5, LeadsTransitive
  <2>3. Leads(L0, ShareWhisper(c, v, W, L1)) BY <1>3, <2>1, <2>2, LeadsTransitive
  <2> QED BY <2>3, <2>4
<1>7. Commit(c, M, now, TRUE) /\ UNCHANGED view /\ Steady BY DEF HandleKey
<1>8. CommitType' /\ KeysKeepTheirEpoch' /\ StepClimbs
  <2> HIDE DEF M
  <2> QED BY <1>1, <1>6, <1>7, NowType, HandlerCommits
<1>9. RestType' BY <1>7 DEF Steady, RestType, IInv, TypeOK
<1> QED BY <1>8, <1>9 DEF IInv, TypeOK, CommitType, RestType

\* So does answering an e2e_key_request.
LEMMA KeyRequestStep ==
  ASSUME IInv, NEW c \in Session, HandleKeyRequest(c)
  PROVE  IInv' /\ StepClimbs
<1> DEFINE m == Head(inbox[c])
           v == view[c]
           L == LocalOf(c)
           comp == IF KeyedScopes(v, m.scope) = {} THEN {m.scope} ELSE KeyedScopes(v, m.scope)
           M == IF L.keys[m.scope] = NoKey THEN L
                ELSE Share(c, v, L, {m.from}, comp, L.keys[m.scope], L.epochs[m.scope])
<1>1. m \in Message /\ inbox[c] # <<>> /\ m.from \in Session /\ m.scope \in Scope
  <2>1. Receives(c, "e2e_key_request") BY DEF HandleKeyRequest
  <2> QED BY <2>1, ReceivesType, MessageFields
<1>2. v \in View BY DEF IInv, TypeOK
<1>3. comp \in SUBSET Scope
  <2> HIDE DEF m, v
  <2> QED BY <1>1, <1>2, KeyedScopesType
<1>4. Good(L) BY LocalOfGood
<1>5. Leads(L, M)
  <2> HIDE DEF L, m, v, comp
  <2>1. CASE L.keys[m.scope] = NoKey BY <1>4, <2>1, LeadsReflexive
  <2>2. CASE L.keys[m.scope] # NoKey
    <3>1. /\ L.keys[m.scope] \in Key /\ L.epochs[m.scope] \in Nat
          /\ MintedIn(L.minted, L.keys[m.scope], L.epochs[m.scope])
        BY <1>1, <1>4, <2>2, StoredKey
    <3> QED BY <1>2, <1>3, <1>4, <2>2, <3>1, ShareLeads
  <2> QED BY <2>1, <2>2
<1>6. Commit(c, M, now, TRUE) /\ UNCHANGED view /\ Steady BY DEF HandleKeyRequest
<1>7. CommitType' /\ KeysKeepTheirEpoch' /\ StepClimbs
  <2> HIDE DEF M
  <2> QED BY <1>1, <1>5, <1>6, NowType, HandlerCommits
<1>8. RestType' BY <1>6 DEF Steady, RestType, IInv, TypeOK
<1> QED BY <1>7, <1>8 DEF IInv, TypeOK, CommitType, RestType

\* So does a tick of the housekeeper.
LEMMA HousekeepingStep ==
  ASSUME IInv, NEW c \in Session, Housekeeping(c)
  PROVE  IInv' /\ StepClimbs
<1> DEFINE v == view[c]
           my == v.where[c]
           W == whisper[c]
           L == LocalOf(c)
           verifies == verify[c] # <<>> /\ L.keys[Head(verify[c])] # NoKey
           wanted == IF verifies THEN {Head(verify[c])}
                     ELSE {s \in {0, my} : s \in Scope /\ Lacks(c, v, L, s)}
<1>1. verify[c] \in Seq(Scope) /\ v \in View BY DEF IInv, TypeOK
<1>2. wanted \in SUBSET Scope
  <2>1. CASE verifies BY <1>1, <2>1
  <2>2. CASE ~ verifies BY <2>2
  <2> QED BY <2>1, <2>2
<1>3. PICK s \in wanted \cup {0}, ask \in MayAsk(c) :
        LET K == Ask(c, L, s, ask /\ s \in wanted)
        IN  Commit(c, IF L.rewrap THEN ShareWhisper(c, v, W, K) ELSE K, now, FALSE)
    BY DEF Housekeeping
<1> DEFINE K == Ask(c, L, s, ask /\ s \in wanted)
           M == IF L.rewrap THEN ShareWhisper(c, v, W, K) ELSE K
<1>4. s \in Scope BY <1>2, <1>3 DEF Scope
<1>5. Good(L) BY LocalOfGood
<1>6. Leads(L, K)
  <2> HIDE DEF L, wanted
  <2> QED BY <1>4, <1>5, AskLeads
<1>7. Leads(L, M)
  <2> HIDE DEF L, K, v, W
  <2>1. Leads(K, ShareWhisper(c, v, W, K)) BY <1>1, <1>6, ShareWhisperLeads DEF Leads
  <2>2. Leads(L, ShareWhisper(c, v, W, K)) BY <1>5, <1>6, <2>1, LeadsTransitive
  <2> QED BY <1>6, <2>2
<1>8. Commit(c, M, now, FALSE) BY <1>3
<1>9. CommitType' /\ KeysKeepTheirEpoch' /\ StepClimbs
  <2> HIDE DEF M
  <2> QED BY <1>7, <1>8, NowType, HandlerCommits
<1>10. verify' \in [Session -> Seq(Scope)]
  <2>1. verify[c] # <<>> => Tail(verify[c]) \in Seq(Scope) BY <1>1, HeadTailProperties
  <2> QED BY <2>1 DEF Housekeeping, IInv, TypeOK
<1>11. RestType' BY <1>10 DEF Housekeeping, RestType, IInv, TypeOK
<1> QED BY <1>9, <1>11 DEF IInv, TypeOK, CommitType, RestType

\* So does the recovery from a key that opens no voice: key and epoch are forgotten together.
LEMMA ForgetStaleKeyStep ==
  ASSUME IInv, NEW c \in Session, ForgetStaleKey(c)
  PROVE  IInv' /\ StepClimbs
<1> DEFINE my == view[c].where[c]
<1>1. my \in Scope BY DEF ForgetStaleKey, Scope
<1>2. Commit(c, Forget(LocalOf(c), my), now, FALSE) BY DEF ForgetStaleKey
<1>3. CommitType' /\ KeysKeepTheirEpoch' /\ StepClimbs
  <2> HIDE DEF my
  <2> QED BY <1>1, <1>2, ForgetCommits
<1>4. RestType' BY DEF ForgetStaleKey, RestType, IInv, TypeOK
<1> QED BY <1>3, <1>4 DEF IInv, TypeOK, CommitType, RestType
-----------------------------------------------------------------------------
(* The environment.  It adds messages that carry no key and touches no key table,
   except that a session which ends loses its own. *)

Keyless(q) == \A i \in 1..Len(q) : q[i].type # "e2e_key"

\* Keyless messages appended to confirmed queues.
LEMMA KeylessTruthful ==
  ASSUME NEW q \in Seq(Message), NEW r \in Seq(Message), Truthful(minted, q), Keyless(r)
  PROVE  q \o r \in Seq(Message) /\ Truthful(minted, q \o r)
<1>1. Truthful(minted, r) BY DEF Keyless, Truthful
<1> QED BY <1>1, ConcatTruthful

\* Each queue keeps its place or is replaced by a confirmed one: the epochs stay true.
LEMMA QueuesPreserve ==
  ASSUME IInv, UNCHANGED minted, DOMAIN inbox' = Session, inbox' = [d \in Session |-> inbox'[d]],
         \A d \in Session : inbox'[d] \in Seq(Message) /\ Truthful(minted, inbox'[d]),
         \A d \in Session, s \in Scope :
            \/ keys'[d][s] = keys[d][s] /\ epochs'[d][s] = epochs[d][s]
            \/ keys'[d][s] = NoKey /\ epochs'[d][s] = 0
  PROVE  inbox' \in [Session -> Seq(Message)] /\ KeysKeepTheirEpoch' /\ StepClimbs
<1>1. inbox' \in [Session -> Seq(Message)] OBVIOUS
<1>2. StepClimbs BY DEF StepClimbs
<1>3. ASSUME NEW d \in Session, NEW s \in Scope
      PROVE  IF keys'[d][s] = NoKey THEN epochs'[d][s] = 0
             ELSE MintedIn(minted', keys'[d][s], epochs'[d][s])
    BY KeysKeepTheirEpochIn DEF IInv
<1>4. (/\ \A d \in Session, s \in Scope :
            IF keys[d][s] = NoKey THEN epochs[d][s] = 0
            ELSE MintedIn(minted, keys[d][s], epochs[d][s])
       /\ \A d \in Session : Truthful(minted, inbox[d]))'
    BY <1>3
<1>5. KeysKeepTheirEpoch' BY <1>4 DEF KeysKeepTheirEpoch, MintedAs, MintedIn, Truthful
<1> QED BY <1>1, <1>2, <1>5

\* A broadcast of keyless messages.
LEMMA BroadcastPreserves ==
  ASSUME IInv, NEW msgs \in Seq(Message), Keyless(msgs), Broadcast(msgs),
         UNCHANGED <<keys, epochs, minted>>
  PROVE  inbox' \in [Session -> Seq(Message)] /\ KeysKeepTheirEpoch' /\ StepClimbs
<1>1. ASSUME NEW d \in Session
      PROVE  inbox'[d] \in Seq(Message) /\ Truthful(minted, inbox'[d])
  <2>1. inbox[d] \in Seq(Message) /\ Truthful(minted, inbox[d])
      BY KeysKeepTheirEpochIn DEF IInv, TypeOK
  <2>2. inbox'[d] = inbox[d] \o msgs \/ inbox'[d] = inbox[d] BY DEF Broadcast
  <2> QED BY <2>1, <2>2, KeylessTruthful
<1>2. DOMAIN inbox' = Session /\ inbox' = [d \in Session |-> inbox'[d]] BY DEF Broadcast
<1> QED BY <1>1, <1>2, QueuesPreserve

\* The bookkeeping of an event.
LEMMA EventType ==
  ASSUME IInv, ServerEvent
  PROVE  /\ events' \in Nat /\ raced' \in BOOLEAN /\ now' \in Nat /\ forgets' \in Nat
         /\ confided' \in SUBSET Session
BY DEF ServerEvent, IInv, TypeOK

\* So does a connection, which starts from empty key tables.
LEMMA ConnectStep ==
  ASSUME IInv, NEW c \in Session, Connect(c)
  PROVE  IInv' /\ StepClimbs
<1> DEFINE seated == [net EXCEPT !.where[c] = Lobby]
           w == <<WelcomeMsg(seated)>>
           j == <<JoinedMsg(c), MovedMsg(c, Lobby)>>
<1>1. seated \in View
  <2>1. net \in View /\ Lobby \in Place BY LobbyAssumption DEF IInv, TypeOK, Place
  <2> QED BY <2>1, PlaceType
<1> HIDE DEF seated
<1>2. w \in Seq(Message) /\ Truthful(minted, w)
  <2>1. WelcomeMsg(seated) \in Message /\ WelcomeMsg(seated).type = "welcome"
      BY <1>1 DEF WelcomeMsg, Message
  <2> QED BY <2>1 DEF Truthful
<1>3. j \in Seq(Message) /\ Keyless(j)
  <2>1. /\ JoinedMsg(c) \in Message /\ MovedMsg(c, Lobby) \in Message
        /\ JoinedMsg(c).type = "user_joined" /\ MovedMsg(c, Lobby).type = "user_moved"
      BY LobbyAssumption DEF JoinedMsg, MovedMsg, Message
  <2> QED BY <2>1 DEF Keyless
<1>4. /\ inbox' = [d \in Session |->
                      IF d = c THEN w ELSE IF Online(d) THEN inbox[d] \o j ELSE inbox[d]]
      /\ net' = seated /\ phase' = [phase EXCEPT ![c] = "hello"] /\ ServerEvent
      /\ UNCHANGED <<view, keys, epochs, verify, whisper, rewrap, minted, told>>
    BY DEF Connect, seated
<1> HIDE DEF w, j
<1>5. ASSUME NEW d \in Session
      PROVE  inbox'[d] \in Seq(Message) /\ Truthful(minted, inbox'[d])
  <2>1. inbox[d] \in Seq(Message) /\ Truthful(minted, inbox[d])
      BY KeysKeepTheirEpochIn DEF IInv, TypeOK
  <2>2. inbox'[d] = w \/ inbox'[d] = inbox[d] \o j \/ inbox'[d] = inbox[d] BY <1>4
  <2> QED BY <1>2, <1>3, <2>1, <2>2, KeylessTruthful
<1>6. DOMAIN inbox' = Session /\ inbox' = [d \in Session |-> inbox'[d]] BY <1>4
<1>7. inbox' \in [Session -> Seq(Message)] /\ KeysKeepTheirEpoch' /\ StepClimbs
    BY <1>4, <1>5, <1>6, QueuesPreserve
<1>8. phase' \in [Session -> {"new", "hello", "ready", "gone"}] BY <1>4 DEF IInv, TypeOK
<1> QED BY <1>1, <1>4, <1>7, <1>8, EventType DEF IInv, TypeOK, told

\* So does a disconnection.
LEMMA DisconnectStep ==
  ASSUME IInv, NEW c \in Session, Disconnect(c)
  PROVE  IInv' /\ StepClimbs
<1> DEFINE l == <<LeftMsg(c)>>
<1>1. l \in Seq(Message) /\ Keyless(l)
  <2>1. LeftMsg(c) \in Message /\ LeftMsg(c).type = "user_left" BY DEF LeftMsg, Message
  <2> QED BY <2>1 DEF Keyless
<1>2. /\ inbox' = [d \in Session |->
                      IF d = c THEN <<>> ELSE IF Online(d) THEN inbox[d] \o l ELSE inbox[d]]
      /\ net' = [net EXCEPT !.where[c] = Absent]
      /\ keys' = [keys EXCEPT ![c] = [s \in Scope |-> NoKey]]
      /\ epochs' = [epochs EXCEPT ![c] = [s \in Scope |-> 0]]
      /\ ServerEvent /\ UNCHANGED minted
    BY DEF Disconnect
<1> HIDE DEF l
<1>3. ASSUME NEW d \in Session
      PROVE  inbox'[d] \in Seq(Message) /\ Truthful(minted, inbox'[d])
  <2>1. inbox[d] \in Seq(Message) /\ Truthful(minted, inbox[d])
      BY KeysKeepTheirEpochIn DEF IInv, TypeOK
  <2>2. inbox'[d] = <<>> \/ inbox'[d] = inbox[d] \o l \/ inbox'[d] = inbox[d] BY <1>2
  <2>3. <<>> \in Seq(Message) /\ Truthful(minted, <<>>) BY DEF Truthful
  <2> QED BY <1>1, <2>1, <2>2, <2>3, KeylessTruthful
<1>4. ASSUME NEW d \in Session, NEW s \in Scope
      PROVE  \/ keys'[d][s] = keys[d][s] /\ epochs'[d][s] = epochs[d][s]
             \/ keys'[d][s] = NoKey /\ epochs'[d][s] = 0
    BY <1>2 DEF IInv, TypeOK
<1>5. DOMAIN inbox' = Session /\ inbox' = [d \in Session |-> inbox'[d]] BY <1>2
<1>6. inbox' \in [Session -> Seq(Message)] /\ KeysKeepTheirEpoch' /\ StepClimbs
    BY <1>2, <1>3, <1>4, <1>5, QueuesPreserve
<1>7. net' \in View
  <2>1. net \in View /\ Absent \in Place BY DEF IInv, TypeOK, Place
  <2> QED BY <1>2, <2>1, PlaceType
<1>8. NoView \in View BY DEF NoView, View, Place
<1>9. /\ phase' \in [Session -> {"new", "hello", "ready", "gone"}]
      /\ view' \in [Session -> View]
    BY <1>8 DEF Disconnect, IInv, TypeOK
<1>10. /\ keys' \in [Session -> [Scope -> KeyOrNone]] /\ epochs' \in [Session -> [Scope -> Nat]]
    BY <1>2 DEF IInv, TypeOK, KeyOrNone
<1>11. verify' \in [Session -> Seq(Scope)] BY DEF Disconnect, IInv, TypeOK
<1>12. /\ whisper' \in [Session -> SUBSET Session] /\ rewrap' \in [Session -> BOOLEAN]
       /\ passed' = passed /\ fresh' = fresh /\ declined' = declined
       /\ minted' \in [Session -> Seq(Epoch)]
    BY DEF Disconnect, IInv, TypeOK, told
<1> QED BY <1>2, <1>6, <1>7, <1>9, <1>10, <1>11, <1>12, EventType DEF IInv, TypeOK

\* So does a request to move; only messages are queued.
LEMMA MoveStep ==
  ASSUME IInv, NEW c \in Session, NEW ch \in Channel, Move(c, ch)
  PROVE  IInv' /\ StepClimbs
<1> DEFINE m == <<MovedMsg(c, ch)>>
<1>1. m \in Seq(Message) /\ Keyless(m)
  <2>1. MovedMsg(c, ch) \in Message /\ MovedMsg(c, ch).type = "user_moved"
      BY DEF MovedMsg, Message
  <2> QED BY <2>1 DEF Keyless
<1>2. net' \in View
  <2>1. net \in View /\ ch \in Place BY DEF IInv, TypeOK, Place
  <2> QED BY <2>1, PlaceType DEF Move
<1>3. Broadcast(m) /\ ServerEvent BY DEF Move
<1>4. UNCHANGED <<phase, view, keys, epochs, verify, whisper, rewrap, minted, told>> BY DEF Move
<1> HIDE DEF m
<1>5. inbox' \in [Session -> Seq(Message)] /\ KeysKeepTheirEpoch' /\ StepClimbs
    BY <1>1, <1>3, <1>4, BroadcastPreserves
<1> QED BY <1>2, <1>3, <1>4, <1>5, EventType DEF IInv, TypeOK, told

\* So does a change of links.
LEMMA EditChannelStep ==
  ASSUME IInv, NEW ch \in Channel, NEW linked \in SUBSET Channel, EditChannel(ch, linked)
  PROVE  IInv' /\ StepClimbs
<1> DEFINE m == <<ChanUpdateMsg(ch, linked)>>
<1>1. m \in Seq(Message) /\ Keyless(m)
  <2>1. ChanUpdateMsg(ch, linked) \in Message /\ ChanUpdateMsg(ch, linked).type = "chan_update"
      BY DEF ChanUpdateMsg, Message
  <2> QED BY <2>1 DEF Keyless
<1>2. net' \in View
  <2>1. net \in View BY DEF IInv, TypeOK
  <2> QED BY <2>1, LinksType DEF EditChannel
<1>3. Broadcast(m) /\ ServerEvent BY DEF EditChannel
<1>4. /\ UNCHANGED <<phase, view, keys, epochs, verify, whisper, rewrap, minted, passed, declined>>
      /\ fresh' = [s \in Scope |-> IF s = 0 \/ Occupied(net', s) THEN fresh[s] ELSE NoKey]
    BY DEF EditChannel
<1> HIDE DEF m
<1>5. inbox' \in [Session -> Seq(Message)] /\ KeysKeepTheirEpoch' /\ StepClimbs
    BY <1>1, <1>3, <1>4, BroadcastPreserves
<1>6. fresh' \in [Scope -> KeyOrNone] BY <1>4 DEF IInv, TypeOK, KeyOrNone
<1> QED BY <1>2, <1>3, <1>4, <1>5, <1>6, EventType DEF IInv, TypeOK

\* So does the removal of a channel.
LEMMA RemoveChannelStep ==
  ASSUME IInv, NEW ch \in Channel, RemoveChannel(ch)
  PROVE  IInv' /\ StepClimbs
<1> DEFINE m == <<ChanRemovedMsg(ch)>>
<1>1. m \in Seq(Message) /\ Keyless(m)
  <2>1. ChanRemovedMsg(ch) \in Message /\ ChanRemovedMsg(ch).type = "chan_removed"
      BY DEF ChanRemovedMsg, Message
  <2> QED BY <2>1 DEF Keyless
<1>2. net' \in View
  <2>1. net \in View BY DEF IInv, TypeOK
  <2> QED BY <2>1, LinksType DEF RemoveChannel
<1>3. Broadcast(m) /\ ServerEvent BY DEF RemoveChannel
<1>4. /\ UNCHANGED <<phase, view, keys, epochs, verify, whisper, rewrap, minted, passed, declined>>
      /\ fresh' = [s \in Scope |-> IF s \in ComponentOf(net, ch) THEN NoKey ELSE fresh[s]]
    BY DEF RemoveChannel
<1> HIDE DEF m
<1>5. inbox' \in [Session -> Seq(Message)] /\ KeysKeepTheirEpoch' /\ StepClimbs
    BY <1>1, <1>3, <1>4, BroadcastPreserves
<1>6. fresh' \in [Scope -> KeyOrNone] BY <1>4 DEF IInv, TypeOK, KeyOrNone
<1> QED BY <1>2, <1>3, <1>4, <1>5, <1>6, EventType DEF IInv, TypeOK

\* So does setting the targets of a whisper, which sends them the stored key.
LEMMA SetWhisperStep ==
  ASSUME IInv, NEW c \in Session, NEW targets \in WhisperChoices, SetWhisper(c, targets)
  PROVE  IInv' /\ StepClimbs
<1> DEFINE L0 == LocalOf(c)
           b == targets # {}
           L == [LocalOf(c) EXCEPT !.rewrap = targets # {}]
           v == view[c]
           M == ShareWhisper(c, v, targets, L)
<1>1. targets \in SUBSET Session /\ v \in View BY WhisperAssumption DEF IInv, TypeOK
<1>2. Good(L0) BY LocalOfGood
<1>3. Leads(L0, L)
  <2>1. b \in BOOLEAN /\ L = [L0 EXCEPT !.rewrap = b] OBVIOUS
  <2> HIDE DEF L0, L, b
  <2> QED BY <1>2, <2>1, RewrapLeads
<1>4. Leads(L0, M)
  <2> HIDE DEF L0, L, v
  <2>1. Leads(L, ShareWhisper(c, v, targets, L)) BY <1>1, <1>3, ShareWhisperLeads DEF Leads
  <2> QED BY <1>2, <1>3, <2>1, LeadsTransitive
<1>5. Commit(c, M, now, FALSE) BY DEF SetWhisper
<1>6. CommitType' /\ KeysKeepTheirEpoch' /\ StepClimbs
  <2> HIDE DEF M
  <2> QED BY <1>4, <1>5, NowType, HandlerCommits
<1>7. /\ events' = events + 1 /\ whisper' = [whisper EXCEPT ![c] = targets]
      /\ confided' = confided \cup targets /\ raced' = raced /\ forgets' = forgets
      /\ net' = net /\ phase' = phase /\ view' = view /\ verify' = verify
    BY DEF SetWhisper
<1>8. RestType' BY <1>1, <1>7 DEF RestType, IInv, TypeOK
<1> QED BY <1>6, <1>8 DEF IInv, TypeOK, CommitType, RestType
-----------------------------------------------------------------------------
(* The theorems. *)

\* The warm start is good.
LEMMA InitGood ==
  ASSUME Init
  PROVE  IInv
<1>1. Founder \in Session /\ Lobby \in Channel /\ Lobby \in Scope /\ 0 \in Scope
    BY PresentAssumption, LobbyAssumption DEF Scope
<1>2. net \in View
  <2>1. [d \in Session |-> IF d \in Present THEN Lobby ELSE Absent] \in [Session -> Place]
      BY <1>1 DEF Place
  <2> QED BY <2>1 DEF Init, View
<1>3. NoView \in View BY DEF NoView, View, Place
<1>4. \A s \in Scope : FoundingKeyOf(s) \in KeyOrNone
    BY <1>1 DEF FoundingKeyOf, FoundingKey, KeyOrNone, Key
<1>5. <<1, 1>> \in Seq(Epoch) /\ <<>> \in Seq(Epoch) BY DEF Epoch
<1>6. minted \in [Session -> Seq(Epoch)] BY <1>5 DEF Init
<1>7. /\ keys \in [Session -> [Scope -> KeyOrNone]] /\ epochs \in [Session -> [Scope -> Nat]]
    BY <1>4 DEF Init, KeyOrNone
<1>8. TypeOK
  <2>1. phase \in [Session -> {"new", "hello", "ready", "gone"}] BY DEF Init
  <2>2. view \in [Session -> View] BY <1>2, <1>3 DEF Init
  <2>3. inbox \in [Session -> Seq(Message)] /\ verify \in [Session -> Seq(Scope)] BY DEF Init
  <2>4. passed \in [Scope -> KeyOrNone] /\ fresh \in [Scope -> KeyOrNone] BY <1>4 DEF Init
  <2> QED BY <1>2, <1>6, <1>7, <2>1, <2>2, <2>3, <2>4 DEF Init, TypeOK
<1>9. ASSUME NEW c \in Session, NEW s \in Scope
      PROVE  IF keys[c][s] = NoKey THEN epochs[c][s] = 0
             ELSE MintedIn(minted, keys[c][s], epochs[c][s])
  <2>1. CASE c \in Present /\ FoundingKeyOf(s) # NoKey
    <3>1. keys[c][s] = FoundingKeyOf(s) /\ epochs[c][s] = 1 BY <2>1 DEF Init
    <3>2. minted[Founder] = <<1, 1>> BY <1>1 DEF Init
    <3>3. minted[Founder][1] = 1 /\ minted[Founder][2] = 1 /\ Len(minted[Founder]) = 2
        BY <3>2
    <3>4. FoundingKeyOf(s) = FoundingKey(1) \/ FoundingKeyOf(s) = FoundingKey(2)
        BY <2>1 DEF FoundingKeyOf
    <3> QED BY <2>1, <3>1, <3>3, <3>4 DEF MintedIn, FoundingKey
  <2>2. CASE ~ (c \in Present /\ FoundingKeyOf(s) # NoKey) BY <2>2 DEF Init
  <2> QED BY <2>1, <2>2
<1>10. \A d \in Session : Truthful(minted, inbox[d]) BY DEF Init, Truthful
<1> QED BY <1>8, <1>9, <1>10, KeysKeepTheirEpochIn DEF IInv

\* Every step of every session, and of the server, keeps IInv and climbs.
LEMMA NextStep ==
  ASSUME IInv, [Next]_vars
  PROVE  IInv' /\ StepClimbs
<1>1. CASE UNCHANGED vars
    BY <1>1 DEF vars, told, IInv, TypeOK, KeysKeepTheirEpoch, MintedAs, StepClimbs
<1>2. CASE Environment
  <2>1. CASE \E c \in Session : Connect(c) \/ Disconnect(c)
      BY <2>1, ConnectStep, DisconnectStep
  <2>2. CASE \E c \in Session, ch \in Channel : Move(c, ch) BY <2>2, MoveStep
  <2>3. CASE \E ch \in Channel, linked \in SUBSET Channel : EditChannel(ch, linked)
      BY <2>3, EditChannelStep
  <2>4. CASE \E ch \in Channel : RemoveChannel(ch) BY <2>4, RemoveChannelStep
  <2>5. CASE \E c \in Session, targets \in WhisperChoices : SetWhisper(c, targets)
      BY <2>5, SetWhisperStep
  <2> QED BY <1>2, <2>1, <2>2, <2>3, <2>4, <2>5 DEF Environment
<1>3. ASSUME NEW c \in Session, Handle(c) \/ Housekeeping(c) \/ ForgetStaleKey(c)
      PROVE  IInv' /\ StepClimbs
    BY <1>3, WelcomeStep, UserJoinedStep, UserLeftStep, UserMovedStep, ChanUpdateStep,
       ChanRemovedStep, KeyStep, KeyRequestStep, HousekeepingStep, ForgetStaleKeyStep DEF Handle
<1> QED BY <1>1, <1>2, <1>3 DEF Next

\* IInv holds of every reachable state.
THEOREM Inductive == Spec => []IInv
<1>1. Init => IInv BY InitGood
<1>2. IInv /\ [Next]_vars => IInv' BY NextStep
<1> QED BY <1>1, <1>2, PTL DEF Spec

\* The tables, views, queues and counters of the engine keep their types, for any
\* number of sessions and channels.
THEOREM TypeCorrect == Spec => []TypeOK
<1>1. IInv => TypeOK BY DEF IInv
<1> QED BY <1>1, Inductive, PTL

\* A key is stored, and travels, only under the epoch it was minted with: the two
\* maps m_channelKeys and m_channelEpochs never disagree.
THEOREM EpochsAreTrue == Spec => []KeysKeepTheirEpoch
<1>1. IInv => KeysKeepTheirEpoch BY DEF IInv
<1> QED BY <1>1, Inductive, PTL

\* No session ever goes back to an older key of a scope.
THEOREM KeysClimb == Spec => NeverAnOlderKey
<1>1. IInv /\ [Next]_vars => StepClimbs BY NextStep
<1>2. StepClimbs => [\A c \in Session, s \in Scope :
                        keys'[c][s] # keys[c][s] =>
                            \/ keys'[c][s] = NoKey /\ epochs'[c][s] = 0
                            \/ epochs'[c][s] > epochs[c][s]]_vars
    BY DEF StepClimbs
<1> QED BY <1>1, <1>2, Inductive, PTL DEF Spec, NeverAnOlderKey

-----------------------------------------------------------------------------
(* Lemmas about components. *)

\* A channel of the view is in its own component.
LEMMA ComponentSelf ==
  ASSUME NEW v \in View, NEW ch \in v.chans
  PROVE  ch \in ComponentOf(v, ch)
BY DEF ComponentOf

\* A component lies inside the channels, and only channels of the view have one.
LEMMA ComponentWithin ==
  ASSUME NEW v \in View, NEW a, NEW b \in ComponentOf(v, a)
  PROVE  a \in v.chans /\ b \in v.chans /\ a \in Channel /\ b \in Channel
BY DEF ComponentOf, View

\* The channels of a component have the same component.
LEMMA ComponentSame ==
  ASSUME NEW v \in View, NEW a, NEW b \in ComponentOf(v, a)
  PROVE  ComponentOf(v, b) = ComponentOf(v, a)
<1>1. a \in v.chans /\ b \in v.chans /\ a \in Channel /\ b \in Channel BY ComponentWithin
<1>2. ASSUME NEW S \in SUBSET Channel, LinkClosed(v, S)
      PROVE  a \in S <=> b \in S
  <2>1. a \in S => b \in S BY <1>2 DEF ComponentOf
  <2>2. ASSUME b \in S, a \notin S PROVE FALSE
    <3> DEFINE R == Channel \ S
    <3>1. LinkClosed(v, R)
      <4>1. \A l \in v.links : l[1] \in Channel /\ l[2] \in Channel BY DEF View
      <4> QED BY <1>2, <4>1 DEF LinkClosed
    <3>2. a \in R /\ R \in SUBSET Channel BY <1>1, <2>2
    <3>3. b \in R
      <4> HIDE DEF R
      <4> QED BY <3>1, <3>2 DEF ComponentOf
    <3> QED BY <2>2, <3>3
  <2> QED BY <2>1, <2>2
<1> QED BY <1>1, <1>2 DEF ComponentOf

\* Only the channels and their links decide the components.
LEMMA ComponentFrame ==
  ASSUME NEW v, NEW w, v.chans = w.chans, v.links = w.links, NEW ch
  PROVE  ComponentOf(v, ch) = ComponentOf(w, ch)
BY DEF ComponentOf, LinkClosed

\* No link leads out of a component.
LEMMA ComponentClosed ==
  ASSUME NEW v \in View, NEW ch
  PROVE  LinkClosed(v, ComponentOf(v, ch))
<1> SUFFICES ASSUME NEW l \in v.links, l[1] \in v.chans, l[2] \in v.chans
             PROVE  l[1] \in ComponentOf(v, ch) <=> l[2] \in ComponentOf(v, ch)
    BY DEF LinkClosed
<1>1. \A S \in SUBSET Channel : LinkClosed(v, S) => (l[1] \in S <=> l[2] \in S)
    BY DEF LinkClosed
<1> QED BY <1>1 DEF ComponentOf

\* Without a channel and its links the components lose members and gain none.
LEMMA ComponentShrinks ==
  ASSUME NEW v \in View, NEW w \in View, NEW ch, w.chans = v.chans \ {ch},
         w.links = {l \in v.links : l[1] # ch}, NEW s
  PROVE  /\ ComponentOf(w, s) \subseteq ComponentOf(v, s)
         /\ s \in w.chans /\ s \notin ComponentOf(v, ch) => ComponentOf(w, s) = ComponentOf(v, s)
<1>1. \A S \in SUBSET Channel : LinkClosed(v, S) => LinkClosed(w, S) BY DEF LinkClosed
<1>2. ComponentOf(w, s) \subseteq ComponentOf(v, s) BY <1>1 DEF ComponentOf
<1>3. ASSUME s \in w.chans, s \notin ComponentOf(v, ch), NEW d \in ComponentOf(v, s)
      PROVE  d \in ComponentOf(w, s)
  <2> DEFINE K == ComponentOf(v, s)
  <2>1. K \in SUBSET Channel /\ LinkClosed(v, K) BY ComponentType, ComponentClosed
  <2>2. ch \notin K
    <3> SUFFICES ASSUME ch \in K PROVE FALSE OBVIOUS
    <3>1. ComponentOf(v, ch) = ComponentOf(v, s) BY ComponentSame
    <3>2. s \in v.chans BY <1>3
    <3> QED BY <1>3, <3>1, <3>2, ComponentSelf
  <2>3. d \in w.chans BY <1>3, <2>2, ComponentWithin
  <2>4. ASSUME NEW S \in SUBSET Channel, s \in S, LinkClosed(w, S) PROVE d \in S
    <3>1. LinkClosed(v, S \cap K)
      <4> SUFFICES ASSUME NEW l \in v.links, l[1] \in v.chans, l[2] \in v.chans
                   PROVE  l[1] \in S \cap K <=> l[2] \in S \cap K
          BY DEF LinkClosed
      <4> HIDE DEF K
      <4>1. l[1] \in K <=> l[2] \in K BY <2>1 DEF LinkClosed
      <4>2. CASE l[1] \in K
        <5>1. l[1] # ch /\ l[2] # ch BY <2>2, <4>1, <4>2
        <5>2. l \in w.links /\ l[1] \in w.chans /\ l[2] \in w.chans BY <5>1
        <5> QED BY <2>4, <4>1, <4>2, <5>2 DEF LinkClosed
      <4>3. CASE l[1] \notin K BY <4>1, <4>3
      <4> QED BY <4>2, <4>3
    <3>2. s \in S \cap K /\ S \cap K \in SUBSET Channel BY <1>3, <2>4, ComponentSelf
    <3> DEFINE J == S \cap K
    <3>3. d \in J
      <4>1. LinkClosed(v, J) /\ s \in J /\ J \in SUBSET Channel BY <3>1, <3>2
      <4> HIDE DEF J, K
      <4> QED BY <1>3, <4>1 DEF ComponentOf
    <3> QED BY <3>3
  <2> QED BY <1>3, <2>3, <2>4 DEF ComponentOf
<1> QED BY <1>2, <1>3

\* A non-empty set of sessions has one whose identity nobody undercuts.
LEMMA Least ==
  ASSUME NEW S \in SUBSET Session, S # {}
  PROVE  \E m \in S : \A d \in S : ~ (Uid[d] < Uid[m])
<1> DEFINE T == {Uid[d] : d \in S}
<1>1. T \in SUBSET Nat /\ T # {} BY UidAssumption
<1>2. PICK u \in T : \A x \in T : u <= x
  <2> HIDE DEF T
  <2> QED BY <1>1, NatLeast
<1>3. PICK m \in S : Uid[m] = u BY <1>2
<1>4. ASSUME NEW d \in S PROVE ~ (Uid[d] < Uid[m])
  <2>1. u <= Uid[d] BY <1>2
  <2>2. Uid[d] \in Nat /\ u \in Nat BY <1>1, <1>2, UidAssumption
  <2> QED BY <1>3, <2>1, <2>2
<1> QED BY <1>3, <1>4
-----------------------------------------------------------------------------
(* Lemmas about queues. *)

\* What follows the head of a queue is appended to what follows its tail.
LEMMA HeadTailConcat ==
  ASSUME NEW S, NEW q \in Seq(S), q # <<>>, NEW r \in Seq(S)
  PROVE  q \o r # <<>> /\ Head(q \o r) = Head(q) /\ Tail(q \o r) = Tail(q) \o r
<1>1. /\ q \o r \in Seq(S) /\ Len(q \o r) = Len(q) + Len(r)
      /\ \A i \in 1..Len(q) + Len(r) : (q \o r)[i] = IF i <= Len(q) THEN q[i] ELSE r[i - Len(q)]
    BY ConcatProperties
<1>2. Len(q) \in Nat /\ Len(q) # 0 /\ Len(r) \in Nat
    BY EmptySeq, LenProperties
<1>3. q \o r # <<>> /\ Len(q \o r) # 0 BY <1>1, <1>2
<1>4. Head(q \o r) = Head(q)
  <2>1. 1 \in 1..Len(q) + Len(r) /\ 1 <= Len(q) BY <1>2
  <2> QED BY <1>1, <1>3, <2>1
<1>5. /\ Tail(q) \in Seq(S) /\ Len(Tail(q)) = Len(q) - 1
      /\ \A i \in 1..Len(Tail(q)) : Tail(q)[i] = q[i + 1]
    BY HeadTailProperties
<1>6. /\ Tail(q \o r) \in Seq(S) /\ Len(Tail(q \o r)) = Len(q) + Len(r) - 1
      /\ \A i \in 1..Len(Tail(q \o r)) : Tail(q \o r)[i] = (q \o r)[i + 1]
    BY <1>1, <1>3, HeadTailProperties
<1>7. /\ Tail(q) \o r \in Seq(S) /\ Len(Tail(q) \o r) = Len(q) - 1 + Len(r)
      /\ \A i \in 1..(Len(q) - 1) + Len(r) :
            (Tail(q) \o r)[i] = IF i <= Len(q) - 1 THEN Tail(q)[i] ELSE r[i - (Len(q) - 1)]
    BY <1>5, ConcatProperties
<1>8. ASSUME NEW i \in 1..(Len(q) + Len(r) - 1)
      PROVE  Tail(q \o r)[i] = (Tail(q) \o r)[i]
  <2>1. Tail(q \o r)[i] = (q \o r)[i + 1] /\ i + 1 \in 1..Len(q) + Len(r) BY <1>2, <1>6
  <2>2. CASE i <= Len(q) - 1
    <3>1. i \in 1..Len(Tail(q)) BY <1>2, <1>5, <2>2
    <3>2. (q \o r)[i + 1] = q[i + 1] BY <1>1, <1>2, <2>1, <2>2
    <3>3. (Tail(q) \o r)[i] = Tail(q)[i] BY <1>2, <1>7, <2>2
    <3> QED BY <1>5, <2>1, <3>1, <3>2, <3>3
  <2>3. CASE ~ (i <= Len(q) - 1)
    <3>1. ~ (i + 1 <= Len(q)) /\ (i + 1) - Len(q) = i - (Len(q) - 1) BY <1>2, <2>3
    <3>2. (q \o r)[i + 1] = r[(i + 1) - Len(q)] BY <1>1, <2>1, <3>1
    <3>3. (Tail(q) \o r)[i] = r[i - (Len(q) - 1)] BY <1>2, <1>7, <2>3
    <3> QED BY <2>1, <3>1, <3>2, <3>3
  <2> QED BY <2>2, <2>3
<1>9. Tail(q \o r) = Tail(q) \o r
  <2> DEFINE a == Tail(q \o r)
             b == Tail(q) \o r
  <2>1. a \in Seq(S) /\ b \in Seq(S) /\ Len(a) = Len(q) + Len(r) - 1 /\ Len(b) = Len(a)
      BY <1>2, <1>6, <1>7
  <2>2. \A i \in 1..Len(a) : a[i] = b[i] BY <1>8, <2>1
  <2> HIDE DEF a, b
  <2>3. a = b BY <2>1, <2>2, SeqEqual
  <2> QED BY <2>3 DEF a, b
<1> QED BY <1>3, <1>4, <1>9

\* What a queue holds it still holds when it grows, wherever it held it.
LEMMA ConcatHolds ==
  ASSUME NEW q \in Seq(Message), NEW r \in Seq(Message)
  PROVE  /\ \A i \in 1..Len(q) : \E j \in 1..Len(q \o r) : (q \o r)[j] = q[i]
         /\ \A i \in 1..Len(r) : \E j \in 1..Len(q \o r) : (q \o r)[j] = r[i]
         /\ \A j \in 1..Len(q \o r) : \/ \E i \in 1..Len(q) : (q \o r)[j] = q[i]
                                      \/ \E i \in 1..Len(r) : (q \o r)[j] = r[i]
<1>1. /\ Len(q \o r) = Len(q) + Len(r)
      /\ \A i \in 1..Len(q) + Len(r) : (q \o r)[i] = IF i <= Len(q) THEN q[i] ELSE r[i - Len(q)]
    BY ConcatProperties
<1>2. Len(q) \in Nat /\ Len(r) \in Nat BY LenProperties
<1>3. ASSUME NEW i \in 1..Len(q) PROVE \E j \in 1..Len(q \o r) : (q \o r)[j] = q[i]
  <2>1. i \in 1..Len(q \o r) /\ (q \o r)[i] = q[i] BY <1>1, <1>2
  <2> QED BY <2>1
<1>4. ASSUME NEW i \in 1..Len(r) PROVE \E j \in 1..Len(q \o r) : (q \o r)[j] = r[i]
  <2>1. i + Len(q) \in 1..Len(q) + Len(r) /\ ~ (i + Len(q) <= Len(q)) /\ (i + Len(q)) - Len(q) = i
      BY <1>2
  <2>2. (q \o r)[i + Len(q)] = r[i] BY <1>1, <2>1
  <2> QED BY <1>1, <2>1, <2>2
<1>5. ASSUME NEW j \in 1..Len(q \o r)
      PROVE  \/ \E i \in 1..Len(q) : (q \o r)[j] = q[i]
             \/ \E i \in 1..Len(r) : (q \o r)[j] = r[i]
  <2>1. CASE j <= Len(q) BY <1>1, <1>2, <2>1
  <2>2. CASE ~ (j <= Len(q))
    <3>1. j - Len(q) \in 1..Len(r) BY <1>1, <1>2, <2>2
    <3> QED BY <1>1, <2>2, <3>1
  <2> QED BY <2>1, <2>2
<1> QED BY <1>3, <1>4, <1>5

\* What the tail of a queue holds the queue holds; the rest is its head.
LEMMA TailHolds ==
  ASSUME NEW q \in Seq(Message), q # <<>>
  PROVE  /\ \A i \in 1..Len(Tail(q)) : \E j \in 1..Len(q) : q[j] = Tail(q)[i]
         /\ \A j \in 1..Len(q) : q[j] = Head(q) \/ \E i \in 1..Len(Tail(q)) : q[j] = Tail(q)[i]
<1>1. /\ Len(Tail(q)) = Len(q) - 1 /\ \A i \in 1..Len(Tail(q)) : Tail(q)[i] = q[i + 1]
    BY HeadTailProperties
<1>2. Len(q) \in Nat BY LenProperties
<1>3. ASSUME NEW i \in 1..Len(Tail(q)) PROVE \E j \in 1..Len(q) : q[j] = Tail(q)[i]
  <2>1. i + 1 \in 1..Len(q) /\ q[i + 1] = Tail(q)[i] BY <1>1, <1>2
  <2> QED BY <2>1
<1>4. ASSUME NEW j \in 1..Len(q)
      PROVE  q[j] = Head(q) \/ \E i \in 1..Len(Tail(q)) : q[j] = Tail(q)[i]
  <2>1. CASE j = 1 BY <2>1
  <2>2. CASE j # 1
    <3>1. j - 1 \in 1..Len(Tail(q)) /\ Tail(q)[j - 1] = q[j] BY <1>1, <1>2, <2>2
    <3> QED BY <3>1
  <2> QED BY <2>1, <2>2
<1> QED BY <1>3, <1>4

-----------------------------------------------------------------------------
(* The news.  While events come one at a time the server is ahead of a client by
   one event at most.  The news of it lead the client's inbox; what follows them,
   keys and questions, was sent by sessions that knew of the event or since. *)

\* Keys, and questions of members of the scope they ask for.
Chatter(n) ==
    [type : {"e2e_key"}, comp : SUBSET Scope, key : Key, epoch : Nat]
    \cup {m \in [type : {"e2e_key_request"}, from : Session, scope : Scope] :
             m.from \in MembersOf(n, KeyedScopes(n, m.scope))}

\* The view after one piece of news, as the handlers compute it.
After(v, m) ==
    IF m.type = "user_left" THEN [v EXCEPT !.where[m.id] = Absent]
    ELSE IF m.type = "user_moved" THEN [v EXCEPT !.where[m.id] = m.chan]
    ELSE IF m.type = "chan_update"
    THEN [v EXCEPT !.chans = @ \cup {m.chan}, !.links = Relinked(@, m.chan, m.linked)]
    ELSE [v EXCEPT !.chans = @ \ {m.chan}, !.links = {l \in @ : l[1] # m.chan}]

\* Who has view v and inbox q knows what the server knows once it has read its news:
\* none, one message, or the two that announce a newcomer.
Aligned(n, v, q) ==
    \/ v = n /\ q \in Seq(Chatter(n))
    \/ /\ q # <<>> /\ Tail(q) \in Seq(Chatter(n))
       /\ Head(q).type \in {"user_left", "user_moved", "chan_update", "chan_removed"}
       /\ After(v, Head(q)) = n
    \/ /\ q # <<>> /\ Tail(q) # <<>> /\ Tail(Tail(q)) \in Seq(Chatter(n))
       /\ \E d \in Session : /\ Head(q) = JoinedMsg(d) /\ Head(Tail(q)) = MovedMsg(d, Lobby)
                             /\ [v EXCEPT !.where[d] = Lobby] = n

Follows(c) ==
    /\ phase[c] = "ready" => Aligned(net, view[c], inbox[c])
    /\ phase[c] = "hello" => /\ inbox[c] # <<>> /\ Head(inbox[c]) = WelcomeMsg(net)
                             /\ Tail(inbox[c]) \in Seq(Chatter(net))
    /\ ~ Online(c) => inbox[c] = <<>>

Orderly ==
    /\ Lobby \in net.chans
    /\ \A c \in Session : net.where[c] \in {Absent} \cup net.chans
    /\ \A c \in Session : net.where[c] = Absent <=> ~ Online(c)
    /\ \A c \in Session : Follows(c)

\* Keys and questions are messages, and no news.
LEMMA ChatterType ==
  ASSUME NEW n
  PROVE  Chatter(n) \subseteq Message /\ \A m \in Chatter(n) : m.type \in {"e2e_key", "e2e_key_request"}
BY DEF Chatter, Message

\* What is appended to an inbox leaves its news in front.
LEMMA AlignedGrows ==
  ASSUME NEW n, NEW v, NEW q \in Seq(Message), NEW r \in Seq(Chatter(n)), Aligned(n, v, q)
  PROVE  Aligned(n, v, q \o r)
<1>1. r \in Seq(Message) BY ChatterType, SeqMonotonic
<1>2. ASSUME q # <<>>
      PROVE  /\ q \o r # <<>> /\ Head(q \o r) = Head(q) /\ Tail(q \o r) = Tail(q) \o r
             /\ Tail(q) \in Seq(Message)
    BY <1>1, <1>2, HeadTailConcat, HeadTailProperties
<1>3. CASE v = n /\ q \in Seq(Chatter(n)) BY <1>3, ConcatProperties DEF Aligned
<1>4. CASE /\ q # <<>> /\ Tail(q) \in Seq(Chatter(n))
           /\ Head(q).type \in {"user_left", "user_moved", "chan_update", "chan_removed"}
           /\ After(v, Head(q)) = n
  <2>1. Tail(q \o r) \in Seq(Chatter(n)) BY <1>2, <1>4, ConcatProperties
  <2> QED BY <1>2, <1>4, <2>1 DEF Aligned
<1>5. CASE /\ q # <<>> /\ Tail(q) # <<>> /\ Tail(Tail(q)) \in Seq(Chatter(n))
           /\ \E d \in Session : /\ Head(q) = JoinedMsg(d) /\ Head(Tail(q)) = MovedMsg(d, Lobby)
                                 /\ [v EXCEPT !.where[d] = Lobby] = n
  <2>1. /\ Tail(q \o r) # <<>> /\ Head(Tail(q \o r)) = Head(Tail(q))
        /\ Tail(Tail(q \o r)) = Tail(Tail(q)) \o r
      BY <1>1, <1>2, <1>5, HeadTailConcat, ZenonT(60)
  <2>2. Tail(Tail(q \o r)) \in Seq(Chatter(n)) BY <1>5, <2>1, ConcatProperties
  <2> QED BY <1>2, <1>5, <2>1, <2>2 DEF Aligned
<1> QED BY <1>3, <1>4, <1>5 DEF Aligned

\* Keys and questions are handled by a session that knows what the server knows.
LEMMA ReadsChatter ==
  ASSUME IInv, Orderly, NEW c \in Session, phase[c] = "ready", inbox[c] # <<>>,
         Head(inbox[c]).type \in {"e2e_key", "e2e_key_request"}
  PROVE  view[c] = net /\ Head(inbox[c]) \in Chatter(net) /\ Tail(inbox[c]) \in Seq(Chatter(net))
<1>1. Aligned(net, view[c], inbox[c]) BY DEF Orderly, Follows
<1>2. \A d : JoinedMsg(d).type = "user_joined" BY DEF JoinedMsg
<1>3. view[c] = net /\ inbox[c] \in Seq(Chatter(net)) BY <1>1, <1>2 DEF Aligned
<1> QED BY <1>3, HeadTailProperties

\* One piece of news brings a session up to date.
LEMMA ReadsNews ==
  ASSUME IInv, Orderly, NEW c \in Session, phase[c] = "ready", inbox[c] # <<>>,
         Head(inbox[c]).type \in {"user_left", "user_moved", "chan_update", "chan_removed"}
  PROVE  After(view[c], Head(inbox[c])) = net /\ Tail(inbox[c]) \in Seq(Chatter(net))
<1>1. Aligned(net, view[c], inbox[c]) BY DEF Orderly, Follows
<1>2. ~ (view[c] = net /\ inbox[c] \in Seq(Chatter(net))) BY ChatterType, HeadTailProperties
<1>3. \A d : JoinedMsg(d).type = "user_joined" /\ JoinedMsg(d).id = d BY DEF JoinedMsg
<1> QED BY <1>1, <1>2, <1>3 DEF Aligned

\* The news of a newcomer leave the news of where it is.
LEMMA ReadsJoined ==
  ASSUME IInv, Orderly, NEW c \in Session, phase[c] = "ready", inbox[c] # <<>>,
         Head(inbox[c]).type = "user_joined"
  PROVE  LET d == Head(inbox[c]).id
             q == Tail(inbox[c])
         IN  /\ d \in Session /\ q # <<>> /\ Head(q) = MovedMsg(d, Lobby) /\ Tail(q) \in Seq(Chatter(net))
             /\ [view[c] EXCEPT !.where[d] = Lobby] = net
<1>1. Aligned(net, view[c], inbox[c]) BY DEF Orderly, Follows
<1>2. ~ (view[c] = net /\ inbox[c] \in Seq(Chatter(net))) BY ChatterType, HeadTailProperties
<1>3. \A d : JoinedMsg(d).type = "user_joined" /\ JoinedMsg(d).id = d BY DEF JoinedMsg
<1> QED BY <1>1, <1>2, <1>3 DEF Aligned
-----------------------------------------------------------------------------
\* While nothing of the server's changes, a commit that adds keys and questions keeps
\* everybody's news in front, if it does so for the session itself.
LEMMA CommitOrderly ==
  ASSUME IInv, Orderly, NEW c \in Session, NEW M, NEW t, NEW popped \in BOOLEAN,
         Commit(c, M, t, popped), net' = net, phase[c] \in {"hello", "ready"}, phase'[c] = "ready",
         \A d \in Session \ {c} : phase'[d] = phase[d] /\ view'[d] = view[d],
         \A d \in Session : M.out[d] \in Seq(Chatter(net)),
         popped => inbox[c] # <<>>,
         Aligned(net, view'[c], IF popped THEN Tail(inbox[c]) ELSE inbox[c])
  PROVE  Orderly'
<1>3. ASSUME NEW d \in Session
      PROVE  inbox'[d] = LET kept == IF d = c /\ popped THEN Tail(inbox[d]) ELSE inbox[d]
                         IN  IF Online(d) THEN kept \o M.out[d] ELSE kept
    BY DEF Commit
<1>4. ASSUME NEW d \in Session PROVE Online(d)' <=> Online(d)
    BY DEF Online
<1>5. \A d \in Session : M.out[d] \in Seq(Message) BY ChatterType, SeqMonotonic
<1>6. ASSUME NEW d \in Session, d # c PROVE Follows(d)'
  <2>1. inbox'[d] = IF Online(d) THEN inbox[d] \o M.out[d] ELSE inbox[d] BY <1>3, <1>6
  <2>2. phase'[d] = phase[d] /\ view'[d] = view[d] /\ Follows(d) BY <1>6 DEF Orderly
  <2>3. inbox[d] \in Seq(Message) BY DEF IInv, TypeOK
  <2>4. phase'[d] = "ready" => Aligned(net, view'[d], inbox'[d])
    <3> SUFFICES ASSUME phase[d] = "ready" PROVE Aligned(net, view'[d], inbox'[d]) BY <2>2
    <3>1. inbox'[d] = inbox[d] \o M.out[d] BY <2>1 DEF Online
    <3> QED BY <2>2, <2>3, <3>1, AlignedGrows DEF Follows
  <2>5. phase'[d] = "hello" =>
          inbox'[d] # <<>> /\ Head(inbox'[d]) = WelcomeMsg(net) /\ Tail(inbox'[d]) \in Seq(Chatter(net))
    <3> SUFFICES ASSUME phase[d] = "hello"
                 PROVE  /\ inbox'[d] # <<>> /\ Head(inbox'[d]) = WelcomeMsg(net)
                        /\ Tail(inbox'[d]) \in Seq(Chatter(net))
        BY <2>2
    <3>1. inbox'[d] = inbox[d] \o M.out[d] BY <2>1 DEF Online
    <3>2. inbox[d] # <<>> /\ Head(inbox[d]) = WelcomeMsg(net) /\ Tail(inbox[d]) \in Seq(Chatter(net))
        BY <2>2 DEF Follows
    <3>3. M.out[d] \in Seq(Message) BY <1>5
    <3>4. /\ inbox[d] \o M.out[d] # <<>> /\ Head(inbox[d] \o M.out[d]) = Head(inbox[d])
          /\ Tail(inbox[d] \o M.out[d]) = Tail(inbox[d]) \o M.out[d]
        BY <2>3, <3>2, <3>3, HeadTailConcat
    <3> QED BY <3>1, <3>2, <3>4, ConcatProperties
  <2>6. ~ Online(d)' => inbox'[d] = <<>> BY <1>4, <2>1, <2>2 DEF Follows
  <2> QED BY <2>4, <2>5, <2>6 DEF Follows
<1>7. Follows(c)'
  <2> DEFINE kept == IF popped THEN Tail(inbox[c]) ELSE inbox[c]
  <2>1. inbox'[c] = kept \o M.out[c] BY <1>3 DEF Online
  <2>2. kept \in Seq(Message)
    <3>1. inbox[c] \in Seq(Message) BY DEF IInv, TypeOK
    <3> QED BY <3>1, HeadTailProperties
  <2>3. Aligned(net, view'[c], kept) OBVIOUS
  <2> HIDE DEF kept
  <2>4. Aligned(net, view'[c], inbox'[c]) BY <2>1, <2>2, <2>3, AlignedGrows
  <2> QED BY <2>4 DEF Follows, Online
<1> QED BY <1>4, <1>6, <1>7 DEF Orderly

-----------------------------------------------------------------------------
(* What a handler's operators tell and guard, while the session knows what the
   server knows, n.  Tells says that whoever passes on a key for a component tells
   every member of it; Guards that a key minted for the members of a component goes
   to them and to the trusted sessions T, the whisper targets, only. *)

Parts(n) == {ComponentOf(n, ch) : ch \in n.chans}

Holds(q, m) == \E i \in 1..Len(q) : q[i] = m

\* The key last passed on for component C has reached c, who passes it on, unless it
\* declined it, and is on its way to the other members.
Told(n, c, M, C) ==
    \E k \in Key, e \in Epoch :
        /\ MintedIn(M.minted, k, e)
        /\ \A s \in C : M.passed[s] = k
        /\ k \in M.declined \/ \A s \in C : M.epochs[s] >= e
        /\ \A d \in Session \ {c} : n.where[d] \in C => Holds(M.out[d], KeyMsg(C, k, e))

Tells(n, c, L, M) ==
    /\ \A d \in Session : \E x \in Seq(Chatter(n)) : M.out[d] = L.out[d] \o x
    /\ Extends(L.minted, M.minted)
    /\ L.declined \subseteq M.declined
    /\ \A s \in {0} \cup n.chans : M.epochs[s] >= L.epochs[s]
    /\ \A C \in Parts(n) : (\A s \in C : M.passed[s] = L.passed[s]) \/ Told(n, c, M, C)

Entrusted(n, T, d, C) == n.where[d] \in C \/ d \in T

\* Key k is stored for scopes of C, and sent for C, by and to the members and the trusted.
Kept(n, T, c, L, C, k) ==
    /\ \A s \in Scope : L.keys[s] = k => s \in C /\ Entrusted(n, T, c, C)
    /\ \A d \in Session : \A i \in 1..Len(L.out[d]) :
          L.out[d][i].type = "e2e_key" /\ L.out[d][i].key = k =>
              L.out[d][i].comp = C /\ Entrusted(n, T, d, C)

Recorded(M, k) == k \in Key /\ k.n \in 1..Len(M[k.by])

\* c mints key k between L and M.
Mints(c, L, M, k) == Recorded(M.minted, k) /\ k.by = c /\ k.n > Len(L.minted[c])

Guards(n, T, c, L, M) ==
    \A s \in n.chans :
        LET C == ComponentOf(n, s)
            k == M.fresh[s]
        IN  \/ k = NoKey
            \/ Mints(c, L, M, k) /\ Kept(n, T, c, M, C, k)
            \/ /\ k = L.fresh[s]
               /\ Recorded(L.minted, k) /\ Kept(n, T, c, L, C, k) => Kept(n, T, c, M, C, k)

Serves(n, T, c, L, M) == Good(M) /\ Tells(n, c, L, M) /\ Guards(n, T, c, L, M)

\* A component is a set of channels of the view.
LEMMA PartType ==
  ASSUME NEW n \in View, NEW C \in Parts(n)
  PROVE  C \in SUBSET Channel /\ C \subseteq n.chans /\ C \in SUBSET Scope /\ C # {} /\ 0 \notin C
<1>1. PICK ch \in n.chans : C = ComponentOf(n, ch) BY DEF Parts
<1>2. C \in SUBSET Channel /\ C \subseteq n.chans /\ C # {}
    BY <1>1, ComponentType, ComponentWithin, ComponentSelf
<1> QED BY <1>2, ChannelAssumption DEF Scope

\* Two components that share a channel are one.
LEMMA PartOf ==
  ASSUME NEW n \in View, NEW C \in Parts(n), NEW s \in C
  PROVE  s \in n.chans /\ C = ComponentOf(n, s)
<1>1. PICK ch \in n.chans : C = ComponentOf(n, ch) BY DEF Parts
<1> QED BY <1>1, ComponentSame, ComponentWithin

\* What a queue holds it holds when it has grown.
LEMMA HoldsOn ==
  ASSUME NEW q \in Seq(Message), NEW r \in Seq(Message), NEW m, Holds(q, m)
  PROVE  Holds(q \o r, m)
BY ConcatHolds DEF Holds

\* Once told, a component stays told.
LEMMA ToldStays ==
  ASSUME NEW n \in View, NEW c \in Session, NEW L, NEW M, Good(L), Good(M), Tells(n, c, L, M),
         NEW C \in Parts(n), Told(n, c, L, C)
  PROVE  Told(n, c, M, C)
<1> SUFFICES ASSUME \A s \in C : M.passed[s] = L.passed[s] PROVE Told(n, c, M, C) BY DEF Tells
<1>1. L \in LocalType /\ M \in LocalType BY DEF Good
<1>2. PICK k \in Key, e \in Epoch :
        /\ MintedIn(L.minted, k, e)
        /\ \A s \in C : L.passed[s] = k
        /\ k \in L.declined \/ \A s \in C : L.epochs[s] >= e
        /\ \A d \in Session \ {c} : n.where[d] \in C => Holds(L.out[d], KeyMsg(C, k, e))
    BY DEF Told
<1>3. MintedIn(M.minted, k, e)
  <2>1. L.minted \in [Session -> Seq(Epoch)] /\ M.minted \in [Session -> Seq(Epoch)]
      BY <1>1 DEF LocalType
  <2> QED BY <1>2, <2>1, ExtendsConfirms DEF Tells
<1>4. \A s \in C : M.passed[s] = k BY <1>2
<1>5. k \in M.declined \/ \A s \in C : M.epochs[s] >= e
  <2>1. CASE k \in L.declined BY <2>1 DEF Tells
  <2>2. CASE \A s \in C : L.epochs[s] >= e
    <3>1. C \subseteq n.chans /\ C \in SUBSET Scope BY PartType
    <3>2. \A s \in C : M.epochs[s] >= L.epochs[s] BY <3>1 DEF Tells
    <3>3. \A s \in C : M.epochs[s] \in Nat /\ L.epochs[s] \in Nat BY <1>1, <3>1 DEF LocalType
    <3>4. e \in Nat BY DEF Epoch
    <3> QED BY <2>2, <3>2, <3>3, <3>4
  <2> QED BY <1>2, <2>1, <2>2
<1>6. ASSUME NEW d \in Session \ {c}, n.where[d] \in C PROVE Holds(M.out[d], KeyMsg(C, k, e))
  <2>1. PICK x \in Seq(Chatter(n)) : M.out[d] = L.out[d] \o x BY DEF Tells
  <2>2. x \in Seq(Message) BY ChatterType, SeqMonotonic
  <2>3. L.out[d] \in Seq(Message) BY <1>1 DEF LocalType
  <2> QED BY <1>2, <1>6, <2>1, <2>2, <2>3, HoldsOn
<1> QED BY <1>3, <1>4, <1>5, <1>6 DEF Told

\* Operators that tell chain.
LEMMA TellsTransitive ==
  ASSUME NEW n \in View, NEW c \in Session, NEW L, NEW M, NEW N, Good(L), Good(M), Good(N),
         Tells(n, c, L, M), Tells(n, c, M, N)
  PROVE  Tells(n, c, L, N)
<1>1. L \in LocalType /\ M \in LocalType /\ N \in LocalType BY DEF Good
<1>2. ASSUME NEW d \in Session PROVE \E x \in Seq(Chatter(n)) : N.out[d] = L.out[d] \o x
  <2>1. PICK x \in Seq(Chatter(n)) : M.out[d] = L.out[d] \o x BY DEF Tells
  <2>2. PICK y \in Seq(Chatter(n)) : N.out[d] = M.out[d] \o y BY DEF Tells
  <2>3. x \in Seq(Message) /\ y \in Seq(Message) /\ L.out[d] \in Seq(Message)
      BY <1>1, ChatterType, SeqMonotonic DEF LocalType
  <2>4. (L.out[d] \o x) \o y = L.out[d] \o (x \o y)
    <3>1. \A q, r, t \in Seq(Message) : (q \o r) \o t = q \o (r \o t) BY ConcatAssociative
    <3> QED BY <2>3, <3>1, Zenon
  <2>5. x \o y \in Seq(Chatter(n)) BY ConcatProperties
  <2> QED BY <2>1, <2>2, <2>4, <2>5
<1>3. Extends(L.minted, N.minted)
  <2>1. /\ L.minted \in [Session -> Seq(Epoch)] /\ M.minted \in [Session -> Seq(Epoch)]
        /\ N.minted \in [Session -> Seq(Epoch)]
      BY <1>1 DEF LocalType
  <2> QED BY <2>1, ExtendsTransitive DEF Tells
<1>4. L.declined \subseteq N.declined BY DEF Tells
<1>5. ASSUME NEW s \in {0} \cup n.chans PROVE N.epochs[s] >= L.epochs[s]
  <2>1. s \in Scope BY DEF Scope, View
  <2>2. L.epochs[s] \in Nat /\ M.epochs[s] \in Nat /\ N.epochs[s] \in Nat
      BY <1>1, <2>1 DEF LocalType
  <2>3. M.epochs[s] >= L.epochs[s] /\ N.epochs[s] >= M.epochs[s] BY DEF Tells
  <2> QED BY <2>2, <2>3
<1>6. ASSUME NEW C \in Parts(n)
      PROVE  (\A s \in C : N.passed[s] = L.passed[s]) \/ Told(n, c, N, C)
  <2>1. CASE Told(n, c, N, C) BY <2>1
  <2>2. CASE \A s \in C : N.passed[s] = M.passed[s]
    <3>1. CASE \A s \in C : M.passed[s] = L.passed[s] BY <2>2, <3>1
    <3>2. CASE Told(n, c, M, C) BY <3>2, ToldStays
    <3> QED BY <3>1, <3>2 DEF Tells
  <2> QED BY <2>1, <2>2 DEF Tells
<1> QED BY <1>2, <1>3, <1>4, <1>5, <1>6 DEF Tells

\* Operators that guard chain.
LEMMA GuardsTransitive ==
  ASSUME NEW n \in View, NEW T, NEW c \in Session, NEW L, NEW M, NEW N,
         Good(L), Good(M), Good(N), Extends(L.minted, M.minted), Extends(M.minted, N.minted),
         Guards(n, T, c, L, M), Guards(n, T, c, M, N)
  PROVE  Guards(n, T, c, L, N)
<1>1. L \in LocalType /\ M \in LocalType /\ N \in LocalType BY DEF Good
<1>2. \A d \in Session : /\ Len(L.minted[d]) \in Nat /\ Len(M.minted[d]) \in Nat
                         /\ Len(N.minted[d]) \in Nat /\ Len(L.minted[d]) <= Len(M.minted[d])
                         /\ Len(M.minted[d]) <= Len(N.minted[d])
    BY <1>1 DEF LocalType, Extends
<1>3. \A k \in Key : k.by \in Session /\ k.n \in Nat BY DEF Key
<1>4. \A k : Recorded(L.minted, k) => Recorded(M.minted, k) BY <1>2, <1>3 DEF Recorded
<1>5. \A k : Recorded(M.minted, k) => Recorded(N.minted, k) BY <1>2, <1>3 DEF Recorded
<1>6. \A k : Mints(c, L, M, k) => Mints(c, L, N, k) BY <1>5 DEF Mints
<1>7. \A k : Mints(c, M, N, k) => Mints(c, L, N, k)
  <2> SUFFICES ASSUME NEW k, Mints(c, M, N, k) PROVE k.n > Len(L.minted[c]) BY DEF Mints
  <2>1. k.n \in Nat /\ k.n > Len(M.minted[c]) BY <1>3 DEF Mints, Recorded
  <2> QED BY <1>2, <2>1
<1> SUFFICES ASSUME NEW s \in n.chans
             PROVE  LET C == ComponentOf(n, s)
                        k == N.fresh[s]
                    IN  \/ k = NoKey
                        \/ Mints(c, L, N, k) /\ Kept(n, T, c, N, C, k)
                        \/ /\ k = L.fresh[s]
                           /\ Recorded(L.minted, k) /\ Kept(n, T, c, L, C, k)
                                => Kept(n, T, c, N, C, k)
    BY DEF Guards
<1> DEFINE C == ComponentOf(n, s)
           k == N.fresh[s]
<1>8. \/ k = NoKey
      \/ Mints(c, M, N, k) /\ Kept(n, T, c, N, C, k)
      \/ /\ k = M.fresh[s]
         /\ Recorded(M.minted, k) /\ Kept(n, T, c, M, C, k) => Kept(n, T, c, N, C, k)
    BY DEF Guards
<1>9. \/ M.fresh[s] = NoKey
      \/ Mints(c, L, M, M.fresh[s]) /\ Kept(n, T, c, M, C, M.fresh[s])
      \/ /\ M.fresh[s] = L.fresh[s]
         /\ Recorded(L.minted, M.fresh[s]) /\ Kept(n, T, c, L, C, M.fresh[s])
              => Kept(n, T, c, M, C, M.fresh[s])
    BY DEF Guards
<1> HIDE DEF C, k
<1>10. \A x : Mints(c, L, M, x) => Recorded(M.minted, x) BY DEF Mints
<1> QED BY <1>4, <1>6, <1>7, <1>8, <1>9, <1>10 DEF C, k

\* A record serves as itself.
LEMMA ServesReflexive ==
  ASSUME NEW n \in View, NEW T, NEW c \in Session, NEW L, Good(L)
  PROVE  Serves(n, T, c, L, L)
<1>1. L \in LocalType BY DEF Good
<1>2. ASSUME NEW d \in Session PROVE \E x \in Seq(Chatter(n)) : L.out[d] = L.out[d] \o x
  <2>1. <<>> \in Seq(Chatter(n)) OBVIOUS
  <2>2. L.out[d] = L.out[d] \o <<>> BY <1>1, ConcatEmptySeq DEF LocalType
  <2> QED BY <2>1, <2>2
<1>3. Extends(L.minted, L.minted) BY LeadsReflexive DEF Leads, Climbs
<1>4. \A s \in {0} \cup n.chans : L.epochs[s] >= L.epochs[s]
  <2>1. \A s \in {0} \cup n.chans : L.epochs[s] \in Nat BY <1>1 DEF LocalType, Scope, View
  <2> QED BY <2>1
<1>5. Tells(n, c, L, L) BY <1>2, <1>3, <1>4 DEF Tells
<1>6. Guards(n, T, c, L, L) BY DEF Guards
<1> QED BY <1>5, <1>6 DEF Serves

\* Operators that serve chain.
LEMMA ServesTransitive ==
  ASSUME NEW n \in View, NEW T, NEW c \in Session, NEW L, NEW M, NEW N, Good(L),
         Serves(n, T, c, L, M), Serves(n, T, c, M, N)
  PROVE  Serves(n, T, c, L, N)
<1>1. Good(M) /\ Good(N) /\ Tells(n, c, L, M) /\ Tells(n, c, M, N) BY DEF Serves
<1>2. Tells(n, c, L, N) BY <1>1, TellsTransitive
<1>3. Guards(n, T, c, L, N)
  <2>1. Extends(L.minted, M.minted) /\ Extends(M.minted, N.minted) BY <1>1 DEF Tells
  <2> QED BY <1>1, <2>1, GuardsTransitive DEF Serves
<1> QED BY <1>1, <1>2, <1>3 DEF Serves

-----------------------------------------------------------------------------
(* The operators serve. *)

\* Some of the fields of a record are those of another.
SameTables(L, M) ==
    /\ M.keys = L.keys /\ M.epochs = L.epochs /\ M.minted = L.minted
    /\ M.fresh = L.fresh

\* The messages x, sent to d, give away no key that record L keeps for a component.
Discreet(n, T, c, L, d, x) ==
    \A s \in n.chans : \A i \in 1..Len(x) :
        /\ x[i].type = "e2e_key" /\ x[i].key = L.fresh[s]
        /\ Kept(n, T, c, L, ComponentOf(n, s), L.fresh[s])
        => x[i].comp = ComponentOf(n, s) /\ Entrusted(n, T, d, ComponentOf(n, s))

\* From L to M only such messages are added.
Sends(n, T, c, L, M) ==
    \A d \in Session : \E x \in Seq(Chatter(n)) :
        M.out[d] = L.out[d] \o x /\ Discreet(n, T, c, L, d, x)

\* A key of component comp may go to the targets.
MayGo(n, T, c, L, targets, comp, k) ==
    \A s \in n.chans :
        k = L.fresh[s] /\ Kept(n, T, c, L, ComponentOf(n, s), k)
        => comp = ComponentOf(n, s) /\ \A d \in targets : Entrusted(n, T, d, comp)

PassesOn(n, c, L, M) ==
    /\ L.declined \subseteq M.declined
    /\ \A C \in Parts(n) : (\A s \in C : M.passed[s] = L.passed[s]) \/ Told(n, c, M, C)

\* What only adds keys and questions to the envelopes of a record tells, if what it
\* passes on is told.
LEMMA SendTells ==
  ASSUME NEW n \in View, NEW c \in Session, NEW L, NEW M, Good(L), Good(M),
         SameTables(L, M), PassesOn(n, c, L, M),
         \A d \in Session : \E x \in Seq(Chatter(n)) : M.out[d] = L.out[d] \o x
  PROVE  Tells(n, c, L, M)
<1>1. Extends(L.minted, M.minted) BY LeadsReflexive DEF Leads, Climbs, SameTables
<1>2. \A s \in {0} \cup n.chans : M.epochs[s] >= L.epochs[s]
  <2>1. \A s \in {0} \cup n.chans : L.epochs[s] \in Nat BY DEF Good, LocalType, Scope, View
  <2>2. M.epochs = L.epochs BY DEF SameTables
  <2> QED BY <2>1, <2>2
<1> QED BY <1>1, <1>2 DEF Tells, PassesOn

\* What only adds to the envelopes of a record, and to the histories of what was
\* passed on and declined, serves if each envelope does.
LEMMA SendServes ==
  ASSUME NEW n \in View, NEW T, NEW c \in Session, NEW L, NEW M, Good(L), Good(M),
         SameTables(L, M), PassesOn(n, c, L, M), Sends(n, T, c, L, M)
  PROVE  Serves(n, T, c, L, M)
<1>1. L \in LocalType /\ M \in LocalType BY DEF Good
<1>2. Tells(n, c, L, M)
  <2>1. \A d \in Session : \E x \in Seq(Chatter(n)) : M.out[d] = L.out[d] \o x BY DEF Sends
  <2> QED BY <2>1, SendTells
<1>3. ASSUME NEW s \in n.chans, Kept(n, T, c, L, ComponentOf(n, s), L.fresh[s])
      PROVE  Kept(n, T, c, M, ComponentOf(n, s), L.fresh[s])
  <2> DEFINE C == ComponentOf(n, s)
             k == L.fresh[s]
  <2>1. \A z \in Scope : M.keys[z] = k => z \in C /\ Entrusted(n, T, c, C)
      BY <1>3 DEF Kept, SameTables
  <2>2. ASSUME NEW d \in Session, NEW i \in 1..Len(M.out[d]), M.out[d][i].type = "e2e_key",
               M.out[d][i].key = k
        PROVE  M.out[d][i].comp = C /\ Entrusted(n, T, d, C)
    <3>1. PICK x \in Seq(Chatter(n)) :
            /\ M.out[d] = L.out[d] \o x
            /\ \A j \in 1..Len(x) : x[j].type = "e2e_key" /\ x[j].key = k
                 => x[j].comp = C /\ Entrusted(n, T, d, C)
        BY <1>3 DEF Sends, Discreet
    <3>2. x \in Seq(Message) BY ChatterType, SeqMonotonic
    <3>3. L.out[d] \in Seq(Message) BY <1>1 DEF LocalType
    <3>4. \/ \E j \in 1..Len(L.out[d]) : M.out[d][i] = L.out[d][j]
          \/ \E j \in 1..Len(x) : M.out[d][i] = x[j]
      <4> DEFINE q == L.out[d]
      <4>1. i \in 1..Len(q \o x) /\ M.out[d] = q \o x BY <2>2, <3>1
      <4>2. q \in Seq(Message) BY <3>3
      <4> HIDE DEF q
      <4>3. \/ \E j \in 1..Len(q) : (q \o x)[i] = q[j]
            \/ \E j \in 1..Len(x) : (q \o x)[i] = x[j]
          BY <3>2, <4>1, <4>2, ConcatHolds
      <4> QED BY <4>1, <4>3 DEF q
    <3>5. CASE \E j \in 1..Len(L.out[d]) : M.out[d][i] = L.out[d][j]
        BY <1>3, <2>2, <3>5 DEF Kept
    <3>6. CASE \E j \in 1..Len(x) : M.out[d][i] = x[j]
        BY <2>2, <3>1, <3>6
    <3> QED BY <3>4, <3>5, <3>6
  <2> HIDE DEF C, k
  <2>3. Kept(n, T, c, M, C, k) BY <2>1, <2>2 DEF Kept
  <2> QED BY <2>3 DEF C, k
<1>4. Guards(n, T, c, L, M) BY <1>3 DEF Guards, SameTables
<1> QED BY <1>2, <1>4 DEF Serves

\* An envelope is chatter.
LEMMA KeyIsChatter ==
  ASSUME NEW n, NEW comp \in SUBSET Scope, NEW k \in Key, NEW e \in Nat
  PROVE  KeyMsg(comp, k, e) \in Chatter(n)
BY DEF KeyMsg, Chatter

\* One message appended, or none.
LEMMA AppendedOrNot ==
  ASSUME NEW n, NEW q \in Seq(Message), NEW m \in Chatter(n)
  PROVE  /\ Append(q, m) = q \o <<m>> /\ <<m>> \in Seq(Chatter(n)) /\ Len(<<m>>) = 1 /\ <<m>>[1] = m
         /\ q = q \o <<>> /\ <<>> \in Seq(Chatter(n)) /\ Len(<<>>) = 0
         /\ Holds(Append(q, m), m)
<1>1. m \in Message BY ChatterType
<1>2. Append(q, m) = q \o <<m>> BY <1>1, AppendIsConcat
<1>3. q = q \o <<>> BY ConcatEmptySeq
<1>4. Holds(Append(q, m), m)
  <2>1. Len(Append(q, m)) = Len(q) + 1 /\ Append(q, m)[Len(q) + 1] = m /\ Len(q) \in Nat
      BY <1>1, AppendProperties
  <2> QED BY <2>1 DEF Holds
<1> QED BY <1>2, <1>3, <1>4

\* What Share leaves alone and what it sends.
Shared(c, v, L, targets, m, M) ==
    /\ SameTables(L, M) /\ M.passed = L.passed /\ M.declined = L.declined
    /\ \A d \in Session :
          /\ d \in targets /\ d # c /\ v.where[d] # Absent => M.out[d] = Append(L.out[d], m)
          /\ ~ (d \in targets /\ d # c /\ v.where[d] # Absent) => M.out[d] = L.out[d]

\* Share does so.
LEMMA ShareFields ==
  ASSUME NEW L \in LocalType, NEW c \in Session, NEW v \in View, NEW targets,
         NEW comp \in SUBSET Scope, NEW k \in Key, NEW e \in Nat,
         NEW M, M = Share(c, v, L, targets, comp, k, e)
  PROVE  Shared(c, v, L, targets, KeyMsg(comp, k, e), M)
<1> DEFINE out == [d \in Session |-> IF d \in targets /\ d # c /\ v.where[d] # Absent
                     THEN Append(L.out[d], KeyMsg(comp, k, e)) ELSE L.out[d]]
<1>1. M = [L EXCEPT !.out = out] BY DEF Share
<1>2. \A d \in Session : out[d] = IF d \in targets /\ d # c /\ v.where[d] # Absent
                                  THEN Append(L.out[d], KeyMsg(comp, k, e)) ELSE L.out[d]
    OBVIOUS
<1> HIDE DEF out
<1> QED BY <1>1, <1>2 DEF LocalType, SameTables, Shared

\* What is shared where it may go gives nothing away, and the targets get it.
LEMMA SharedSends ==
  ASSUME NEW n \in View, NEW T, NEW c \in Session, NEW v \in View, NEW L \in LocalType, NEW targets,
         NEW comp \in SUBSET Scope, NEW k \in Key, NEW e \in Nat, MayGo(n, T, c, L, targets, comp, k),
         NEW M, Shared(c, v, L, targets, KeyMsg(comp, k, e), M)
  PROVE  /\ Sends(n, T, c, L, M)
         /\ \A d \in Session \ {c} :
              d \in targets /\ v.where[d] # Absent => Holds(M.out[d], KeyMsg(comp, k, e))
<1>1. \A d \in Session :
        /\ d \in targets /\ d # c /\ v.where[d] # Absent
             => M.out[d] = Append(L.out[d], KeyMsg(comp, k, e))
        /\ ~ (d \in targets /\ d # c /\ v.where[d] # Absent) => M.out[d] = L.out[d]
    BY DEF Shared
<1>2. KeyMsg(comp, k, e) \in Chatter(n) BY KeyIsChatter
<1>3. \A d \in Session : L.out[d] \in Seq(Message) BY DEF LocalType
<1>4. ASSUME NEW d \in Session
      PROVE  \E x \in Seq(Chatter(n)) : M.out[d] = L.out[d] \o x /\ Discreet(n, T, c, L, d, x)
  <2>1. CASE d \in targets /\ d # c /\ v.where[d] # Absent
    <3> DEFINE x == <<KeyMsg(comp, k, e)>>
    <3>1. M.out[d] = L.out[d] \o x /\ x \in Seq(Chatter(n)) BY <1>1, <1>2, <1>3, <2>1, AppendedOrNot
    <3>2. Len(x) = 1 /\ x[1].key = k /\ x[1].comp = comp BY DEF KeyMsg
    <3> HIDE DEF x
    <3>3. ASSUME NEW s \in n.chans, NEW i \in 1..Len(x), x[i].key = L.fresh[s],
                 Kept(n, T, c, L, ComponentOf(n, s), L.fresh[s])
          PROVE  x[i].comp = ComponentOf(n, s) /\ Entrusted(n, T, d, ComponentOf(n, s))
      <4>1. i = 1 BY <3>2
      <4>2. k = L.fresh[s] BY <3>2, <3>3, <4>1
      <4> QED BY <2>1, <3>2, <3>3, <4>1, <4>2 DEF MayGo
    <3> QED BY <3>1, <3>3 DEF Discreet
  <2>2. CASE ~ (d \in targets /\ d # c /\ v.where[d] # Absent)
    <3>1. M.out[d] = L.out[d] \o <<>> /\ <<>> \in Seq(Chatter(n)) /\ Len(<<>>) = 0
        BY <1>1, <1>2, <1>3, <2>2, AppendedOrNot
    <3>2. Discreet(n, T, c, L, d, <<>>) BY DEF Discreet
    <3> QED BY <3>1, <3>2
  <2> QED BY <2>1, <2>2
<1>5. Sends(n, T, c, L, M) BY <1>4 DEF Sends
<1>6. ASSUME NEW d \in Session \ {c}, d \in targets, v.where[d] # Absent
      PROVE  Holds(M.out[d], KeyMsg(comp, k, e))
  <2> DEFINE m == KeyMsg(comp, k, e)
             q == L.out[d]
  <2>1. M.out[d] = Append(q, m) BY <1>1, <1>6
  <2>2. q \in Seq(Message) /\ m \in Chatter(n) BY <1>2, <1>3
  <2> HIDE DEF m, q
  <2>3. Holds(Append(q, m), m) BY <2>2, AppendedOrNot
  <2> QED BY <2>1, <2>3 DEF m
<1> QED BY <1>5, <1>6

\* e2eeShareKeyWith serves where the key may go.
LEMMA ShareServes ==
  ASSUME NEW n \in View, NEW T, NEW c \in Session, NEW v \in View, NEW L, Good(L), NEW targets,
         NEW comp \in SUBSET Scope, NEW k \in Key, NEW e \in Nat, MintedIn(L.minted, k, e),
         MayGo(n, T, c, L, targets, comp, k),
         NEW M, M = Share(c, v, L, targets, comp, k, e)
  PROVE  Serves(n, T, c, L, M) /\ Shared(c, v, L, targets, KeyMsg(comp, k, e), M)
<1>1. L \in LocalType BY DEF Good
<1>2. Shared(c, v, L, targets, KeyMsg(comp, k, e), M) BY <1>1, ShareFields
<1>3. Good(M) BY ShareLeads DEF Leads
<1>4. Sends(n, T, c, L, M) BY <1>1, <1>2, SharedSends
<1>5. PassesOn(n, c, L, M) /\ SameTables(L, M) BY <1>2 DEF Shared, PassesOn
<1> QED BY <1>2, <1>3, <1>4, <1>5, SendServes

-----------------------------------------------------------------------------
\* What e2eeDistributeWhisperKey leaves alone ...
Quietly(L, M) == SameTables(L, M) /\ M.passed = L.passed /\ M.declined = L.declined

\* ... and what it sends: the key of the client's channel, to some of the targets.
Whispers(c, v, W, L, M) ==
    LET here == v.where[c]
    IN  /\ Quietly(L, M)
        /\ \A d \in Session :
              \/ M.out[d] = L.out[d]
              \/ /\ d \in W /\ here \in Channel /\ L.keys[here] # NoKey
                 /\ M.out[d] = Append(L.out[d], KeyMsg(ComponentOf(v, here), L.keys[here], L.epochs[here]))

\* It does so.
LEMMA ShareWhisperFields ==
  ASSUME NEW c \in Session, NEW v \in View, NEW W, NEW L, Good(L),
         NEW M, M = ShareWhisper(c, v, W, L)
  PROVE  Good(M) /\ Whispers(c, v, W, L, M)
<1> DEFINE here == v.where[c]
           comp == ComponentOf(v, here)
           R == [L EXCEPT !.rewrap = FALSE]
           outside == W \ MembersOf(v, comp)
<1>1. CASE W = {} \/ here \notin Channel \/ L.keys[here] = NoKey
  <2>1. M = L BY <1>1 DEF ShareWhisper
  <2> QED BY <2>1 DEF Whispers, Quietly, SameTables
<1>2. CASE ~ (W = {} \/ here \notin Channel \/ L.keys[here] = NoKey)
  <2>1. here \in Scope BY <1>2 DEF Scope
  <2>2. L \in LocalType BY DEF Good
  <2>3. Good(R) BY RewrapLeads DEF Leads
  <2>4. R.out = L.out /\ Quietly(L, R) BY <2>2 DEF LocalType, Quietly, SameTables
  <2>5. L.keys[here] \in Key /\ L.epochs[here] \in Nat BY <1>2, <2>1, StoredKey
  <2>6. comp \in SUBSET Scope BY ComponentType DEF Scope
  <2>7. M = Share(c, v, R, outside, comp, L.keys[here], L.epochs[here])
      BY <1>2 DEF ShareWhisper
  <2>8. Shared(c, v, R, outside, KeyMsg(comp, L.keys[here], L.epochs[here]), M)
    <3> HIDE DEF outside, comp, here, R
    <3>1. R \in LocalType BY <2>3 DEF Good
    <3> QED BY <2>5, <2>6, <2>7, <3>1, ShareFields
  <2> HIDE DEF R
  <2>9. Quietly(L, M) BY <2>4, <2>8 DEF Shared, Quietly, SameTables
  <2>10. ASSUME NEW d \in Session
         PROVE  \/ M.out[d] = L.out[d]
                \/ /\ d \in W
                   /\ M.out[d] = Append(L.out[d], KeyMsg(comp, L.keys[here], L.epochs[here]))
    <3> HIDE DEF comp, here
    <3> QED BY <2>4, <2>8 DEF Shared
  <2>11. Whispers(c, v, W, L, M) BY <1>2, <2>9, <2>10 DEF Whispers
  <2>12. Good(M) BY ShareWhisperLeads DEF Leads
  <2> QED BY <2>11, <2>12
<1> QED BY <1>1, <1>2

\* e2eeDistributeWhisperKey sends envelopes, and passes nothing on to the members.
LEMMA ShareWhisperTells ==
  ASSUME NEW n \in View, NEW c \in Session, NEW v \in View, NEW W, NEW L, Good(L),
         NEW M, Good(M), Whispers(c, v, W, L, M)
  PROVE  Tells(n, c, L, M)
<1> DEFINE here == v.where[c]
           comp == ComponentOf(v, here)
           m == KeyMsg(comp, L.keys[here], L.epochs[here])
<1>1. ASSUME NEW d \in Session PROVE \E x \in Seq(Chatter(n)) : M.out[d] = L.out[d] \o x
  <2>1. L.out[d] \in Seq(Message) BY DEF Good, LocalType
  <2>2. CASE M.out[d] = L.out[d]
    <3>1. M.out[d] = L.out[d] \o <<>> /\ <<>> \in Seq(Chatter(n)) BY <2>1, <2>2, ConcatEmptySeq
    <3> QED BY <3>1
  <2>3. CASE here \in Channel /\ L.keys[here] # NoKey /\ M.out[d] = Append(L.out[d], m)
    <3>1. here \in Scope BY <2>3 DEF Scope
    <3>2. L.keys[here] \in Key /\ L.epochs[here] \in Nat BY <2>3, <3>1, StoredKey
    <3>3. comp \in SUBSET Scope BY ComponentType DEF Scope
    <3>4. m \in Chatter(n)
      <4> HIDE DEF comp, here
      <4> QED BY <3>2, <3>3, KeyIsChatter
    <3> HIDE DEF m
    <3>5. Append(L.out[d], m) = L.out[d] \o <<m>> /\ <<m>> \in Seq(Chatter(n))
        BY <2>1, <3>4, AppendedOrNot, ZenonT(60)
    <3> QED BY <2>3, <3>5
  <2> QED BY <2>2, <2>3 DEF Whispers
<1>2. SameTables(L, M) /\ PassesOn(n, c, L, M) BY DEF Whispers, Quietly, PassesOn
<1> QED BY <1>1, <1>2, SendTells

\* It spreads a key within its component and to the targets only, where the view of
\* the client shows the component of that key.
LEMMA ShareWhisperKeeps ==
  ASSUME NEW n, NEW T, NEW c \in Session, NEW v \in View, NEW W \in SUBSET T,
         NEW L, Good(L), NEW M, Good(M), Whispers(c, v, W, L, M),
         NEW C, NEW k, Kept(n, T, c, L, C, k),
         v.where[c] \in Channel /\ L.keys[v.where[c]] = k => ComponentOf(v, v.where[c]) = C
  PROVE  Kept(n, T, c, M, C, k)
<1> DEFINE here == v.where[c]
           comp == ComponentOf(v, here)
           m == KeyMsg(comp, L.keys[here], L.epochs[here])
<1>1. M.keys = L.keys BY DEF Whispers, Quietly, SameTables
<1>2. ASSUME NEW d \in Session, NEW i \in 1..Len(M.out[d]), M.out[d][i].type = "e2e_key",
             M.out[d][i].key = k
      PROVE  M.out[d][i].comp = C /\ Entrusted(n, T, d, C)
  <2>1. CASE M.out[d] = L.out[d] BY <1>2, <2>1 DEF Kept
  <2>2. CASE d \in W /\ here \in Channel /\ M.out[d] = Append(L.out[d], m)
    <3>1. L.out[d] \in Seq(Message) /\ M.out[d] \in Seq(Message) BY DEF Good, LocalType
    <3>2. m.key = L.keys[here] /\ m.comp = comp BY DEF KeyMsg
    <3> HIDE DEF m
    <3>3. (i \in 1..Len(L.out[d]) /\ M.out[d][i] = L.out[d][i]) \/ M.out[d][i] = m
      <4>1. i \in 1..Len(L.out[d]) + 1 BY <1>2, <2>2, <3>1
      <4>2. CASE i = Len(L.out[d]) + 1 BY <2>2, <3>1, <4>2
      <4>3. CASE i # Len(L.out[d]) + 1 BY <2>2, <3>1, <4>1, <4>3
      <4> QED BY <4>2, <4>3
    <3>4. CASE i \in 1..Len(L.out[d]) /\ M.out[d][i] = L.out[d][i] BY <1>2, <3>4 DEF Kept
    <3>5. CASE M.out[d][i] = m
      <4>1. L.keys[here] = k BY <1>2, <3>2, <3>5
      <4>2. comp = C BY <2>2, <4>1
      <4> QED BY <2>2, <3>2, <3>5, <4>2 DEF Entrusted
    <3> QED BY <3>3, <3>4, <3>5
  <2> QED BY <2>1, <2>2 DEF Whispers
<1> QED BY <1>1, <1>2 DEF Kept

\* A session that knows what the server knows serves by it.
LEMMA ShareWhisperServes ==
  ASSUME NEW n \in View, NEW T, NEW c \in Session, NEW W \in SUBSET T,
         NEW L, Good(L), NEW M, M = ShareWhisper(c, n, W, L)
  PROVE  Serves(n, T, c, L, M) /\ Quietly(L, M)
<1>1. Good(M) /\ Whispers(c, n, W, L, M) BY ShareWhisperFields
<1>2. Quietly(L, M) BY <1>1 DEF Whispers
<1>3. Tells(n, c, L, M) BY <1>1, ShareWhisperTells
<1>4. ASSUME NEW s \in n.chans, Kept(n, T, c, L, ComponentOf(n, s), L.fresh[s])
      PROVE  Kept(n, T, c, M, ComponentOf(n, s), L.fresh[s])
  <2> DEFINE C == ComponentOf(n, s)
             k == L.fresh[s]
  <2>1. ASSUME n.where[c] \in Channel, L.keys[n.where[c]] = k
        PROVE  ComponentOf(n, n.where[c]) = C
    <3>1. n.where[c] \in Scope BY <2>1 DEF Scope
    <3>2. n.where[c] \in C BY <1>4, <2>1, <3>1 DEF Kept
    <3> QED BY <3>2, ComponentSame
  <2> HIDE DEF C, k
  <2>2. Kept(n, T, c, L, C, k) BY <1>4 DEF C, k
  <2>3. Kept(n, T, c, M, C, k) BY <1>1, <2>1, <2>2, ShareWhisperKeeps
  <2> QED BY <2>3 DEF C, k
<1>5. Guards(n, T, c, L, M) BY <1>2, <1>4 DEF Guards, Quietly, SameTables
<1> QED BY <1>1, <1>2, <1>3, <1>5 DEF Serves

Renews(c, L, M, comp) == \A s \in comp : M.fresh[s] = NoKey \/ Mints(c, L, M, M.fresh[s])

\* The scopes that one key covers: the server's, or those of a component.
LEMMA CoversType ==
  ASSUME NEW n \in View, NEW comp \in Parts(n) \cup {{0}}
  PROVE  comp \in SUBSET Scope /\ comp # {} /\ (0 \in comp => comp = {0})
BY PartType DEF Scope

\* The tables of a record know no key that is not recorded.
LEMMA StrangeKey ==
  ASSUME NEW L, Good(L), NEW k, ~ Recorded(L.minted, k), k # NoKey
  PROVE  /\ \A s \in Scope : L.keys[s] # k
         /\ \A d \in Session : \A i \in 1..Len(L.out[d]) :
              ~ (L.out[d][i].type = "e2e_key" /\ L.out[d][i].key = k)
<1>1. L \in LocalType BY DEF Good
<1>2. ASSUME NEW s \in Scope, L.keys[s] = k PROVE FALSE
    BY <1>2, StoredKey DEF MintedIn, Recorded
<1>3. ASSUME NEW d \in Session, NEW i \in 1..Len(L.out[d]), L.out[d][i].type = "e2e_key",
             L.out[d][i].key = k
      PROVE  FALSE
  <2>1. L.out[d] \in Seq(Message) BY <1>1 DEF LocalType
  <2>2. L.out[d][i] \in Message BY <2>1, ElementOfSeq
  <2>3. k \in Key BY <1>3, <2>2, MessageFields
  <2>4. MintedIn(L.minted, k, L.out[d][i].epoch) BY <1>3 DEF Good, Truthful
  <2> QED BY <2>3, <2>4 DEF MintedIn, Recorded
<1> QED BY <1>2, <1>3

-----------------------------------------------------------------------------
\* What minting key k changes, and what it leaves alone.
Mintage(c, n, L, comp, k, M) ==
    /\ M.out = L.out /\ M.passed = L.passed /\ M.declined = L.declined
    /\ \A s \in comp : M.keys[s] = k /\ (M.fresh[s] = NoKey \/ (M.fresh[s] = k /\ c \in MembersOf(n, comp)))
    /\ \A s \in Scope \ comp : M.keys[s] = L.keys[s] /\ M.fresh[s] = L.fresh[s]
    /\ Mints(c, L, M, k) /\ ~ Recorded(L.minted, k)

\* Minting does so.
LEMMA MintFields ==
  ASSUME NEW L, Good(L), NEW c \in Session, NEW n \in View, NEW W,
         NEW comp \in SUBSET Scope, comp # {}, NEW clock \in Nat,
         NEW M, M = MintKey(c, n, W, L, comp, clock)
  PROVE  \E k \in Key : Mintage(c, n, L, comp, k, M)
<1> DEFINE e == MintEpoch(L, comp, clock)
           k == [by |-> c, n |-> Len(L.minted[c]) + 1]
<1>1. L \in LocalType BY DEF Good
<1>2. L.minted[c] \in Seq(Epoch) /\ Len(L.minted[c]) \in Nat BY <1>1 DEF LocalType
<1>3. k \in Key /\ k.by = c /\ k.n = Len(L.minted[c]) + 1 BY <1>2 DEF Key
<1>4. e \in Epoch
  <2>1. PICK s \in comp : TRUE OBVIOUS
  <2>2. L.epochs[s] \in Nat BY <1>1, <2>1 DEF LocalType
  <2>3. e \in Nat /\ e > L.epochs[s] BY <1>1, <2>1, MintEpochClimbs
  <2> HIDE DEF e
  <2> QED BY <2>2, <2>3 DEF Epoch
<1>5. /\ M.keys = [s \in Scope |-> IF s \in comp THEN k ELSE L.keys[s]]
      /\ M.fresh = [s \in Scope |-> IF s \notin comp THEN L.fresh[s]
                                    ELSE IF c \in MembersOf(n, comp) THEN k ELSE NoKey]
      /\ M.minted = [L.minted EXCEPT ![c] = Append(@, e)]
      /\ M.out = L.out /\ M.passed = L.passed /\ M.declined = L.declined
    BY DEF MintKey
<1> HIDE DEF k, e
<1>6. Len(M.minted[c]) = Len(L.minted[c]) + 1
  <2>1. M.minted[c] = Append(L.minted[c], e) BY <1>1, <1>5 DEF LocalType
  <2> QED BY <1>2, <1>4, <2>1
<1>7. Mints(c, L, M, k) BY <1>2, <1>3, <1>6 DEF Mints, Recorded
<1>8. ~ Recorded(L.minted, k) BY <1>2, <1>3 DEF Recorded
<1>9. /\ \A s \in comp : M.keys[s] = k /\ (M.fresh[s] = NoKey \/ (M.fresh[s] = k /\ c \in MembersOf(n, comp)))
      /\ \A s \in Scope \ comp : M.keys[s] = L.keys[s] /\ M.fresh[s] = L.fresh[s]
    BY <1>5
<1>10. Mintage(c, n, L, comp, k, M) BY <1>5, <1>7, <1>8, <1>9 DEF Mintage
<1> QED BY <1>3, <1>10

\* A key that is minted for a component is known there only; the keys that were
\* guarded are so still.
LEMMA MintGuards ==
  ASSUME NEW n \in View, NEW T, NEW c \in Session, NEW L, NEW M, Good(L), Good(M),
         NEW comp \in Parts(n) \cup {{0}}, NEW k \in Key, Mintage(c, n, L, comp, k, M)
  PROVE  Guards(n, T, c, L, M) /\ Renews(c, L, M, comp)
<1>1. comp \in SUBSET Scope /\ comp # {} /\ (0 \in comp => comp = {0}) BY CoversType
<1>2. k # NoKey BY NoKeyIsNone
<1>3. L \in LocalType /\ M \in LocalType BY DEF Good
<1>4. /\ \A z \in Scope : L.keys[z] # k
      /\ \A d \in Session : \A i \in 1..Len(L.out[d]) :
           ~ (L.out[d][i].type = "e2e_key" /\ L.out[d][i].key = k)
    BY <1>2, StrangeKey DEF Mintage
<1>5. Mints(c, L, M, k) /\ M.out = L.out BY DEF Mintage
<1>6. \A z \in Scope : M.keys[z] = IF z \in comp THEN k ELSE L.keys[z] BY DEF Mintage
<1>7. \A z \in comp : M.fresh[z] = NoKey \/ (M.fresh[z] = k /\ c \in MembersOf(n, comp)) BY DEF Mintage
<1>8. \A z \in Scope \ comp : M.fresh[z] = L.fresh[z] BY DEF Mintage
<1>9. ASSUME NEW s \in n.chans
      PROVE  \/ M.fresh[s] = NoKey
             \/ Mints(c, L, M, M.fresh[s]) /\ Kept(n, T, c, M, ComponentOf(n, s), M.fresh[s])
             \/ /\ M.fresh[s] = L.fresh[s]
                /\ Recorded(L.minted, M.fresh[s]) /\ Kept(n, T, c, L, ComponentOf(n, s), M.fresh[s])
                     => Kept(n, T, c, M, ComponentOf(n, s), M.fresh[s])
  <2> DEFINE C == ComponentOf(n, s)
             f == M.fresh[s]
  <2>1. s \in Scope /\ s # 0 BY ChannelAssumption DEF Scope, View
  <2> SUFFICES ASSUME f # NoKey
               PROVE  \/ Mints(c, L, M, f) /\ Kept(n, T, c, M, C, f)
                      \/ /\ f = L.fresh[s]
                         /\ Recorded(L.minted, f) /\ Kept(n, T, c, L, C, f) => Kept(n, T, c, M, C, f)
      OBVIOUS
  <2>2. CASE s \in comp
    <3>1. f = k /\ c \in MembersOf(n, comp) BY <1>7, <2>2
    <3>2. comp = C
      <4>1. comp \in Parts(n) BY <2>1, <2>2
      <4> QED BY <2>2, <4>1, PartOf
    <3>3. n.where[c] \in C
      <4>1. 0 \notin comp BY <1>1, <2>1, <2>2
      <4> QED BY <3>1, <3>2, <4>1 DEF MembersOf
    <3>4. Kept(n, T, c, M, C, k)
      <4>1. \A z \in Scope : M.keys[z] = k => z \in C /\ Entrusted(n, T, c, C)
          BY <1>4, <1>6, <3>2, <3>3 DEF Entrusted
      <4>2. \A d \in Session : \A i \in 1..Len(M.out[d]) :
              ~ (M.out[d][i].type = "e2e_key" /\ M.out[d][i].key = k)
          BY <1>4, <1>5
      <4> HIDE DEF C
      <4> QED BY <4>1, <4>2 DEF Kept
    <3> HIDE DEF C, f
    <3> QED BY <1>5, <3>1, <3>4
  <2>3. CASE s \notin comp
    <3>1. f = L.fresh[s] BY <1>8, <2>1, <2>3
    <3>2. ASSUME Recorded(L.minted, f), Kept(n, T, c, L, C, f)
          PROVE  Kept(n, T, c, M, C, f)
      <4>1. f # k BY <3>2 DEF Mintage
      <4> HIDE DEF C, f
      <4>2. \A z \in Scope : M.keys[z] = f => L.keys[z] = f BY <1>6, <4>1
      <4> QED BY <1>5, <3>2, <4>2 DEF Kept
    <3> QED BY <3>1, <3>2
  <2> QED BY <2>2, <2>3
<1>10. Guards(n, T, c, L, M) BY <1>9 DEF Guards
<1>11. Renews(c, L, M, comp) BY <1>5, <1>7 DEF Renews
<1> QED BY <1>10, <1>11

\* Minting a key serves.
LEMMA MintServes ==
  ASSUME NEW n \in View, NEW T, NEW c \in Session, NEW W, NEW L, Good(L),
         NEW comp \in Parts(n) \cup {{0}}, NEW clock \in Nat,
         NEW M, M = MintKey(c, n, W, L, comp, clock)
  PROVE  /\ Serves(n, T, c, L, M) /\ Renews(c, L, M, comp)
         /\ \A s \in comp : M.keys[s] # NoKey
<1>1. comp \in SUBSET Scope /\ comp # {} BY CoversType
<1>2. PICK k \in Key : Mintage(c, n, L, comp, k, M) BY <1>1, MintFields
<1>3. Good(M) /\ Climbs(L, M) BY <1>1, MintKeyLeads DEF Leads
<1>4. Guards(n, T, c, L, M) /\ Renews(c, L, M, comp) BY <1>2, <1>3, MintGuards
<1>5. L \in LocalType /\ M \in LocalType BY <1>3 DEF Good
<1>6. Tells(n, c, L, M)
  <2>1. M.out = L.out /\ M.passed = L.passed /\ M.declined = L.declined BY <1>2 DEF Mintage
  <2>2. \A d \in Session : M.out[d] = L.out[d] \o <<>> BY <1>5, <2>1, ConcatEmptySeq DEF LocalType
  <2>3. <<>> \in Seq(Chatter(n)) OBVIOUS
  <2>4. ASSUME NEW s \in {0} \cup n.chans PROVE M.epochs[s] >= L.epochs[s]
    <3>1. s \in Scope BY DEF Scope, View
    <3>2. L.epochs[s] \in Nat /\ M.epochs[s] \in Nat BY <1>5, <3>1 DEF LocalType
    <3> QED BY <1>3, <3>1, <3>2 DEF Climbs
  <2>5. Extends(L.minted, M.minted) BY <1>3 DEF Climbs
  <2> QED BY <2>1, <2>2, <2>3, <2>4, <2>5 DEF Tells
<1>7. \A s \in comp : M.keys[s] # NoKey BY <1>2, NoKeyIsNone DEF Mintage
<1> QED BY <1>3, <1>4, <1>6, <1>7 DEF Serves

-----------------------------------------------------------------------------
\* What the histories of a passed-on key record.
Recalls(L, comp, k, M) ==
    /\ SameTables(L, M) /\ M.out = L.out
    /\ \A s \in comp : M.passed[s] = k
    /\ \A s \in Scope \ comp : M.passed[s] = L.passed[s]
    /\ L.declined \subseteq M.declined
    /\ k \in M.declined \/ \A s \in comp : L.keys[s] = k

\* They do.
LEMMA RememberedFields ==
  ASSUME NEW L, Good(L), NEW comp \in SUBSET Scope, NEW k \in Key,
         NEW M, M = Remembered(L, comp, k)
  PROVE  Good(M) /\ Recalls(L, comp, k, M)
<1> DEFINE ps == [s \in Scope |-> IF s \in comp THEN k ELSE L.passed[s]]
           ds == L.declined \cup (IF \A s \in comp : L.keys[s] = k THEN {} ELSE {k})
<1>1. L \in LocalType BY DEF Good
<1>2. M = [[L EXCEPT !.passed = ps] EXCEPT !.declined = ds] BY <1>1 DEF Remembered, LocalType
<1>3. M.passed = ps /\ M.declined = ds
  <2> HIDE DEF ps, ds
  <2> QED BY <1>1, <1>2 DEF LocalType
<1>4. L.declined \subseteq ds /\ (k \in ds \/ \A s \in comp : L.keys[s] = k) OBVIOUS
<1>5. /\ Good(M) /\ M.keys = L.keys /\ M.epochs = L.epochs /\ M.minted = L.minted
      /\ M.out = L.out /\ M.fresh = L.fresh
    BY RememberedLeads DEF Leads
<1>6. SameTables(L, M) BY <1>5 DEF SameTables
<1>7. \A s \in comp : M.passed[s] = k BY <1>3
<1>8. \A s \in Scope \ comp : M.passed[s] = L.passed[s] BY <1>3
<1> HIDE DEF ds, ps
<1> QED BY <1>3, <1>4, <1>5, <1>6, <1>7, <1>8 DEF Recalls

\* The epoch of a recorded key is one, and is the key's only one.
LEMMA MintedOnce ==
  ASSUME NEW M \in [Session -> Seq(Epoch)], NEW k \in Key, NEW e, MintedIn(M, k, e)
  PROVE  e \in Epoch /\ \A f : MintedIn(M, k, f) => f = e
<1>1. M[k.by] \in Seq(Epoch) BY DEF Key
<1> QED BY <1>1, ElementOfSeq DEF MintedIn

\* Where only histories differ, what is sent is as discreet.
LEMMA SendsFrame ==
  ASSUME NEW n, NEW T, NEW c, NEW L, NEW R, NEW M, SameTables(L, R), R.out = L.out,
         Sends(n, T, c, R, M)
  PROVE  Sends(n, T, c, L, M)
<1>1. \A s : Kept(n, T, c, L, ComponentOf(n, s), L.fresh[s])
              => Kept(n, T, c, R, ComponentOf(n, s), R.fresh[s])
    BY DEF SameTables, Kept
<1>2. R.fresh = L.fresh BY DEF SameTables
<1>3. \A d, x : Discreet(n, T, c, R, d, x) => Discreet(n, T, c, L, d, x)
    BY <1>1, <1>2 DEF Discreet
<1> QED BY <1>3 DEF Sends

\* The members are told of a key that is passed on.
LEMMA PassedOnTold ==
  ASSUME NEW n \in View, NEW c \in Session, NEW comp \in Parts(n), NEW L, Good(L), NEW s \in comp,
         L.keys[s] # NoKey,
         NEW R, Good(R), R = Remembered(L, comp, L.keys[s]),
         NEW M, Good(M), Shared(c, n, R, MembersOf(n, comp), KeyMsg(comp, L.keys[s], L.epochs[s]), M),
         \A d \in Session \ {c} : d \in MembersOf(n, comp) /\ n.where[d] # Absent
            => Holds(M.out[d], KeyMsg(comp, L.keys[s], L.epochs[s]))
  PROVE  Told(n, c, M, comp)
<1> DEFINE k == L.keys[s]
           e == L.epochs[s]
<1>1. comp \in SUBSET Scope /\ comp \in SUBSET Channel /\ 0 \notin comp BY PartType
<1>2. k \in Key /\ MintedIn(L.minted, k, e) BY <1>1, StoredKey
<1>3. L.minted \in [Session -> Seq(Epoch)] BY DEF Good, LocalType
<1>4. e \in Epoch /\ \A f : MintedIn(L.minted, k, f) => f = e BY <1>2, <1>3, MintedOnce
<1>r. Recalls(L, comp, k, R)
  <2> HIDE DEF k
  <2>1. R = Remembered(L, comp, k) BY DEF k
  <2> QED BY <1>1, <1>2, <2>1, RememberedFields
<1>5. /\ SameTables(L, R) /\ \A z \in comp : R.passed[z] = k
      /\ k \in R.declined \/ \A z \in comp : L.keys[z] = k
    BY <1>r DEF Recalls
<1>6. SameTables(R, M) /\ M.passed = R.passed /\ M.declined = R.declined BY DEF Shared
<1>7. M.minted = L.minted /\ M.epochs = L.epochs BY <1>5, <1>6 DEF SameTables
<1>8. \A d \in Session : n.where[d] \in comp => d \in MembersOf(n, comp) /\ n.where[d] # Absent
  <2>1. Absent \notin Channel BY ChannelAssumption DEF Absent
  <2> QED BY <1>1, <2>1 DEF MembersOf
<1>9. \A d \in Session \ {c} : n.where[d] \in comp => Holds(M.out[d], KeyMsg(comp, k, e)) BY <1>8
<1>10. k \in M.declined \/ \A z \in comp : M.epochs[z] >= e
  <2>1. CASE k \in R.declined BY <1>6, <2>1
  <2>2. ASSUME \A z \in comp : L.keys[z] = k, NEW z \in comp PROVE M.epochs[z] >= e
    <3>1. L.keys[z] = k /\ z \in Scope BY <1>1, <2>2
    <3>2. MintedIn(L.minted, k, L.epochs[z]) BY <3>1, StoredKey
    <3>3. M.epochs[z] = e BY <1>4, <1>7, <3>2
    <3>4. e \in Nat BY <1>4 DEF Epoch
    <3> QED BY <3>3, <3>4
  <2> QED BY <1>5, <2>1, <2>2
<1> HIDE DEF k, e
<1>11. MintedIn(M.minted, k, e) BY <1>2, <1>7
<1>12. \A z \in comp : M.passed[z] = k BY <1>5, <1>6
<1> QED BY <1>2, <1>4, <1>9, <1>10, <1>11, <1>12 DEF Told

\* Passing on the stored key serves, and tells the component.
LEMMA ShareStoredServes ==
  ASSUME NEW n \in View, NEW T, NEW c \in Session, NEW W \in SUBSET T, NEW L, Good(L),
         NEW comp \in Parts(n) \cup {{0}}, NEW s \in comp, L.keys[s] # NoKey,
         NEW M, M = ShareStored(c, n, W, L, comp, s)
  PROVE  /\ Serves(n, T, c, L, M) /\ SameTables(L, M)
         /\ comp \in Parts(n) => Told(n, c, M, comp)
<1> DEFINE k == L.keys[s]
           e == L.epochs[s]
           R == Remembered(L, comp, k)
           S == Share(c, n, R, MembersOf(n, comp), comp, k, e)
<1>1. comp \in SUBSET Scope /\ (0 \in comp => comp = {0}) BY CoversType
<1>2. k \in Key /\ e \in Nat /\ MintedIn(L.minted, k, e) BY <1>1, StoredKey
<1>r. Good(R) /\ Recalls(L, comp, k, R)
  <2>1. R = Remembered(L, comp, k) OBVIOUS
  <2> HIDE DEF R, k
  <2> QED BY <1>1, <1>2, <2>1, RememberedFields
<1>3. /\ Good(R) /\ SameTables(L, R) /\ R.out = L.out
      /\ \A z \in Scope \ comp : R.passed[z] = L.passed[z]
      /\ L.declined \subseteq R.declined
    BY <1>r DEF Recalls
<1>4. MayGo(n, T, c, R, MembersOf(n, comp), comp, k)
  <2> SUFFICES ASSUME NEW z \in n.chans, k = R.fresh[z], Kept(n, T, c, R, ComponentOf(n, z), k)
               PROVE  comp = ComponentOf(n, z)
                      /\ \A d \in MembersOf(n, comp) : Entrusted(n, T, d, comp)
      BY DEF MayGo
  <2>1. R.keys[s] = k BY <1>3 DEF SameTables
  <2> HIDE DEF R, k
  <2>2. s \in ComponentOf(n, z) BY <1>1, <2>1 DEF Kept
  <2>3. s \in n.chans /\ s # 0 BY <2>2, ComponentWithin, ChannelAssumption
  <2>4. comp \in Parts(n) BY <2>3
  <2>5. comp = ComponentOf(n, s) BY <2>4, PartOf
  <2>6. comp = ComponentOf(n, z) BY <2>2, <2>5, ComponentSame
  <2>7. 0 \notin comp BY <1>1, <2>3
  <2> QED BY <2>6, <2>7 DEF Entrusted, MembersOf
<1>5. MintedIn(R.minted, k, e) BY <1>2, <1>3 DEF SameTables
<1>6. S = Share(c, n, R, MembersOf(n, comp), comp, k, e) /\ R = Remembered(L, comp, L.keys[s]) OBVIOUS
<1> HIDE DEF R, S
<1>7. Good(S) /\ Shared(c, n, R, MembersOf(n, comp), KeyMsg(comp, k, e), S)
  <2> HIDE DEF k, e
  <2> QED BY <1>1, <1>2, <1>3, <1>4, <1>5, <1>6, ShareServes DEF Serves
<1>8. /\ Sends(n, T, c, R, S)
      /\ \A d \in Session \ {c} :
           d \in MembersOf(n, comp) /\ n.where[d] # Absent => Holds(S.out[d], KeyMsg(comp, k, e))
  <2>1. R \in LocalType BY <1>3 DEF Good
  <2> HIDE DEF k, e
  <2> QED BY <1>1, <1>2, <1>4, <1>7, <2>1, SharedSends
<1>9. Sends(n, T, c, L, S) BY <1>3, <1>8, SendsFrame
<1>10. SameTables(L, S) BY <1>3, <1>7 DEF Shared, SameTables
<1>11. comp \in Parts(n) => Told(n, c, S, comp) BY <1>3, <1>6, <1>7, <1>8, PassedOnTold
<1>12. PassesOn(n, c, L, S)
  <2>1. S.passed = R.passed /\ S.declined = R.declined BY <1>7 DEF Shared
  <2>2. ASSUME NEW C \in Parts(n), C # comp, NEW z \in C PROVE S.passed[z] = L.passed[z]
    <3>1. z \in Scope /\ z # 0 BY PartType
    <3>2. z \notin comp
      <4> SUFFICES ASSUME z \in comp PROVE FALSE OBVIOUS
      <4>1. comp \in Parts(n) BY <3>1
      <4> QED BY <2>2, <4>1, PartOf
    <3> QED BY <1>3, <2>1, <3>1, <3>2
  <2> QED BY <1>3, <1>11, <2>1, <2>2 DEF PassesOn
<1>13. Serves(n, T, c, L, S) BY <1>7, <1>9, <1>10, <1>12, SendServes
<1>14. M = ShareWhisper(c, n, W, S) BY DEF ShareStored, S, R
<1>15. Serves(n, T, c, S, M) /\ Quietly(S, M) BY <1>7, <1>14, ShareWhisperServes
<1>16. Serves(n, T, c, L, M) BY <1>13, <1>15, ServesTransitive
<1>17. SameTables(L, M) BY <1>10, <1>15 DEF Quietly, SameTables
<1>18. comp \in Parts(n) => Told(n, c, M, comp)
    BY <1>7, <1>11, <1>15, ToldStays DEF Serves
<1> QED BY <1>16, <1>17, <1>18

-----------------------------------------------------------------------------
\* After these, c holds keys for the scopes of comp, and the members are told.
Provides(n, T, c, L, M, comp) ==
    Serves(n, T, c, L, M) /\ HasAll(M, comp) /\ (comp \in Parts(n) => Told(n, c, M, comp))

\* What a scope's key covers.
LEMMA CoversScope ==
  ASSUME NEW n \in View, NEW c \in Session, NEW s \in {0} \cup n.chans
  PROVE  /\ KeyedScopes(n, s) \in Parts(n) \cup {{0}}
         /\ KeyedScopes(n, s) # {}
         /\ s # 0 => KeyedScopes(n, s) = ComponentOf(n, s) /\ KeyedScopes(n, s) \in Parts(n)
         /\ First(c, KeyedScopes(n, s)) \in KeyedScopes(n, s)
<1>1. CASE s = 0 BY <1>1 DEF KeyedScopes, First
<1>2. CASE s # 0
  <2>1. KeyedScopes(n, s) = ComponentOf(n, s) /\ s \in n.chans BY <1>2 DEF KeyedScopes
  <2>2. KeyedScopes(n, s) \in Parts(n) BY <2>1 DEF Parts
  <2>3. KeyedScopes(n, s) # {} BY <2>1, ComponentSelf
  <2> QED BY <1>2, <2>1, <2>2, <2>3, FirstInComponent
<1> QED BY <1>1, <1>2

\* A scope has a key as long as its epoch is positive.
LEMMA KeyByEpoch ==
  ASSUME NEW L, Good(L), NEW s \in Scope
  PROVE  L.epochs[s] \in Nat /\ (L.keys[s] # NoKey <=> L.epochs[s] > 0)
<1>1. L.epochs[s] \in Nat /\ L.minted \in [Session -> Seq(Epoch)] BY DEF Good, LocalType
<1>2. CASE L.keys[s] = NoKey BY <1>1, <1>2 DEF Good
<1>3. CASE L.keys[s] # NoKey
  <2>1. L.keys[s] \in Key /\ MintedIn(L.minted, L.keys[s], L.epochs[s]) BY <1>3, StoredKey
  <2>2. L.epochs[s] \in Epoch BY <1>1, <2>1, MintedOnce
  <2> QED BY <1>3, <2>2 DEF Epoch
<1> QED BY <1>2, <1>3

\* A handler that tells loses no key.
LEMMA KeyStays ==
  ASSUME NEW n \in View, NEW c \in Session, NEW L, NEW M, Good(L), Good(M), Tells(n, c, L, M),
         NEW s \in {0} \cup n.chans, L.keys[s] # NoKey
  PROVE  M.keys[s] # NoKey
<1>1. s \in Scope BY DEF Scope, View
<1>2. M.epochs[s] >= L.epochs[s] BY DEF Tells
<1> QED BY <1>1, <1>2, KeyByEpoch

\* The keys of all its scopes stay.
LEMMA HasAllStays ==
  ASSUME NEW n \in View, NEW c \in Session, NEW L, NEW M, Good(L), Good(M), Tells(n, c, L, M),
         NEW comp \in Parts(n) \cup {{0}}, HasAll(L, comp)
  PROVE  HasAll(M, comp)
<1>1. comp \subseteq {0} \cup n.chans BY PartType
<1> QED BY <1>1, KeyStays DEF HasAll

\* A renewal counts for a longer stretch of the handler ...
LEMMA RenewsWidens ==
  ASSUME NEW n \in View, NEW T, NEW c \in Session, NEW L, NEW M, NEW N, Good(L), Good(M),
         NEW comp, Tells(n, c, L, M), Renews(c, M, N, comp)
  PROVE  Renews(c, L, N, comp)
<1>1. Len(L.minted[c]) \in Nat /\ Len(M.minted[c]) \in Nat BY DEF Good, LocalType
<1>2. Len(L.minted[c]) <= Len(M.minted[c]) BY DEF Tells, Extends
<1>3. ASSUME NEW k, Mints(c, M, N, k) PROVE Mints(c, L, N, k)
  <2>1. k.n \in Nat /\ k.n > Len(M.minted[c]) BY <1>3 DEF Mints, Recorded, Key
  <2> QED BY <1>1, <1>2, <1>3, <2>1 DEF Mints
<1> QED BY <1>3 DEF Renews

\* ... and what follows it leaves the fresh key or mints again.
LEMMA RenewsStays ==
  ASSUME NEW n \in View, NEW T, NEW c \in Session, NEW L, NEW M, NEW N, Good(L), Good(M), Good(N),
         NEW comp \in Parts(n), Tells(n, c, L, M), Renews(c, L, M, comp), Serves(n, T, c, M, N)
  PROVE  Renews(c, L, N, comp)
<1>1. M.minted \in [Session -> Seq(Epoch)] /\ N.minted \in [Session -> Seq(Epoch)]
    BY DEF Good, LocalType
<1>2. Extends(M.minted, N.minted) BY DEF Serves, Tells
<1>3. ASSUME NEW k, Mints(c, L, M, k) PROVE Mints(c, L, N, k)
  <2>1. k \in Key /\ k.by \in Session BY <1>3 DEF Mints, Recorded, Key
  <2>2. Len(M.minted[k.by]) \in Nat /\ Len(N.minted[k.by]) \in Nat BY <1>1, <2>1
  <2>3. Len(M.minted[k.by]) <= Len(N.minted[k.by]) BY <1>2, <2>1 DEF Extends
  <2>4. k.n \in 1..Len(N.minted[k.by]) BY <1>3, <2>2, <2>3 DEF Mints, Recorded
  <2> QED BY <1>3, <2>1, <2>4 DEF Mints, Recorded
<1>4. ASSUME NEW s \in comp PROVE N.fresh[s] = NoKey \/ Mints(c, L, N, N.fresh[s])
  <2>1. s \in n.chans BY PartType
  <2>2. N.fresh[s] = NoKey \/ Mints(c, M, N, N.fresh[s]) \/ N.fresh[s] = M.fresh[s]
      BY <2>1 DEF Serves, Guards
  <2>3. CASE Mints(c, M, N, N.fresh[s])
    <3>1. Len(L.minted[c]) \in Nat /\ Len(M.minted[c]) \in Nat BY DEF Good, LocalType
    <3>2. Len(L.minted[c]) <= Len(M.minted[c]) BY DEF Tells, Extends
    <3>3. N.fresh[s].n \in Nat /\ N.fresh[s].n > Len(M.minted[c]) BY <2>3 DEF Mints, Recorded, Key
    <3> QED BY <2>3, <3>1, <3>2, <3>3 DEF Mints
  <2> QED BY <1>3, <2>2, <2>3 DEF Renews
<1> QED BY <1>4 DEF Renews

\* e2eeRotateComponentKey provides a new key.
LEMMA RotateServes ==
  ASSUME NEW n \in View, NEW T, NEW c \in Session, NEW W \in SUBSET T, NEW L, Good(L),
         NEW s \in {0} \cup n.chans, NEW clock \in Nat, NEW M, M = Rotate(c, n, W, L, s, clock)
  PROVE  Provides(n, T, c, L, M, KeyedScopes(n, s)) /\ Renews(c, L, M, KeyedScopes(n, s))
<1> DEFINE comp == KeyedScopes(n, s)
           K == MintKey(c, n, W, L, comp, clock)
           first == First(c, comp)
<1>1. comp \in Parts(n) \cup {{0}} /\ comp # {} /\ first \in comp BY CoversScope
<1>2. M = ShareStored(c, n, W, K, comp, first) BY <1>1 DEF Rotate
<1>3. K = MintKey(c, n, W, L, comp, clock) OBVIOUS
<1> HIDE DEF comp, K, first
<1>4. Serves(n, T, c, L, K) /\ Renews(c, L, K, comp) /\ \A z \in comp : K.keys[z] # NoKey
    BY <1>1, <1>3, MintServes
<1>5. Good(K) /\ K.keys[first] # NoKey BY <1>1, <1>4 DEF Serves
<1>6. /\ Serves(n, T, c, K, M) /\ SameTables(K, M)
      /\ comp \in Parts(n) => Told(n, c, M, comp)
    BY <1>1, <1>2, <1>5, ShareStoredServes
<1>7. Serves(n, T, c, L, M) BY <1>4, <1>6, ServesTransitive
<1>8. HasAll(M, comp) BY <1>4, <1>6 DEF HasAll, SameTables
<1>9. Renews(c, L, M, comp) BY <1>4, <1>6 DEF Renews, Mints, SameTables
<1> QED BY <1>6, <1>7, <1>8, <1>9 DEF Provides, comp

\* e2eeEnsureComponentKey provides the stored key, or a new one.
LEMMA EnsureServes ==
  ASSUME NEW n \in View, NEW T, NEW c \in Session, NEW W \in SUBSET T, NEW L, Good(L),
         NEW s \in {0} \cup n.chans, NEW clock \in Nat, NEW M, M = Ensure(c, n, W, L, s, clock)
  PROVE  Provides(n, T, c, L, M, KeyedScopes(n, s))
<1> DEFINE comp == KeyedScopes(n, s)
           first == First(c, comp)
<1>1. comp \in Parts(n) \cup {{0}} /\ comp # {} /\ first \in comp BY CoversScope
<1>2. CASE ~ HasAll(L, comp)
  <2>1. M = Rotate(c, n, W, L, s, clock) BY <1>1, <1>2 DEF Ensure, Rotate
  <2> QED BY <2>1, RotateServes
<1>3. CASE HasAll(L, comp)
  <2>1. L.keys[first] # NoKey BY <1>1, <1>3 DEF HasAll
  <2>2. first \in Scope BY <1>1, CoversType
  <2>3. L.epochs[first] # 0 BY <2>1, <2>2, KeyByEpoch
  <2>4. M = ShareStored(c, n, W, L, comp, first) BY <1>1, <1>3, <2>3 DEF Ensure
  <2> HIDE DEF comp, first
  <2>5. /\ Serves(n, T, c, L, M) /\ SameTables(L, M)
        /\ comp \in Parts(n) => Told(n, c, M, comp)
      BY <1>1, <2>1, <2>4, ShareStoredServes
  <2>6. HasAll(M, comp) BY <1>3, <2>5 DEF HasAll, SameTables
  <2> QED BY <2>5, <2>6 DEF Provides, comp
<1> QED BY <1>2, <1>3

\* e2eeRequestKey asks, and changes nothing else.
LEMMA AskServes ==
  ASSUME IInv, NEW T, NEW c \in Session, NEW L, Good(L), NEW s \in Scope, NEW ask,
         NEW M, M = Ask(c, L, s, ask)
  PROVE  Serves(net, T, c, L, M) /\ Quietly(L, M)
<1> DEFINE asked == {d \in Session \ {c} : d \in MembersOf(net, KeyedScopes(net, s))}
           x(d) == IF d \in asked THEN <<RequestMsg(c, s)>> ELSE <<>>
           out == [d \in Session |->
                      IF d \in asked THEN Append(L.out[d], RequestMsg(c, s)) ELSE L.out[d]]
<1>n. net \in View BY DEF IInv, TypeOK
<1>1. CASE ~ ask \/ c \notin MembersOf(net, KeyedScopes(net, s))
  <2>1. M = L BY <1>1 DEF Ask
  <2> QED BY <1>n, <2>1, ServesReflexive DEF Quietly, SameTables
<1>2. CASE ~ (~ ask \/ c \notin MembersOf(net, KeyedScopes(net, s)))
  <2>1. M = [L EXCEPT !.out = out] BY <1>2 DEF Ask
  <2>2. L \in LocalType BY DEF Good
  <2>3. RequestMsg(c, s) \in Chatter(net) /\ RequestMsg(c, s).type # "e2e_key"
      BY <1>2 DEF Chatter, RequestMsg
  <2>4. Quietly(L, M) /\ M.out = out
    <3> HIDE DEF out
    <3> QED BY <2>1, <2>2 DEF LocalType, Quietly, SameTables
  <2>5. Good(M) BY AskLeads DEF Leads
  <2>6. ASSUME NEW d \in Session
        PROVE  \E y \in Seq(Chatter(net)) :
                 M.out[d] = L.out[d] \o y /\ Discreet(net, T, c, L, d, y)
    <3>1. L.out[d] \in Seq(Message) BY <2>2 DEF LocalType
    <3> DEFINE m == RequestMsg(c, s)
               q == L.out[d]
    <3>2. CASE d \in asked
      <4>1. M.out[d] = Append(q, m) BY <2>4, <3>2
      <4>2. q \in Seq(Message) /\ m \in Chatter(net) /\ m.type # "e2e_key" BY <2>3, <3>1
      <4> HIDE DEF m, q
      <4>3. /\ Append(q, m) = q \o <<m>> /\ <<m>> \in Seq(Chatter(net))
            /\ Len(<<m>>) = 1 /\ <<m>>[1] = m
          BY <4>2, AppendedOrNot
      <4>4. Discreet(net, T, c, L, d, <<m>>) BY <4>2, <4>3 DEF Discreet
      <4> QED BY <4>1, <4>3, <4>4 DEF q
    <3>3. CASE d \notin asked
      <4>1. M.out[d] = q BY <2>4, <3>3
      <4>2. q = q \o <<>> BY <3>1, ConcatEmptySeq
      <4>3. <<>> \in Seq(Chatter(net)) /\ Len(<<>>) = 0 OBVIOUS
      <4>4. Discreet(net, T, c, L, d, <<>>) BY <4>3 DEF Discreet
      <4> QED BY <4>1, <4>2, <4>3, <4>4
    <3> QED BY <3>2, <3>3
  <2>7. Sends(net, T, c, L, M) BY <2>6 DEF Sends
  <2>8. PassesOn(net, c, L, M) BY <2>4 DEF PassesOn, Quietly
  <2>9. Serves(net, T, c, L, M) BY <1>n, <2>4, <2>5, <2>7, <2>8, SendServes DEF Quietly
  <2> QED BY <2>4, <2>9
<1> QED BY <1>1, <1>2

-----------------------------------------------------------------------------
(* A session's turn: what handling the head of its inbox achieves. *)

\* The session of component C that nobody in it undercuts.
Heads(n, c, C) == n.where[c] \in C /\ \A d \in Session : n.where[d] \in C => ~ (Uid[d] < Uid[c])

\* The news at the head of inbox q make the head of C pass on a key.
Due(q, C) ==
    /\ q # <<>>
    /\ \/ Head(q).type \in {"welcome", "chan_update"}
       \/ Head(q).type = "user_moved" /\ Head(q).chan \in C
       \/ Head(q).type = "user_joined" /\ Lobby \in C

\* They make c, whose view is v, mint a key for C.
Renewer(n, c, v, q, C) ==
    /\ q # <<>> /\ \A d \in Session : n.where[d] \in C => ~ (Uid[d] < Uid[c])
    /\ \/ Head(q).type = "user_moved" /\ v.where[Head(q).id] \in C \ {Head(q).chan}
       \/ Head(q).type = "chan_update" /\ n.where[c] \in C

\* Wherever key k is, it is a key of C, with a member or somebody trusted; who stores it
\* sees C as the component of its scope.
Safe(C, k) ==
    /\ \A d \in Session, s \in Scope : keys[d][s] = k =>
          s \in C /\ Entrusted(net, confided, d, C) /\ ComponentOf(view[d], s) = C
    /\ \A d \in Session : \A i \in 1..Len(inbox[d]) :
          inbox[d][i].type = "e2e_key" /\ inbox[d][i].key = k =>
              inbox[d][i].comp = C /\ Entrusted(net, confided, d, C)

\* The smallest identity online.
Tops(c) == Online(c) /\ \A d \in Session : Online(d) => ~ (Uid[d] < Uid[c])

\* An envelope of the server's key.
ServerKeyIn(q) == \E i \in 1..Len(q) : q[i].type = "e2e_key" /\ q[i].comp = {0}

\* The head of a component passes on a key when its news say so.
Heeds(c, M) ==
    \A C \in Parts(net) : Heads(net, c, C) /\ Due(inbox[c], C) =>
        Told(net, c, M, C) \/ (Lobby \in C /\ Head(inbox[c]).type = "user_joined")

\* An envelope is declined, or leaves no smaller epoch.
Takes(c, M) ==
    Head(inbox[c]).type = "e2e_key" =>
        \/ Head(inbox[c]).key \in M.declined
        \/ \A s \in Head(inbox[c]).comp : M.epochs[s] >= Head(inbox[c]).epoch

\* A key is minted for a component that lost a member or was relinked.
Freshens(c, M) ==
    phase[c] = "ready" =>
        \A C \in Parts(net) : Renewer(net, c, view[c], inbox[c], C) => Renews(c, LocalOf(c), M, C)

\* No key that is safe is given away.
Keeps(c, M, T) ==
    \A s \in net.chans :
        \/ M.fresh[s] = NoKey
        \/ Mints(c, LocalOf(c), M, M.fresh[s]) /\ Kept(net, T, c, M, ComponentOf(net, s), M.fresh[s])
        \/ /\ M.fresh[s] = fresh[s]
           /\ Recorded(minted, fresh[s]) /\ Safe(ComponentOf(net, s), fresh[s])
                => Kept(net, T, c, M, ComponentOf(net, s), fresh[s])

\* The server's key is minted by the first of all, who hands it to each newcomer.
Introduces(c, M) ==
    /\ phase[c] = "hello" /\ Tops(c) => M.keys[0] # NoKey
    /\ phase[c] = "ready" => \A d \in Session \ {c} :
         Tops(c) /\ keys[c][0] # NoKey /\ Head(inbox[c]) = JoinedMsg(d) => ServerKeyIn(M.out[d])

Turn(c, M) ==
    /\ Good(M) /\ Tells(net, c, LocalOf(c), M)
    /\ Heeds(c, M) /\ Takes(c, M) /\ Freshens(c, M) /\ Keeps(c, M, confided) /\ Introduces(c, M)

\* The state c leaves behind, having handled the head of its inbox.
Settles(c, M, t) ==
    /\ Commit(c, M, t, TRUE) /\ inbox[c] # <<>>
    /\ phase[c] \in {"hello", "ready"} /\ phase'[c] = "ready"
    /\ Aligned(net, view'[c], Tail(inbox[c]))
    /\ view'[c].chans = net.chans /\ view'[c].links = net.links
    /\ \A d \in Session \ {c} : phase'[d] = phase[d] /\ view'[d] = view[d]
    /\ UNCHANGED <<net, whisper, raced, forgets, confided>>

\* What is safe everywhere is kept by each session.
LEMMA SafeKept ==
  ASSUME NEW c \in Session, NEW C, NEW k, Safe(C, k)
  PROVE  Kept(net, confided, c, LocalOf(c), C, k)
<1>1. LocalOf(c).keys = keys[c] /\ \A d \in Session : LocalOf(c).out[d] = <<>> BY DEF LocalOf
<1>2. \A d \in Session : Len(LocalOf(c).out[d]) = 0 BY <1>1
<1>3. \A s \in Scope : LocalOf(c).keys[s] = k => s \in C /\ Entrusted(net, confided, c, C)
    BY <1>1 DEF Safe
<1> QED BY <1>2, <1>3 DEF Kept

\* A handler that serves keeps what is safe.
LEMMA ServesKeeps ==
  ASSUME NEW c \in Session, NEW M, Serves(net, confided, c, LocalOf(c), M)
  PROVE  Keeps(c, M, confided)
<1>1. LocalOf(c).fresh = fresh /\ LocalOf(c).minted = minted BY DEF LocalOf
<1>2. Guards(net, confided, c, LocalOf(c), M) BY DEF Serves
<1> QED BY <1>1, <1>2, SafeKept DEF Guards, Keeps

\* The turn of a handler of news.
LEMMA NewsTurn ==
  ASSUME NEW c \in Session, NEW M, Serves(net, confided, c, LocalOf(c), M),
         Head(inbox[c]).type # "e2e_key", Heeds(c, M), Freshens(c, M), Introduces(c, M)
  PROVE  Turn(c, M)
BY ServesKeeps DEF Serves, Turn, Takes

\* Rotating a scope that the view lacks does nothing.
LEMMA RotateAny ==
  ASSUME NEW n \in View, NEW T, NEW c \in Session, NEW W \in SUBSET T, NEW L, Good(L),
         NEW s \in Scope, NEW clock \in Nat, NEW M, M = Rotate(c, n, W, L, s, clock)
  PROVE  Serves(n, T, c, L, M)
<1>1. CASE s \in {0} \cup n.chans BY <1>1, RotateServes DEF Provides
<1>2. CASE s \notin {0} \cup n.chans
  <2>1. KeyedScopes(n, s) = {} BY <1>2 DEF KeyedScopes, ComponentOf
  <2>2. M = L BY <2>1 DEF Rotate
  <2> QED BY <2>2, ServesReflexive
<1> QED BY <1>1, <1>2

\* While nothing is out of order the sessions online are those the server places.
LEMMA EverybodyOnline ==
  ASSUME Orderly
  PROVE  MembersOf(net, {0}) = {d \in Session : Online(d)}
BY DEF Orderly, MembersOf

\* The master of a component, as the session sees it, is its head.
LEMMA HeadIsMaster ==
  ASSUME IInv, NEW c \in Session, NEW C \in Parts(net), NEW s \in C,
         \A d \in Session : net.where[d] \in C => ~ (Uid[d] < Uid[c])
  PROVE  IsMaster(c, net, s) /\ KeyedScopes(net, s) = C /\ s \in net.chans
<1>1. net \in View BY DEF IInv, TypeOK
<1>2. s \in net.chans /\ C = ComponentOf(net, s) /\ 0 \notin C BY <1>1, PartOf, PartType
<1>3. KeyedScopes(net, s) = C BY <1>2 DEF KeyedScopes
<1> QED BY <1>2, <1>3 DEF IsMaster, MembersOf

-----------------------------------------------------------------------------
(* The turns of the handlers. *)

\* What settles a handler of news, whose new view is the server's.
LEMMA NewsSettles ==
  ASSUME IInv, Orderly, NEW c \in Session, NEW M, NEW t, NEW type, Receives(c, type),
         phase[c] = "ready", Commit(c, M, t, TRUE), view' = [view EXCEPT ![c] = net],
         Tail(inbox[c]) \in Seq(Chatter(net)), Steady
  PROVE  Settles(c, M, t)
<1>1. view' = [view EXCEPT ![c] = net] /\ view \in [Session -> View] BY DEF IInv, TypeOK
<1>2. view'[c] = net /\ \A d \in Session \ {c} : view'[d] = view[d] BY <1>1
<1>3. Aligned(net, net, Tail(inbox[c])) BY DEF Aligned
<1>4. Aligned(net, view'[c], Tail(inbox[c])) BY <1>2, <1>3
<1> QED BY <1>2, <1>4 DEF Settles, Steady, Receives

\* user_left.
LEMMA UserLeftTurn ==
  ASSUME IInv, Orderly, NEW c \in Session, whisper[c] \in SUBSET confided, HandleUserLeft(c)
  PROVE  \E M, t : Settles(c, M, t) /\ Turn(c, M)
<1> DEFINE d == Head(inbox[c]).id
           old == view[c].where[d]
           v == [view[c] EXCEPT !.where[d] = Absent]
           W == whisper[c]
           L0 == LocalOf(c)
<1>1. /\ Head(inbox[c]).type = "user_left" /\ inbox[c] # <<>> /\ phase[c] = "ready"
      /\ Receives(c, "user_left")
    BY DEF HandleUserLeft, Receives
<1>2. v = net /\ Tail(inbox[c]) \in Seq(Chatter(net))
  <2>1. After(view[c], Head(inbox[c])) = net /\ Tail(inbox[c]) \in Seq(Chatter(net))
      BY <1>1, ReadsNews
  <2> QED BY <1>1, <2>1 DEF After
<1>3. PICK t \in Instant :
        LET L1 == IF IsMaster(c, v, 0) /\ L0.keys[0] # NoKey
                  THEN Rotate(c, v, W, L0, 0, Wall(c, t)) ELSE L0
            L2 == IF old \in Channel /\ IsMaster(c, v, old)
                  THEN Rotate(c, v, W, L1, old, Wall(c, t)) ELSE L1
        IN  Commit(c, L2, t, TRUE)
    BY DEF HandleUserLeft
<1> DEFINE L1 == IF IsMaster(c, v, 0) /\ L0.keys[0] # NoKey
                 THEN Rotate(c, v, W, L0, 0, Wall(c, t)) ELSE L0
           L2 == IF old \in Channel /\ IsMaster(c, v, old)
                 THEN Rotate(c, v, W, L1, old, Wall(c, t)) ELSE L1
<1>4. Commit(c, L2, t, TRUE) /\ view' = [view EXCEPT ![c] = v] /\ Steady
    BY <1>3 DEF HandleUserLeft
<1>5. Wall(c, t) \in Nat /\ net \in View /\ 0 \in Scope /\ Channel \subseteq Scope
    BY ClockType DEF IInv, TypeOK, Scope
<1>6. Good(L0) BY LocalOfGood
<1> HIDE DEF v
<1>7. Serves(net, confided, c, L0, L1)
  <2> HIDE DEF L0, W
  <2>1. CASE L1 = L0 BY <1>5, <1>6, <2>1, ServesReflexive
  <2>2. CASE L1 = Rotate(c, net, W, L0, 0, Wall(c, t))
      BY <1>5, <1>6, <2>2, RotateAny DEF W
  <2> QED BY <1>2, <2>1, <2>2
<1>8. Serves(net, confided, c, L1, L2)
  <2>1. Good(L1) BY <1>7 DEF Serves
  <2> HIDE DEF L0, L1, W, old
  <2>2. CASE L2 = L1 BY <1>5, <2>1, <2>2, ServesReflexive
  <2>3. CASE old \in Channel /\ L2 = Rotate(c, net, W, L1, old, Wall(c, t))
      BY <1>5, <2>1, <2>3, RotateAny DEF W
  <2> QED BY <1>2, <2>2, <2>3
<1> HIDE DEF L1, L2
<1>9. Serves(net, confided, c, LocalOf(c), L2) BY <1>5, <1>6, <1>7, <1>8, ServesTransitive
<1>10. Heeds(c, L2) BY <1>1 DEF Heeds, Due
<1>11. Freshens(c, L2) BY <1>1 DEF Freshens, Renewer
<1>12. Introduces(c, L2) BY <1>1 DEF Introduces, JoinedMsg
<1>13. Turn(c, L2) BY <1>1, <1>9, <1>10, <1>11, <1>12, NewsTurn
<1>14. Settles(c, L2, t) BY <1>1, <1>2, <1>4, NewsSettles
<1> QED BY <1>13, <1>14

\* user_moved.
LEMMA UserMovedTurn ==
  ASSUME IInv, Orderly, NEW c \in Session, whisper[c] \in SUBSET confided, HandleUserMoved(c)
  PROVE  \E M, t : Settles(c, M, t) /\ Turn(c, M)
<1> DEFINE d == Head(inbox[c]).id
           ch == Head(inbox[c]).chan
           old == view[c].where[d]
           v == [view[c] EXCEPT !.where[d] = ch]
           W == whisper[c]
           L0 == LocalOf(c)
           leads == IsMaster(c, v, ch)
           hosts == d = c \/ v.where[c] \in ComponentOf(v, ch)
<1>1. /\ Head(inbox[c]).type = "user_moved" /\ inbox[c] # <<>> /\ phase[c] = "ready"
      /\ Receives(c, "user_moved") /\ d \in Session /\ ch \in Channel
  <2>1. Receives(c, "user_moved") /\ phase[c] = "ready" BY DEF HandleUserMoved
  <2> QED BY <2>1, ReceivesType, MessageFields
<1>2. v = net /\ Tail(inbox[c]) \in Seq(Chatter(net))
  <2>1. After(view[c], Head(inbox[c])) = net /\ Tail(inbox[c]) \in Seq(Chatter(net))
      BY <1>1, ReadsNews
  <2> QED BY <1>1, <2>1 DEF After
<1>3. PICK ask \in MayAsk(c), t \in Instant :
        LET L1 == IF leads /\ hosts THEN Ensure(c, v, W, L0, ch, Wall(c, t))
                  ELSE Ask(c, L0, ch, ask /\ d = c /\ Lacks(c, v, L0, ch))
            L2 == IF old \in Channel \ {ch} /\ IsMaster(c, v, old)
                  THEN Rotate(c, v, W, L1, old, Wall(c, t)) ELSE L1
        IN  Commit(c, L2, t, TRUE) /\ view' = [view EXCEPT ![c] = v]
    BY DEF HandleUserMoved
<1> DEFINE asks == ask /\ d = c /\ Lacks(c, v, L0, ch)
           L1 == IF leads /\ hosts THEN Ensure(c, v, W, L0, ch, Wall(c, t))
                 ELSE Ask(c, L0, ch, asks)
           L2 == IF old \in Channel \ {ch} /\ IsMaster(c, v, old)
                 THEN Rotate(c, v, W, L1, old, Wall(c, t)) ELSE L1
<1>4. Commit(c, L2, t, TRUE) /\ view' = [view EXCEPT ![c] = v] /\ Steady
    BY <1>3 DEF HandleUserMoved
<1>5. Wall(c, t) \in Nat /\ net \in View /\ Channel \subseteq Scope
    BY ClockType DEF IInv, TypeOK, Scope
<1>6. Good(L0) BY LocalOfGood
<1>7. ch \in net.chans
  <2>1. view[c] \in View BY DEF IInv, TypeOK
  <2>2. net.where[d] = ch BY <1>1, <1>2, <2>1 DEF View
  <2>3. ch # Absent BY <1>1, ChannelAssumption DEF Absent
  <2> QED BY <1>1, <2>2, <2>3 DEF Orderly
<1> HIDE DEF v
<1>8. /\ Serves(net, confided, c, L0, L1)
      /\ leads /\ hosts => Told(net, c, L1, ComponentOf(net, ch))
  <2>1. KeyedScopes(net, ch) = ComponentOf(net, ch) /\ ComponentOf(net, ch) \in Parts(net)
      BY <1>5, <1>7, ChannelAssumption DEF KeyedScopes, Parts, View
  <2> HIDE DEF L0, W, ch, asks, leads, hosts
  <2>2. CASE leads /\ hosts
    <3>1. L1 = Ensure(c, net, W, L0, ch, Wall(c, t)) BY <1>2, <2>2
    <3>2. Provides(net, confided, c, L0, L1, KeyedScopes(net, ch))
        BY <1>5, <1>6, <1>7, <3>1, EnsureServes DEF W
    <3> QED BY <2>1, <3>2 DEF Provides
  <2>3. CASE ~ (leads /\ hosts)
    <3>1. L1 = Ask(c, L0, ch, asks) /\ ch \in Scope BY <1>1, <1>5, <2>3 DEF ch
    <3> QED BY <1>6, <2>3, <3>1, AskServes
  <2> QED BY <2>2, <2>3
<1>9. /\ Serves(net, confided, c, L1, L2)
      /\ old \in Channel \ {ch} /\ IsMaster(c, net, old) /\ old \in net.chans
           => Renews(c, L1, L2, KeyedScopes(net, old))
  <2>1. Good(L1) BY <1>8 DEF Serves
  <2> HIDE DEF L0, L1, W, old, ch
  <2>2. CASE ~ (old \in Channel \ {ch} /\ IsMaster(c, net, old))
      BY <1>2, <1>5, <2>1, <2>2, ServesReflexive
  <2>3. CASE old \in Channel \ {ch} /\ IsMaster(c, net, old)
    <3>1. L2 = Rotate(c, net, W, L1, old, Wall(c, t)) BY <1>2, <2>3
    <3>2. Serves(net, confided, c, L1, L2) BY <1>5, <2>1, <2>3, <3>1, RotateAny DEF W
    <3>3. old \in net.chans => Renews(c, L1, L2, KeyedScopes(net, old))
        BY <1>5, <2>1, <3>1, RotateServes DEF W
    <3> QED BY <3>2, <3>3
  <2> QED BY <2>2, <2>3
<1>10. Good(L1) /\ Good(L2) /\ Tells(net, c, L0, L1) /\ Tells(net, c, L1, L2)
    BY <1>8, <1>9 DEF Serves
<1>11. Heeds(c, L2)
  <2> SUFFICES ASSUME NEW C \in Parts(net), Heads(net, c, C), Due(inbox[c], C)
               PROVE  Told(net, c, L2, C)
      BY DEF Heeds
  <2>1. ch \in C /\ net.where[c] \in C BY <1>1 DEF Due, Heads
  <2>2. C = ComponentOf(net, ch) BY <1>5, <2>1, PartOf
  <2>3. leads BY <1>2, <2>1, HeadIsMaster DEF Heads
  <2>4. hosts BY <1>2, <2>1, <2>2
  <2> HIDE DEF L0, L1, L2, leads, hosts
  <2>5. Told(net, c, L1, C) BY <1>8, <2>2, <2>3, <2>4
  <2> QED BY <1>5, <1>10, <2>5, ToldStays
<1>12. Freshens(c, L2)
  <2> SUFFICES ASSUME NEW C \in Parts(net), Renewer(net, c, view[c], inbox[c], C)
               PROVE  Renews(c, L0, L2, C)
      BY DEF Freshens
  <2>1. old \in C \ {ch} /\ \A x \in Session : net.where[x] \in C => ~ (Uid[x] < Uid[c])
      BY <1>1 DEF Renewer
  <2>2. IsMaster(c, net, old) /\ KeyedScopes(net, old) = C /\ old \in net.chans
      BY <2>1, HeadIsMaster
  <2>3. old \in Channel \ {ch} BY <1>5, <2>1, <2>2 DEF View
  <2> HIDE DEF L0, L1, L2, old, ch
  <2>4. Renews(c, L1, L2, C) BY <1>9, <2>2, <2>3
  <2> QED BY <1>5, <1>6, <1>10, <2>4, RenewsWidens
<1> HIDE DEF L1, L2
<1>13. Serves(net, confided, c, LocalOf(c), L2) BY <1>5, <1>6, <1>8, <1>9, ServesTransitive
<1>14. Introduces(c, L2) BY <1>1 DEF Introduces, JoinedMsg
<1>15. Turn(c, L2) BY <1>1, <1>11, <1>12, <1>13, <1>14, NewsTurn
<1>16. Settles(c, L2, t) BY <1>1, <1>2, <1>4, NewsSettles
<1> QED BY <1>15, <1>16

\* chan_update.
LEMMA ChanUpdateTurn ==
  ASSUME IInv, Orderly, NEW c \in Session, whisper[c] \in SUBSET confided, HandleChanUpdate(c)
  PROVE  \E M, t : Settles(c, M, t) /\ Turn(c, M)
<1> DEFINE m == Head(inbox[c])
           v == [view[c] EXCEPT !.chans = @ \cup {m.chan}, !.links = Relinked(@, m.chan, m.linked)]
           my == v.where[c]
           W == whisper[c]
           L == LocalOf(c)
<1>1. /\ m.type = "chan_update" /\ inbox[c] # <<>> /\ phase[c] = "ready"
      /\ Receives(c, "chan_update")
    BY DEF HandleChanUpdate, Receives
<1>2. v = net /\ Tail(inbox[c]) \in Seq(Chatter(net))
  <2>1. After(view[c], Head(inbox[c])) = net /\ Tail(inbox[c]) \in Seq(Chatter(net))
      BY <1>1, ReadsNews
  <2> QED BY <1>1, <2>1 DEF After
<1>3. PICK ask \in MayAsk(c), t \in Instant :
        /\ view' = [view EXCEPT ![c] = v]
        /\ Commit(c, IF my \notin Channel THEN L
                     ELSE IF IsMaster(c, v, my) THEN Rotate(c, v, W, L, my, Wall(c, t))
                     ELSE Ask(c, L, my, ask /\ Lacks(c, v, L, my)), t, TRUE)
    BY DEF HandleChanUpdate
<1> DEFINE asks == ask /\ Lacks(c, v, L, my)
           M == IF my \notin Channel THEN L
                ELSE IF IsMaster(c, v, my) THEN Rotate(c, v, W, L, my, Wall(c, t))
                ELSE Ask(c, L, my, asks)
<1>4. Commit(c, M, t, TRUE) /\ view' = [view EXCEPT ![c] = v] /\ Steady
    BY <1>3 DEF HandleChanUpdate
<1>5. Wall(c, t) \in Nat /\ net \in View /\ Channel \subseteq Scope
    BY ClockType DEF IInv, TypeOK, Scope
<1>6. Good(L) BY LocalOfGood
<1>7. my = net.where[c] BY <1>2
<1> HIDE DEF v
<1>8. /\ Serves(net, confided, c, L, M)
      /\ my \in net.chans /\ IsMaster(c, net, my)
           => Told(net, c, M, ComponentOf(net, my)) /\ Renews(c, L, M, ComponentOf(net, my))
  <2> HIDE DEF L, W, my, asks
  <2>1. CASE my \notin Channel
      BY <1>5, <1>6, <2>1, ServesReflexive DEF View
  <2>2. CASE my \in Channel /\ ~ IsMaster(c, net, my)
    <3>1. M = Ask(c, L, my, asks) /\ my \in Scope BY <1>2, <1>5, <2>2
    <3> QED BY <1>6, <2>2, <3>1, AskServes
  <2>3. CASE my \in Channel /\ IsMaster(c, net, my)
    <3>1. M = Rotate(c, net, W, L, my, Wall(c, t)) /\ my \in Scope BY <1>2, <1>5, <2>3
    <3>2. Serves(net, confided, c, L, M) BY <1>5, <1>6, <3>1, RotateAny DEF W
    <3>3. ASSUME my \in net.chans
          PROVE  Told(net, c, M, ComponentOf(net, my)) /\ Renews(c, L, M, ComponentOf(net, my))
      <4>1. KeyedScopes(net, my) = ComponentOf(net, my) /\ ComponentOf(net, my) \in Parts(net)
          BY <2>3, <3>3, ChannelAssumption DEF KeyedScopes, Parts
      <4>2. /\ Provides(net, confided, c, L, M, KeyedScopes(net, my))
            /\ Renews(c, L, M, KeyedScopes(net, my))
          BY <1>5, <1>6, <3>1, <3>3, RotateServes DEF W
      <4> QED BY <4>1, <4>2 DEF Provides
    <3> QED BY <3>2, <3>3
  <2> QED BY <2>1, <2>2, <2>3
<1>9. ASSUME NEW C \in Parts(net), my \in C,
             \A x \in Session : net.where[x] \in C => ~ (Uid[x] < Uid[c])
      PROVE  my \in net.chans /\ IsMaster(c, net, my) /\ C = ComponentOf(net, my)
    BY <1>5, <1>9, HeadIsMaster, PartOf
<1> HIDE DEF M
<1>10. Heeds(c, M) BY <1>7, <1>8, <1>9 DEF Heeds, Heads
<1>11. Freshens(c, M)
  <2> SUFFICES ASSUME NEW C \in Parts(net), Renewer(net, c, view[c], inbox[c], C)
               PROVE  Renews(c, L, M, C)
      BY DEF Freshens
  <2>1. my \in C /\ \A x \in Session : net.where[x] \in C => ~ (Uid[x] < Uid[c])
      BY <1>1, <1>7 DEF Renewer
  <2> QED BY <1>8, <1>9, <2>1
<1>12. Introduces(c, M) BY <1>1 DEF Introduces, JoinedMsg
<1>13. Turn(c, M) BY <1>1, <1>8, <1>10, <1>11, <1>12, NewsTurn
<1>14. Settles(c, M, t) BY <1>1, <1>2, <1>4, NewsSettles
<1> QED BY <1>13, <1>14

-----------------------------------------------------------------------------
\* user_joined.
LEMMA UserJoinedTurn ==
  ASSUME IInv, Orderly, NEW c \in Session, HandleUserJoined(c)
  PROVE  \E M, t : Settles(c, M, t) /\ Turn(c, M)
<1> DEFINE d == Head(inbox[c]).id
           q == Tail(inbox[c])
           p == IF view[c].where[d] = Absent THEN Nowhere ELSE view[c].where[d]
           v == [view[c] EXCEPT !.where[d] = IF @ = Absent THEN Nowhere ELSE @]
           L == LocalOf(c)
           k == L.keys[0]
           e == L.epochs[0]
           hands == IsMaster(c, v, 0) /\ k # NoKey
           M == IF hands THEN Share(c, v, L, {d}, {0}, k, e) ELSE L
<1>1. /\ Head(inbox[c]).type = "user_joined" /\ inbox[c] # <<>> /\ phase[c] = "ready"
    BY DEF HandleUserJoined, Receives
<1>2. /\ d \in Session /\ q # <<>> /\ Head(q) = MovedMsg(d, Lobby) /\ Tail(q) \in Seq(Chatter(net))
      /\ [view[c] EXCEPT !.where[d] = Lobby] = net
    BY <1>1, ReadsJoined
<1>3. Commit(c, M, now, TRUE) /\ view' = [view EXCEPT ![c] = v] /\ Steady
    BY DEF HandleUserJoined
<1>4. net \in View /\ view[c] \in View /\ view \in [Session -> View] /\ 0 \in Scope
    BY DEF IInv, TypeOK, Scope
<1>5. p \in Place /\ p # Absent BY <1>2, <1>4, ChannelAssumption DEF View, Place, Absent, Nowhere
<1>6. v = [view[c] EXCEPT !.where[d] = p] BY <1>2, <1>4 DEF View
<1> HIDE DEF p, v, d
<1>7. /\ v \in View /\ v.chans = net.chans /\ v.links = net.links
      /\ v.where[d] = p /\ \A x \in Session \ {d} : v.where[x] = net.where[x]
      /\ [v EXCEPT !.where[d] = Lobby] = net
  <2>1. v \in View BY <1>2, <1>4, <1>5, <1>6, PlaceType
  <2>2. v.chans = net.chans /\ v.links = net.links BY <1>2, <1>4, <1>6 DEF View
  <2>3. v.where = [view[c].where EXCEPT ![d] = p] /\ net.where = [view[c].where EXCEPT ![d] = Lobby]
      BY <1>2, <1>4, <1>6 DEF View
  <2>4. view[c].where \in [Session -> Place] BY <1>4 DEF View
  <2>5. v.where[d] = p /\ \A x \in Session \ {d} : v.where[x] = net.where[x] BY <1>2, <2>3, <2>4
  <2>6. [v.where EXCEPT ![d] = Lobby] = net.where BY <1>2, <2>3, <2>4
  <2>7. [v EXCEPT !.where[d] = Lobby] = net BY <1>4, <2>1, <2>2, <2>6 DEF View
  <2> QED BY <2>1, <2>2, <2>5, <2>7
<1>8. Aligned(net, v, q)
  <2>1. Head(q).type = "user_moved" /\ Head(q).id = d /\ Head(q).chan = Lobby
      BY <1>2 DEF MovedMsg
  <2>2. After(v, Head(q)) = net BY <1>7, <2>1 DEF After
  <2> HIDE DEF q
  <2> QED BY <1>2, <2>1, <2>2 DEF Aligned
<1>9. Good(L) /\ L.keys = keys[c] BY LocalOfGood DEF LocalOf
<1>10. Serves(net, confided, c, L, M) /\ (hands => Shared(c, v, L, {d}, KeyMsg({0}, k, e), M))
  <2> HIDE DEF L
  <2>1. CASE ~ hands BY <1>4, <1>9, <2>1, ServesReflexive
  <2>2. CASE hands
    <3>1. k \in Key /\ e \in Nat /\ MintedIn(L.minted, k, e) BY <1>4, <1>9, <2>2, StoredKey
    <3>2. MayGo(net, confided, c, L, {d}, {0}, k)
      <4> SUFFICES ASSUME NEW s \in net.chans, Kept(net, confided, c, L, ComponentOf(net, s), k)
                   PROVE  FALSE
          BY DEF MayGo
      <4>1. 0 \in ComponentOf(net, s) BY <1>4 DEF Kept
      <4> QED BY <1>4, <4>1, ComponentType, ChannelAssumption
    <3>3. M = Share(c, v, L, {d}, {0}, k, e) BY <2>2
    <3>4. {0} \in SUBSET Scope BY <1>4
    <3> HIDE DEF k, e, M, hands
    <3> QED BY <1>4, <1>7, <1>9, <3>1, <3>2, <3>3, <3>4, ShareServes
  <2> QED BY <2>1, <2>2
<1>11. Heeds(c, M) BY <1>1 DEF Heeds, Due
<1>12. Freshens(c, M) BY <1>1 DEF Freshens, Renewer
<1>13. Introduces(c, M)
  <2> SUFFICES ASSUME NEW x \in Session \ {c}, Tops(c), keys[c][0] # NoKey,
                      Head(inbox[c]) = JoinedMsg(x)
               PROVE  ServerKeyIn(M.out[x])
      BY <1>1 DEF Introduces
  <2>1. x = d /\ v.where[x] # Absent BY <1>5, <1>7 DEF JoinedMsg, d
  <2>2. IsMaster(c, v, 0)
    <3> SUFFICES ASSUME NEW y \in Session, v.where[y] # Absent PROVE ~ (Uid[y] < Uid[c])
        BY DEF IsMaster, MembersOf, KeyedScopes
    <3>1. CASE y = d
      <4>1. net.where[d] = Lobby
        <5>1. view[c].where \in [Session -> Place] BY <1>4 DEF View
        <5>2. net.where = [view[c].where EXCEPT ![d] = Lobby] BY <1>2, <1>4 DEF View
        <5> QED BY <1>2, <5>1, <5>2
      <4>2. Lobby # Absent BY LobbyAssumption, ChannelAssumption DEF Absent
      <4>3. Online(d) BY <1>2, <4>1, <4>2 DEF Orderly
      <4> QED BY <1>2, <3>1, <4>3 DEF Tops
    <3>2. CASE y # d
      <4>1. net.where[y] # Absent BY <1>7, <3>2
      <4>2. Online(y) BY <4>1 DEF Orderly
      <4> QED BY <4>2 DEF Tops
    <3> QED BY <3>1, <3>2
  <2>3. hands BY <1>9, <2>2
  <2> DEFINE m == KeyMsg({0}, k, e)
             r == L.out[x]
  <2>4. M.out[x] = Append(r, m) BY <1>10, <2>1, <2>3 DEF Shared
  <2>5. r \in Seq(Message) BY <1>9 DEF Good, LocalType
  <2>6. m \in Chatter(net) /\ m.type = "e2e_key" /\ m.comp = {0}
    <3> HIDE DEF L
    <3>1. k \in Key /\ e \in Nat BY <1>4, <1>9, <2>3, StoredKey
    <3> QED BY <1>4, <3>1, KeyIsChatter DEF KeyMsg
  <2> HIDE DEF m, r
  <2>7. Holds(Append(r, m), m) BY <2>5, <2>6, AppendedOrNot
  <2> QED BY <2>4, <2>6, <2>7 DEF Holds, ServerKeyIn
<1> HIDE DEF M, hands
<1>14. Turn(c, M) BY <1>1, <1>10, <1>11, <1>12, <1>13, NewsTurn
<1>15. Settles(c, M, now)
  <2>1. view'[c] = v /\ \A x \in Session \ {c} : view'[x] = view[x] BY <1>3, <1>4
  <2> QED BY <1>1, <1>3, <1>7, <1>8, <2>1 DEF Settles, Steady
<1> QED BY <1>14, <1>15

\* chan_removed.
LEMMA ChanRemovedTurn ==
  ASSUME IInv, Orderly, NEW c \in Session, HandleChanRemoved(c)
  PROVE  \E M, t : Settles(c, M, t) /\ Turn(c, M)
<1> DEFINE ch == Head(inbox[c]).chan
           v == [view[c] EXCEPT !.chans = @ \ {ch}, !.links = {l \in @ : l[1] # ch}]
           L == LocalOf(c)
           M == Forget(L, ch)
<1>1. /\ Head(inbox[c]).type = "chan_removed" /\ inbox[c] # <<>> /\ phase[c] = "ready"
      /\ Receives(c, "chan_removed") /\ ch \in Channel /\ ch \in Scope
  <2>1. Receives(c, "chan_removed") /\ phase[c] = "ready" BY DEF HandleChanRemoved
  <2> QED BY <2>1, ReceivesType, MessageFields DEF Scope
<1>2. v = net /\ Tail(inbox[c]) \in Seq(Chatter(net))
  <2>1. After(view[c], Head(inbox[c])) = net /\ Tail(inbox[c]) \in Seq(Chatter(net))
      BY <1>1, ReadsNews
  <2> QED BY <1>1, <2>1 DEF After
<1>3. net \in View /\ view[c] \in View /\ view \in [Session -> View] BY DEF IInv, TypeOK
<1>4. Commit(c, M, now, TRUE) /\ Steady BY DEF HandleChanRemoved
<1>5. view' = [view EXCEPT ![c] = v]
  <2>1. view' = [view EXCEPT ![c].chans = @ \ {ch}, ![c].links = {l \in @ : l[1] # ch}]
      BY DEF HandleChanRemoved
  <2> HIDE DEF ch
  <2> QED BY <1>3, <2>1 DEF View
<1>6. ch \notin net.chans /\ ch # 0
  <2>1. v.chans = view[c].chans \ {ch} BY <1>3 DEF View
  <2> QED BY <1>1, <1>2, <2>1, ChannelAssumption
<1>7. Good(L) BY LocalOfGood
<1>8. /\ Good(M) /\ M.minted = L.minted /\ M.keys[ch] = NoKey
      /\ \A r \in Scope \ {ch} : M.keys[r] = L.keys[r] /\ M.epochs[r] = L.epochs[r]
  <2> HIDE DEF L, ch
  <2> QED BY <1>1, <1>7, ForgetGood
<1>9. M.out = L.out /\ M.passed = L.passed /\ M.fresh = L.fresh /\ M.declined = L.declined
  <2> HIDE DEF ch
  <2> QED BY DEF Forget, LocalOf
<1>10. Tells(net, c, L, M)
  <2> HIDE DEF L, M, ch, v
  <2>1. Tells(net, c, L, L) BY <1>3, <1>7, ServesReflexive DEF Serves
  <2>2. \A s \in {0} \cup net.chans : s \in Scope \ {ch} BY <1>3, <1>6 DEF View, Scope
  <2>3. \A s \in {0} \cup net.chans : M.epochs[s] >= L.epochs[s] BY <1>8, <2>1, <2>2 DEF Tells
  <2> QED BY <1>8, <1>9, <2>1, <2>3 DEF Tells
<1>11. Guards(net, confided, c, L, M)
  <2> HIDE DEF L, M, ch, v
  <2>1. \A C, k : k # NoKey /\ Kept(net, confided, c, L, C, k) => Kept(net, confided, c, M, C, k)
      BY <1>1, <1>8, <1>9 DEF Kept
  <2> QED BY <1>9, <2>1 DEF Guards
<1>12. Heeds(c, M) /\ Freshens(c, M) /\ Introduces(c, M)
    BY <1>1 DEF Heeds, Due, Freshens, Renewer, Introduces, JoinedMsg
<1> HIDE DEF M, v
<1>13. Serves(net, confided, c, LocalOf(c), M) BY <1>8, <1>10, <1>11 DEF Serves
<1>14. Turn(c, M) BY <1>1, <1>12, <1>13, NewsTurn
<1>15. Settles(c, M, now) BY <1>1, <1>2, <1>4, <1>5, NewsSettles
<1> QED BY <1>14, <1>15

-----------------------------------------------------------------------------
\* What adopting an envelope changes, and what it leaves alone.
Adopts(L, comp, k, e, M) ==
    /\ M.out = L.out /\ M.passed = L.passed /\ M.declined = L.declined /\ M.fresh = L.fresh
    /\ M.minted = L.minted
    /\ \A s \in Scope : M.keys[s] = L.keys[s] \/ (M.keys[s] = k /\ s \in comp)
    /\ \A s \in Scope : M.epochs[s] >= L.epochs[s]
    /\ \A s \in comp : M.epochs[s] >= e

\* Adopting does so.
LEMMA AdoptFields ==
  ASSUME NEW L, Good(L), NEW comp \in SUBSET Scope, NEW k \in Key, NEW e \in Nat,
         NEW b \in BOOLEAN, NEW A, A = Adopt(L, comp, k, e), NEW M, M = [A EXCEPT !.rewrap = b]
  PROVE  Adopts(L, comp, k, e, M)
<1> DEFINE ks == [s \in Scope |-> IF s \in comp /\ e > L.epochs[s] THEN k ELSE L.keys[s]]
           es == [s \in Scope |-> IF s \in comp /\ e > L.epochs[s] THEN e ELSE L.epochs[s]]
<1>1. L \in LocalType BY DEF Good
<1>2. A = [[L EXCEPT !.keys = ks] EXCEPT !.epochs = es] BY DEF Adopt
<1>3. /\ \A s \in Scope : ks[s] = L.keys[s] \/ (ks[s] = k /\ s \in comp)
      /\ \A s \in Scope : es[s] >= L.epochs[s]
      /\ \A s \in comp : es[s] >= e
  <2>1. \A s \in Scope : L.epochs[s] \in Nat BY <1>1 DEF LocalType
  <2> QED BY <2>1
<1> HIDE DEF ks, es
<1>4. /\ A.keys = ks /\ A.epochs = es /\ A.out = L.out /\ A.passed = L.passed
      /\ A.declined = L.declined /\ A.fresh = L.fresh /\ A.minted = L.minted
    BY <1>1, <1>2 DEF LocalType
<1>5. /\ M.keys = A.keys /\ M.epochs = A.epochs /\ M.out = A.out /\ M.passed = A.passed
      /\ M.declined = A.declined /\ M.fresh = A.fresh /\ M.minted = A.minted
  <2>1. A = [keys |-> ks, epochs |-> es, minted |-> L.minted, out |-> L.out,
             rewrap |-> L.rewrap, passed |-> L.passed, fresh |-> L.fresh, declined |-> L.declined]
      BY <1>1, <1>2 DEF LocalType
  <2> QED BY <2>1
<1> QED BY <1>3, <1>4, <1>5 DEF Adopts

-----------------------------------------------------------------------------
\* e2e_key.
LEMMA KeyTurn ==
  ASSUME IInv, Orderly, NEW c \in Session, whisper[c] \in SUBSET confided, HandleKey(c)
  PROVE  \E M, t : Settles(c, M, t) /\ Turn(c, M)
<1> DEFINE m == Head(inbox[c])
           v == view[c]
           W == whisper[c]
           L0 == LocalOf(c)
           A == Adopt(L0, m.comp, m.key, m.epoch)
           b == A.rewrap \/ (W # {} /\ v.where[c] \in m.comp)
           L1 == [A EXCEPT !.rewrap = @ \/ (W # {} /\ v.where[c] \in m.comp)]
           refused == m.epoch > Wall(c, now) + MaxAhead \/ ~ (m.comp \subseteq {0} \cup v.chans)
           R == [L0 EXCEPT !.declined = @ \cup {m.key}]
           M == IF refused THEN R ELSE ShareWhisper(c, v, W, L1)
<1>1. /\ m \in Message /\ inbox[c] # <<>> /\ m.type = "e2e_key" /\ phase[c] = "ready"
      /\ Receives(c, "e2e_key")
      /\ m.comp \in SUBSET Scope /\ m.key \in Key /\ m.epoch \in Nat
      /\ MintedIn(minted, m.key, m.epoch)
  <2>1. Receives(c, "e2e_key") /\ phase[c] = "ready" BY DEF HandleKey
  <2> QED BY <2>1, ReceivesType, MessageFields, HeadTruthful
<1>2. view[c] = net /\ Tail(inbox[c]) \in Seq(Chatter(net)) BY <1>1, ReadsChatter
<1>3. Commit(c, M, now, TRUE) /\ UNCHANGED view /\ Steady BY DEF HandleKey
<1>4. net \in View BY DEF IInv, TypeOK
<1>5. Good(L0) /\ L0.fresh = fresh /\ L0.minted = minted BY LocalOfGood DEF LocalOf
<1>6. Tells(net, c, L0, L0) BY <1>4, <1>5, ServesReflexive DEF Serves
<1>7. \A C, k : Safe(C, k) => Kept(net, confided, c, L0, C, k) BY SafeKept
<1>8. ASSUME refused
      PROVE  Good(M) /\ Tells(net, c, L0, M) /\ Keeps(c, M, confided) /\ Takes(c, M)
  <2>1. M = R BY <1>8
  <2> HIDE DEF M
  <2>2. /\ Good(R) /\ R.keys = L0.keys /\ R.epochs = L0.epochs /\ R.minted = L0.minted
        /\ R.out = L0.out /\ R.fresh = L0.fresh /\ R.passed = L0.passed
        /\ R.declined = L0.declined \cup {m.key}
    <3> HIDE DEF L0, m
    <3> QED BY <1>1, <1>5, DeclineLeads DEF Leads
  <2> HIDE DEF L0, R
  <2>3. Tells(net, c, L0, R) BY <1>6, <2>2 DEF Tells, Told
  <2>4. Keeps(c, R, confided) BY <1>5, <1>7, <2>2 DEF Keeps, Kept
  <2>5. Takes(c, R) BY <2>2 DEF Takes
  <2> QED BY <2>1, <2>2, <2>3, <2>4, <2>5 DEF L0
<1>9. ASSUME ~ refused
      PROVE  Good(M) /\ Tells(net, c, L0, M) /\ Keeps(c, M, confided) /\ Takes(c, M)
  <2>1. M = ShareWhisper(c, net, W, L1) BY <1>2, <1>9
  <2>2. Good(L1)
    <3>1. Leads(L0, A)
      <4> HIDE DEF L0, m
      <4> QED BY <1>1, <1>5, AdoptLeads
    <3>2. L1 = [A EXCEPT !.rewrap = b] /\ b \in BOOLEAN
      <4> HIDE DEF A, m, v, W
      <4> QED OBVIOUS
    <3> HIDE DEF A, L1, b
    <3> QED BY <3>1, <3>2, RewrapLeads DEF Leads
  <2>3. Adopts(L0, m.comp, m.key, m.epoch, L1)
    <3>1. L1 = [A EXCEPT !.rewrap = b] /\ b \in BOOLEAN
      <4> HIDE DEF A, m, v, W
      <4> QED OBVIOUS
    <3>2. A = Adopt(L0, m.comp, m.key, m.epoch) OBVIOUS
    <3> HIDE DEF A, L1, b, L0, m
    <3> QED BY <1>1, <1>5, <3>1, <3>2, AdoptFields
  <2> HIDE DEF L1, A, M
  <2>4. Good(M) /\ Whispers(c, net, W, L1, M) BY <1>4, <2>1, <2>2, ShareWhisperFields
  <2>5. Tells(net, c, L0, L1)
    <3>1. \A s \in {0} \cup net.chans : s \in Scope BY <1>4 DEF Scope, View
    <3> QED BY <1>6, <2>3, <3>1 DEF Tells, Adopts, Told
  <2>6. Tells(net, c, L1, M) BY <1>4, <2>2, <2>4, ShareWhisperTells
  <2>7. Tells(net, c, L0, M)
    <3> HIDE DEF L0
    <3> QED BY <1>4, <1>5, <2>2, <2>4, <2>5, <2>6, TellsTransitive
  <2>8. Keeps(c, M, confided)
    <3>1. M.fresh = fresh BY <1>5, <2>3, <2>4 DEF Adopts, Whispers, Quietly, SameTables
    <3>2. ASSUME NEW s \in net.chans, Safe(ComponentOf(net, s), fresh[s])
          PROVE  Kept(net, confided, c, M, ComponentOf(net, s), fresh[s])
      <4> DEFINE C == ComponentOf(net, s)
                 k == fresh[s]
      <4>1. Kept(net, confided, c, L0, C, k) BY <1>7, <3>2
      <4>2. m.key = k => m.comp = C /\ Entrusted(net, confided, c, C)
        <5>1. 1 \in 1..Len(inbox[c]) /\ inbox[c][1] = m
          <6>1. inbox[c] \in Seq(Message) BY DEF IInv, TypeOK
          <6> QED BY <1>1, <6>1
        <5> QED BY <1>1, <3>2, <5>1 DEF Safe
      <4> HIDE DEF C, k, L0, m
      <4>3. Kept(net, confided, c, L1, C, k) BY <2>3, <4>1, <4>2 DEF Kept, Adopts
      <4>4. net.where[c] \in Channel /\ L1.keys[net.where[c]] = k => ComponentOf(net, net.where[c]) = C
        <5> SUFFICES ASSUME net.where[c] \in Channel, L1.keys[net.where[c]] = k
                     PROVE  ComponentOf(net, net.where[c]) = C
            OBVIOUS
        <5>1. net.where[c] \in Scope BY DEF Scope
        <5>2. net.where[c] \in C BY <4>3, <5>1 DEF Kept
        <5> QED BY <1>4, <5>2, ComponentSame DEF C
      <4>5. Kept(net, confided, c, M, C, k) BY <1>4, <2>2, <2>4, <4>3, <4>4, ShareWhisperKeeps
      <4> QED BY <4>5 DEF C, k
    <3> QED BY <3>1, <3>2 DEF Keeps
  <2>9. Takes(c, M)
    <3>1. M.epochs = L1.epochs BY <2>4 DEF Whispers, Quietly, SameTables
    <3> QED BY <2>3, <3>1 DEF Takes, Adopts
  <2> QED BY <2>4, <2>7, <2>8, <2>9
<1>10. Good(M) /\ Tells(net, c, L0, M) /\ Keeps(c, M, confided) /\ Takes(c, M)
    BY <1>8, <1>9
<1> HIDE DEF M
<1>11. Heeds(c, M) /\ Freshens(c, M) /\ Introduces(c, M)
    BY <1>1 DEF Heeds, Due, Freshens, Renewer, Introduces, JoinedMsg
<1>12. Turn(c, M) BY <1>10, <1>11 DEF Turn
<1>13. view' = [view EXCEPT ![c] = net] BY <1>2, <1>3 DEF IInv, TypeOK
<1>14. Settles(c, M, now) BY <1>1, <1>2, <1>3, <1>13, NewsSettles
<1> QED BY <1>12, <1>14

\* e2e_key_request.
LEMMA KeyRequestTurn ==
  ASSUME IInv, Orderly, NEW c \in Session, HandleKeyRequest(c)
  PROVE  \E M, t : Settles(c, M, t) /\ Turn(c, M)
<1> DEFINE m == Head(inbox[c])
           v == view[c]
           L == LocalOf(c)
           comp == IF KeyedScopes(v, m.scope) = {} THEN {m.scope} ELSE KeyedScopes(v, m.scope)
           k == L.keys[m.scope]
           e == L.epochs[m.scope]
           M == IF k = NoKey THEN L ELSE Share(c, v, L, {m.from}, comp, k, e)
<1>1. /\ m \in Message /\ inbox[c] # <<>> /\ m.type = "e2e_key_request" /\ phase[c] = "ready"
      /\ Receives(c, "e2e_key_request") /\ m.from \in Session /\ m.scope \in Scope
  <2>1. Receives(c, "e2e_key_request") /\ phase[c] = "ready" BY DEF HandleKeyRequest
  <2> QED BY <2>1, ReceivesType, MessageFields
<1>2. view[c] = net /\ m \in Chatter(net) /\ Tail(inbox[c]) \in Seq(Chatter(net))
    BY <1>1, ReadsChatter
<1>3. m.from \in MembersOf(net, KeyedScopes(net, m.scope)) BY <1>1, <1>2 DEF Chatter
<1>4. Commit(c, M, now, TRUE) /\ UNCHANGED view /\ Steady BY DEF HandleKeyRequest
<1>5. net \in View BY DEF IInv, TypeOK
<1>6. Good(L) BY LocalOfGood
<1>7. comp \in SUBSET Scope
  <2> HIDE DEF m
  <2> QED BY <1>1, <1>2, <1>5, KeyedScopesType
<1>8. Serves(net, confided, c, L, M)
  <2> HIDE DEF L, m
  <2>1. CASE k = NoKey BY <1>5, <1>6, <2>1, ServesReflexive
  <2>2. CASE k # NoKey
    <3>1. k \in Key /\ e \in Nat /\ MintedIn(L.minted, k, e) BY <1>1, <1>6, <2>2, StoredKey
    <3>2. MayGo(net, confided, c, L, {m.from}, comp, k)
      <4> SUFFICES ASSUME NEW z \in net.chans, Kept(net, confided, c, L, ComponentOf(net, z), k)
                   PROVE  comp = ComponentOf(net, z)
                          /\ \A d \in {m.from} : Entrusted(net, confided, d, comp)
          BY DEF MayGo
      <4>1. m.scope \in ComponentOf(net, z) BY <1>1 DEF Kept
      <4>2. ComponentOf(net, m.scope) = ComponentOf(net, z) /\ m.scope # 0
          BY <1>5, <4>1, ComponentSame, ComponentWithin, ChannelAssumption
      <4>3. KeyedScopes(net, m.scope) = ComponentOf(net, z) /\ ComponentOf(net, z) # {}
          BY <4>1, <4>2 DEF KeyedScopes
      <4>4. comp = ComponentOf(net, z) BY <1>2, <4>3
      <4>5. 0 \notin ComponentOf(net, z) BY <1>5, ComponentType, ChannelAssumption
      <4>6. net.where[m.from] \in comp BY <1>3, <4>3, <4>4, <4>5 DEF MembersOf
      <4> QED BY <4>4, <4>6 DEF Entrusted
    <3>3. M = Share(c, net, L, {m.from}, comp, k, e) BY <1>2, <2>2
    <3> HIDE DEF k, e, M, comp
    <3> QED BY <1>5, <1>6, <1>7, <3>1, <3>2, <3>3, ShareServes
  <2> QED BY <2>1, <2>2
<1> HIDE DEF M
<1>9. Heeds(c, M) /\ Freshens(c, M) /\ Introduces(c, M)
    BY <1>1 DEF Heeds, Due, Freshens, Renewer, Introduces, JoinedMsg
<1>10. Turn(c, M) BY <1>1, <1>8, <1>9, NewsTurn
<1>11. view' = [view EXCEPT ![c] = net] BY <1>2, <1>4 DEF IInv, TypeOK
<1>12. Settles(c, M, now) BY <1>1, <1>2, <1>4, <1>11, NewsSettles
<1> QED BY <1>10, <1>12

\* welcome.
LEMMA WelcomeTurn ==
  ASSUME IInv, Orderly, NEW c \in Session, whisper[c] \in SUBSET confided, HandleWelcome(c)
  PROVE  \E M, t : Settles(c, M, t) /\ Turn(c, M)
<1> DEFINE v == Head(inbox[c]).snapshot
           my == v.where[c]
           W == whisper[c]
           leads0 == IsMaster(c, v, 0)
           leads == my \in Channel /\ IsMaster(c, v, my)
           L0 == LocalOf(c)
           asks0 == ~ leads0 /\ Lacks(c, v, L0, 0)
<1>1. /\ Head(inbox[c]) = WelcomeMsg(net) /\ inbox[c] # <<>> /\ Tail(inbox[c]) \in Seq(Chatter(net))
      /\ phase[c] = "hello" /\ Head(inbox[c]).type = "welcome"
  <2>1. phase[c] = "hello" BY DEF HandleWelcome
  <2>2. Follows(c) BY DEF Orderly
  <2> QED BY <2>1, <2>2 DEF Follows, WelcomeMsg
<1>2. v = net BY <1>1 DEF WelcomeMsg
<1>3. PICK ask \in MayAsk(c), t \in Instant :
        LET L1 == IF leads0 THEN Ensure(c, v, W, L0, 0, Wall(c, t)) ELSE L0
            L2 == Ask(c, L1, 0, ask /\ asks0)
            L3 == IF leads THEN Ensure(c, v, W, L2, my, Wall(c, t))
                  ELSE Ask(c, L2, my, ask /\ ~ asks0 /\ my \in Channel /\ Lacks(c, v, L2, my))
        IN  /\ Commit(c, ShareWhisper(c, v, W, L3), t, TRUE)
            /\ view' = [view EXCEPT ![c] = v]
            /\ phase' = [phase EXCEPT ![c] = "ready"]
            /\ verify' = [verify EXCEPT ![c] =
                   @ \o (IF leads0 THEN <<0>> ELSE <<>>) \o (IF leads THEN <<my>> ELSE <<>>)]
    BY DEF HandleWelcome
<1> DEFINE L1 == IF leads0 THEN Ensure(c, v, W, L0, 0, Wall(c, t)) ELSE L0
           ask0 == ask /\ asks0
           L2 == Ask(c, L1, 0, ask0)
           asks == ask /\ ~ asks0 /\ my \in Channel /\ Lacks(c, v, L2, my)
           L3 == IF leads THEN Ensure(c, v, W, L2, my, Wall(c, t)) ELSE Ask(c, L2, my, asks)
           L4 == ShareWhisper(c, v, W, L3)
<1>4. /\ Commit(c, L4, t, TRUE) /\ view' = [view EXCEPT ![c] = v]
      /\ phase' = [phase EXCEPT ![c] = "ready"]
      /\ UNCHANGED <<net, whisper, events, forgets, raced, confided>>
  <2>1. UNCHANGED <<net, whisper, events, forgets, raced, confided>> BY DEF HandleWelcome
  <2> QED BY <1>3, <2>1
<1>5. Wall(c, t) \in Nat /\ net \in View /\ 0 \in Scope /\ Channel \subseteq Scope
    BY ClockType DEF IInv, TypeOK, Scope
<1>6. Good(L0) BY LocalOfGood
<1> HIDE DEF v
<1>7. Serves(net, confided, c, L0, L1) /\ (leads0 => L1.keys[0] # NoKey)
  <2> HIDE DEF L0, W
  <2>1. CASE ~ leads0 BY <1>5, <1>6, <2>1, ServesReflexive
  <2>2. CASE leads0
    <3>1. L1 = Ensure(c, net, W, L0, 0, Wall(c, t)) BY <1>2, <2>2
    <3>2. Provides(net, confided, c, L0, L1, KeyedScopes(net, 0))
      <4> HIDE DEF L1
      <4> QED BY <1>5, <1>6, <3>1, EnsureServes DEF W
    <3> QED BY <3>2 DEF Provides, KeyedScopes, HasAll
  <2> QED BY <2>1, <2>2
<1>8. Serves(net, confided, c, L1, L2)
  <2>1. Good(L1) BY <1>7 DEF Serves
  <2> HIDE DEF L0, L1, ask0
  <2> QED BY <1>5, <2>1, AskServes
<1>9. /\ Serves(net, confided, c, L2, L3)
      /\ leads /\ my \in net.chans => Told(net, c, L3, ComponentOf(net, my))
  <2>1. Good(L2) BY <1>8 DEF Serves
  <2> HIDE DEF L0, L1, L2, W, my, asks, leads
  <2>2. CASE leads
    <3>1. L3 = Ensure(c, net, W, L2, my, Wall(c, t)) /\ my \in Channel BY <1>2, <2>2 DEF leads
    <3>2. CASE my \in net.chans
      <4>1. KeyedScopes(net, my) = ComponentOf(net, my) /\ ComponentOf(net, my) \in Parts(net)
          BY <3>1, <3>2, ChannelAssumption DEF KeyedScopes, Parts
      <4>2. Provides(net, confided, c, L2, L3, KeyedScopes(net, my))
          BY <1>5, <2>1, <3>1, <3>2, EnsureServes DEF W
      <4> QED BY <4>1, <4>2 DEF Provides
    <3>3. CASE my \notin net.chans
      <4>1. KeyedScopes(net, my) = {}
          BY <3>1, <3>3, ChannelAssumption DEF KeyedScopes, ComponentOf
      <4>2. L3 = L2 BY <3>1, <4>1 DEF Ensure
      <4> QED BY <1>5, <2>1, <3>3, <4>2, ServesReflexive
    <3> QED BY <3>2, <3>3
  <2>3. CASE ~ leads /\ my \in Channel
    <3>1. L3 = Ask(c, L2, my, asks) /\ my \in Scope BY <1>5, <2>3
    <3> QED BY <2>1, <2>3, <3>1, AskServes
  <2>4. CASE ~ leads /\ my \notin Channel
    <3>1. L3 = L2 BY <2>4 DEF Ask, asks
    <3> QED BY <1>5, <2>1, <2>4, <3>1, ServesReflexive
  <2> QED BY <2>2, <2>3, <2>4
<1>10. Serves(net, confided, c, L3, L4)
  <2>1. Good(L3) BY <1>9 DEF Serves
  <2>2. L4 = ShareWhisper(c, net, W, L3) BY <1>2
  <2> HIDE DEF L0, L1, L2, L3, L4, W
  <2> QED BY <1>5, <2>1, <2>2, ShareWhisperServes DEF W
<1> HIDE DEF L1, L2, L3, L4, ask0
<1>11. Serves(net, confided, c, L1, L4)
  <2>1. Good(L1) /\ Good(L2) BY <1>7, <1>8 DEF Serves
  <2>2. Serves(net, confided, c, L2, L4) BY <1>5, <1>9, <1>10, <2>1, ServesTransitive
  <2> QED BY <1>5, <1>8, <2>1, <2>2, ServesTransitive
<1>12. Serves(net, confided, c, L0, L4)
  <2> HIDE DEF L0
  <2> QED BY <1>5, <1>6, <1>7, <1>11, ServesTransitive
<1>13. Heeds(c, L4)
  <2> SUFFICES ASSUME NEW C \in Parts(net), Heads(net, c, C)
               PROVE  Told(net, c, L4, C)
      BY DEF Heeds
  <2>1. my \in C BY <1>2 DEF Heads
  <2>2. C = ComponentOf(net, my) /\ my \in net.chans BY <1>5, <2>1, PartOf
  <2>3. leads BY <1>2, <1>5, <2>1, <2>2, HeadIsMaster DEF Heads, View
  <2>4. Told(net, c, L3, C) BY <1>9, <2>2, <2>3
  <2>5. Good(L3) /\ Good(L4) /\ Tells(net, c, L3, L4) BY <1>9, <1>10 DEF Serves
  <2> QED BY <1>5, <2>4, <2>5, ToldStays
<1>14. Introduces(c, L4)
  <2>1. ASSUME Tops(c) PROVE L4.keys[0] # NoKey
    <3>1. leads0
      <4>1. \A d \in MembersOf(net, {0}) : Online(d) BY EverybodyOnline
      <4> QED BY <1>2, <2>1, <4>1, MembersType DEF IsMaster, KeyedScopes, Tops
    <3>2. L1.keys[0] # NoKey BY <1>7, <3>1
    <3>3. Good(L1) /\ Good(L4) /\ Tells(net, c, L1, L4) BY <1>7, <1>11 DEF Serves
    <3> QED BY <1>5, <3>2, <3>3, KeyStays
  <2> QED BY <1>1, <2>1 DEF Introduces
<1>15. Freshens(c, L4) BY <1>1 DEF Freshens
<1>16. Turn(c, L4)
  <2>1. Head(inbox[c]).type # "e2e_key" BY <1>1
  <2> QED BY <1>12, <1>13, <1>14, <1>15, <2>1, NewsTurn
<1>17. Settles(c, L4, t)
  <2>1. view \in [Session -> View] /\ phase \in [Session -> {"new", "hello", "ready", "gone"}]
      BY DEF IInv, TypeOK
  <2>2. view' = [view EXCEPT ![c] = net] BY <1>2, <1>4
  <2>3. view'[c] = net /\ \A d \in Session \ {c} : view'[d] = view[d] BY <2>1, <2>2
  <2>4. phase'[c] = "ready" /\ \A d \in Session \ {c} : phase'[d] = phase[d] BY <1>4, <2>1
  <2>5. Aligned(net, view'[c], Tail(inbox[c])) BY <1>1, <2>3 DEF Aligned
  <2> QED BY <1>1, <1>4, <2>3, <2>4, <2>5 DEF Settles
<1> QED BY <1>16, <1>17

\* Every handler of a message.
LEMMA HandleTurn ==
  ASSUME IInv, Orderly, NEW c \in Session, whisper[c] \in SUBSET confided, Handle(c)
  PROVE  \E M, t : Settles(c, M, t) /\ Turn(c, M)
BY WelcomeTurn, UserJoinedTurn, UserLeftTurn, UserMovedTurn, ChanUpdateTurn, ChanRemovedTurn,
   KeyTurn, KeyRequestTurn DEF Handle

-----------------------------------------------------------------------------
(* Steps that take no message. *)

\* What c does aside leaves its inbox and its view.
Aside(c, M, t) ==
    /\ Commit(c, M, t, FALSE) /\ phase[c] = "ready"
    /\ Good(M) /\ SameTables(LocalOf(c), M)
    /\ Tells(net, c, LocalOf(c), M) /\ Keeps(c, M, confided')
    /\ confided \subseteq confided'
    /\ UNCHANGED <<net, phase, view, raced, forgets>>

\* Who is trusted stays so when more are.
LEMMA KeptWidens ==
  ASSUME NEW n, NEW T, NEW U, T \subseteq U, NEW c \in Session, NEW L, NEW C, NEW k,
         Kept(n, T, c, L, C, k)
  PROVE  Kept(n, U, c, L, C, k)
BY DEF Kept, Entrusted

\* Wrapping the channel's key for the whisper targets keeps what is safe, even while
\* there is news to read.
LEMMA WhisperKeeps ==
  ASSUME IInv, NEW c \in Session, NEW T, confided \subseteq T, NEW W \in SUBSET T, NEW K, Good(K),
         K.keys = keys[c], K.fresh = fresh,
         \A C, k : k # NoKey /\ Recorded(minted, k) /\ Kept(net, confided, c, LocalOf(c), C, k)
                     => Kept(net, confided, c, K, C, k),
         NEW M, M = ShareWhisper(c, view[c], W, K)
  PROVE  Good(M) /\ SameTables(K, M) /\ Tells(net, c, K, M) /\ Keeps(c, M, T)
<1>1. net \in View /\ view[c] \in View BY DEF IInv, TypeOK
<1>2. Good(M) /\ Whispers(c, view[c], W, K, M) BY <1>1, ShareWhisperFields
<1>3. Tells(net, c, K, M) BY <1>1, <1>2, ShareWhisperTells
<1>4. M.fresh = fresh BY <1>2 DEF Whispers, Quietly, SameTables
<1>5. ASSUME NEW s \in net.chans, fresh[s] # NoKey, Recorded(minted, fresh[s]),
             Safe(ComponentOf(net, s), fresh[s])
      PROVE  Kept(net, T, c, M, ComponentOf(net, s), fresh[s])
  <2> DEFINE C == ComponentOf(net, s)
             k == fresh[s]
             here == view[c].where[c]
  <2>1. Kept(net, confided, c, LocalOf(c), C, k) BY <1>5, SafeKept
  <2>2. here \in Channel /\ K.keys[here] = k => ComponentOf(view[c], here) = C
      BY <1>5 DEF Safe, Scope
  <2> HIDE DEF C, k
  <2>3. Kept(net, confided, c, K, C, k) BY <1>5, <2>1 DEF C, k
  <2>4. Kept(net, T, c, K, C, k) BY <2>3, KeptWidens
  <2>5. Kept(net, T, c, M, C, k) BY <1>1, <1>2, <2>2, <2>4, ShareWhisperKeeps
  <2> QED BY <2>5 DEF C, k
<1>6. SameTables(K, M) BY <1>2 DEF Whispers, Quietly
<1> QED BY <1>2, <1>3, <1>4, <1>5, <1>6 DEF Keeps

\* onE2eeHousekeeping.
LEMMA HousekeepingAside ==
  ASSUME IInv, NEW c \in Session, whisper[c] \in SUBSET confided, Housekeeping(c)
  PROVE  \E M, t : Aside(c, M, t)
<1> DEFINE v == view[c]
           my == v.where[c]
           W == whisper[c]
           L == LocalOf(c)
           verifies == verify[c] # <<>> /\ L.keys[Head(verify[c])] # NoKey
           wanted == IF verifies THEN {Head(verify[c])}
                     ELSE {s \in {0, my} : s \in Scope /\ Lacks(c, v, L, s)}
<1>1. verify[c] \in Seq(Scope) /\ net \in View BY DEF IInv, TypeOK
<1>2. wanted \in SUBSET Scope
  <2>1. CASE verifies BY <1>1, <2>1
  <2>2. CASE ~ verifies BY <2>2
  <2> QED BY <2>1, <2>2
<1>3. PICK s \in wanted \cup {0}, ask \in MayAsk(c) :
        LET K == Ask(c, L, s, ask /\ s \in wanted)
        IN  Commit(c, IF L.rewrap THEN ShareWhisper(c, v, W, K) ELSE K, now, FALSE)
    BY DEF Housekeeping
<1> DEFINE asks == ask /\ s \in wanted
           K == Ask(c, L, s, asks)
           M == IF L.rewrap THEN ShareWhisper(c, v, W, K) ELSE K
<1>4. Commit(c, M, now, FALSE) BY <1>3
<1>5. /\ UNCHANGED <<net, phase, view, raced, forgets>> /\ confided' = confided /\ phase[c] = "ready"
    BY DEF Housekeeping
<1>6. s \in Scope BY <1>2, <1>3 DEF Scope
<1>7. Good(L) /\ L.keys = keys[c] /\ L.fresh = fresh /\ L.minted = minted
    BY LocalOfGood DEF LocalOf
<1>8. Serves(net, confided, c, L, K) /\ Quietly(L, K)
  <2> HIDE DEF L, asks
  <2> QED BY <1>6, <1>7, AskServes
<1>9. Good(K) /\ Tells(net, c, L, K) /\ Keeps(c, K, confided)
    BY <1>8, ServesKeeps DEF Serves
<1>10. ASSUME NEW C, NEW k, Kept(net, confided, c, L, C, k)
       PROVE  Kept(net, confided, c, K, C, k)
  <2>1. K.keys = L.keys BY <1>8 DEF Quietly, SameTables
  <2>2. ASSUME NEW d \in Session, NEW i \in 1..Len(K.out[d]), K.out[d][i].type = "e2e_key"
        PROVE  i \in 1..Len(L.out[d]) /\ K.out[d][i] = L.out[d][i]
    <3>1. L.out[d] \in Seq(Message) BY <1>7 DEF Good, LocalType
    <3>2. RequestMsg(c, s) \in Message /\ RequestMsg(c, s).type # "e2e_key"
        BY <1>6 DEF RequestMsg, Message
    <3>3. K.out[d] = L.out[d] \/ K.out[d] = Append(L.out[d], RequestMsg(c, s))
      <4> HIDE DEF asks
      <4>1. L \in LocalType BY <1>7 DEF Good
      <4> HIDE DEF L
      <4> QED BY <4>1 DEF Ask, LocalType
    <3> HIDE DEF K, L
    <3> QED BY <2>2, <3>1, <3>2, <3>3
  <2> HIDE DEF K, L
  <2> QED BY <1>10, <2>1, <2>2 DEF Kept
<1>11. Good(M) /\ SameTables(L, M) /\ Tells(net, c, L, M) /\ Keeps(c, M, confided)
  <2> HIDE DEF K, L, v, W
  <2>1. CASE M = K BY <1>8, <1>9, <2>1 DEF Quietly
  <2>2. CASE M = ShareWhisper(c, v, W, K)
    <3>1. K.keys = keys[c] /\ K.fresh = fresh BY <1>7, <1>8 DEF Quietly, SameTables
    <3>2. Good(M) /\ SameTables(K, M) /\ Tells(net, c, K, M) /\ Keeps(c, M, confided)
      <4> HIDE DEF M
      <4> QED BY <1>9, <1>10, <2>2, <3>1, WhisperKeeps DEF v, W, L
    <3>3. SameTables(L, M) BY <1>8, <3>2 DEF Quietly, SameTables
    <3> QED BY <1>1, <1>7, <1>9, <3>2, <3>3, TellsTransitive
  <2> QED BY <2>1, <2>2
<1> HIDE DEF M
<1> QED BY <1>4, <1>5, <1>11 DEF Aside

\* setWhisperIds.
LEMMA SetWhisperAside ==
  ASSUME IInv, NEW c \in Session, NEW targets, SetWhisper(c, targets)
  PROVE  \E M, t : Aside(c, M, t)
<1> DEFINE L0 == LocalOf(c)
           b == targets # {}
           L == [L0 EXCEPT !.rewrap = b]
           M == ShareWhisper(c, view[c], targets, L)
<1>1. /\ Commit(c, M, now, FALSE) /\ confided' = confided \cup targets /\ phase[c] = "ready"
      /\ UNCHANGED <<net, phase, view, raced, forgets>>
    BY DEF SetWhisper
<1>2. net \in View BY DEF IInv, TypeOK
<1>3. Good(L0) /\ L0.keys = keys[c] /\ L0.fresh = fresh /\ L0.minted = minted
    BY LocalOfGood DEF LocalOf
<1>4. Good(L)
  <2> HIDE DEF L0, b
  <2>1. b \in BOOLEAN BY DEF b
  <2> QED BY <1>3, <2>1, RewrapLeads DEF Leads
<1>5. Quietly(L0, L) /\ L.out = L0.out
  <2> HIDE DEF b
  <2> QED BY DEF LocalOf, Quietly, SameTables
<1>6. M = ShareWhisper(c, view[c], targets, L) OBVIOUS
<1> HIDE DEF L0, L, M
<1>7. Tells(net, c, L0, L)
  <2>1. Tells(net, c, L0, L0) BY <1>2, <1>3, ServesReflexive DEF Serves
  <2> QED BY <1>5, <2>1 DEF Tells, Told, Quietly, SameTables
<1>8. \A C, k : Kept(net, confided, c, L0, C, k) => Kept(net, confided, c, L, C, k)
    BY <1>5 DEF Kept, Quietly, SameTables
<1>9. Good(M) /\ SameTables(L, M) /\ Tells(net, c, L, M) /\ Keeps(c, M, confided \cup targets)
  <2>1. L.keys = keys[c] /\ L.fresh = fresh BY <1>3, <1>5 DEF Quietly, SameTables
  <2>2. targets \in SUBSET (confided \cup targets) /\ confided \subseteq confided \cup targets OBVIOUS
  <2> QED BY <1>4, <1>6, <1>8, <2>1, <2>2, WhisperKeeps DEF L0
<1>10. Tells(net, c, L0, M) BY <1>2, <1>3, <1>4, <1>7, <1>9, TellsTransitive
<1>11. Keeps(c, M, confided')  BY <1>1, <1>9 DEF Keeps
<1>12. SameTables(L0, M) BY <1>5, <1>9 DEF Quietly, SameTables
<1> QED BY <1>1, <1>9, <1>10, <1>11, <1>12 DEF Aside, L0

-----------------------------------------------------------------------------
(* While events come one at a time everybody's news are in order. *)

\* Events have come one at a time and nobody has thrown a key away.
Calm == ~ raced /\ forgets = 0

WhispersConfided == \A c \in Session : whisper[c] \in SUBSET confided

\* What a handler sends of its own is all that it adds.
LEMMA SendsChatter ==
  ASSUME NEW n, NEW c \in Session, NEW M, Tells(n, c, LocalOf(c), M), NEW d \in Session
  PROVE  M.out[d] \in Seq(Chatter(n))
<1>1. LocalOf(c).out[d] = <<>> BY DEF LocalOf
<1>2. PICK x \in Seq(Chatter(n)) : M.out[d] = <<>> \o x BY <1>1 DEF Tells
<1>3. <<>> \o x = x BY ConcatEmptySeq
<1> QED BY <1>2, <1>3

\* A handler leaves the news in order ...
LEMMA SettlesOrderly ==
  ASSUME IInv, Orderly, NEW c \in Session, NEW M, NEW t, Settles(c, M, t), Turn(c, M)
  PROVE  Orderly'
<1>1. \A d \in Session : M.out[d] \in Seq(Chatter(net)) BY SendsChatter DEF Turn
<1> QED BY <1>1, CommitOrderly DEF Settles

\* ... and so does what is done aside.
LEMMA AsideOrderly ==
  ASSUME IInv, Orderly, NEW c \in Session, NEW M, NEW t, Aside(c, M, t)
  PROVE  Orderly'
<1>1. \A d \in Session : M.out[d] \in Seq(Chatter(net)) BY SendsChatter DEF Aside
<1>2. Aligned(net, view'[c], inbox[c]) BY DEF Orderly, Follows, Aside
<1> QED BY <1>1, <1>2, CommitOrderly DEF Aside

\* When everything is handled everybody online knows what the server knows.
LEMMA QuietKnows ==
  ASSUME Orderly, Quiet, NEW d \in Session
  PROVE  /\ inbox[d] = <<>> /\ phase[d] # "hello"
         /\ phase[d] = "ready" => view[d] = net
         /\ Online(d) <=> phase[d] = "ready"
BY DEF Orderly, Quiet, Follows, Aligned, Online

\* One piece of news to everybody.
LEMMA BroadcastOrderly ==
  ASSUME IInv, Orderly, Quiet, NEW m \in Message, Broadcast(<<m>>),
         m.type \in {"user_left", "user_moved", "chan_update", "chan_removed"},
         After(net, m) = net', UNCHANGED <<phase, view>>, Lobby \in net'.chans,
         \A d \in Session : /\ net'.where[d] \in {Absent} \cup net'.chans
                            /\ net'.where[d] = Absent <=> net.where[d] = Absent
  PROVE  Orderly'
<1>1. ASSUME NEW d \in Session PROVE Online(d)' <=> Online(d) BY DEF Online
<1>2. ASSUME NEW d \in Session PROVE Follows(d)'
  <2>1. /\ inbox[d] = <<>> /\ phase[d] # "hello" /\ (Online(d) <=> phase[d] = "ready")
        /\ phase[d] = "ready" => view[d] = net
      BY QuietKnows
  <2>2. CASE Online(d)
    <3>0. <<>> \o <<m>> = <<m>> OBVIOUS
    <3>1. inbox'[d] = <<m>> /\ view'[d] = net /\ phase'[d] = "ready"
        BY <2>1, <2>2, <3>0 DEF Broadcast
    <3>2. <<m>> # <<>> /\ Head(<<m>>) = m /\ Tail(<<m>>) = <<>> /\ <<>> \in Seq(Chatter(net'))
        OBVIOUS
    <3>3. Aligned(net', view'[d], inbox'[d]) BY <3>1, <3>2 DEF Aligned
    <3> QED BY <2>2, <3>1, <3>3, <1>1 DEF Follows
  <2>3. CASE ~ Online(d) BY <1>1, <2>1, <2>3 DEF Broadcast, Follows, Online
  <2> QED BY <2>2, <2>3
<1> QED BY <1>1, <1>2 DEF Orderly

\* The events start from quiet.
LEMMA EventQuiet ==
  ASSUME ServerEvent, Calm'
  PROVE  Quiet /\ Calm
BY DEF ServerEvent, Calm

\* A connection.
LEMMA ConnectOrderly ==
  ASSUME IInv, Orderly, Quiet, NEW c \in Session, Connect(c)
  PROVE  Orderly'
<1> DEFINE j == <<JoinedMsg(c), MovedMsg(c, Lobby)>>
<1>1. /\ net' = [net EXCEPT !.where[c] = Lobby] /\ phase' = [phase EXCEPT ![c] = "hello"]
      /\ inbox' = [d \in Session |-> IF d = c THEN <<WelcomeMsg(net')>>
                                     ELSE IF Online(d) THEN inbox[d] \o j ELSE inbox[d]]
      /\ UNCHANGED view /\ phase[c] = "new"
    BY DEF Connect
<1>2. net \in View /\ phase \in [Session -> {"new", "hello", "ready", "gone"}] BY DEF IInv, TypeOK
<1>3. /\ net'.chans = net.chans /\ net'.where[c] = Lobby
      /\ \A d \in Session \ {c} : net'.where[d] = net.where[d]
    BY <1>1, <1>2 DEF View
<1>4. phase'[c] = "hello" /\ \A d \in Session \ {c} : phase'[d] = phase[d] BY <1>1, <1>2
<1>5. Lobby # Absent BY LobbyAssumption, ChannelAssumption DEF Absent
<1>6. \A d \in Session : net'.where[d] = Absent <=> ~ Online(d)'
    BY <1>3, <1>4, <1>5 DEF Orderly, Online
<1>7. Follows(c)'
  <2>1. /\ inbox'[c] = <<WelcomeMsg(net')>> BY <1>1
  <2>2. \A m : <<m>> # <<>> /\ Head(<<m>>) = m /\ Tail(<<m>>) = <<>> OBVIOUS
  <2>3. <<>> \in Seq(Chatter(net')) OBVIOUS
  <2> QED BY <1>4, <2>1, <2>2, <2>3 DEF Follows, Online
<1>8. ASSUME NEW d \in Session, d # c PROVE Follows(d)'
  <2>1. /\ inbox[d] = <<>> /\ phase[d] # "hello" /\ (Online(d) <=> phase[d] = "ready")
        /\ phase[d] = "ready" => view[d] = net
      BY QuietKnows
  <2>2. CASE Online(d)
    <3>1. inbox'[d] = <<>> \o j BY <1>1, <1>8, <2>1, <2>2
    <3>2. \A a, b : /\ <<>> \o <<a, b>> = <<a, b>> /\ <<a, b>> # <<>> /\ Head(<<a, b>>) = a
                    /\ Tail(<<a, b>>) = <<b>> /\ <<b>> # <<>> /\ Head(<<b>>) = b
                    /\ Tail(<<b>>) = <<>>
        OBVIOUS
    <3>3. <<>> \in Seq(Chatter(net')) OBVIOUS
    <3>4. view'[d] = net BY <1>1, <2>1, <2>2
    <3>5. Aligned(net', view'[d], inbox'[d])
      <4>1. /\ inbox'[d] # <<>> /\ Head(inbox'[d]) = JoinedMsg(c)
            /\ Tail(inbox'[d]) = <<MovedMsg(c, Lobby)>>
          BY <3>1, <3>2
      <4>2. /\ Tail(inbox'[d]) # <<>> /\ Head(Tail(inbox'[d])) = MovedMsg(c, Lobby)
            /\ Tail(Tail(inbox'[d])) = <<>>
          BY <3>2, <4>1
      <4> QED BY <1>1, <3>3, <3>4, <4>1, <4>2 DEF Aligned
    <3> QED BY <1>4, <1>8, <2>1, <2>2, <3>5 DEF Follows, Online
  <2>3. CASE ~ Online(d) BY <1>1, <1>4, <1>8, <2>1, <2>3 DEF Follows, Online
  <2> QED BY <2>2, <2>3
<1>9. \A d \in Session : net'.where[d] \in {Absent} \cup net'.chans BY <1>3 DEF Orderly
<1>10. Lobby \in net'.chans BY <1>3 DEF Orderly
<1> QED BY <1>6, <1>7, <1>8, <1>9, <1>10 DEF Orderly

\* A disconnection.
LEMMA DisconnectOrderly ==
  ASSUME IInv, Orderly, Quiet, NEW c \in Session, Disconnect(c)
  PROVE  Orderly'
<1>1. /\ net' = [net EXCEPT !.where[c] = Absent] /\ phase' = [phase EXCEPT ![c] = "gone"]
      /\ inbox' = [d \in Session |-> IF d = c THEN <<>>
                                     ELSE IF Online(d) THEN inbox[d] \o <<LeftMsg(c)>> ELSE inbox[d]]
      /\ view' = [view EXCEPT ![c] = NoView]
    BY DEF Disconnect
<1>2. /\ net \in View /\ phase \in [Session -> {"new", "hello", "ready", "gone"}]
      /\ view \in [Session -> View]
    BY DEF IInv, TypeOK
<1>3. /\ net'.chans = net.chans /\ net'.where[c] = Absent
      /\ \A d \in Session \ {c} : net'.where[d] = net.where[d]
    BY <1>1, <1>2 DEF View
<1>4. phase'[c] = "gone" /\ \A d \in Session \ {c} : phase'[d] = phase[d] /\ view'[d] = view[d]
    BY <1>1, <1>2
<1>5. \A d \in Session : net'.where[d] = Absent <=> ~ Online(d)'
    BY <1>3, <1>4 DEF Orderly, Online
<1>6. Follows(c)' BY <1>1, <1>4 DEF Follows, Online
<1>7. ASSUME NEW d \in Session, d # c PROVE Follows(d)'
  <2>1. /\ inbox[d] = <<>> /\ phase[d] # "hello" /\ (Online(d) <=> phase[d] = "ready")
        /\ phase[d] = "ready" => view[d] = net
      BY QuietKnows
  <2>2. CASE Online(d)
    <3> DEFINE m == LeftMsg(c)
    <3>1. inbox'[d] = <<>> \o <<m>> BY <1>1, <1>7, <2>1, <2>2
    <3>2. m.type = "user_left" /\ m.id = c BY DEF LeftMsg
    <3> HIDE DEF m
    <3>3. <<>> \o <<m>> = <<m>> /\ <<m>> # <<>> /\ Head(<<m>>) = m /\ Tail(<<m>>) = <<>> OBVIOUS
    <3>4. <<>> \in Seq(Chatter(net')) OBVIOUS
    <3>5. After(net, m) = net' BY <1>1, <3>2 DEF After
    <3>6. Aligned(net', view'[d], inbox'[d])
        BY <1>4, <1>7, <2>1, <2>2, <3>1, <3>2, <3>3, <3>4, <3>5 DEF Aligned
    <3> QED BY <1>4, <1>7, <2>1, <2>2, <3>6 DEF Follows, Online
  <2>3. CASE ~ Online(d) BY <1>1, <1>4, <1>7, <2>1, <2>3 DEF Follows, Online
  <2> QED BY <2>2, <2>3
<1>8. \A d \in Session : net'.where[d] \in {Absent} \cup net'.chans BY <1>3 DEF Orderly
<1>9. Lobby \in net'.chans BY <1>3 DEF Orderly
<1> QED BY <1>5, <1>6, <1>7, <1>8, <1>9 DEF Orderly

\* A move.
LEMMA MoveOrderly ==
  ASSUME IInv, Orderly, Quiet, NEW c \in Session, NEW ch \in Channel, Move(c, ch)
  PROVE  Orderly'
<1> DEFINE m == MovedMsg(c, ch)
<1>1. /\ net' = [net EXCEPT !.where[c] = ch] /\ Broadcast(<<m>>) /\ UNCHANGED <<phase, view>>
      /\ phase[c] = "ready" /\ ch \in net.chans
    BY DEF Move
<1>2. net \in View BY DEF IInv, TypeOK
<1>3. /\ net'.chans = net.chans /\ net'.where[c] = ch
      /\ \A d \in Session \ {c} : net'.where[d] = net.where[d]
    BY <1>1, <1>2 DEF View
<1>4. ch # Absent BY ChannelAssumption DEF Absent
<1>5. m \in Message /\ m.type = "user_moved" /\ m.id = c /\ m.chan = ch BY DEF MovedMsg, Message
<1>6. net.where[c] # Absent BY <1>1 DEF Orderly, Online
<1> HIDE DEF m
<1>7. After(net, m) = net' BY <1>1, <1>5 DEF After
<1>8. \A d \in Session : /\ net'.where[d] \in {Absent} \cup net'.chans
                         /\ net'.where[d] = Absent <=> net.where[d] = Absent
    BY <1>1, <1>3, <1>4, <1>6 DEF Orderly
<1>9. Lobby \in net'.chans BY <1>3 DEF Orderly
<1> QED BY <1>1, <1>5, <1>7, <1>8, <1>9, BroadcastOrderly

\* An edit of a channel.
LEMMA EditChannelOrderly ==
  ASSUME IInv, Orderly, Quiet, NEW ch \in Channel, NEW linked \in SUBSET Channel, EditChannel(ch, linked)
  PROVE  Orderly'
<1> DEFINE m == ChanUpdateMsg(ch, linked)
<1>1. /\ net' = [net EXCEPT !.links = Relinked(@, ch, linked)] /\ Broadcast(<<m>>)
      /\ UNCHANGED <<phase, view>> /\ ch \in net.chans
    BY DEF EditChannel
<1>2. net \in View BY DEF IInv, TypeOK
<1>3. net'.chans = net.chans /\ net'.where = net.where BY <1>1, <1>2 DEF View
<1>4. m \in Message /\ m.type = "chan_update" /\ m.chan = ch /\ m.linked = linked
    BY DEF ChanUpdateMsg, Message
<1> HIDE DEF m
<1>5. After(net, m) = net'
  <2>1. After(net, m) = [net EXCEPT !.chans = @ \cup {ch}, !.links = Relinked(@, ch, linked)]
      BY <1>4 DEF After
  <2>2. net.chans \cup {ch} = net.chans BY <1>1
  <2> QED BY <1>1, <1>2, <2>1, <2>2 DEF View
<1>6. \A d \in Session : /\ net'.where[d] \in {Absent} \cup net'.chans
                         /\ net'.where[d] = Absent <=> net.where[d] = Absent
    BY <1>3 DEF Orderly
<1>7. Lobby \in net'.chans BY <1>3 DEF Orderly
<1> QED BY <1>1, <1>4, <1>5, <1>6, <1>7, BroadcastOrderly

\* The removal of a channel.
LEMMA RemoveChannelOrderly ==
  ASSUME IInv, Orderly, Quiet, NEW ch \in Channel, RemoveChannel(ch)
  PROVE  Orderly'
<1> DEFINE m == ChanRemovedMsg(ch)
<1>1. /\ net' = [net EXCEPT !.chans = @ \ {ch}, !.links = {l \in @ : l[1] # ch}] /\ Broadcast(<<m>>)
      /\ UNCHANGED <<phase, view>> /\ ch # Lobby /\ \A d \in Session : net.where[d] # ch
    BY DEF RemoveChannel
<1>2. net \in View BY DEF IInv, TypeOK
<1>3. net'.chans = net.chans \ {ch} /\ net'.where = net.where BY <1>1, <1>2 DEF View
<1>4. m \in Message /\ m.type = "chan_removed" /\ m.chan = ch BY DEF ChanRemovedMsg, Message
<1> HIDE DEF m
<1>5. After(net, m) = net' BY <1>1, <1>4 DEF After
<1>6. \A d \in Session : /\ net'.where[d] \in {Absent} \cup net'.chans
                         /\ net'.where[d] = Absent <=> net.where[d] = Absent
    BY <1>1, <1>3 DEF Orderly
<1>7. Lobby \in net'.chans BY <1>1, <1>3 DEF Orderly
<1> QED BY <1>1, <1>4, <1>5, <1>6, <1>7, BroadcastOrderly

-----------------------------------------------------------------------------
(* Every component that has members has heard of the key passed on last for it, or
   its head has news that will make it pass on a key. *)

Pending(C) == \E m \in Session : Heads(net, m, C) /\ Due(inbox[m], C)

Knows(d, C, k, e) == k \in declined[d] \/ \A s \in C : epochs[d][s] >= e

HeardOf(C, k, e) ==
    /\ MintedIn(minted, k, e) /\ \A s \in C : passed[s] = k
    /\ \A d \in Session : net.where[d] \in C => Knows(d, C, k, e) \/ Holds(inbox[d], KeyMsg(C, k, e))

Heard(C) == \E k \in Key, e \in Epoch : HeardOf(C, k, e)

AllHeard ==
    \A C \in Parts(net) : (\E d \in Session : net.where[d] \in C) => Heard(C) \/ Pending(C)

\* A queue that grows stays due.
LEMMA DueStays ==
  ASSUME NEW q \in Seq(Message), NEW r \in Seq(Message), NEW C, Due(q, C)
  PROVE  Due(q \o r, C)
<1>1. q # <<>> BY DEF Due
<1>2. q \o r # <<>> /\ Head(q \o r) = Head(q) BY <1>1, HeadTailConcat
<1> QED BY <1>1, <1>2 DEF Due

\* What a commit writes to the tables and inboxes.
LEMMA CommitWrites ==
  ASSUME IInv, NEW c \in Session, NEW M, NEW t, NEW popped, Commit(c, M, t, popped)
  PROVE  /\ keys'[c] = M.keys /\ epochs'[c] = M.epochs /\ declined'[c] = M.declined
         /\ \A d \in Session \ {c} : /\ keys'[d] = keys[d] /\ epochs'[d] = epochs[d]
                                     /\ declined'[d] = declined[d]
         /\ minted' = M.minted /\ passed' = M.passed /\ fresh' = M.fresh
<1>1. /\ keys' = [keys EXCEPT ![c] = M.keys] /\ epochs' = [epochs EXCEPT ![c] = M.epochs]
      /\ declined' = [declined EXCEPT ![c] = M.declined]
      /\ minted' = M.minted /\ passed' = M.passed /\ fresh' = M.fresh
    BY DEF Commit
<1>2. /\ keys \in [Session -> [Scope -> KeyOrNone]] /\ epochs \in [Session -> [Scope -> Nat]]
      /\ declined \in [Session -> SUBSET Key]
    BY DEF IInv, TypeOK
<1> QED BY <1>1, <1>2

\* What it writes to the inbox of who is online.
LEMMA CommitDelivers ==
  ASSUME NEW c \in Session, NEW M, NEW t, NEW popped, Commit(c, M, t, popped),
         NEW d \in Session, Online(d)
  PROVE  inbox'[d] = (IF d = c /\ popped THEN Tail(inbox[d]) ELSE inbox[d]) \o M.out[d]
BY DEF Commit

\* A commit delivers to another session what was sent to it.
LEMMA DeliversToOthers ==
  ASSUME NEW c \in Session, NEW M, NEW t, NEW popped, Commit(c, M, t, popped),
         NEW d \in Session \ {c}, Online(d)
  PROVE  inbox'[d] = inbox[d] \o M.out[d]
BY DEF Commit

\* A commit that handles no message delivers to everybody what was sent to them.
LEMMA AddsToQueues ==
  ASSUME NEW c \in Session, NEW M, NEW t, Commit(c, M, t, FALSE), NEW d \in Session, Online(d)
  PROVE  inbox'[d] = inbox[d] \o M.out[d]
BY DEF Commit

\* What is appended to a queue it holds.
LEMMA HoldsThen ==
  ASSUME NEW q \in Seq(Message), NEW r \in Seq(Message), NEW m, Holds(r, m)
  PROVE  Holds(q \o r, m)
<1>1. PICK i \in 1..Len(r) : r[i] = m BY DEF Holds
<1>2. \E j \in 1..Len(q \o r) : (q \o r)[j] = r[i] BY ConcatHolds
<1> QED BY <1>1, <1>2 DEF Holds

\* Who is in a component is online.
LEMMA PlacedOnline ==
  ASSUME IInv, Orderly, NEW C \in Parts(net), NEW d \in Session, net.where[d] \in C
  PROVE  Online(d)
<1>1. net \in View BY DEF IInv, TypeOK
<1>2. C \in SUBSET Channel BY <1>1, PartType
<1>3. net.where[d] # Absent BY <1>2, ChannelAssumption DEF Absent
<1> QED BY <1>3 DEF Orderly

\* A commit that tells a component makes it hear.
LEMMA ToldHears ==
  ASSUME IInv, Orderly, NEW c \in Session, NEW M, NEW t, NEW popped \in BOOLEAN,
         popped => inbox[c] # <<>>, Commit(c, M, t, popped),
         Good(M), net' = net, NEW C \in Parts(net), Told(net, c, M, C)
  PROVE  Heard(C)'
<1>1. PICK k \in Key, e \in Epoch :
        /\ MintedIn(M.minted, k, e)
        /\ \A s \in C : M.passed[s] = k
        /\ k \in M.declined \/ \A s \in C : M.epochs[s] >= e
        /\ \A d \in Session \ {c} : net.where[d] \in C => Holds(M.out[d], KeyMsg(C, k, e))
    BY DEF Told
<1>2. /\ keys'[c] = M.keys /\ epochs'[c] = M.epochs /\ declined'[c] = M.declined
      /\ minted' = M.minted /\ passed' = M.passed
    BY CommitWrites
<1>3. Knows(c, C, k, e)' BY <1>1, <1>2 DEF Knows
<1>4. ASSUME NEW d \in Session \ {c}, net.where[d] \in C
      PROVE  Holds(inbox'[d], KeyMsg(C, k, e))
  <2>0. Online(d) BY <1>4, PlacedOnline
  <2>1. inbox'[d] = inbox[d] \o M.out[d] BY <2>0, DeliversToOthers
  <2>2. inbox[d] \in Seq(Message) /\ M.out[d] \in Seq(Message) BY DEF IInv, TypeOK, Good, LocalType
  <2>3. Holds(M.out[d], KeyMsg(C, k, e)) BY <1>1, <1>4
  <2> QED BY <2>1, <2>2, <2>3, HoldsThen
<1>5. HeardOf(C, k, e)' BY <1>1, <1>2, <1>3, <1>4 DEF HeardOf
<1> QED BY <1>5 DEF Heard

\* A component that has heard goes on having heard.
LEMMA HeardStays ==
  ASSUME IInv, Orderly, NEW c \in Session, NEW M, NEW t, NEW popped \in BOOLEAN,
         popped => inbox[c] # <<>> /\ Takes(c, M), Commit(c, M, t, popped),
         Good(M), Tells(net, c, LocalOf(c), M), net' = net, NEW C \in Parts(net), Heard(C)
  PROVE  Heard(C)'
<1>1. CASE Told(net, c, M, C) BY <1>1, ToldHears
<1>2. CASE ~ Told(net, c, M, C)
  <2>1. PICK k \in Key, e \in Epoch : HeardOf(C, k, e) BY DEF Heard
  <2>2. /\ keys'[c] = M.keys /\ epochs'[c] = M.epochs /\ declined'[c] = M.declined
        /\ minted' = M.minted /\ passed' = M.passed
        /\ \A d \in Session \ {c} : epochs'[d] = epochs[d] /\ declined'[d] = declined[d]
      BY CommitWrites
  <2>3. /\ LocalOf(c).passed = passed /\ LocalOf(c).minted = minted /\ LocalOf(c).epochs = epochs[c]
        /\ LocalOf(c).declined = declined[c]
      BY DEF LocalOf
  <2>4. \A s \in C : passed'[s] = k BY <1>2, <2>1, <2>2, <2>3 DEF Tells, HeardOf
  <2>5. MintedIn(minted', k, e)
    <3>1. minted \in [Session -> Seq(Epoch)] /\ M.minted \in [Session -> Seq(Epoch)]
        BY DEF IInv, TypeOK, Good, LocalType
    <3>2. Extends(minted, M.minted) BY <2>3 DEF Tells
    <3>3. MintedIn(minted, k, e) BY <2>1 DEF HeardOf
    <3> QED BY <2>2, <3>1, <3>2, <3>3, ExtendsConfirms
  <2>6. ASSUME NEW d \in Session, net.where[d] \in C
        PROVE  Knows(d, C, k, e)' \/ Holds(inbox'[d], KeyMsg(C, k, e))
    <3> DEFINE m == KeyMsg(C, k, e)
    <3>1. inbox[d] \in Seq(Message) /\ M.out[d] \in Seq(Message) BY DEF IInv, TypeOK, Good, LocalType
    <3>0. Online(d) BY <2>6, PlacedOnline
    <3>2. inbox'[d] = (IF d = c /\ popped THEN Tail(inbox[d]) ELSE inbox[d]) \o M.out[d]
        BY <3>0, CommitDelivers, ZenonT(60)
    <3>3. Knows(d, C, k, e) \/ Holds(inbox[d], m) BY <2>1, <2>6 DEF HeardOf
    <3>4. CASE Knows(d, C, k, e)
      <4>1. CASE d # c BY <2>2, <3>4, <4>1 DEF Knows
      <4>2. CASE d = c
        <5>1. CASE k \in declined[d] BY <2>2, <2>3, <4>2, <5>1 DEF Knows, Tells
        <5>2. CASE \A s \in C : epochs[d][s] >= e
          <6>0. net \in View BY DEF IInv, TypeOK
          <6>1. C \subseteq net.chans /\ C \subseteq Scope BY <6>0, PartType
          <6>2. \A s \in C : M.epochs[s] >= epochs[c][s] BY <2>3, <6>1 DEF Tells
          <6>3. \A s \in C : M.epochs[s] \in Nat /\ epochs[c][s] \in Nat
              BY <6>1 DEF Good, LocalType, IInv, TypeOK
          <6>4. e \in Nat BY DEF Epoch
          <6>5. \A s \in C : epochs'[d][s] >= e BY <2>2, <4>2, <5>2, <6>2, <6>3, <6>4
          <6> QED BY <6>5 DEF Knows
        <5> QED BY <3>4, <5>1, <5>2 DEF Knows
      <4> QED BY <4>1, <4>2
    <3>5. CASE Holds(inbox[d], m)
      <4>0. m.type = "e2e_key" /\ m.key = k /\ m.epoch = e /\ m.comp = C BY DEF KeyMsg
      <4> HIDE DEF m
      <4>1. CASE ~ (d = c /\ popped)
        <5>1. inbox'[d] = inbox[d] \o M.out[d] BY <3>2, <4>1
        <5>2. Holds(inbox'[d], m) BY <3>1, <3>5, <5>1, HoldsOn
        <5> QED BY <5>2 DEF m
      <4>2. CASE d = c /\ popped
        <5>1. inbox[d] # <<>> /\ Takes(c, M) BY <4>2
        <5>2. Tail(inbox[d]) \in Seq(Message) BY <3>1, <5>1, HeadTailProperties
        <5>3. Head(inbox[d]) = m \/ Holds(Tail(inbox[d]), m)
            BY <3>1, <3>5, <5>1, TailHolds DEF Holds
        <5>4. CASE Head(inbox[d]) = m
          <6>1. k \in M.declined \/ \A s \in C : M.epochs[s] >= e
              BY <4>0, <4>2, <5>1, <5>4 DEF Takes
          <6> QED BY <2>2, <4>2, <6>1 DEF Knows
        <5>5. CASE Holds(Tail(inbox[d]), m)
          <6>1. inbox'[d] = Tail(inbox[d]) \o M.out[d] BY <3>2, <4>2
          <6>2. Holds(inbox'[d], m) BY <3>1, <5>2, <5>5, <6>1, HoldsOn
          <6> QED BY <6>2 DEF m
        <5> QED BY <5>3, <5>4, <5>5
      <4> QED BY <4>1, <4>2
    <3> QED BY <3>3, <3>4, <3>5
  <2>7. HeardOf(C, k, e)' BY <2>4, <2>5, <2>6 DEF HeardOf
  <2> QED BY <2>7 DEF Heard
<1> QED BY <1>1, <1>2

\* A handler that heeds its news keeps everybody told.
LEMMA SettlesHeard ==
  ASSUME IInv, Orderly, AllHeard, NEW c \in Session, NEW M, NEW t, Settles(c, M, t), Turn(c, M)
  PROVE  AllHeard'
<1>1. /\ Commit(c, M, t, TRUE) /\ inbox[c] # <<>> /\ net' = net /\ Good(M)
      /\ Tells(net, c, LocalOf(c), M) /\ Takes(c, M) /\ Heeds(c, M)
      /\ phase[c] \in {"hello", "ready"}
    BY DEF Settles, Turn
<1> SUFFICES ASSUME NEW C \in Parts(net), \E d \in Session : net.where[d] \in C
             PROVE  Heard(C)' \/ Pending(C)'
    BY <1>1 DEF AllHeard
<1>2. CASE Heard(C) BY <1>1, <1>2, HeardStays
<1>3. CASE Pending(C)
  <2>1. PICK m \in Session : Heads(net, m, C) /\ Due(inbox[m], C) BY <1>3 DEF Pending
  <2>2. inbox[m] \in Seq(Message) /\ M.out[m] \in Seq(Message)
      BY <1>1 DEF IInv, TypeOK, Good, LocalType
  <2>0. Online(m) BY <2>1, PlacedOnline DEF Heads
  <2>3. inbox'[m] = (IF m = c THEN Tail(inbox[m]) ELSE inbox[m]) \o M.out[m]
    <3> DEFINE p == TRUE
    <3>0. Commit(c, M, t, p) BY <1>1
    <3> HIDE DEF p
    <3>1. inbox'[m] = (IF m = c /\ p THEN Tail(inbox[m]) ELSE inbox[m]) \o M.out[m]
        BY <2>0, <3>0, CommitDelivers, ZenonT(60)
    <3> QED BY <3>1 DEF p
  <2>4. CASE m # c
    <3>1. Due(inbox'[m], C) BY <2>1, <2>2, <2>3, <2>4, DueStays
    <3> QED BY <1>1, <2>1, <3>1 DEF Pending
  <2>5. CASE m = c
    <3>1. Told(net, c, M, C) \/ (Lobby \in C /\ Head(inbox[c]).type = "user_joined")
        BY <1>1, <2>1, <2>5 DEF Heeds
    <3>2. CASE Told(net, c, M, C) BY <1>1, <3>2, ToldHears
    <3>3. CASE Lobby \in C /\ Head(inbox[c]).type = "user_joined"
      <4> DEFINE d == Head(inbox[c]).id
                 q == Tail(inbox[c])
      <4>0. phase[c] = "ready"
        <5>1. phase[c] = "hello" => Head(inbox[c]) = WelcomeMsg(net) BY DEF Orderly, Follows
        <5> QED BY <1>1, <3>3, <5>1 DEF WelcomeMsg
      <4>1. q # <<>> /\ Head(q) = MovedMsg(d, Lobby) BY <1>1, <3>3, <4>0, ReadsJoined
      <4>2. q \in Seq(Message) BY <1>1, <2>2, <2>5, HeadTailProperties
      <4>3. inbox'[m] = q \o M.out[m] BY <2>3, <2>5
      <4> HIDE DEF q
      <4>4. Due(q, C) BY <3>3, <4>1 DEF Due, MovedMsg
      <4>5. Due(inbox'[m], C) BY <2>2, <4>2, <4>3, <4>4, DueStays
      <4> QED BY <1>1, <2>1, <4>5 DEF Pending
    <3> QED BY <3>1, <3>2, <3>3
  <2> QED BY <2>4, <2>5
<1> QED BY <1>2, <1>3 DEF AllHeard

\* What is done aside keeps everybody told.
LEMMA AsideHeard ==
  ASSUME IInv, Orderly, AllHeard, NEW c \in Session, NEW M, NEW t, Aside(c, M, t)
  PROVE  AllHeard'
<1>1. /\ Commit(c, M, t, FALSE) /\ net' = net /\ Good(M) /\ Tells(net, c, LocalOf(c), M)
    BY DEF Aside
<1> SUFFICES ASSUME NEW C \in Parts(net), \E d \in Session : net.where[d] \in C
             PROVE  Heard(C)' \/ Pending(C)'
    BY <1>1 DEF AllHeard
<1>2. CASE Heard(C) BY <1>1, <1>2, HeardStays
<1>3. CASE Pending(C)
  <2>1. PICK m \in Session : Heads(net, m, C) /\ Due(inbox[m], C) BY <1>3 DEF Pending
  <2>2. inbox[m] \in Seq(Message) /\ M.out[m] \in Seq(Message)
      BY <1>1 DEF IInv, TypeOK, Good, LocalType
  <2>0. Online(m) BY <2>1, PlacedOnline DEF Heads
  <2>3. inbox'[m] = inbox[m] \o M.out[m] BY <1>1, <2>0, AddsToQueues
  <2>4. Due(inbox'[m], C) BY <2>1, <2>2, <2>3, DueStays
  <2> QED BY <1>1, <2>1, <2>4 DEF Pending
<1> QED BY <1>2, <1>3 DEF AllHeard

-----------------------------------------------------------------------------
(* The events leave every component told, or with news for its head. *)

\* What a component has heard each part of it has.
LEMMA HeardShrinks ==
  ASSUME Quiet, NEW B, NEW C, C \subseteq B, Heard(B), UNCHANGED <<passed, minted>>,
         \A d \in Session : net'.where[d] \in C =>
             net.where[d] \in B /\ epochs'[d] = epochs[d] /\ declined'[d] = declined[d]
  PROVE  Heard(C)'
<1>1. PICK k \in Key, e \in Epoch : HeardOf(B, k, e) BY DEF Heard
<1>2. ASSUME NEW d \in Session, net'.where[d] \in C PROVE Knows(d, C, k, e)'
  <2>1. Knows(d, B, k, e) \/ Holds(inbox[d], KeyMsg(B, k, e)) BY <1>1, <1>2 DEF HeardOf
  <2>2. inbox[d] = <<>> BY DEF Quiet
  <2>3. ~ Holds(inbox[d], KeyMsg(B, k, e)) BY <2>2 DEF Holds
  <2> QED BY <1>2, <2>1, <2>3 DEF Knows
<1>3. MintedIn(minted', k, e) /\ \A s \in C : passed'[s] = k BY <1>1 DEF HeardOf
<1>4. HeardOf(C, k, e)' BY <1>2, <1>3 DEF HeardOf
<1> QED BY <1>4 DEF Heard

\* News for all the members of a component are news for its head.
LEMMA PendingAll ==
  ASSUME NEW C, \E d \in Session : net'.where[d] \in C,
         \A d \in Session : net'.where[d] \in C => Due(inbox'[d], C)
  PROVE  Pending(C)'
<1> DEFINE S == {d \in Session : net'.where[d] \in C}
<1>1. S \in SUBSET Session /\ S # {} OBVIOUS
<1>2. PICK m \in S : \A d \in S : ~ (Uid[d] < Uid[m]) BY <1>1, Least
<1>3. Heads(net', m, C) BY <1>2 DEF Heads
<1> QED BY <1>2, <1>3 DEF Pending

\* An event of either kind.
LEMMA EventHeard ==
  ASSUME Quiet, AllHeard, UNCHANGED <<passed, minted>>,
         \A C \in Parts(net') :
            \/ \A d \in Session : net'.where[d] \in C => Due(inbox'[d], C)
            \/ \E B \in Parts(net) :
                  /\ C \subseteq B
                  /\ \A d \in Session : net'.where[d] \in C =>
                       net.where[d] \in B /\ epochs'[d] = epochs[d] /\ declined'[d] = declined[d]
  PROVE  AllHeard'
<1> SUFFICES ASSUME NEW C \in Parts(net'), \E d \in Session : net'.where[d] \in C
             PROVE  Heard(C)' \/ Pending(C)'
    BY DEF AllHeard
<1>1. CASE \A d \in Session : net'.where[d] \in C => Due(inbox'[d], C) BY <1>1, PendingAll
<1>2. ASSUME NEW B \in Parts(net), C \subseteq B,
             \A d \in Session : net'.where[d] \in C =>
               net.where[d] \in B /\ epochs'[d] = epochs[d] /\ declined'[d] = declined[d]
      PROVE  Heard(C)'
  <2>1. \E d \in Session : net.where[d] \in B BY <1>2
  <2>2. Heard(B) \/ Pending(B) BY <2>1 DEF AllHeard
  <2>3. ~ Pending(B) BY DEF Pending, Due, Quiet
  <2>4. Heard(B) BY <2>2, <2>3
  <2> QED BY <1>2, <2>4, HeardShrinks
<1> QED BY <1>1, <1>2

\* Parts are decided by the channels and their links.
LEMMA PartsFrame ==
  ASSUME NEW n, NEW m, n.chans = m.chans, n.links = m.links
  PROVE  Parts(n) = Parts(m)
BY ComponentFrame DEF Parts

\* A connection.
LEMMA ConnectHeard ==
  ASSUME IInv, Orderly, AllHeard, Quiet, NEW c \in Session, Connect(c)
  PROVE  AllHeard'
<1> DEFINE j == <<JoinedMsg(c), MovedMsg(c, Lobby)>>
<1>1. /\ net' = [net EXCEPT !.where[c] = Lobby]
      /\ inbox' = [d \in Session |-> IF d = c THEN <<WelcomeMsg(net')>>
                                     ELSE IF Online(d) THEN inbox[d] \o j ELSE inbox[d]]
      /\ UNCHANGED <<epochs, passed, minted, declined>>
    BY DEF Connect, told
<1>2. net \in View BY DEF IInv, TypeOK
<1>3. /\ net'.chans = net.chans /\ net'.links = net.links /\ net'.where[c] = Lobby
      /\ \A d \in Session \ {c} : net'.where[d] = net.where[d]
    BY <1>1, <1>2 DEF View
<1>4. Parts(net') = Parts(net) BY <1>3, PartsFrame
<1> SUFFICES ASSUME NEW C \in Parts(net), NEW d \in Session, net'.where[d] \in C, Lobby \in C
             PROVE  Due(inbox'[d], C)
  <2>1. ASSUME NEW C \in Parts(net), Lobby \notin C
        PROVE  \A d \in Session : net'.where[d] \in C =>
                 net.where[d] \in C /\ epochs'[d] = epochs[d] /\ declined'[d] = declined[d]
      BY <1>1, <1>3, <2>1
  <2> QED BY <1>1, <1>4, <2>1, EventHeard
<1>5. \A m : <<m>> # <<>> /\ Head(<<m>>) = m OBVIOUS
<1>6. CASE d = c
  <2>1. inbox'[d] = <<WelcomeMsg(net')>> BY <1>1, <1>6
  <2>2. Head(inbox'[d]) = WelcomeMsg(net') /\ inbox'[d] # <<>> BY <1>5, <2>1
  <2> QED BY <2>2 DEF Due, WelcomeMsg
<1>7. CASE d # c
  <2>1. Online(d) BY <1>3, <1>7, PlacedOnline
  <2>2. inbox'[d] = <<>> \o j BY <1>1, <1>7, <2>1, QuietKnows
  <2>3. \A a, b : /\ <<>> \o <<a, b>> = <<a, b>> /\ <<a, b>> # <<>> /\ Head(<<a, b>>) = a
      OBVIOUS
  <2>4. Head(inbox'[d]) = JoinedMsg(c) /\ inbox'[d] # <<>> BY <2>2, <2>3
  <2> QED BY <2>4 DEF Due, JoinedMsg
<1> QED BY <1>6, <1>7

\* A disconnection.
LEMMA DisconnectHeard ==
  ASSUME IInv, Orderly, AllHeard, Quiet, NEW c \in Session, Disconnect(c)
  PROVE  AllHeard'
<1>1. /\ net' = [net EXCEPT !.where[c] = Absent]
      /\ epochs' = [epochs EXCEPT ![c] = [s \in Scope |-> 0]]
      /\ UNCHANGED <<passed, minted, declined>>
    BY DEF Disconnect, told
<1>2. net \in View /\ epochs \in [Session -> [Scope -> Nat]] BY DEF IInv, TypeOK
<1>3. /\ net'.chans = net.chans /\ net'.links = net.links /\ net'.where[c] = Absent
      /\ \A d \in Session \ {c} : net'.where[d] = net.where[d] /\ epochs'[d] = epochs[d]
    BY <1>1, <1>2 DEF View
<1>4. Parts(net') = Parts(net) BY <1>3, PartsFrame
<1>5. ASSUME NEW C \in Parts(net), NEW d \in Session, net'.where[d] \in C
      PROVE  net.where[d] \in C /\ epochs'[d] = epochs[d] /\ declined'[d] = declined[d]
  <2>1. C \in SUBSET Channel BY <1>2, PartType
  <2>2. d # c BY <1>3, <1>5, <2>1, ChannelAssumption DEF Absent
  <2> QED BY <1>1, <1>3, <1>5, <2>2
<1> QED BY <1>1, <1>4, <1>5, EventHeard

\* One piece of news for everybody reaches the members.
LEMMA BroadcastReaches ==
  ASSUME Quiet, NEW m, Broadcast(<<m>>), NEW d \in Session, Online(d)
  PROVE  inbox'[d] # <<>> /\ Head(inbox'[d]) = m
<1>1. inbox'[d] = inbox[d] \o <<m>> /\ inbox[d] = <<>> BY DEF Broadcast, Quiet
<1>2. <<>> \o <<m>> = <<m>> /\ <<m>> # <<>> /\ Head(<<m>>) = m OBVIOUS
<1> QED BY <1>1, <1>2

\* A move.
LEMMA MoveHeard ==
  ASSUME IInv, Orderly, AllHeard, Quiet, NEW c \in Session, NEW ch \in Channel, Move(c, ch)
  PROVE  AllHeard'
<1> DEFINE m == MovedMsg(c, ch)
<1>1. /\ net' = [net EXCEPT !.where[c] = ch] /\ Broadcast(<<m>>) /\ phase[c] = "ready"
      /\ UNCHANGED <<epochs, passed, minted, declined>>
    BY DEF Move, told
<1>2. net \in View BY DEF IInv, TypeOK
<1>3. /\ net'.chans = net.chans /\ net'.links = net.links /\ net'.where[c] = ch
      /\ \A d \in Session \ {c} : net'.where[d] = net.where[d]
    BY <1>1, <1>2 DEF View
<1>4. Parts(net') = Parts(net) BY <1>3, PartsFrame
<1>5. m.type = "user_moved" /\ m.chan = ch BY DEF MovedMsg
<1> HIDE DEF m
<1>6. ASSUME NEW C \in Parts(net), NEW d \in Session, net'.where[d] \in C, ch \in C
      PROVE  Due(inbox'[d], C)
  <2>1. Online(d)
    <3>1. CASE d = c BY <1>1, <3>1 DEF Online
    <3>2. CASE d # c BY <1>3, <1>6, <3>2, PlacedOnline
    <3> QED BY <3>1, <3>2
  <2>2. inbox'[d] # <<>> /\ Head(inbox'[d]) = m BY <1>1, <2>1, BroadcastReaches
  <2> QED BY <1>5, <1>6, <2>2 DEF Due
<1>7. ASSUME NEW C \in Parts(net), ch \notin C
      PROVE  \A d \in Session : net'.where[d] \in C =>
               net.where[d] \in C /\ epochs'[d] = epochs[d] /\ declined'[d] = declined[d]
    BY <1>1, <1>3, <1>7
<1> QED BY <1>1, <1>4, <1>6, <1>7, EventHeard

\* An edit of a channel.
LEMMA EditChannelHeard ==
  ASSUME IInv, Orderly, AllHeard, Quiet, NEW ch \in Channel, NEW linked \in SUBSET Channel,
         EditChannel(ch, linked), net' \in View
  PROVE  AllHeard'
<1> DEFINE m == ChanUpdateMsg(ch, linked)
<1>1. /\ net' = [net EXCEPT !.links = Relinked(@, ch, linked)] /\ Broadcast(<<m>>)
      /\ UNCHANGED <<epochs, passed, minted, declined>>
    BY DEF EditChannel
<1>2. net \in View BY DEF IInv, TypeOK
<1>3. net'.where = net.where BY <1>1, <1>2 DEF View
<1>4. m.type = "chan_update" BY DEF ChanUpdateMsg
<1> HIDE DEF m
<1>5. ASSUME NEW C \in Parts(net'), NEW d \in Session, net'.where[d] \in C
      PROVE  Due(inbox'[d], C)
  <2>1. net.where[d] # Absent BY <1>3, <1>5, PartType, ChannelAssumption DEF Absent
  <2>2. Online(d) BY <2>1 DEF Orderly
  <2>3. inbox'[d] # <<>> /\ Head(inbox'[d]) = m BY <1>1, <2>2, BroadcastReaches
  <2> QED BY <1>4, <2>3 DEF Due
<1> QED BY <1>1, <1>5, EventHeard

\* The removal of a channel.
LEMMA RemoveChannelHeard ==
  ASSUME IInv, AllHeard, Quiet, NEW ch \in Channel, RemoveChannel(ch), net' \in View
  PROVE  AllHeard'
<1>1. /\ net' = [net EXCEPT !.chans = @ \ {ch}, !.links = {l \in @ : l[1] # ch}]
      /\ UNCHANGED <<epochs, passed, minted, declined>>
    BY DEF RemoveChannel
<1>2. net \in View BY DEF IInv, TypeOK
<1>3. /\ net'.where = net.where /\ net'.chans = net.chans \ {ch}
      /\ net'.links = {l \in net.links : l[1] # ch}
    BY <1>1, <1>2 DEF View
<1>4. ASSUME NEW C \in Parts(net')
      PROVE  \E B \in Parts(net) : C \subseteq B
  <2>1. PICK s \in net'.chans : C = ComponentOf(net', s) BY DEF Parts
  <2>2. ComponentOf(net', s) \subseteq ComponentOf(net, s) BY <1>2, <1>3, ComponentShrinks
  <2>3. ComponentOf(net, s) \in Parts(net) BY <1>3 DEF Parts
  <2> QED BY <2>1, <2>2, <2>3
<1>5. ASSUME NEW C \in Parts(net')
      PROVE  \E B \in Parts(net) :
               /\ C \subseteq B
               /\ \A d \in Session : net'.where[d] \in C =>
                    net.where[d] \in B /\ epochs'[d] = epochs[d] /\ declined'[d] = declined[d]
    BY <1>1, <1>3, <1>4, ZenonT(60)
<1> QED BY <1>1, <1>5, EventHeard

-----------------------------------------------------------------------------
(* While events come one at a time, everybody follows and is told. *)

Turned == \E c \in Session : \E M, t : Settles(c, M, t) /\ Turn(c, M)
Sidelong == \E c \in Session : \E M, t : Aside(c, M, t)

\* The events that reach everybody.
Happens ==
    \/ \E c \in Session : Connect(c) \/ Disconnect(c)
    \/ \E c \in Session, ch \in Channel : Move(c, ch)
    \/ \E ch \in Channel, linked \in SUBSET Channel : EditChannel(ch, linked)
    \/ \E ch \in Channel : RemoveChannel(ch)

Attended == IInv /\ WhispersConfided /\ (Calm => Orderly /\ AllHeard)

\* The steps of a calm behaviour.
LEMMA CalmNext ==
  ASSUME IInv, WhispersConfided, Calm => Orderly, Next, Calm'
  PROVE  Calm /\ Orderly /\ (Turned \/ Sidelong \/ (Quiet /\ Happens))
<1>1. ASSUME Happens PROVE Calm /\ Quiet
  <2>1. ServerEvent
      BY <1>1 DEF Happens, Connect, Disconnect, Move, EditChannel, RemoveChannel
  <2> QED BY <2>1, EventQuiet
<1>2. ASSUME NEW c \in Session, NEW targets \in WhisperChoices, SetWhisper(c, targets)
      PROVE  Calm /\ Orderly /\ Sidelong
  <2>1. \E M, t : Aside(c, M, t) BY <1>2, SetWhisperAside
  <2>2. Calm BY <2>1 DEF Aside, Calm
  <2> QED BY <2>1, <2>2 DEF Sidelong
<1>3. ASSUME NEW c \in Session, Housekeeping(c)
      PROVE  Calm /\ Orderly /\ Sidelong
  <2>1. whisper[c] \in SUBSET confided BY DEF WhispersConfided
  <2>2. \E M, t : Aside(c, M, t) BY <1>3, <2>1, HousekeepingAside
  <2>3. Calm BY <2>2 DEF Aside, Calm
  <2> QED BY <2>2, <2>3 DEF Sidelong
<1>4. ASSUME NEW c \in Session, Handle(c)
      PROVE  Calm /\ Orderly /\ Turned
  <2>1. Calm
    <3>1. UNCHANGED <<raced, forgets>>
        BY <1>4 DEF Handle, HandleWelcome, HandleUserJoined, HandleUserLeft, HandleUserMoved,
                    HandleChanUpdate, HandleChanRemoved, HandleKey, HandleKeyRequest, Steady
    <3> QED BY <3>1 DEF Calm
  <2>2. whisper[c] \in SUBSET confided BY DEF WhispersConfided
  <2> QED BY <1>4, <2>1, <2>2, HandleTurn DEF Turned
<1>5. ASSUME NEW c \in Session, ForgetStaleKey(c) PROVE FALSE
  <2>1. forgets' = forgets + 1 /\ forgets \in Nat BY <1>5 DEF ForgetStaleKey, IInv, TypeOK
  <2> QED BY <2>1 DEF Calm
<1>6. Environment => Happens \/ \E c \in Session, targets \in WhisperChoices : SetWhisper(c, targets)
    BY DEF Environment, Happens
<1> QED BY <1>1, <1>2, <1>3, <1>4, <1>5, <1>6 DEF Next

\* Who is whispered to is recorded.
LEMMA WhispersStep ==
  ASSUME IInv, WhispersConfided, Next
  PROVE  WhispersConfided'
<1>1. whisper \in [Session -> SUBSET Session] BY DEF IInv, TypeOK
<1>2. ASSUME NEW c \in Session, Disconnect(c) PROVE WhispersConfided'
  <2>1. whisper' = [whisper EXCEPT ![c] = {}] /\ confided' = confided
      BY <1>2 DEF Disconnect, ServerEvent
  <2> QED BY <1>1, <2>1 DEF WhispersConfided
<1>3. ASSUME NEW c \in Session, NEW targets, SetWhisper(c, targets) PROVE WhispersConfided'
  <2>1. whisper' = [whisper EXCEPT ![c] = targets] /\ confided' = confided \cup targets
      BY <1>3 DEF SetWhisper
  <2>2. ASSUME NEW d \in Session PROVE whisper'[d] \in SUBSET confided'
      BY <1>1, <2>1 DEF WhispersConfided
  <2> QED BY <2>2 DEF WhispersConfided
<1>4. ASSUME UNCHANGED <<whisper, confided>> PROVE WhispersConfided' BY <1>4 DEF WhispersConfided
<1>5. ASSUME NEW c \in Session, Connect(c) PROVE UNCHANGED <<whisper, confided>>
    BY <1>5 DEF Connect, ServerEvent
<1>6. ASSUME NEW c \in Session, NEW ch, Move(c, ch) PROVE UNCHANGED <<whisper, confided>>
    BY <1>6 DEF Move, ServerEvent
<1>7. ASSUME NEW ch, NEW linked, EditChannel(ch, linked) PROVE UNCHANGED <<whisper, confided>>
    BY <1>7 DEF EditChannel, ServerEvent
<1>8. ASSUME NEW ch, RemoveChannel(ch) PROVE UNCHANGED <<whisper, confided>>
    BY <1>8 DEF RemoveChannel, ServerEvent
<1>9. ASSUME NEW c \in Session, Handle(c) PROVE UNCHANGED <<whisper, confided>>
    BY <1>9 DEF Handle, HandleWelcome, HandleUserJoined, HandleUserLeft, HandleUserMoved,
                HandleChanUpdate, HandleChanRemoved, HandleKey, HandleKeyRequest, Steady
<1>10. ASSUME NEW c \in Session, Housekeeping(c) PROVE UNCHANGED <<whisper, confided>>
    BY <1>10 DEF Housekeeping
<1>11. ASSUME NEW c \in Session, ForgetStaleKey(c) PROVE UNCHANGED <<whisper, confided>>
    BY <1>11 DEF ForgetStaleKey
<1> QED BY <1>2, <1>3, <1>4, <1>5, <1>6, <1>7, <1>8, <1>9, <1>10, <1>11 DEF Next, Environment

\* Everybody keeps following.
LEMMA OrderlyStep ==
  ASSUME IInv, WhispersConfided, Calm => Orderly, Next, Calm'
  PROVE  Orderly'
<1>1. Calm /\ Orderly /\ (Turned \/ Sidelong \/ (Quiet /\ Happens)) BY CalmNext
<1>2. CASE Turned BY <1>1, <1>2, SettlesOrderly DEF Turned
<1>3. CASE Sidelong BY <1>1, <1>3, AsideOrderly DEF Sidelong
<1>4. CASE Quiet /\ Happens
    BY <1>1, <1>4, ConnectOrderly, DisconnectOrderly, MoveOrderly, EditChannelOrderly,
       RemoveChannelOrderly DEF Happens
<1> QED BY <1>1, <1>2, <1>3, <1>4

\* Every component stays told.
LEMMA AllHeardStep ==
  ASSUME IInv, IInv', WhispersConfided, Calm => Orderly /\ AllHeard, Next, Calm'
  PROVE  AllHeard'
<1>1. Calm /\ Orderly /\ (Turned \/ Sidelong \/ (Quiet /\ Happens)) BY CalmNext
<1>2. AllHeard BY <1>1
<1>3. net' \in View BY DEF IInv, TypeOK
<1>4. CASE Turned BY <1>1, <1>2, <1>4, SettlesHeard DEF Turned
<1>5. CASE Sidelong BY <1>1, <1>2, <1>5, AsideHeard DEF Sidelong
<1>6. CASE Quiet /\ Happens
    BY <1>1, <1>2, <1>3, <1>6, ConnectHeard, DisconnectHeard, MoveHeard, EditChannelHeard,
       RemoveChannelHeard DEF Happens
<1> QED BY <1>1, <1>4, <1>5, <1>6

\* Without links each channel is a component.
LEMMA Unlinked ==
  ASSUME NEW v \in View, v.links = {}, NEW ch \in v.chans
  PROVE  ComponentOf(v, ch) = {ch}
<1>1. {ch} \in SUBSET Channel BY DEF View
<1>2. LinkClosed(v, {ch}) BY DEF LinkClosed
<1> QED BY <1>1, <1>2, ComponentSelf DEF ComponentOf

\* At the start.
LEMMA InitAttended ==
  ASSUME Init, IInv
  PROVE  Attended
<1>1. /\ net = [where |-> [d \in Session |-> IF d \in Present THEN Lobby ELSE Absent],
                chans |-> Channel, links |-> {}]
      /\ phase = [d \in Session |-> IF d \in Present THEN "ready" ELSE "new"]
      /\ inbox = [d \in Session |-> <<>>]
      /\ view = [d \in Session |-> IF d \in Present THEN net ELSE NoView]
      /\ epochs = [d \in Session |-> [s \in Scope |->
                     IF d \in Present /\ FoundingKeyOf(s) # NoKey THEN 1 ELSE 0]]
      /\ whisper = [d \in Session |-> {}] /\ confided = {}
      /\ minted = [d \in Session |-> IF d = Founder THEN <<1, 1>> ELSE <<>>]
      /\ passed = [s \in Scope |-> FoundingKeyOf(s)]
    BY DEF Init
<1>2. net \in View BY DEF IInv, TypeOK
<1>3. Lobby \in Channel /\ Absent \notin Channel /\ Lobby # Absent /\ Lobby # 0 /\ Lobby \in Scope
    BY LobbyAssumption, ChannelAssumption DEF Absent, Scope
<1>4. net.chans = Channel /\ net.links = {}
      /\ \A d \in Session : net.where[d] = IF d \in Present THEN Lobby ELSE Absent
    BY <1>1
<1>5. WhispersConfided BY <1>1 DEF WhispersConfided
<1>6. Orderly
  <2>1. <<>> \in Seq(Chatter(net)) OBVIOUS
  <2>2. \A d \in Session : Online(d) <=> d \in Present BY <1>1 DEF Online
  <2>3. ASSUME NEW d \in Session PROVE Follows(d)
    <3>1. phase[d] # "hello" /\ inbox[d] = <<>> /\ (phase[d] = "ready" => view[d] = net) BY <1>1
    <3> QED BY <2>1, <3>1 DEF Follows, Aligned
  <2> QED BY <1>3, <1>4, <2>2, <2>3 DEF Orderly
<1>7. AllHeard
  <2> SUFFICES ASSUME NEW C \in Parts(net), NEW d \in Session, net.where[d] \in C
               PROVE  Heard(C)
      BY DEF AllHeard
  <2>1. d \in Present /\ Lobby \in C
    <3>1. C \in SUBSET Channel BY <1>2, PartType
    <3> QED BY <1>3, <1>4, <3>1
  <2>2. C = ComponentOf(net, Lobby) /\ Lobby \in net.chans BY <1>2, <2>1, PartOf
  <2>3. C = {Lobby} BY <1>2, <1>4, <2>2, Unlinked
  <2> DEFINE k == FoundingKey(2)
  <2>4. k \in Key /\ k.by = Founder /\ k.n = 2
      BY PresentAssumption DEF FoundingKey, Key
  <2>5. FoundingKeyOf(Lobby) = k /\ k # NoKey
      BY <1>3, <2>4, NoKeyIsNone DEF FoundingKeyOf
  <2>6. MintedIn(minted, k, 1)
    <3>1. minted[Founder] = <<1, 1>> BY <1>1, PresentAssumption
    <3> HIDE DEF k
    <3> QED BY <2>4, <3>1 DEF MintedIn
  <2> HIDE DEF k
  <2>7. passed[Lobby] = k BY <1>1, <1>3, <2>5
  <2>8. ASSUME NEW x \in Session, net.where[x] \in C PROVE Knows(x, C, k, 1)
    <3>1. x \in Present BY <1>3, <1>4, <2>3, <2>8
    <3>2. epochs[x][Lobby] = 1 BY <1>1, <1>3, <2>5, <3>1
    <3> QED BY <2>3, <3>2 DEF Knows
  <2>9. 1 \in Epoch BY DEF Epoch
  <2>10. HeardOf(C, k, 1) BY <2>3, <2>6, <2>7, <2>8 DEF HeardOf
  <2> QED BY <2>4, <2>9, <2>10 DEF Heard
<1> QED BY <1>5, <1>6, <1>7 DEF Attended

\* Every step.
LEMMA AttendedStep ==
  ASSUME Attended, [Next]_vars, IInv'
  PROVE  Attended'
<1>1. CASE Next
  <2>1. WhispersConfided' BY <1>1, WhispersStep DEF Attended
  <2>2. Calm' => Orderly' /\ AllHeard' BY <1>1, OrderlyStep, AllHeardStep DEF Attended
  <2> QED BY <2>1, <2>2 DEF Attended
<1>2. CASE UNCHANGED vars
  <2>1. UNCHANGED <<net, phase, inbox, view, epochs, whisper, confided, minted, raced, forgets,
                    passed, declined>>
      BY <1>2 DEF vars, told
  <2>2. WhispersConfided' BY <2>1 DEF Attended, WhispersConfided
  <2>3. Calm' => Calm BY <2>1 DEF Calm
  <2>4. Orderly => Orderly' BY <2>1 DEF Orderly, Follows, Online
  <2>5. \A C : Heard(C) => Heard(C)' BY <2>1 DEF Heard, HeardOf, Knows
  <2>6. \A C : Pending(C) => Pending(C)' BY <2>1 DEF Pending
  <2>7. AllHeard => AllHeard' BY <2>1, <2>5, <2>6 DEF AllHeard
  <2> QED BY <2>2, <2>3, <2>4, <2>7 DEF Attended
<1> QED BY <1>1, <1>2

\* It is an invariant.
THEOREM NewsAttended == Spec => []Attended
<1>1. Init => IInv BY InitGood
<1>2. Init /\ IInv => Attended BY InitAttended
<1>3. Attended /\ IInv' /\ [Next]_vars => Attended' BY AttendedStep
<1> QED BY Inductive, <1>1, <1>2, <1>3, PTL DEF Spec

\* When everything is handled the members of a component have all heard of the key that
\* was passed on last for it (e2eeEnsureComponentKey, e2eeRotateComponentKey and
\* e2eeApplyGroupKey leave nobody out).
THEOREM LastKeyHeard == Spec => []LastKeyIsHeard
<1>1. Attended => LastKeyIsHeard
  <2> SUFFICES ASSUME Attended, Settled, NEW c \in Session, Seated(c)
               PROVE  LET k == passed[net.where[c]]
                      IN  k # NoKey /\ \A s \in ComponentOf(net, net.where[c]) :
                             /\ passed[s] = k
                             /\ keys[c][s] = k \/ epochs[c][s] >= EpochOf(k) \/ k \in declined[c]
      BY DEF LastKeyIsHeard
  <2> DEFINE C == ComponentOf(net, net.where[c])
  <2>1. Orderly /\ AllHeard /\ Quiet BY DEF Attended, Settled, Calm
  <2>2. net \in View BY DEF Attended, IInv, TypeOK
  <2>3. net.where[c] \in net.chans BY <2>1, ChannelAssumption DEF Orderly, Seated, Absent
  <2>4. C \in Parts(net) /\ net.where[c] \in C BY <2>2, <2>3, ComponentSelf DEF Parts
  <2> HIDE DEF C
  <2>5. Heard(C) \/ Pending(C) BY <2>1, <2>4 DEF AllHeard
  <2>6. ~ Pending(C) BY <2>1 DEF Pending, Due, Quiet
  <2>7. PICK k \in Key, e \in Epoch : HeardOf(C, k, e) BY <2>5, <2>6 DEF Heard
  <2>8. k # NoKey BY NoKeyIsNone
  <2>9. e = EpochOf(k) BY <2>7 DEF HeardOf, MintedIn, EpochOf
  <2>10. ~ Holds(inbox[c], KeyMsg(C, k, e)) BY <2>1 DEF Quiet, Holds
  <2>11. Knows(c, C, k, e) BY <2>4, <2>7, <2>10 DEF HeardOf
  <2>12. \A s \in C : passed[s] = k BY <2>7 DEF HeardOf
  <2> QED BY <2>4, <2>8, <2>9, <2>11, <2>12 DEF Knows, C
<1> QED BY NewsAttended, <1>1, PTL

-----------------------------------------------------------------------------
(* The fresh key of a component is known to the members and the trusted only, or the
   component is about to get a new one. *)

\* Somebody has news that will make it mint a key for C.
Renewal(C) == \E m \in Session : phase[m] = "ready" /\ Renewer(net, m, view[m], inbox[m], C)

FreshIs(C, k) == Recorded(minted, k) /\ (Safe(C, k) \/ Renewal(C))

FreshSafe ==
    \A C \in Parts(net), k \in Key : \A s \in C : fresh[s] = k => FreshIs(C, k)

\* A key that is not recorded is nowhere.
LEMMA UnknownKey ==
  ASSUME IInv, NEW k, k # NoKey, ~ Recorded(minted, k)
  PROVE  /\ \A d \in Session, s \in Scope : keys[d][s] # k
         /\ \A d \in Session : \A i \in 1..Len(inbox[d]) :
              ~ (inbox[d][i].type = "e2e_key" /\ inbox[d][i].key = k)
<1>1. ASSUME NEW d \in Session, NEW s \in Scope PROVE keys[d][s] # k
  <2>1. keys[d][s] \in KeyOrNone BY DEF IInv, TypeOK
  <2>2. keys[d][s] # NoKey => MintedAs(keys[d][s], epochs[d][s]) BY DEF IInv, KeysKeepTheirEpoch
  <2> QED BY <2>1, <2>2 DEF KeyOrNone, MintedAs, Recorded
<1>2. ASSUME NEW d \in Session, NEW i \in 1..Len(inbox[d]), inbox[d][i].type = "e2e_key",
             inbox[d][i].key = k
      PROVE  FALSE
  <2>1. MintedAs(k, inbox[d][i].epoch) BY <1>2 DEF IInv, KeysKeepTheirEpoch
  <2>2. inbox[d] \in Seq(Message) BY DEF IInv, TypeOK
  <2>3. inbox[d][i] \in Message BY <1>2, <2>2
  <2>4. inbox[d][i].key \in Key BY <1>2, <2>3, MessageFields
  <2> QED BY <1>2, <2>1, <2>4 DEF MintedAs, Recorded
<1> QED BY <1>1, <1>2

\* Every message of an inbox was there before the commit, or the commit sends it.
LEMMA CommitSources ==
  ASSUME IInv, NEW c \in Session, NEW M, Good(M), NEW t, NEW popped \in BOOLEAN,
         popped => inbox[c] # <<>>, Commit(c, M, t, popped),
         NEW d \in Session, NEW i \in 1..Len(inbox'[d])
  PROVE  \/ \E j \in 1..Len(inbox[d]) : inbox'[d][i] = inbox[d][j]
         \/ \E j \in 1..Len(M.out[d]) : inbox'[d][i] = M.out[d][j]
<1>1. inbox[d] \in Seq(Message) /\ M.out[d] \in Seq(Message) BY DEF IInv, TypeOK, Good, LocalType
<1> DEFINE kept == IF d = c /\ popped THEN Tail(inbox[d]) ELSE inbox[d]
<1>2. inbox'[d] = IF Online(d) THEN kept \o M.out[d] ELSE kept BY DEF Commit
<1>3. kept \in Seq(Message) /\ \A j \in 1..Len(kept) : \E l \in 1..Len(inbox[d]) : kept[j] = inbox[d][l]
  <2>1. CASE d = c /\ popped
    <3>1. inbox[d] # <<>> BY <2>1
    <3>2. Tail(inbox[d]) \in Seq(Message) BY <1>1, <3>1, HeadTailProperties
    <3>3. \A j \in 1..Len(Tail(inbox[d])) : \E l \in 1..Len(inbox[d]) : inbox[d][l] = Tail(inbox[d])[j]
        BY <1>1, <3>1, TailHolds
    <3> QED BY <2>1, <3>2, <3>3
  <2>2. CASE ~ (d = c /\ popped) BY <1>1, <2>2
  <2> QED BY <2>1, <2>2
<1> HIDE DEF kept
<1>4. CASE Online(d)
  <2>1. inbox'[d] = kept \o M.out[d] BY <1>2, <1>4
  <2>2. \/ \E j \in 1..Len(kept) : inbox'[d][i] = kept[j]
        \/ \E j \in 1..Len(M.out[d]) : inbox'[d][i] = M.out[d][j]
    <3>1. \A q, r \in Seq(Message) : \A j \in 1..Len(q \o r) :
            (\E l \in 1..Len(q) : (q \o r)[j] = q[l]) \/ (\E l \in 1..Len(r) : (q \o r)[j] = r[l])
        BY ConcatHolds
    <3> DEFINE r == M.out[d]
               b == kept \o r
    <3>2. inbox'[d] = b /\ i \in 1..Len(b) BY <2>1
    <3>3. (\E l \in 1..Len(kept) : b[i] = kept[l]) \/ (\E l \in 1..Len(r) : b[i] = r[l])
      <4>1. r \in Seq(Message) BY <1>1
      <4> HIDE DEF r
      <4> QED BY <1>3, <3>1, <3>2, <4>1
    <3> QED BY <3>2, <3>3
  <2> QED BY <1>3, <2>2
<1>5. CASE ~ Online(d) BY <1>2, <1>3, <1>5
<1> QED BY <1>4, <1>5

\* A commit keeps a key where it was safe if the session itself does.
LEMMA CommitSafe ==
  ASSUME IInv, NEW c \in Session, NEW M, Good(M), NEW t, NEW popped \in BOOLEAN,
         popped => inbox[c] # <<>>, Commit(c, M, t, popped), net' = net,
         confided \subseteq confided', NEW C, NEW k,
         \A d \in Session \ {c}, s \in Scope : keys[d][s] = k =>
             s \in C /\ Entrusted(net, confided, d, C) /\ ComponentOf(view'[d], s) = C,
         \A s \in Scope : M.keys[s] = k =>
             s \in C /\ Entrusted(net, confided', c, C) /\ ComponentOf(view'[c], s) = C,
         \A d \in Session : \A i \in 1..Len(inbox[d]) :
             inbox[d][i].type = "e2e_key" /\ inbox[d][i].key = k =>
                 inbox[d][i].comp = C /\ Entrusted(net, confided, d, C),
         Kept(net, confided', c, M, C, k)
  PROVE  Safe(C, k)'
<1>1. \A d \in Session : Entrusted(net, confided, d, C) => Entrusted(net', confided', d, C)
    BY DEF Entrusted
<1>2. keys'[c] = M.keys /\ \A d \in Session \ {c} : keys'[d] = keys[d] BY CommitWrites
<1>3. ASSUME NEW d \in Session, NEW s \in Scope, keys'[d][s] = k
      PROVE  s \in C /\ Entrusted(net', confided', d, C) /\ ComponentOf(view'[d], s) = C
    BY <1>1, <1>2, <1>3
<1>4. ASSUME NEW d \in Session, NEW i \in 1..Len(inbox'[d]), inbox'[d][i].type = "e2e_key",
             inbox'[d][i].key = k
      PROVE  inbox'[d][i].comp = C /\ Entrusted(net', confided', d, C)
  <2>1. \/ \E j \in 1..Len(inbox[d]) : inbox'[d][i] = inbox[d][j]
        \/ \E j \in 1..Len(M.out[d]) : inbox'[d][i] = M.out[d][j]
      BY CommitSources
  <2> QED BY <1>1, <1>4, <2>1 DEF Kept
<1> QED BY <1>3, <1>4 DEF Safe

\* What somebody else has news of stays so.
LEMMA RenewalStays ==
  ASSUME NEW C, NEW m \in Session, phase[m] = "ready", Renewer(net, m, view[m], inbox[m], C),
         net' = net, phase'[m] = phase[m], view'[m] = view[m],
         NEW r \in Seq(Message), inbox[m] \in Seq(Message), inbox'[m] = inbox[m] \o r
  PROVE  Renewal(C)'
<1>1. inbox[m] # <<>> BY DEF Renewer
<1>2. inbox'[m] # <<>> /\ Head(inbox'[m]) = Head(inbox[m]) BY <1>1, HeadTailConcat
<1>3. Renewer(net', m, view'[m], inbox'[m], C) BY <1>1, <1>2 DEF Renewer
<1> QED BY <1>3 DEF Renewal

\* A handler keeps the fresh keys safe.
LEMMA SettlesFresh ==
  ASSUME IInv, Orderly, FreshSafe, NEW c \in Session, NEW M, NEW t, Settles(c, M, t), Turn(c, M)
  PROVE  FreshSafe'
<1> DEFINE p == TRUE
<1>1. /\ Commit(c, M, t, p) /\ inbox[c] # <<>> /\ net' = net /\ confided' = confided /\ Good(M)
      /\ Tells(net, c, LocalOf(c), M) /\ Freshens(c, M) /\ Keeps(c, M, confided)
      /\ \A d \in Session \ {c} : phase'[d] = phase[d] /\ view'[d] = view[d]
      /\ view'[c].chans = net.chans /\ view'[c].links = net.links /\ p \in BOOLEAN /\ p
    BY DEF Settles, Turn
<1> HIDE DEF p
<1>2. minted' = M.minted /\ fresh' = M.fresh BY <1>1, CommitWrites
<1>3. net \in View BY DEF IInv, TypeOK
<1>4. /\ LocalOf(c).minted = minted /\ minted \in [Session -> Seq(Epoch)]
      /\ M.minted \in [Session -> Seq(Epoch)] /\ Extends(minted, M.minted)
    BY <1>1 DEF LocalOf, IInv, TypeOK, Good, LocalType, Tells
<1> SUFFICES ASSUME NEW C \in Parts(net), NEW k \in Key, NEW s \in C, M.fresh[s] = k
             PROVE  FreshIs(C, k)'
    BY <1>1, <1>2 DEF FreshSafe
<1>5. k # NoKey /\ s \in net.chans /\ C = ComponentOf(net, s) BY <1>3, NoKeyIsNone, PartOf
<1>6. \A r \in C : ComponentOf(view'[c], r) = C
  <2>1. \A r : ComponentOf(view'[c], r) = ComponentOf(net, r) BY <1>1, ComponentFrame
  <2>2. \A r \in C : ComponentOf(net, r) = C BY <1>3, PartOf
  <2> QED BY <2>1, <2>2
<1>7. \/ Mints(c, LocalOf(c), M, k) /\ Kept(net, confided, c, M, C, k)
      \/ k = fresh[s] /\ (Recorded(minted, k) /\ Safe(C, k) => Kept(net, confided, c, M, C, k))
    BY <1>1, <1>5 DEF Keeps
<1>8. fresh[s] = k => FreshIs(C, k) BY DEF FreshSafe
<1>9. Commit(c, M, t, p) /\ Good(M) /\ net' = net /\ p \in BOOLEAN BY <1>1
<1>10. p => inbox[c] # <<>> BY <1>1
<1>11. ASSUME Kept(net, confided, c, M, C, k)
      PROVE  \A r \in Scope : M.keys[r] = k =>
               r \in C /\ Entrusted(net, confided', c, C) /\ ComponentOf(view'[c], r) = C
    BY <1>1, <1>6, <1>11 DEF Kept
<1>12. CASE Mints(c, LocalOf(c), M, k) /\ Kept(net, confided, c, M, C, k)
  <2>1. Recorded(M.minted, k) /\ ~ Recorded(minted, k)
    <3>1. Len(minted[c]) \in Nat BY <1>4
    <3> QED BY <1>4, <1>12, <3>1 DEF Mints, Recorded
  <2>2. /\ \A d \in Session, r \in Scope : keys[d][r] # k
        /\ \A d \in Session : \A i \in 1..Len(inbox[d]) :
              ~ (inbox[d][i].type = "e2e_key" /\ inbox[d][i].key = k)
      BY <1>5, <2>1, UnknownKey
  <2>3. Kept(net, confided', c, M, C, k) BY <1>1, <1>12
  <2>4. \A d \in Session \ {c}, r \in Scope : keys[d][r] = k =>
           r \in C /\ Entrusted(net, confided, d, C) /\ ComponentOf(view'[d], r) = C
      BY <2>2
  <2>5. \A r \in Scope : M.keys[r] = k =>
           r \in C /\ Entrusted(net, confided', c, C) /\ ComponentOf(view'[c], r) = C
      BY <1>11, <1>12
  <2>6. confided \subseteq confided' BY <1>1
  <2>7. Safe(C, k)' BY <1>9, <1>10, <2>2, <2>3, <2>4, <2>5, <2>6, CommitSafe
  <2> QED BY <1>2, <2>1, <2>7 DEF FreshIs
<1>13. CASE k = fresh[s] /\ (Recorded(minted, k) /\ Safe(C, k) => Kept(net, confided, c, M, C, k))
  <2>1. Recorded(minted, k) /\ (Safe(C, k) \/ Renewal(C)) BY <1>8, <1>13 DEF FreshIs
  <2>2. Recorded(M.minted, k)
    <3>1. k.by \in Session BY <2>1 DEF Recorded, Key
    <3>2. k.n \in 1..Len(minted[k.by]) BY <2>1 DEF Recorded
    <3>3. MintedIn(minted, k, minted[k.by][k.n]) BY <3>2 DEF MintedIn
    <3>4. k \in Key BY <2>1 DEF Recorded
    <3>5. MintedIn(M.minted, k, minted[k.by][k.n]) BY <1>4, <3>3, <3>4, ExtendsConfirms
    <3> QED BY <3>4, <3>5 DEF Recorded, MintedIn
  <2>3. CASE Safe(C, k)
    <3>1. Kept(net, confided, c, M, C, k) BY <1>13, <2>1, <2>3
    <3>2. \A d \in Session \ {c}, r \in Scope : keys[d][r] = k =>
             r \in C /\ Entrusted(net, confided, d, C) /\ ComponentOf(view'[d], r) = C
        BY <1>1, <2>3 DEF Safe
    <3>3. \A d \in Session : \A i \in 1..Len(inbox[d]) :
             inbox[d][i].type = "e2e_key" /\ inbox[d][i].key = k =>
                 inbox[d][i].comp = C /\ Entrusted(net, confided, d, C)
        BY <2>3 DEF Safe
    <3>4. \A r \in Scope : M.keys[r] = k =>
             r \in C /\ Entrusted(net, confided', c, C) /\ ComponentOf(view'[c], r) = C
        BY <1>11, <3>1
    <3>5. confided \subseteq confided' /\ Kept(net, confided', c, M, C, k) BY <1>1, <3>1
    <3>6. Safe(C, k)' BY <1>9, <1>10, <3>2, <3>3, <3>4, <3>5, CommitSafe
    <3> QED BY <1>2, <2>2, <3>6 DEF FreshIs
  <2>4. CASE Renewal(C)
    <3>1. PICK m \in Session : phase[m] = "ready" /\ Renewer(net, m, view[m], inbox[m], C)
        BY <2>4 DEF Renewal
    <3>2. CASE m # c
      <4>1. inbox[m] \in Seq(Message) /\ M.out[m] \in Seq(Message)
          BY <1>1 DEF IInv, TypeOK, Good, LocalType
      <4>2. inbox'[m] = inbox[m] \o M.out[m] BY <1>1, <3>1, <3>2 DEF Commit, Online
      <4>3. Renewal(C)' BY <1>1, <3>1, <3>2, <4>1, <4>2, RenewalStays
      <4> QED BY <1>2, <2>2, <4>3 DEF FreshIs
    <3>3. CASE m = c
      <4>1. Renews(c, LocalOf(c), M, C) BY <1>1, <1>5, <3>1, <3>3 DEF Freshens
      <4>2. Mints(c, LocalOf(c), M, k) BY <1>5, <4>1 DEF Renews
      <4>3. Len(minted[c]) \in Nat BY <1>4
      <4> QED BY <1>4, <2>1, <4>2, <4>3 DEF Mints, Recorded
    <3> QED BY <3>2, <3>3
  <2> QED BY <2>1, <2>3, <2>4
<1> QED BY <1>7, <1>12, <1>13

\* What is done aside keeps them safe.
LEMMA AsideFresh ==
  ASSUME IInv, Orderly, FreshSafe, NEW c \in Session, NEW M, NEW t, Aside(c, M, t)
  PROVE  FreshSafe'
<1> DEFINE p == FALSE
<1>1. /\ Commit(c, M, t, p) /\ net' = net /\ confided \subseteq confided' /\ Good(M)
      /\ SameTables(LocalOf(c), M) /\ Keeps(c, M, confided')
      /\ \A d \in Session : phase'[d] = phase[d] /\ view'[d] = view[d]
      /\ p \in BOOLEAN /\ ~ p
    BY DEF Aside
<1> HIDE DEF p
<1>2. minted' = M.minted /\ fresh' = M.fresh BY <1>1, CommitWrites
<1>3. M.minted = minted /\ M.fresh = fresh /\ M.keys = keys[c] BY <1>1 DEF SameTables, LocalOf
<1> SUFFICES ASSUME NEW C \in Parts(net), NEW k \in Key, NEW s \in C, fresh[s] = k
             PROVE  FreshIs(C, k)'
    BY <1>1, <1>2, <1>3 DEF FreshSafe
<1>4. Recorded(minted, k) /\ (Safe(C, k) \/ Renewal(C)) BY DEF FreshSafe, FreshIs
<1>5. k # NoKey /\ s \in net.chans /\ C = ComponentOf(net, s)
    BY NoKeyIsNone, PartOf DEF IInv, TypeOK
<1>6. \/ Mints(c, LocalOf(c), M, k)
      \/ Recorded(minted, k) /\ Safe(C, k) => Kept(net, confided', c, M, C, k)
    BY <1>1, <1>3, <1>5 DEF Keeps
<1>7. ~ Mints(c, LocalOf(c), M, k)
  <2>1. LocalOf(c).minted = minted /\ minted \in [Session -> Seq(Epoch)]
      BY DEF LocalOf, IInv, TypeOK
  <2>2. Len(minted[c]) \in Nat BY <2>1
  <2> QED BY <1>3, <1>4, <2>1, <2>2 DEF Mints, Recorded
<1>8. CASE Safe(C, k)
  <2>1. Kept(net, confided', c, M, C, k) BY <1>4, <1>6, <1>7, <1>8
  <2>2. \A d \in Session, r \in Scope : keys[d][r] = k =>
             r \in C /\ Entrusted(net, confided, d, C) /\ ComponentOf(view'[d], r) = C
      BY <1>1, <1>8 DEF Safe
  <2>3. \A r \in Scope : M.keys[r] = k =>
             r \in C /\ Entrusted(net, confided', c, C) /\ ComponentOf(view'[c], r) = C
      BY <1>1, <1>3, <2>2 DEF Entrusted
  <2>4. \A d \in Session : \A i \in 1..Len(inbox[d]) :
             inbox[d][i].type = "e2e_key" /\ inbox[d][i].key = k =>
                 inbox[d][i].comp = C /\ Entrusted(net, confided, d, C)
      BY <1>8 DEF Safe
  <2>5. Safe(C, k)' BY <1>1, <2>1, <2>2, <2>3, <2>4, CommitSafe
  <2> QED BY <1>2, <1>3, <1>4, <2>5 DEF FreshIs
<1>9. CASE Renewal(C)
  <2>1. PICK m \in Session : phase[m] = "ready" /\ Renewer(net, m, view[m], inbox[m], C)
      BY <1>9 DEF Renewal
  <2>2. inbox[m] \in Seq(Message) /\ M.out[m] \in Seq(Message)
      BY <1>1 DEF IInv, TypeOK, Good, LocalType
  <2>3. inbox'[m] = inbox[m] \o M.out[m] BY <1>1, <2>1 DEF Commit, Online
  <2>4. Renewal(C)' BY <1>1, <2>1, <2>2, <2>3, RenewalStays
  <2> QED BY <1>2, <1>3, <1>4, <2>4 DEF FreshIs
<1> QED BY <1>4, <1>8, <1>9

-----------------------------------------------------------------------------
\* Whoever stores key k at the end did so before, stayed with C and sees the same
\* components.
Stays(C, k) ==
    \A d \in Session, r \in Scope : keys'[d][r] = k =>
        /\ keys[d][r] = k /\ (net.where[d] \in C => net'.where[d] \in C)
        /\ ComponentOf(view'[d], r) = ComponentOf(view[d], r)

\* No key is in flight.
NoKeyTravels == \A d \in Session : \A i \in 1..Len(inbox[d]) : inbox[d][i].type # "e2e_key"

\* An event of either kind.
LEMMA EventFresh ==
  ASSUME Quiet, FreshSafe, UNCHANGED <<minted, confided>>, NoKeyTravels',
         \A C \in Parts(net'), k \in Key : \A s \in C : fresh'[s] = k =>
            /\ fresh[s] = k /\ \E B \in Parts(net) : s \in B
            /\ Renewal(C)' \/ (C \in Parts(net) /\ Stays(C, k))
  PROVE  FreshSafe'
<1> SUFFICES ASSUME NEW C \in Parts(net'), NEW k \in Key, NEW s \in C, fresh'[s] = k
             PROVE  FreshIs(C, k)'
    BY DEF FreshSafe
<1>1. /\ fresh[s] = k /\ \E B \in Parts(net) : s \in B
      /\ Renewal(C)' \/ (C \in Parts(net) /\ Stays(C, k))
    OBVIOUS
<1>2. \A B : ~ Renewal(B) BY DEF Renewal, Renewer, Quiet
<1>3. Recorded(minted, k) BY <1>1 DEF FreshSafe, FreshIs
<1>4. CASE Renewal(C)' BY <1>3, <1>4 DEF FreshIs
<1>5. CASE C \in Parts(net) /\ Stays(C, k)
  <2>1. Safe(C, k) BY <1>1, <1>2, <1>5 DEF FreshSafe, FreshIs
  <2>2. ASSUME NEW d \in Session, NEW r \in Scope, keys'[d][r] = k
        PROVE  r \in C /\ Entrusted(net', confided', d, C) /\ ComponentOf(view'[d], r) = C
    <3>1. /\ keys[d][r] = k /\ (net.where[d] \in C => net'.where[d] \in C)
          /\ ComponentOf(view'[d], r) = ComponentOf(view[d], r)
        BY <1>5, <2>2 DEF Stays
    <3>2. r \in C /\ Entrusted(net, confided, d, C) /\ ComponentOf(view[d], r) = C
        BY <2>1, <3>1 DEF Safe
    <3> QED BY <3>1, <3>2 DEF Entrusted
  <2>3. Safe(C, k)' BY <2>2 DEF Safe, NoKeyTravels
  <2> QED BY <1>3, <2>3 DEF FreshIs
<1> QED BY <1>1, <1>4, <1>5

\* What reaches everybody from quiet is no key.
LEMMA BroadcastKeyless ==
  ASSUME Quiet, NEW m, m.type # "e2e_key", Broadcast(<<m>>)
  PROVE  NoKeyTravels'
<1>1. \A d \in Session : inbox'[d] = <<m>> \/ inbox'[d] = <<>>
  <2>1. <<>> \o <<m>> = <<m>> OBVIOUS
  <2> QED BY <2>1 DEF Broadcast, Quiet
<1>2. Len(<<m>>) = 1 /\ <<m>>[1] = m /\ Len(<<>>) = 0 OBVIOUS
<1>3. ASSUME NEW d \in Session, NEW i \in 1..Len(inbox'[d]) PROVE inbox'[d][i].type # "e2e_key"
  <2>1. CASE inbox'[d] = <<m>>
    <3>1. i = 1 BY <1>2, <1>3, <2>1
    <3> QED BY <1>2, <2>1, <3>1
  <2>2. CASE inbox'[d] = <<>> BY <1>2, <1>3, <2>2
  <2> QED BY <1>1, <2>1, <2>2
<1> QED BY <1>3 DEF NoKeyTravels

\* A connection.
LEMMA ConnectFresh ==
  ASSUME IInv, Orderly, FreshSafe, Quiet, NEW c \in Session, Connect(c)
  PROVE  FreshSafe'
<1> DEFINE j == <<JoinedMsg(c), MovedMsg(c, Lobby)>>
<1>1. /\ net' = [net EXCEPT !.where[c] = Lobby] /\ phase[c] = "new"
      /\ inbox' = [d \in Session |-> IF d = c THEN <<WelcomeMsg(net')>>
                                     ELSE IF Online(d) THEN inbox[d] \o j ELSE inbox[d]]
      /\ UNCHANGED <<view, keys, minted, fresh, confided>>
    BY DEF Connect, told, ServerEvent
<1>2. net \in View BY DEF IInv, TypeOK
<1>3. /\ net'.chans = net.chans /\ net'.links = net.links
      /\ \A d \in Session \ {c} : net'.where[d] = net.where[d]
    BY <1>1, <1>2 DEF View
<1>4. Parts(net') = Parts(net) BY <1>3, PartsFrame
<1>5. net.where[c] = Absent BY <1>1 DEF Orderly, Online
<1>6. \A C \in Parts(net) : Absent \notin C BY <1>2, PartType, ChannelAssumption DEF Absent
<1>7. ASSUME NEW C \in Parts(net), NEW k \in Key PROVE Stays(C, k)
    BY <1>1, <1>3, <1>5, <1>6 DEF Stays
<1>8. NoKeyTravels'
  <2>1. ASSUME NEW d \in Session, NEW i \in 1..Len(inbox'[d])
        PROVE  inbox'[d][i].type # "e2e_key"
    <3>1. \A m : Len(<<m>>) = 1 /\ <<m>>[1] = m OBVIOUS
    <3>2. \A a, b : /\ <<>> \o <<a, b>> = <<a, b>> /\ Len(<<a, b>>) = 2
                    /\ <<a, b>>[1] = a /\ <<a, b>>[2] = b
        OBVIOUS
    <3>3. inbox[d] = <<>> BY DEF Quiet
    <3>4. CASE d = c
      <4>1. inbox'[d] = <<WelcomeMsg(net')>> BY <1>1, <3>4
      <4>2. i = 1 /\ inbox'[d][i] = WelcomeMsg(net') BY <2>1, <3>1, <4>1
      <4> QED BY <4>2 DEF WelcomeMsg
    <3>5. CASE d # c /\ Online(d)
      <4>1. inbox'[d] = j BY <1>1, <3>2, <3>3, <3>5
      <4>2. i \in {1, 2} BY <2>1, <3>2, <4>1
      <4>3. inbox'[d][i] = JoinedMsg(c) \/ inbox'[d][i] = MovedMsg(c, Lobby)
          BY <3>2, <4>1, <4>2
      <4> QED BY <4>3 DEF JoinedMsg, MovedMsg
    <3>6. CASE d # c /\ ~ Online(d)
      <4>1. inbox'[d] = <<>> BY <1>1, <3>3, <3>6
      <4> QED BY <2>1, <4>1
    <3> QED BY <3>4, <3>5, <3>6
  <2> QED BY <2>1 DEF NoKeyTravels
<1> QED BY <1>1, <1>4, <1>7, <1>8, EventFresh

\* A disconnection.
LEMMA DisconnectFresh ==
  ASSUME IInv, Orderly, FreshSafe, Quiet, NEW c \in Session, Disconnect(c)
  PROVE  FreshSafe'
<1>1. /\ net' = [net EXCEPT !.where[c] = Absent]
      /\ inbox' = [d \in Session |-> IF d = c THEN <<>>
                                     ELSE IF Online(d) THEN inbox[d] \o <<LeftMsg(c)>> ELSE inbox[d]]
      /\ view' = [view EXCEPT ![c] = NoView] /\ keys' = [keys EXCEPT ![c] = [s \in Scope |-> NoKey]]
      /\ UNCHANGED <<minted, fresh, confided>>
    BY DEF Disconnect, told, ServerEvent
<1>2. /\ net \in View /\ view \in [Session -> View] /\ keys \in [Session -> [Scope -> KeyOrNone]]
    BY DEF IInv, TypeOK
<1>3. /\ net'.chans = net.chans /\ net'.links = net.links
      /\ \A d \in Session \ {c} : net'.where[d] = net.where[d] /\ view'[d] = view[d]
                                  /\ keys'[d] = keys[d]
      /\ \A s \in Scope : keys'[c][s] = NoKey
    BY <1>1, <1>2 DEF View
<1>4. Parts(net') = Parts(net) BY <1>3, PartsFrame
<1>5. ASSUME NEW C \in Parts(net), NEW k \in Key PROVE Stays(C, k)
  <2>1. k # NoKey BY NoKeyIsNone
  <2>2. ASSUME NEW d \in Session, NEW r \in Scope, keys'[d][r] = k PROVE d # c
      BY <1>3, <2>1, <2>2
  <2> QED BY <1>3, <2>2 DEF Stays
<1>6. NoKeyTravels'
  <2>1. ASSUME NEW d \in Session, NEW i \in 1..Len(inbox'[d])
        PROVE  inbox'[d][i].type # "e2e_key"
    <3>1. \A m : <<>> \o <<m>> = <<m>> /\ Len(<<m>>) = 1 /\ <<m>>[1] = m OBVIOUS
    <3>2. inbox[d] = <<>> BY DEF Quiet
    <3>3. CASE inbox'[d] = <<LeftMsg(c)>>
      <4>1. i = 1 /\ inbox'[d][i] = LeftMsg(c) BY <2>1, <3>1, <3>3
      <4> QED BY <4>1 DEF LeftMsg
    <3>4. CASE inbox'[d] = <<>> BY <2>1, <3>4
    <3> QED BY <1>1, <3>1, <3>2, <3>3, <3>4
  <2> QED BY <2>1 DEF NoKeyTravels
<1> QED BY <1>1, <1>4, <1>5, <1>6, EventFresh

\* A move: who leads what the mover leaves, or the mover if it leaves nobody, mints.
LEMMA MoveFresh ==
  ASSUME IInv, Orderly, FreshSafe, Quiet, NEW c \in Session, NEW ch \in Channel, Move(c, ch)
  PROVE  FreshSafe'
<1> DEFINE m == MovedMsg(c, ch)
<1>1. /\ net' = [net EXCEPT !.where[c] = ch] /\ Broadcast(<<m>>) /\ phase[c] = "ready"
      /\ UNCHANGED <<phase, view, keys, minted, fresh, confided>>
    BY DEF Move, told, ServerEvent
<1>2. net \in View BY DEF IInv, TypeOK
<1>3. /\ net'.chans = net.chans /\ net'.links = net.links /\ net'.where[c] = ch
      /\ \A d \in Session \ {c} : net'.where[d] = net.where[d]
    BY <1>1, <1>2 DEF View
<1>4. Parts(net') = Parts(net) BY <1>3, PartsFrame
<1>5. m.type = "user_moved" /\ m.id = c /\ m.chan = ch BY DEF MovedMsg
<1> HIDE DEF m
<1>6. NoKeyTravels' BY <1>1, <1>5, BroadcastKeyless
<1>7. ASSUME NEW C \in Parts(net), net.where[c] \in C, ch \notin C
      PROVE  Renewal(C)'
  <2> DEFINE S == {d \in Session : net'.where[d] \in C}
  <2>1. PICK x \in Session : /\ x = c \/ net.where[x] \in C
                             /\ \A d \in Session : net'.where[d] \in C => ~ (Uid[d] < Uid[x])
    <3>1. CASE S = {} BY <3>1
    <3>2. CASE S # {}
      <4>1. S \in SUBSET Session OBVIOUS
      <4>2. PICK x \in S : \A d \in S : ~ (Uid[d] < Uid[x]) BY <3>2, <4>1, Least
      <4> QED BY <1>3, <4>2
    <3> QED BY <3>1, <3>2
  <2>2. Online(x) BY <1>1, <2>1, PlacedOnline DEF Online
  <2>3. inbox'[x] # <<>> /\ Head(inbox'[x]) = m BY <1>1, <2>2, BroadcastReaches
  <2>4. phase'[x] = "ready" /\ view'[x] = net BY <1>1, <2>2, QuietKnows
  <2>5. Renewer(net', x, view'[x], inbox'[x], C) BY <1>5, <1>7, <2>1, <2>3, <2>4 DEF Renewer
  <2> QED BY <2>4, <2>5 DEF Renewal
<1>8. ASSUME NEW C \in Parts(net), net.where[c] \notin C \/ ch \in C, NEW k \in Key
      PROVE  Stays(C, k)
    BY <1>1, <1>3, <1>8 DEF Stays
<1> QED BY <1>1, <1>4, <1>6, <1>7, <1>8, EventFresh

\* An edit of a channel: who leads an occupied component mints for it.
LEMMA EditChannelFresh ==
  ASSUME IInv, Orderly, FreshSafe, Quiet, NEW ch \in Channel, NEW linked \in SUBSET Channel,
         EditChannel(ch, linked), net' \in View
  PROVE  FreshSafe'
<1> DEFINE m == ChanUpdateMsg(ch, linked)
<1>1. /\ net' = [net EXCEPT !.links = Relinked(@, ch, linked)] /\ Broadcast(<<m>>)
      /\ fresh' = [s \in Scope |-> IF s = 0 \/ Occupied(net', s) THEN fresh[s] ELSE NoKey]
      /\ UNCHANGED <<phase, view, keys, minted, confided>>
    BY DEF EditChannel, ServerEvent
<1>2. net \in View BY DEF IInv, TypeOK
<1>3. net'.where = net.where /\ net'.chans = net.chans BY <1>1, <1>2 DEF View
<1>4. m.type = "chan_update" BY DEF ChanUpdateMsg
<1> HIDE DEF m
<1>5. NoKeyTravels' BY <1>1, <1>4, BroadcastKeyless
<1>6. ASSUME NEW C \in Parts(net'), NEW k \in Key, NEW s \in C, fresh'[s] = k
      PROVE  fresh[s] = k /\ (\E B \in Parts(net) : s \in B) /\ Renewal(C)'
  <2>1. C \in SUBSET Channel /\ C \in SUBSET Scope /\ 0 \notin C /\ C \subseteq net.chans
      BY <1>3, PartType
  <2>2. C = ComponentOf(net', s) BY PartOf
  <2>3. fresh[s] = k /\ Occupied(net', s) BY <1>1, <1>6, <2>1, NoKeyIsNone
  <2>4. \E B \in Parts(net) : s \in B BY <1>2, <2>1, ComponentSelf DEF Parts
  <2> DEFINE S == {d \in Session : net'.where[d] \in C}
  <2>5. S \in SUBSET Session /\ S # {} BY <2>2, <2>3 DEF Occupied
  <2>6. PICK x \in S : \A d \in S : ~ (Uid[d] < Uid[x]) BY <2>5, Least
  <2>7. net.where[x] # Absent BY <1>3, <2>1, <2>6, ChannelAssumption DEF Absent
  <2>8. Online(x) BY <2>6, <2>7 DEF Orderly
  <2>9. inbox'[x] # <<>> /\ Head(inbox'[x]) = m BY <1>1, <2>6, <2>8, BroadcastReaches
  <2>10. phase'[x] = "ready" BY <1>1, <2>6, <2>8, QuietKnows
  <2>11. Renewer(net', x, view'[x], inbox'[x], C) BY <1>4, <2>6, <2>9 DEF Renewer
  <2> QED BY <2>3, <2>4, <2>6, <2>10, <2>11 DEF Renewal
<1> QED BY <1>1, <1>5, <1>6, EventFresh

\* The removal of a channel.
LEMMA RemoveChannelFresh ==
  ASSUME IInv, FreshSafe, Quiet, NEW ch \in Channel, RemoveChannel(ch), net' \in View
  PROVE  FreshSafe'
<1> DEFINE m == ChanRemovedMsg(ch)
<1>1. /\ net' = [net EXCEPT !.chans = @ \ {ch}, !.links = {l \in @ : l[1] # ch}]
      /\ Broadcast(<<m>>)
      /\ fresh' = [s \in Scope |-> IF s \in ComponentOf(net, ch) THEN NoKey ELSE fresh[s]]
      /\ UNCHANGED <<view, keys, minted, confided>>
    BY DEF RemoveChannel, ServerEvent
<1>2. net \in View BY DEF IInv, TypeOK
<1>3. /\ net'.where = net.where /\ net'.chans = net.chans \ {ch}
      /\ net'.links = {l \in net.links : l[1] # ch}
    BY <1>1, <1>2 DEF View
<1>4. m.type = "chan_removed" BY DEF ChanRemovedMsg
<1> HIDE DEF m
<1>5. NoKeyTravels' BY <1>1, <1>4, BroadcastKeyless
<1>6. ASSUME NEW C \in Parts(net'), NEW k \in Key, NEW s \in C, fresh'[s] = k
      PROVE  fresh[s] = k /\ s \in C /\ C \in Parts(net)
  <2>1. s \in net'.chans /\ C = ComponentOf(net', s) /\ s \in Scope BY PartOf, PartType
  <2>2. s \notin ComponentOf(net, ch) /\ fresh[s] = k BY <1>1, <1>6, <2>1, NoKeyIsNone
  <2>3. C = ComponentOf(net, s) BY <1>2, <1>3, <2>1, <2>2, ComponentShrinks
  <2> QED BY <1>3, <2>1, <2>2, <2>3 DEF Parts
<1>7. \A C, k : Stays(C, k) BY <1>1, <1>3 DEF Stays
<1> QED BY <1>1, <1>5, <1>6, <1>7, EventFresh

Sheltered == Calm => FreshSafe

\* At the start the lobby's key is with those who are in it.
LEMMA InitSheltered ==
  ASSUME Init, IInv
  PROVE  Sheltered
<1>1. /\ net = [where |-> [d \in Session |-> IF d \in Present THEN Lobby ELSE Absent],
                chans |-> Channel, links |-> {}]
      /\ inbox = [d \in Session |-> <<>>]
      /\ view = [d \in Session |-> IF d \in Present THEN net ELSE NoView]
      /\ keys = [d \in Session |-> [s \in Scope |->
                    IF d \in Present THEN FoundingKeyOf(s) ELSE NoKey]]
      /\ minted = [d \in Session |-> IF d = Founder THEN <<1, 1>> ELSE <<>>]
      /\ passed = [s \in Scope |-> FoundingKeyOf(s)] /\ fresh = passed
    BY DEF Init
<1>2. net \in View BY DEF IInv, TypeOK
<1>3. Lobby \in Channel /\ 0 \notin Channel /\ Lobby \in Scope
    BY LobbyAssumption, ChannelAssumption DEF Scope
<1>4. /\ net.chans = Channel /\ net.links = {}
      /\ \A d \in Present : net.where[d] = Lobby
    BY <1>1, PresentAssumption
<1> SUFFICES ASSUME NEW C \in Parts(net), NEW k \in Key, NEW s \in C, fresh[s] = k
             PROVE  Recorded(minted, k) /\ Safe(C, k)
    BY DEF Sheltered, FreshSafe, FreshIs
<1>5. s \in net.chans /\ C = ComponentOf(net, s) /\ s \in Scope /\ s # 0 BY <1>2, PartOf, PartType
<1>6. s = Lobby /\ k = FoundingKey(2) BY <1>1, <1>5, NoKeyIsNone DEF FoundingKeyOf
<1>7. C = {Lobby} BY <1>2, <1>4, <1>5, <1>6, Unlinked
<1>8. Recorded(minted, k)
  <2>1. k.by = Founder /\ k.n = 2 BY <1>6 DEF FoundingKey
  <2>2. minted[Founder] = <<1, 1>> BY <1>1, PresentAssumption
  <2>3. 2 \in 1..Len(<<1, 1>>) OBVIOUS
  <2> QED BY <2>1, <2>2, <2>3 DEF Recorded
<1>9. ASSUME NEW d \in Session, NEW r \in Scope, keys[d][r] = k
      PROVE  r \in C /\ Entrusted(net, confided, d, C) /\ ComponentOf(view[d], r) = C
  <2>1. d \in Present /\ FoundingKeyOf(r) = k BY <1>1, <1>9, NoKeyIsNone
  <2>2. FoundingKey(1) # FoundingKey(2) BY DEF FoundingKey
  <2>3. r = Lobby BY <1>6, <2>1, <2>2, NoKeyIsNone DEF FoundingKeyOf
  <2>4. view[d] = net BY <1>1, <2>1
  <2> QED BY <1>4, <1>5, <1>6, <1>7, <2>1, <2>3, <2>4 DEF Entrusted
<1>10. \A d \in Session : inbox[d] = <<>> BY <1>1
<1>11. Safe(C, k) BY <1>9, <1>10 DEF Safe
<1> QED BY <1>8, <1>11

\* Every step.
LEMMA ShelteredStep ==
  ASSUME Attended, Sheltered, [Next]_vars, IInv'
  PROVE  Sheltered'
<1>1. CASE Next
  <2> SUFFICES ASSUME Calm' PROVE FreshSafe' BY DEF Sheltered
  <2>0. IInv BY DEF Attended
  <2>1. Calm /\ Orderly /\ (Turned \/ Sidelong \/ (Quiet /\ Happens))
      BY <1>1, CalmNext DEF Attended
  <2>2. FreshSafe BY <2>1 DEF Sheltered
  <2>3. net' \in View BY DEF IInv, TypeOK
  <2>4. CASE Turned BY <2>0, <2>1, <2>2, <2>4, SettlesFresh DEF Turned
  <2>5. CASE Sidelong BY <2>0, <2>1, <2>2, <2>5, AsideFresh DEF Sidelong
  <2>6. CASE Quiet /\ Happens
      BY <2>0, <2>1, <2>2, <2>3, <2>6, ConnectFresh, DisconnectFresh, MoveFresh, EditChannelFresh,
         RemoveChannelFresh DEF Happens
  <2> QED BY <2>1, <2>4, <2>5, <2>6
<1>2. CASE UNCHANGED vars
  <2>1. UNCHANGED <<net, phase, inbox, view, keys, confided, minted, raced, forgets, fresh>>
      BY <1>2 DEF vars, told
  <2>2. Calm' => Calm BY <2>1 DEF Calm
  <2>3. \A C, k : FreshIs(C, k) => FreshIs(C, k)'
      BY <2>1 DEF FreshIs, Safe, Renewal
  <2>4. FreshSafe => FreshSafe' BY <2>1, <2>3 DEF FreshSafe
  <2> QED BY <2>2, <2>4 DEF Sheltered
<1> QED BY <1>1, <1>2

\* When everything is handled nobody outside a component, whisper targets aside, opens
\* what its members speak under its fresh key: e2eeOnUserLeft, e2eeOnUserMoved and
\* e2eeOnTopologyChanged end the access of who is no longer a member.
THEOREM OutsidersAreDeaf == Spec => []OutsiderIsDeaf
<1>1. Init => IInv BY InitGood
<1>2. Init /\ IInv => Sheltered BY InitSheltered
<1>3. Attended /\ Sheltered /\ IInv' /\ [Next]_vars => Sheltered' BY ShelteredStep
<1>4. Attended /\ Sheltered => OutsiderIsDeaf
  <2> SUFFICES ASSUME Attended, Sheltered, Settled, NEW c \in Session, NEW d \in Session,
                      Seated(c), Seated(d), ~ Together(c, d), c \notin confided,
                      VoiceKey(d) # NoKey, VoiceKey(d) = fresh[net.where[d]], CanOpen(c, d)
               PROVE  FALSE
      BY DEF OutsiderIsDeaf
  <2> DEFINE C == ComponentOf(net, net.where[d])
             k == VoiceKey(d)
  <2>1. Orderly /\ FreshSafe /\ Quiet BY DEF Attended, Sheltered, Settled, Calm
  <2>2. net \in View /\ keys \in [Session -> [Scope -> KeyOrNone]] BY DEF Attended, IInv, TypeOK
  <2>3. net.where[d] \in net.chans BY <2>1, ChannelAssumption DEF Orderly, Seated, Absent
  <2>4. C \in Parts(net) /\ net.where[d] \in C BY <2>2, <2>3, ComponentSelf DEF Parts
  <2>5. k \in Key
    <3>1. net.where[d] \in Scope BY DEF Seated, Scope
    <3> QED BY <2>2, <3>1 DEF VoiceKey, KeyOrNone
  <2>6. ~ Renewal(C) BY <2>1 DEF Renewal, Renewer, Quiet
  <2>7. Safe(C, k) BY <2>1, <2>4, <2>5, <2>6 DEF FreshSafe, FreshIs
  <2>8. PICK s \in Scope : keys[c][s] = k BY DEF CanOpen
  <2>9. net.where[c] \in C BY <2>7, <2>8 DEF Safe, Entrusted
  <2>10. ComponentOf(net, net.where[c]) = C BY <2>2, <2>9, ComponentSame
  <2> QED BY <2>4, <2>10 DEF Together
<1> QED BY Inductive, NewsAttended, <1>1, <1>2, <1>3, <1>4, PTL DEF Spec

-----------------------------------------------------------------------------
(* The server's key reaches everybody, unless somebody declines a key. *)

Reached(d) ==
    \/ keys[d][0] # NoKey
    \/ ServerKeyIn(inbox[d])
    \/ phase[d] = "hello" /\ Tops(d)
    \/ \E m \in Session \ {d} : /\ Tops(m) /\ phase[m] = "ready" /\ keys[m][0] # NoKey
                                /\ inbox[m] # <<>> /\ Head(inbox[m]) = JoinedMsg(d)

ServerKeyed == \A d \in Session : Online(d) => Reached(d)

NobodyDeclined == \A c \in Session : declined[c] = {}

\* A queue that grows still holds the envelope it held.
LEMMA ServerKeyStays ==
  ASSUME NEW q \in Seq(Message), NEW r \in Seq(Message), ServerKeyIn(q) \/ ServerKeyIn(r)
  PROVE  ServerKeyIn(q \o r)
<1> DEFINE b == q \o r
<1>1. /\ \A i \in 1..Len(q) : \E j \in 1..Len(b) : b[j] = q[i]
      /\ \A i \in 1..Len(r) : \E j \in 1..Len(b) : b[j] = r[i]
    BY ConcatHolds
<1> HIDE DEF b
<1>2. ServerKeyIn(b) BY <1>1 DEF ServerKeyIn
<1> QED BY <1>2 DEF b

\* While phases of others stay and c stays online, the first of all stays so.
LEMMA TopsStays ==
  ASSUME NEW c \in Session, Online(c), Online(c)', \A d \in Session \ {c} : phase'[d] = phase[d]
  PROVE  \A d \in Session : (Online(d)' <=> Online(d)) /\ (Tops(d)' <=> Tops(d))
<1>1. \A d \in Session : Online(d)' <=> Online(d) BY DEF Online
<1> QED BY <1>1 DEF Tops

\* Who has the key, or a newcomer it is on its way to, stays reached when c does something
\* that neither loses the key nor takes an envelope of it without adopting it.
LEMMA CommitReached ==
  ASSUME IInv, NEW c \in Session, NEW M, Good(M), NEW t, NEW popped \in BOOLEAN,
         popped => inbox[c] # <<>>, Commit(c, M, t, popped),
         Online(c), phase'[c] = "ready", \A d \in Session \ {c} : phase'[d] = phase[d],
         keys[c][0] # NoKey => M.keys[0] # NoKey,
         popped /\ ServerKeyIn(inbox[c]) => M.keys[0] # NoKey \/ ServerKeyIn(Tail(inbox[c])),
         phase[c] = "hello" /\ Tops(c) => M.keys[0] # NoKey,
         popped /\ phase[c] = "ready" => \A d \in Session \ {c} :
             Tops(c) /\ keys[c][0] # NoKey /\ Head(inbox[c]) = JoinedMsg(d) => ServerKeyIn(M.out[d]),
         ServerKeyed
  PROVE  ServerKeyed'
<1>1. \A d \in Session : (Online(d)' <=> Online(d)) /\ (Tops(d)' <=> Tops(d))
  <2>1. Online(c)' BY DEF Online
  <2> QED BY <2>1, TopsStays
<1>2. keys'[c] = M.keys /\ \A d \in Session \ {c} : keys'[d] = keys[d] BY CommitWrites
<1>3. \A d \in Session : inbox[d] \in Seq(Message) /\ M.out[d] \in Seq(Message)
    BY DEF IInv, TypeOK, Good, LocalType
<1>4. \A d \in Session : Online(d) /\ (d # c \/ ~ popped) => inbox'[d] = inbox[d] \o M.out[d]
    BY DEF Commit
<1>5. popped => inbox'[c] = Tail(inbox[c]) \o M.out[c] /\ Tail(inbox[c]) \in Seq(Message)
    BY <1>3, HeadTailProperties DEF Commit
<1> SUFFICES ASSUME NEW d \in Session, Online(d) PROVE Reached(d)'
    BY <1>1 DEF ServerKeyed
<1>6. Reached(d) BY DEF ServerKeyed
<1>7. CASE keys[d][0] # NoKey
  <2>1. keys'[d][0] # NoKey BY <1>2, <1>7
  <2> QED BY <2>1 DEF Reached
<1>8. CASE ServerKeyIn(inbox[d])
  <2>1. CASE d # c \/ ~ popped
    <3>1. ServerKeyIn(inbox'[d]) BY <1>3, <1>4, <1>8, <2>1, ServerKeyStays
    <3> QED BY <3>1 DEF Reached
  <2>2. CASE d = c /\ popped
    <3>1. CASE M.keys[0] # NoKey BY <1>2, <2>2, <3>1 DEF Reached
    <3>2. CASE ServerKeyIn(Tail(inbox[c]))
      <4>1. ServerKeyIn(inbox'[c]) BY <1>3, <1>5, <2>2, <3>2, ServerKeyStays
      <4> QED BY <2>2, <4>1 DEF Reached
    <3> QED BY <1>8, <2>2, <3>1, <3>2
  <2> QED BY <2>1, <2>2
<1>9. CASE phase[d] = "hello" /\ Tops(d)
  <2>1. CASE d = c BY <1>2, <1>9, <2>1 DEF Reached
  <2>2. CASE d # c BY <1>1, <1>9, <2>2 DEF Reached
  <2> QED BY <2>1, <2>2
<1>10. ASSUME NEW m \in Session \ {d}, Tops(m), phase[m] = "ready", keys[m][0] # NoKey,
              inbox[m] # <<>>, Head(inbox[m]) = JoinedMsg(d)
       PROVE  Reached(d)'
  <2>1. CASE m # c \/ ~ popped
    <3>1. Online(m) BY <1>10 DEF Online
    <3>2. inbox'[m] = inbox[m] \o M.out[m] BY <1>4, <2>1, <3>1
    <3>3. inbox[m] \o M.out[m] # <<>> /\ Head(inbox[m] \o M.out[m]) = Head(inbox[m])
        BY <1>3, <1>10, HeadTailConcat, ZenonT(60)
    <3>4. inbox'[m] # <<>> /\ Head(inbox'[m]) = JoinedMsg(d) BY <1>10, <3>2, <3>3
    <3>5. Tops(m)' /\ phase'[m] = "ready" /\ keys'[m][0] # NoKey BY <1>1, <1>2, <1>10
    <3> QED BY <3>4, <3>5 DEF Reached
  <2>2. CASE m = c /\ popped
    <3>1. ServerKeyIn(M.out[d]) BY <1>10, <2>2
    <3>2. inbox'[d] = inbox[d] \o M.out[d] BY <1>4, <1>10, <2>2
    <3>3. ServerKeyIn(inbox'[d]) BY <1>3, <3>1, <3>2, ServerKeyStays
    <3> QED BY <3>3 DEF Reached
  <2> QED BY <2>1, <2>2
<1> QED BY <1>6, <1>7, <1>8, <1>9, <1>10 DEF Reached

\* A handler.
LEMMA SettlesReached ==
  ASSUME IInv, Orderly, ServerKeyed, NobodyDeclined', NEW c \in Session, NEW M, NEW t,
         Settles(c, M, t), Turn(c, M)
  PROVE  ServerKeyed'
<1> DEFINE p == TRUE
<1>1. /\ Commit(c, M, t, p) /\ inbox[c] # <<>> /\ Good(M) /\ Tells(net, c, LocalOf(c), M)
      /\ phase[c] \in {"hello", "ready"} /\ phase'[c] = "ready"
      /\ \A d \in Session \ {c} : phase'[d] = phase[d]
      /\ Takes(c, M) /\ Introduces(c, M) /\ p \in BOOLEAN
    BY DEF Settles, Turn
<1> HIDE DEF p
<1>2. M.declined = {} BY <1>1, CommitWrites DEF NobodyDeclined
<1>3. keys[c][0] # NoKey => M.keys[0] # NoKey
  <2>1. net \in View BY DEF IInv, TypeOK
  <2>2. Good(LocalOf(c)) /\ LocalOf(c).keys = keys[c] BY LocalOfGood DEF LocalOf
  <2> QED BY <1>1, <2>1, <2>2, KeyStays
<1>4. ServerKeyIn(inbox[c]) => M.keys[0] # NoKey \/ ServerKeyIn(Tail(inbox[c]))
  <2> SUFFICES ASSUME ServerKeyIn(inbox[c]) PROVE M.keys[0] # NoKey \/ ServerKeyIn(Tail(inbox[c]))
      OBVIOUS
  <2>1. inbox[c] \in Seq(Message) BY DEF IInv, TypeOK
  <2>2. PICK i \in 1..Len(inbox[c]) : inbox[c][i].type = "e2e_key" /\ inbox[c][i].comp = {0}
      BY DEF ServerKeyIn
  <2>3. inbox[c][i] = Head(inbox[c]) \/ \E j \in 1..Len(Tail(inbox[c])) : inbox[c][i] = Tail(inbox[c])[j]
      BY <1>1, <2>1, TailHolds
  <2>4. CASE inbox[c][i] = Head(inbox[c])
    <3>1. M.epochs[0] >= inbox[c][i].epoch BY <1>1, <1>2, <2>2, <2>4 DEF Takes
    <3>2. inbox[c][i].epoch \in Epoch
      <4>1. inbox[c][i] \in Message BY <2>1
      <4>2. inbox[c][i].key \in Key BY <2>2, <4>1, MessageFields
      <4>3. MintedIn(minted, inbox[c][i].key, inbox[c][i].epoch)
          BY <2>2 DEF IInv, KeysKeepTheirEpoch, MintedAs, MintedIn
      <4> QED BY <4>2, <4>3, MintedOnce DEF IInv, TypeOK
    <3>3. M.epochs[0] > 0 /\ 0 \in Scope
      <4>1. M.epochs[0] \in Nat BY <1>1 DEF Good, LocalType, Scope
      <4> QED BY <3>1, <3>2, <4>1 DEF Epoch, Scope
    <3> QED BY <1>1, <3>3, KeyByEpoch
  <2>5. CASE \E j \in 1..Len(Tail(inbox[c])) : inbox[c][i] = Tail(inbox[c])[j]
      BY <2>2, <2>5 DEF ServerKeyIn
  <2> QED BY <2>3, <2>4, <2>5
<1>5. Online(c) BY <1>1 DEF Online
<1>6. /\ phase[c] = "hello" /\ Tops(c) => M.keys[0] # NoKey
      /\ phase[c] = "ready" => \A d \in Session \ {c} :
           Tops(c) /\ keys[c][0] # NoKey /\ Head(inbox[c]) = JoinedMsg(d) => ServerKeyIn(M.out[d])
    BY <1>1 DEF Introduces
<1> QED BY <1>1, <1>3, <1>4, <1>5, <1>6, CommitReached

\* What is done aside.
LEMMA AsideReached ==
  ASSUME IInv, Orderly, ServerKeyed, NEW c \in Session, NEW M, NEW t, Aside(c, M, t)
  PROVE  ServerKeyed'
<1> DEFINE p == FALSE
<1>1. /\ Commit(c, M, t, p) /\ Good(M) /\ SameTables(LocalOf(c), M)
      /\ phase[c] = "ready" /\ phase' = phase /\ p \in BOOLEAN /\ ~ p
    BY DEF Aside
<1> HIDE DEF p
<1>2. M.keys = keys[c] BY <1>1 DEF SameTables, LocalOf
<1>3. Online(c) BY <1>1 DEF Online
<1>4. phase[c] # "hello" BY <1>1
<1> QED BY <1>1, <1>2, <1>3, <1>4, CommitReached

\* When everything is handled everybody online has the server's key.
LEMMA QuietKeyed ==
  ASSUME ServerKeyed, Quiet, NEW d \in Session, Online(d)
  PROVE  keys[d][0] # NoKey
<1>1. \A m \in Session : inbox[m] = <<>> /\ phase[m] # "hello" BY DEF Quiet
<1>2. ~ ServerKeyIn(inbox[d]) BY <1>1 DEF ServerKeyIn
<1> QED BY <1>1, <1>2 DEF ServerKeyed, Reached

\* A newcomer is the first of all, or the first of all hears of it.
LEMMA ConnectReached ==
  ASSUME IInv, Orderly, ServerKeyed, Quiet, NEW c \in Session, Connect(c)
  PROVE  ServerKeyed'
<1> DEFINE j == <<JoinedMsg(c), MovedMsg(c, Lobby)>>
<1>1. /\ phase' = [phase EXCEPT ![c] = "hello"] /\ UNCHANGED keys
      /\ inbox' = [d \in Session |-> IF d = c THEN <<WelcomeMsg(net')>>
                                     ELSE IF Online(d) THEN inbox[d] \o j ELSE inbox[d]]
    BY DEF Connect
<1>2. phase \in [Session -> {"new", "hello", "ready", "gone"}] BY DEF IInv, TypeOK
<1>3. phase'[c] = "hello" /\ \A d \in Session \ {c} : phase'[d] = phase[d] BY <1>1, <1>2
<1>4. \A d \in Session \ {c} : Online(d)' <=> Online(d) BY <1>3 DEF Online
<1>5. ASSUME NEW d \in Session \ {c}, Online(d)' PROVE Reached(d)'
  <2>1. keys[d][0] # NoKey BY <1>4, <1>5, QuietKeyed
  <2> QED BY <1>1, <2>1 DEF Reached
<1>6. Reached(c)'
  <2> DEFINE S == {d \in Session : Online(d)'}
  <2>1. S \in SUBSET Session /\ c \in S BY <1>3 DEF Online
  <2>2. PICK m \in S : \A d \in S : ~ (Uid[d] < Uid[m]) BY <2>1, Least
  <2>3. Tops(m)' BY <2>2 DEF Tops
  <2>4. CASE m = c BY <1>3, <2>3, <2>4 DEF Reached
  <2>5. CASE m # c
    <3>1. Online(m) BY <1>4, <2>2, <2>5
    <3>2. inbox[m] = <<>> /\ phase[m] = "ready" /\ keys[m][0] # NoKey
        BY <3>1, <2>2, QuietKeyed, QuietKnows
    <3>3. \A a, b : /\ <<>> \o <<a, b>> = <<a, b>> /\ <<a, b>> # <<>> /\ Head(<<a, b>>) = a
        OBVIOUS
    <3>4. inbox'[m] = <<>> \o j BY <1>1, <2>2, <2>5, <3>1, <3>2
    <3>5. inbox'[m] # <<>> /\ Head(inbox'[m]) = JoinedMsg(c) BY <3>3, <3>4
    <3>6. phase'[m] = "ready" /\ keys'[m][0] # NoKey /\ m \in Session \ {c}
        BY <1>1, <1>3, <2>2, <2>5, <3>2
    <3> QED BY <2>3, <3>5, <3>6 DEF Reached
  <2> QED BY <2>4, <2>5
<1> QED BY <1>5, <1>6 DEF ServerKeyed

\* The other events.
LEMMA HappensReached ==
  ASSUME IInv, Orderly, ServerKeyed, Quiet, Happens
  PROVE  ServerKeyed'
<1>1. ASSUME UNCHANGED <<phase, keys>> PROVE ServerKeyed'
  <2>1. ASSUME NEW d \in Session, Online(d)' PROVE keys'[d][0] # NoKey
    <3>1. Online(d) BY <1>1, <2>1 DEF Online
    <3> QED BY <1>1, <3>1, QuietKeyed
  <2> QED BY <2>1 DEF ServerKeyed, Reached
<1>2. ASSUME NEW c \in Session, Disconnect(c) PROVE ServerKeyed'
  <2>1. /\ phase' = [phase EXCEPT ![c] = "gone"] /\ keys' = [keys EXCEPT ![c] = [s \in Scope |-> NoKey]]
      BY <1>2 DEF Disconnect
  <2>2. /\ phase \in [Session -> {"new", "hello", "ready", "gone"}]
        /\ keys \in [Session -> [Scope -> KeyOrNone]]
      BY DEF IInv, TypeOK
  <2>3. phase'[c] = "gone" /\ \A d \in Session \ {c} : phase'[d] = phase[d] /\ keys'[d] = keys[d]
      BY <2>1, <2>2
  <2>4. ASSUME NEW d \in Session, Online(d)' PROVE keys'[d][0] # NoKey
    <3>1. d # c /\ Online(d) BY <2>3, <2>4 DEF Online
    <3> QED BY <2>3, <3>1, QuietKeyed
  <2> QED BY <2>4 DEF ServerKeyed, Reached
<1>3. ASSUME NEW c \in Session, NEW ch, Move(c, ch) PROVE UNCHANGED <<phase, keys>>
    BY <1>3 DEF Move
<1>4. ASSUME NEW ch, NEW linked, EditChannel(ch, linked) PROVE UNCHANGED <<phase, keys>>
    BY <1>4 DEF EditChannel
<1>5. ASSUME NEW ch, RemoveChannel(ch) PROVE UNCHANGED <<phase, keys>>
    BY <1>5 DEF RemoveChannel
<1> QED BY <1>1, <1>2, <1>3, <1>4, <1>5, ConnectReached DEF Happens

Keyed == Calm /\ NobodyDeclined => ServerKeyed

\* Who declines a key has declined it for good.
LEMMA DeclinedGrows ==
  ASSUME IInv, Turned \/ Sidelong \/ Happens, NobodyDeclined'
  PROVE  NobodyDeclined
<1>1. ASSUME NEW c \in Session, NEW M, NEW t, NEW p, Commit(c, M, t, p), Tells(net, c, LocalOf(c), M)
      PROVE  NobodyDeclined
  <2>1. declined'[c] = M.declined /\ \A d \in Session \ {c} : declined'[d] = declined[d]
      BY <1>1, CommitWrites
  <2>2. declined[c] \subseteq M.declined BY <1>1 DEF Tells, LocalOf
  <2> QED BY <2>1, <2>2 DEF NobodyDeclined
<1>2. CASE Turned BY <1>1, <1>2 DEF Turned, Settles, Turn
<1>3. CASE Sidelong BY <1>1, <1>3 DEF Sidelong, Aside
<1>4. CASE Happens
  <2>1. declined' = declined
      BY <1>4 DEF Happens, Connect, Disconnect, Move, EditChannel, RemoveChannel, told
  <2> QED BY <2>1 DEF NobodyDeclined
<1> QED BY <1>2, <1>3, <1>4

\* Every step.
LEMMA KeyedStep ==
  ASSUME Attended, Keyed, [Next]_vars
  PROVE  Keyed'
<1>1. CASE Next
  <2> SUFFICES ASSUME Calm', NobodyDeclined' PROVE ServerKeyed' BY DEF Keyed
  <2>0. IInv BY DEF Attended
  <2>1. Calm /\ Orderly /\ (Turned \/ Sidelong \/ (Quiet /\ Happens))
      BY <1>1, CalmNext DEF Attended
  <2>2. ServerKeyed BY <2>0, <2>1, DeclinedGrows DEF Keyed
  <2>3. CASE Turned BY <2>0, <2>1, <2>2, <2>3, SettlesReached DEF Turned
  <2>4. CASE Sidelong BY <2>0, <2>1, <2>2, <2>4, AsideReached DEF Sidelong
  <2>5. CASE Quiet /\ Happens BY <2>0, <2>1, <2>2, <2>5, HappensReached
  <2> QED BY <2>1, <2>3, <2>4, <2>5
<1>2. CASE UNCHANGED vars
  <2>1. UNCHANGED <<phase, inbox, keys, raced, forgets, declined>> BY <1>2 DEF vars, told
  <2>2. Calm' => Calm BY <2>1 DEF Calm
  <2>3. NobodyDeclined' => NobodyDeclined BY <2>1 DEF NobodyDeclined
  <2>4. ServerKeyed => ServerKeyed' BY <2>1 DEF ServerKeyed, Reached, Tops, Online
  <2> QED BY <2>2, <2>3, <2>4 DEF Keyed
<1> QED BY <1>1, <1>2

\* When everything is handled and no key was declined, nobody is left without a key: not
\* for the server's chat (e2eeOnUserJoined, e2eeBootstrap) and not for a channel of the
\* component it is in.
THEOREM NobodyIsMute == Spec => []NobodyStaysMute
<1>1. Init => Keyed
  <2> SUFFICES ASSUME Init, NEW d \in Session, Online(d) PROVE keys[d][0] # NoKey
      BY DEF Keyed, ServerKeyed, Reached
  <2>1. d \in Present BY DEF Init, Online
  <2>2. 0 \in Scope /\ FoundingKeyOf(0) = FoundingKey(1) BY DEF Scope, FoundingKeyOf
  <2>3. keys[d][0] = FoundingKey(1) BY <2>1, <2>2 DEF Init
  <2>4. FoundingKey(1) # NoKey BY DEF FoundingKey, NoKey
  <2> QED BY <2>3, <2>4
<1>2. Attended /\ Keyed /\ [Next]_vars => Keyed' BY KeyedStep
<1>3. Attended /\ Keyed => NobodyStaysMute
  <2> SUFFICES ASSUME Attended, Keyed, Settled, \A c \in Session : declined[c] = {},
                      NEW c \in Session, Seated(c),
                      NEW s \in {0} \cup ComponentOf(net, net.where[c])
               PROVE  keys[c][s] # NoKey
      BY DEF NobodyStaysMute
  <2>1. Orderly /\ AllHeard /\ Quiet /\ ServerKeyed /\ IInv
      BY DEF Attended, Keyed, NobodyDeclined, Settled, Calm
  <2>2. net \in View /\ epochs \in [Session -> [Scope -> Nat]] BY <2>1 DEF IInv, TypeOK
  <2>3. CASE s = 0
    <3>1. Online(c) BY DEF Seated, Online
    <3> QED BY <2>1, <2>3, <3>1, QuietKeyed
  <2>4. CASE s \in ComponentOf(net, net.where[c])
    <3> DEFINE C == ComponentOf(net, net.where[c])
    <3>1. net.where[c] \in net.chans BY <2>1, ChannelAssumption DEF Orderly, Seated, Absent
    <3>2. C \in Parts(net) /\ net.where[c] \in C BY <2>2, <3>1, ComponentSelf DEF Parts
    <3>3. s \in C /\ s \in Scope BY <2>2, <2>4, <3>2, PartType
    <3> HIDE DEF C
    <3>4. Heard(C) \/ Pending(C) BY <2>1, <3>2 DEF AllHeard
    <3>5. ~ Pending(C) BY <2>1 DEF Pending, Due, Quiet
    <3>6. PICK k \in Key, e \in Epoch : HeardOf(C, k, e) BY <3>4, <3>5 DEF Heard
    <3>7. ~ Holds(inbox[c], KeyMsg(C, k, e)) BY <2>1 DEF Quiet, Holds
    <3>8. epochs[c][s] >= e BY <3>2, <3>3, <3>6, <3>7 DEF HeardOf, Knows
    <3>9. epochs[c][s] # 0 BY <2>2, <3>3, <3>8 DEF Epoch
    <3> QED BY <2>1, <3>3, <3>9 DEF IInv, KeysKeepTheirEpoch
  <2> QED BY <2>3, <2>4
<1> QED BY NewsAttended, <1>1, <1>2, <1>3, PTL DEF Spec
=============================================================================
