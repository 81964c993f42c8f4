---------------------------- MODULE Addons_proofs ----------------------------
(***************************************************************************)
(* Proofs about Addons: what an installation may destroy, what outlives an *)
(* add-on and where its tasks run, for any finite set of add-ons, any      *)
(* versions and any number of faults.                                      *)
(***************************************************************************)
EXTENDS Addons, FiniteSetTheorems, TLAPS

\* What a record may be: the built-in effect has no callbacks, callbacks go
\* with a library, what is loaded is enabled, and first tokens are used up.
Sound(a, r, last) ==
    /\ r.kind = "none" => ~ r.enabled
    /\ r.kind = "builtIn" => a = Radio /\ r.hooks = {}
    /\ r.hooks # {} => r.loaded
    /\ r.loaded => r.enabled
    /\ r.born <= last /\ (r.kind # "none" => r.born > 0)

RecordsSound == \A a \in Addons : Sound(a, records[a], tokens)

\* Before the start there is nothing, and no installation without a window.
PhaseOK ==
    /\ phase = "off" => /\ \A a \in Addons : records[a] = NoRecord
                        /\ tasks = {}
    /\ phase # "window" => installing = Idle

\* The add-on that is being installed has no record; its directory is empty
\* when the copy begins, not complete while it is made or undone, and complete
\* when the backup goes.
InstallOK ==
    LET a == installing.addon
    IN /\ installing # Idle => records[a] = NoRecord
       /\ At("copy") => dir[a] = Nothing
       /\ installing.at \in {"copying", "undo", "restore"} => dir[a].state # "whole"
       /\ At("sweep") => dir[a].state = "whole"

QueuedTask == [addon : Addons, token : Nat, born : Nat, life : Nat, late : BOOLEAN]

\* A queued task and the record it came from, if that is still there: a task
\* posted by a running instance is outdated as soon as that is unloaded, one
\* posted during the unload when the next instance is.
Fits(q, r) ==
    r.born = q.born =>
       /\ r.kind = "package"
       /\ q.token <= r.token
       /\ ~ r.loaded /\ ~ q.late => q.token < r.token
       /\ q.token = r.token => r.life = IF q.late /\ r.loaded THEN q.life + 1 ELSE q.life

TasksFit == \A q \in tasks : q.born \in 1..tokens /\ Fits(q, records[q.addon])

IInv == /\ TypeOK /\ RecordsSound /\ PhaseOK /\ InstallOK /\ TasksFit
        /\ NothingOutlivesItsAddon

----------------------------------------------------------------------------
(* The helpers.                                                            *)

\* Unloading keeps a record's identity and outdates its tasks.
LEMMA UnloadedFacts ==
    ASSUME NEW r \in Record
    PROVE  /\ Unloaded(r) \in Record
           /\ Unloaded(r).kind = r.kind /\ Unloaded(r).from = r.from
           /\ Unloaded(r).born = r.born /\ Unloaded(r).life = r.life
           /\ Unloaded(r).enabled = r.enabled
           /\ ~ Unloaded(r).loaded
           /\ r.kind = "package" => Unloaded(r).hooks = {} /\ Unloaded(r).token > r.token
           /\ r.kind # "package" => Unloaded(r).hooks = r.hooks /\ Unloaded(r).token = r.token
<1>1. CASE r.kind = "package"
  <2> DEFINE u == [r EXCEPT !.loaded = FALSE, !.hooks = {}, !.token = @ + 1]
  <2>1. Unloaded(r) = u
    BY <1>1 DEF Unloaded
  <2>2. r.token + 1 \in Nat /\ r.token + 1 > r.token
    BY DEF Record
  <2>3. u \in Record
    BY <2>2 DEF Record
  <2>4. /\ u.kind = r.kind /\ u.from = r.from /\ u.born = r.born /\ u.life = r.life
        /\ u.enabled = r.enabled /\ u.loaded = FALSE /\ u.hooks = {} /\ u.token = r.token + 1
    BY DEF Record
  <2> QED BY <1>1, <2>1, <2>2, <2>3, <2>4
<1>2. CASE r.kind # "package"
  <2> DEFINE u == [r EXCEPT !.loaded = FALSE]
  <2>1. Unloaded(r) = u
    BY <1>2 DEF Unloaded
  <2>2. u \in Record
    BY DEF Record
  <2>3. /\ u.kind = r.kind /\ u.from = r.from /\ u.born = r.born /\ u.life = r.life
        /\ u.enabled = r.enabled /\ u.loaded = FALSE /\ u.hooks = r.hooks /\ u.token = r.token
    BY DEF Record
  <2> QED BY <1>2, <2>1, <2>2, <2>3
<1> QED BY <1>1, <1>2

\* What load leaves of a record r.
Kept(r, s) ==
    /\ s \in Record
    /\ s.kind = r.kind /\ s.born = r.born /\ s.enabled = r.enabled
    /\ r.loaded => s = r
    /\ s.hooks # {} => s.loaded
    /\ r.kind = "builtIn" => s.loaded /\ s.hooks = r.hooks
    /\ s.token >= r.token
    /\ r.kind = "package" /\ ~ r.loaded /\ s.loaded => s.token = r.token /\ s.life = r.life + 1
    /\ r.kind = "package" /\ ~ r.loaded /\ ~ s.loaded => s = r \/ s.token > r.token

LEMMA LoadedFacts ==
    ASSUME NEW r \in Record, NEW o \in Outcomes, NEW h \in SUBSET Hooks,
           r.kind # "none", r.hooks # {} => r.loaded
    PROVE  Kept(r, Loaded(r, o, h))
<1> USE DEF Kept
<1> DEFINE s == Loaded(r, o, h)
<1>0. r.life + 1 \in Nat
  BY DEF Record
<1>1. CASE r.loaded
  BY <1>1 DEF Loaded, Record
<1>2. CASE ~ r.loaded /\ r.kind = "builtIn"
  <2> DEFINE t == [r EXCEPT !.loaded = TRUE]
  <2>1. s = t
    BY <1>2 DEF Loaded
  <2>2. t \in Record
    BY DEF Record
  <2>3. t.kind = r.kind /\ t.born = r.born /\ t.enabled = r.enabled /\ t.loaded = TRUE
        /\ t.hooks = r.hooks /\ t.token = r.token
    BY DEF Record
  <2>4. r.token \in Nat
    BY DEF Record
  <2> QED BY <1>2, <2>1, <2>2, <2>3, <2>4
<1>3. CASE ~ r.loaded /\ r.kind = "package"
  <2>1. CASE o = "ok"
    <3> DEFINE t == [r EXCEPT !.loaded = TRUE, !.hooks = h, !.life = @ + 1]
    <3>1. s = t
      BY <1>3, <2>1 DEF Loaded
    <3>2. t \in Record
      BY <1>0 DEF Record
    <3>3. t.kind = r.kind /\ t.born = r.born /\ t.enabled = r.enabled /\ t.loaded = TRUE
          /\ t.token = r.token /\ t.life = r.life + 1
      BY DEF Record
    <3>4. r.token \in Nat
      BY DEF Record
    <3> QED BY <1>3, <3>1, <3>2, <3>3, <3>4
  <2>2. CASE o = "missing"
    <3>1. s = r
      BY <1>3, <2>2 DEF Loaded
    <3> QED BY <1>3, <3>1 DEF Record
  <2>3. CASE o = "refused"
    <3> DEFINE t == [r EXCEPT !.hooks = h, !.life = @ + 1]
    <3>1. s = Unloaded(t)
      BY <1>3, <2>3 DEF Loaded, Refused
    <3>2. t \in Record /\ t.kind = r.kind /\ t.born = r.born /\ t.enabled = r.enabled
          /\ t.token = r.token
      BY <1>0 DEF Record
    <3>3. s \in Record /\ s.kind = r.kind /\ s.born = r.born /\ s.enabled = r.enabled
          /\ ~ s.loaded /\ s.hooks = {} /\ s.token > r.token
      BY <1>3, <3>1, <3>2, UnloadedFacts
    <3> QED BY <1>3, <3>3 DEF Record
  <2> QED BY <2>1, <2>2, <2>3 DEF Outcomes
<1> QED BY <1>1, <1>2, <1>3 DEF Record

\* Sets of add-ons are finite.
LEMMA FoundFinite ==
    ASSUME NEW recs PROVE IsFiniteSet(Found(recs)) /\ Cardinality(Found(recs)) \in Nat
<1>1. Found(recs) \in SUBSET Addons
  BY DEF Found
<1> QED BY <1>1, FS_Subset, FS_CardinalityType, AddonsAssumption

\* A scan makes records with new tokens for what it finds, and no others.
LEMMA ScannedFacts ==
    ASSUME TypeOK, NEW recs \in [Addons -> Record], NEW next \in Nat
    PROVE  LET all == Scanned(recs, next)
           IN /\ all \in [Addons -> Record]
              /\ \A a \in Addons \ Found(recs) : all[a] = recs[a]
              /\ \A a \in Found(recs) :
                    /\ all[a].kind = "package" /\ ~ all[a].loaded /\ all[a].hooks = {}
                    /\ all[a].born \in next + 1 .. next + Cardinality(Found(recs))
<1> DEFINE all == Scanned(recs, next)
           n == Cardinality(Found(recs))
           upto(a) == {b \in Found(recs) : b <= a}
           c(a) == IF Source(a) = "dir" THEN dir[a] ELSE backup[a]
           new(a) == NewRecord("package", Source(a), Flag(a, c(a).version \in DefaultOn),
                               next + Cardinality(upto(a)))
<1>1. Found(recs) \subseteq Addons
  BY DEF Found
<1>2. ASSUME NEW a \in Found(recs) PROVE Cardinality(upto(a)) \in 1..n
  <2>a. a \in Addons
    BY <1>1
  <2>0. a \in Nat
    BY <2>a, AddonsAssumption
  <2>1. upto(a) \in SUBSET Found(recs) /\ a \in upto(a)
    <3> HIDE DEF n, c, new, all
    <3> QED BY <2>0
  <2>2. IsFiniteSet(Found(recs)) /\ n \in Nat
    BY FoundFinite
  <2>3. IsFiniteSet(upto(a)) /\ Cardinality(upto(a)) <= n
    BY <2>1, <2>2, FS_Subset
  <2>4. Cardinality(upto(a)) \in Nat /\ Cardinality(upto(a)) # 0
    BY <2>1, <2>3, FS_CardinalityType, FS_EmptySet
  <2> QED BY <2>2, <2>3, <2>4
<1>3. ASSUME NEW a \in Found(recs)
      PROVE  /\ new(a) \in Record /\ new(a).kind = "package" /\ ~ new(a).loaded /\ new(a).hooks = {}
             /\ new(a).born \in next + 1 .. next + n
  <2>1. Source(a) \in {"dir", "backup"}
    BY DEF Source, Found
  <2>2. Flag(a, c(a).version \in DefaultOn) \in BOOLEAN
    BY DEF Flag
  <2>3. next + Cardinality(upto(a)) \in next + 1 .. next + n /\ next + Cardinality(upto(a)) \in Nat
    BY <1>2, FoundFinite
  <2> HIDE DEF upto, c, n
  <2> QED BY <2>1, <2>2, <2>3 DEF NewRecord, Record
<1>4. ASSUME NEW a \in Addons PROVE all[a] = IF a \in Found(recs) THEN new(a) ELSE recs[a]
  BY DEF Scanned
<1>5. all = [a \in Addons |-> IF a \in Found(recs) THEN new(a) ELSE recs[a]]
  BY DEF Scanned
<1> HIDE DEF all, new, n
<1>6. all \in [Addons -> Record]
  BY <1>3, <1>5
<1> QED BY <1>1, <1>3, <1>4, <1>6 DEF all, n

\* What a removal may leave is a directory again, and a complete one only if
\* it was complete.
LEMMA RemainsFacts ==
    ASSUME NEW c \in Content, NEW rest \in Remains(c)
    PROVE  rest \in Content /\ (rest.state = "whole" => rest = c)
BY DEF Remains, Content, Nothing, Torn, Short, Readable

\* What is posted during an unload fits the record that the unload leaves.
LEMMA LateFacts ==
    ASSUME NEW a \in Addons, NEW r \in Record, NEW u \in Record, u.kind = r.kind,
           NEW q \in LateTasks(a, r, u)
    PROVE  q \in QueuedTask /\ q.addon = a /\ q.born = u.born /\ u.kind = "package" /\ Fits(q, u)
<1>1. q = Task(a, u, TRUE) /\ r.kind = "package" /\ ~ u.loaded
  BY DEF LateTasks
<1>2. u.token \in Nat /\ u.born \in Nat /\ u.life \in Nat
  BY DEF Record
<1> QED BY <1>1, <1>2 DEF Task, QueuedTask, Fits

LEMMA NoRecordType == NoRecord \in Record
BY DEF NoRecord, Record

LEMMA IdleType ==
    Idle \in [at : {"idle", "clear", "rename", "copy", "copying", "undo", "restore", "sweep", "scan"},
              addon : Addons, version : Versions \cup {0}]
BY AddonsAssumption DEF Idle

LEMMA FaultType == ASSUME TypeOK, NEW failed \in BOOLEAN, Fault(failed) PROVE faults' \in 0..MaxFaults
<1>1. faults \in 0..MaxFaults /\ MaxFaults \in Nat
  BY AddonsAssumption DEF TypeOK
<1> QED BY <1>1 DEF Fault

----------------------------------------------------------------------------
(* The steps keep the invariant.                                           *)

LEMMA InitInv == Init => IInv
<1> SUFFICES ASSUME Init PROVE IInv
  OBVIOUS
<1>1. TypeOK
  <2>1. Nothing \in Content /\ installing = Idle
    BY DEF Init, Content, Nothing
  <2>2. faults \in 0..MaxFaults
    BY AddonsAssumption DEF Init
  <2> QED BY <2>1, <2>2, IdleType, NoRecordType DEF Init, TypeOK
<1>2. RecordsSound /\ TasksFit /\ PhaseOK /\ NothingOutlivesItsAddon
  BY AddonsAssumption DEF Init, RecordsSound, Sound, NoRecord, TasksFit, PhaseOK, NothingOutlivesItsAddon, Hooks
<1>3. InstallOK
  BY DEF Init, InstallOK, Idle, At
<1> QED BY <1>1, <1>2, <1>3 DEF IInv

\* The start makes every record and gives out the first tokens.
LEMMA BootInv == ASSUME IInv, Boot PROVE IInv'
<1> DEFINE first == [a \in Addons |->
                IF a = Radio THEN NewRecord("builtIn", "dir", Flag(Radio, FALSE), 2) ELSE NoRecord]
           all == Scanned(first, 2)
           n == Cardinality(Found(first))
<1>1. PICK outcome \in [Addons -> Outcomes], hooks \in [Addons -> SUBSET Hooks] :
        /\ records' = [a \in Addons |->
               IF all[a].enabled THEN Loaded(all[a], outcome[a], hooks[a]) ELSE all[a]]
        /\ Post(UNION {LateTasks(a, all[a], records'[a]) : a \in Addons})
  BY DEF Boot
<1>2. phase = "off" /\ phase' = "booted" /\ tokens' = 2 + n
      /\ effect' = (records'[Radio].kind = "builtIn" /\ records'[Radio].loaded)
      /\ UNCHANGED <<dir, backup, saved, menu, installing, faults>>
  BY DEF Boot, diskVars
<1>3. n \in Nat
  BY FoundFinite
<1>4. Flag(Radio, FALSE) \in BOOLEAN
  BY DEF Flag
<1>5. first \in [Addons -> Record]
  BY <1>4, NoRecordType DEF NewRecord, Record
<1>6. all \in [Addons -> Record]
      /\ (\A a \in Addons \ Found(first) : all[a] = first[a])
      /\ \A a \in Found(first) :
            /\ all[a].kind = "package" /\ ~ all[a].loaded /\ all[a].hooks = {}
            /\ all[a].born \in 2 + 1 .. 2 + n
  <2> HIDE DEF first
  <2>1. TypeOK
    BY DEF IInv
  <2> QED BY <1>5, <2>1, ScannedFacts
<1>7. ASSUME NEW a \in Addons
      PROVE  /\ all[a] \in Record /\ ~ all[a].loaded /\ all[a].hooks = {}
             /\ all[a].kind = "none" => ~ all[a].enabled
             /\ all[a].kind = "builtIn" => a = Radio
             /\ all[a].born <= 2 + n /\ (all[a].kind # "none" => all[a].born > 0)
  <2>1. CASE a \in Found(first)
    <3>1. all[a].born \in 2 + 1 .. 2 + n
      BY <2>1, <1>6
    <3>2. all[a].born <= 2 + n /\ all[a].born > 0
      BY <1>3, <3>1
    <3> QED BY <2>1, <3>2, <1>6
  <2>2. CASE a \notin Found(first)
    <3>1. all[a] = first[a]
      BY <2>2, <1>6
    <3>2. first[a].born \in {0, 2}
          /\ (first[a].kind # "none" => a = Radio /\ first[a].born = 2)
          /\ (first[a].kind = "none" => ~ first[a].enabled)
          /\ ~ first[a].loaded /\ first[a].hooks = {}
      BY DEF NewRecord, NoRecord
    <3>3. \A b \in {0, 2} : b <= 2 + n
      BY <1>3
    <3> HIDE DEF first, all, n
    <3> QED BY <3>1, <3>2, <3>3, <1>6
  <2> QED BY <2>1, <2>2
<1> HIDE DEF all, first, n
<1>8. ASSUME NEW a \in Addons
      PROVE  records'[a] \in Record /\ Sound(a, records'[a], 2 + n) /\ records'[a].kind = all[a].kind
  <2>1. CASE ~ all[a].enabled
    <3>1. records'[a] = all[a]
      BY <2>1, <1>1
    <3> QED BY <3>1, <1>7, <2>1 DEF Sound
  <2>2. CASE all[a].enabled
    <3> DEFINE s == Loaded(all[a], outcome[a], hooks[a])
    <3>1. records'[a] = s
      BY <2>2, <1>1
    <3>2. s \in Record /\ s.kind = all[a].kind /\ s.born = all[a].born
          /\ s.enabled = all[a].enabled /\ (s.hooks # {} => s.loaded)
          /\ (all[a].kind = "builtIn" => s.loaded /\ s.hooks = all[a].hooks)
      <4>1. outcome[a] \in Outcomes /\ hooks[a] \in SUBSET Hooks
        BY <1>1
      <4>2. all[a] \in Record /\ all[a].kind # "none" /\ (all[a].hooks # {} => all[a].loaded)
        BY <1>7, <2>2
      <4>3. Kept(all[a], s)
        BY <4>1, <4>2, LoadedFacts
      <4> HIDE DEF s
      <4> QED BY <4>3 DEF Kept
    <3> HIDE DEF s
    <3> QED BY <3>1, <3>2, <1>7, <2>2 DEF Sound
  <2> QED BY <2>1, <2>2 DEF IInv, TypeOK, Record
<1>9. records' \in [Addons -> Record]
  BY <1>1, <1>8
<1>10. ASSUME NEW q \in tasks'
       PROVE  q \in QueuedTask /\ q.born \in 1..tokens' /\ Fits(q, records'[q.addon])
  <2>1. tasks = {}
    BY <1>2 DEF IInv, PhaseOK
  <2>2. PICK a \in Addons : q \in LateTasks(a, all[a], records'[a])
    BY <1>1, <2>1 DEF Post
  <2>3. /\ q \in QueuedTask /\ q.addon = a /\ q.born = records'[a].born
        /\ records'[a].kind = "package" /\ Fits(q, records'[a])
    BY <1>7, <1>8, <2>2, LateFacts
  <2>4. q.born \in 1..tokens'
    BY <1>2, <1>3, <1>8, <2>3 DEF Sound, Record
  <2> QED BY <2>3, <2>4
<1>11. TypeOK'
  <2>1. tasks' \subseteq QueuedTask
    BY <1>10
  <2>2. effect' \in BOOLEAN
    BY <1>2, <1>9, AddonsAssumption DEF Record
  <2>3. tokens' \in Nat
    BY <1>2, <1>3
  <2> QED BY <1>2, <1>9, <2>1, <2>2, <2>3 DEF IInv, TypeOK, QueuedTask
<1>12. RecordsSound' /\ TasksFit'
  BY <1>2, <1>8, <1>10 DEF RecordsSound, TasksFit
<1>13. PhaseOK' /\ InstallOK'
  BY <1>2 DEF IInv, PhaseOK, InstallOK, At, Idle
<1>14. NothingOutlivesItsAddon'
  <2>1. menu' = {}
    BY <1>2 DEF IInv, NothingOutlivesItsAddon
  <2> QED BY <1>2, <2>1, <1>8 DEF NothingOutlivesItsAddon, Sound
<1> QED BY <1>11, <1>12, <1>13, <1>14 DEF IInv

\* The window shows what was registered before it.
LEMMA ShowWindowInv == ASSUME IInv, ShowWindow PROVE IInv'
<1>1. menu' = Listed(records) /\ UNCHANGED records
  BY DEF ShowWindow, IInv, NothingOutlivesItsAddon, Listed
<1>2. TypeOK' /\ RecordsSound' /\ TasksFit'
  BY <1>1 DEF ShowWindow, diskVars, IInv, TypeOK, Listed, RecordsSound, TasksFit
<1>3. PhaseOK' /\ InstallOK'
  BY DEF ShowWindow, diskVars, IInv, PhaseOK, InstallOK, At
<1>4. NothingOutlivesItsAddon'
  BY <1>1 DEF ShowWindow, IInv, NothingOutlivesItsAddon, Listed
<1> QED BY <1>2, <1>3, <1>4 DEF IInv

\* The end of the process leaves the disk.
LEMMA StopInv == ASSUME IInv, Stop PROVE IInv'
<1>1. TypeOK'
  <2>1. faults' \in 0..MaxFaults
    BY FaultType DEF Stop, IInv
  <2> QED BY <2>1, NoRecordType, IdleType DEF Stop, diskVars, IInv, TypeOK
<1>2. RecordsSound' /\ TasksFit' /\ PhaseOK' /\ NothingOutlivesItsAddon'
  BY AddonsAssumption DEF Stop, RecordsSound, Sound, NoRecord, TasksFit, PhaseOK, NothingOutlivesItsAddon, Hooks
<1>3. InstallOK'
  BY DEF Stop, InstallOK, Idle, At
<1> QED BY <1>1, <1>2, <1>3 DEF IInv

\* A task fits its record when that is unloaded, loaded again, or flagged.
LEMMA FitsUnloaded ==
    ASSUME NEW r \in Record, NEW q \in QueuedTask, Fits(q, r)
    PROVE  Fits(q, Unloaded(r))
<1> DEFINE s == Unloaded(r)
<1>1. /\ s.kind = r.kind /\ s.born = r.born /\ ~ s.loaded
      /\ r.kind = "package" => s.token > r.token
      /\ s.token \in Nat /\ r.token \in Nat /\ q.token \in Nat
  BY UnloadedFacts DEF Record, QueuedTask
<1> HIDE DEF s
<1>2. Fits(q, s)
  BY <1>1 DEF Fits
<1> QED BY <1>2 DEF s

LEMMA FitsLoaded ==
    ASSUME NEW r \in Record, NEW s \in Record, Kept(r, s),
           NEW q \in QueuedTask, Fits(q, r)
    PROVE  Fits(q, s)
<1>1. s.token \in Nat /\ r.token \in Nat /\ q.token \in Nat /\ r.loaded \in BOOLEAN /\ s.loaded \in BOOLEAN
  BY DEF Record, QueuedTask
<1>2. CASE r.loaded
  BY <1>2 DEF Kept
<1>3. CASE ~ r.loaded
  BY <1>1, <1>3 DEF Kept, Fits
<1> QED BY <1>2, <1>3

LEMMA FitsFlagged ==
    ASSUME NEW r \in Record, NEW flag \in BOOLEAN, NEW q, Fits(q, r)
    PROVE  Fits(q, [r EXCEPT !.enabled = flag])
BY DEF Fits, Record

\* The library changes what it registered.
LEMMA ChangeHooksInv == ASSUME IInv, NEW a \in Addons, ChangeHooks(a) PROVE IInv'
<1>1. PICK hooks \in SUBSET Hooks :
         /\ records' = [records EXCEPT ![a].hooks = hooks]
         /\ menu' = IF "action" \in hooks THEN menu \cup {a} ELSE menu \ {a}
  BY DEF ChangeHooks
<1> DEFINE s == [records[a] EXCEPT !.hooks = hooks]
<1>2. /\ phase = "window" /\ installing = Idle /\ records[a].kind = "package" /\ records[a].loaded
      /\ UNCHANGED <<diskVars, phase, effect, tokens, tasks, installing, faults>>
  BY DEF ChangeHooks
<1>3. records[a] \in Record
  BY DEF IInv, TypeOK
<1>4. /\ s \in Record /\ s.kind = "package" /\ s.loaded /\ s.enabled = records[a].enabled
      /\ s.hooks = hooks /\ s.born = records[a].born /\ s.token = records[a].token
      /\ s.life = records[a].life
  BY <1>2, <1>3 DEF Record
<1>5. records' = [records EXCEPT ![a] = s]
  BY <1>1
<1> HIDE DEF s
<1>6. TypeOK'
  BY <1>1, <1>2, <1>4, <1>5 DEF diskVars, IInv, TypeOK
<1>7. RecordsSound'
  BY <1>2, <1>4, <1>5 DEF IInv, TypeOK, RecordsSound, Sound
<1>8. PhaseOK' /\ InstallOK'
  BY <1>2 DEF diskVars, IInv, PhaseOK, InstallOK, At, Idle
<1>9. TasksFit'
  <2>1. \A q \in tasks : q.born \in 1..tokens /\ Fits(q, records[q.addon]) /\ q.addon \in Addons
    BY DEF IInv, TypeOK, TasksFit
  <2>2. \A q \in tasks : Fits(q, records'[q.addon])
    BY <2>1, <1>2, <1>4, <1>5 DEF IInv, TypeOK, Fits
  <2> QED BY <1>2, <2>1, <2>2 DEF TasksFit
<1>10. NothingOutlivesItsAddon'
  BY <1>1, <1>2, <1>4, <1>5 DEF IInv, TypeOK, NothingOutlivesItsAddon, Listed
<1> QED BY <1>6, <1>7, <1>8, <1>9, <1>10 DEF IInv

\* A task carries the token of a loaded record.
LEMMA PostTaskInv == ASSUME IInv, NEW a \in Addons, PostTask(a) PROVE IInv'
<1> DEFINE q0 == Task(a, records[a], FALSE)
<1>1. /\ records[a].kind = "package" /\ records[a].loaded /\ tasks' = tasks \cup {q0}
      /\ UNCHANGED <<diskVars, phase, processVars, installing, faults>>
  BY DEF PostTask
<1>2. records[a] \in Record /\ Sound(a, records[a], tokens) /\ tokens \in Nat
  BY DEF IInv, TypeOK, RecordsSound
<1>3. q0 \in QueuedTask
  BY <1>2 DEF Record, Task, QueuedTask
<1>4. q0.born \in 1..tokens /\ Fits(q0, records[q0.addon])
  BY <1>1, <1>2 DEF Sound, Record, Fits, Task
<1> HIDE DEF q0
<1>5. TypeOK' /\ RecordsSound' /\ TasksFit'
  BY <1>1, <1>3, <1>4 DEF diskVars, processVars, IInv, TypeOK, RecordsSound, TasksFit, QueuedTask
<1>6. PhaseOK' /\ InstallOK' /\ NothingOutlivesItsAddon'
  BY <1>1 DEF diskVars, processVars, IInv, PhaseOK, InstallOK, At, NothingOutlivesItsAddon, NoRecord
<1> QED BY <1>5, <1>6 DEF IInv

LEMMA TakeTaskInv == ASSUME IInv, NEW q \in tasks, TakeTask(q) PROVE IInv'
<1>1. TypeOK' /\ RecordsSound' /\ TasksFit'
  BY DEF TakeTask, diskVars, processVars, IInv, TypeOK, RecordsSound, TasksFit
<1>2. PhaseOK' /\ InstallOK' /\ NothingOutlivesItsAddon'
  BY DEF TakeTask, diskVars, processVars, IInv, PhaseOK, InstallOK, At, NothingOutlivesItsAddon
<1> QED BY <1>1, <1>2 DEF IInv

\* What the user does gives one add-on another record.
LEMMA ReplaceInv ==
    ASSUME IInv, NEW a \in Addons, NEW s \in Record, phase = "window",
           records' = [records EXCEPT ![a] = s], UNCHANGED phase,
           NEW late \in SUBSET QueuedTask, Post(late), \A q \in late : q.born \in 1..tokens /\ q.addon = a,
           tokens' \in {tokens, tokens + 1}, Sound(a, s, tokens'),
           \A q \in tasks \cup late : q.addon = a => Fits(q, s),
           menu' = Listed(records'),
           effect' = IF a = Radio THEN s.kind = "builtIn" /\ s.loaded ELSE effect
    PROVE  /\ records' \in [Addons -> Record] /\ menu' \subseteq Addons /\ effect' \in BOOLEAN
           /\ tokens' \in Nat /\ tasks' \subseteq QueuedTask
           /\ RecordsSound' /\ PhaseOK' /\ TasksFit' /\ NothingOutlivesItsAddon'
<1>1. /\ records \in [Addons -> Record] /\ tokens \in Nat /\ effect \in BOOLEAN
      /\ tasks \subseteq QueuedTask
  BY DEF IInv, TypeOK, QueuedTask
<1>a. tasks' \subseteq tasks \cup late
  BY DEF Post
<1>2. records' \in [Addons -> Record] /\ tokens' \in Nat /\ tokens' >= tokens
  BY <1>1
<1>3. menu' \subseteq Addons
  BY DEF Listed
<1>4. effect' \in BOOLEAN
  BY <1>1
<1>5. ASSUME NEW b \in Addons PROVE Sound(b, records'[b], tokens')
  <2>1. CASE b = a
    BY <1>1, <2>1
  <2>2. CASE b # a
    <3>1. Sound(b, records[b], tokens) /\ records'[b] = records[b] /\ records[b].born \in Nat
      BY <1>1, <2>2 DEF IInv, RecordsSound, Record
    <3> QED BY <1>1, <1>2, <3>1 DEF Sound
  <2> QED BY <2>1, <2>2
<1>6. PhaseOK'
  BY DEF PhaseOK
<1>7. TasksFit'
  <2>1. ASSUME NEW q \in tasks' PROVE q.born \in 1..tokens' /\ Fits(q, records'[q.addon])
    <3>1. q.born \in 1..tokens /\ q.addon \in Addons
      BY <1>1, <1>a DEF IInv, TasksFit, QueuedTask
    <3>2. q.born \in 1..tokens'
      BY <3>1, <1>1, <1>2
    <3>3. q \in tasks => Fits(q, records[q.addon])
      BY DEF IInv, TasksFit
    <3>4. Fits(q, records'[q.addon])
      BY <3>1, <3>3, <1>1, <1>a
    <3> QED BY <3>2, <3>4
  <2> QED BY <2>1 DEF TasksFit
<1>8. NothingOutlivesItsAddon'
  <2>1. effect' <=> records'[Radio].kind = "builtIn" /\ records'[Radio].loaded
    <3>1. CASE a = Radio
      BY <1>1, <3>1
    <3>2. CASE a # Radio
      BY <1>1, <3>2, AddonsAssumption DEF IInv, NothingOutlivesItsAddon
    <3> QED BY <3>1, <3>2
  <2> QED BY <1>5, <2>1 DEF NothingOutlivesItsAddon, Sound
<1>9. tasks' \subseteq QueuedTask
  BY <1>1, <1>a
<1> QED BY <1>2, <1>3, <1>4, <1>5, <1>6, <1>7, <1>8, <1>9 DEF RecordsSound

\* What holds when the user acts.
LEMMA UserFacts ==
    ASSUME IInv, NEW a \in Addons, UserActs(a)
    PROVE  /\ phase = "window" /\ installing = Idle /\ menu = Listed(records)
           /\ records[a] \in Record /\ Sound(a, records[a], tokens) /\ tokens \in Nat
           /\ effect = (records[Radio].kind = "builtIn" /\ records[Radio].loaded)
BY DEF IInv, TypeOK, UserActs, RecordsSound, NothingOutlivesItsAddon

\* What holds of a queued task.
LEMMA TaskFacts ==
    ASSUME IInv, NEW q \in tasks
    PROVE  /\ q \in QueuedTask /\ q.addon \in Addons
           /\ q.born \in 1..tokens /\ Fits(q, records[q.addon])
BY DEF IInv, TypeOK, TasksFit, QueuedTask

\* What is posted while an add-on's record is unloaded.
LEMMA UnloadPosts ==
    ASSUME IInv, NEW a \in Addons, NEW q \in LateTasks(a, records[a], Unloaded(records[a]))
    PROVE  q \in QueuedTask /\ q.addon = a /\ q.born \in 1..tokens /\ Fits(q, Unloaded(records[a]))
<1>1. records[a] \in Record /\ Sound(a, records[a], tokens) /\ tokens \in Nat
  BY DEF IInv, TypeOK, RecordsSound
<1> DEFINE u == Unloaded(records[a])
<1>2. u \in Record /\ u.kind = records[a].kind /\ u.born = records[a].born
  BY <1>1, UnloadedFacts
<1> HIDE DEF u
<1>3. q \in QueuedTask /\ q.addon = a /\ q.born = u.born /\ u.kind = "package" /\ Fits(q, u)
  BY <1>1, <1>2, LateFacts DEF u
<1>4. q.born \in 1..tokens
  BY <1>1, <1>2, <1>3 DEF Sound, Record
<1> QED BY <1>3, <1>4 DEF u

LEMMA EnableInv == ASSUME IInv, NEW a \in Addons, Enable(a) PROVE IInv'
<1>1. PICK outcome \in Outcomes, hooks \in SUBSET Hooks :
        LET r == Loaded(records[a], outcome, hooks)
        IN /\ records' = [records EXCEPT ![a] = [r EXCEPT !.enabled = r.loaded]]
           /\ saved' = [saved EXCEPT ![a] = IF r.loaded THEN "on" ELSE "off"]
           /\ Post(LateTasks(a, records[a], r))
  BY DEF Enable
<1> DEFINE r == Loaded(records[a], outcome, hooks)
           late == LateTasks(a, records[a], r)
           s == [r EXCEPT !.enabled = r.loaded]
<1>2. UserActs(a) /\ records[a].kind # "none"
      /\ effect' = (effect \/ records[a].kind = "builtIn")
      /\ menu' = Listed(records')
      /\ UNCHANGED <<dir, backup, phase, tokens, installing, faults>>
  BY DEF Enable
<1>3. /\ phase = "window" /\ installing = Idle
      /\ records[a] \in Record /\ Sound(a, records[a], tokens)
  BY <1>2, UserFacts
<1>a. ASSUME NEW q \in tasks, q.addon = a
      PROVE  q \in QueuedTask /\ Fits(q, records[a])
  BY <1>a, TaskFacts
<1>4. Kept(records[a], r)
  <2>1. records[a].hooks # {} => records[a].loaded
    BY <1>3 DEF Sound
  <2> QED BY <1>2, <1>3, <2>1, LoadedFacts
<1>5. r \in Record /\ r.loaded \in BOOLEAN
  BY <1>4 DEF Kept, Record
<1> HIDE DEF r
<1>6. /\ s \in Record /\ s.kind = r.kind /\ s.hooks = r.hooks /\ s.loaded = r.loaded
      /\ s.enabled = r.loaded /\ s.born = r.born
  BY <1>5 DEF Record
<1>7. /\ records' = [records EXCEPT ![a] = s] /\ Post(late)
      /\ saved' = [saved EXCEPT ![a] = IF r.loaded THEN "on" ELSE "off"]
  BY <1>1 DEF r
<1>b. ASSUME NEW q \in late
      PROVE  q \in QueuedTask /\ q.addon = a /\ q.born \in 1..tokens /\ Fits(q, r)
  <2>1. /\ q \in QueuedTask /\ q.addon = a /\ q.born = r.born
        /\ r.kind = "package" /\ Fits(q, r)
    BY <1>3, <1>4, <1>5, LateFacts DEF Kept
  <2>2. q.born \in 1..tokens
    BY <1>3, <1>4, <2>1 DEF Sound, Kept, Record, IInv, TypeOK
  <2> QED BY <2>1, <2>2
<1> HIDE DEF late
<1>8. \A q \in tasks \cup late : q.addon = a => Fits(q, s)
  <2> SUFFICES ASSUME NEW q \in tasks \cup late, q.addon = a PROVE Fits(q, s)
    OBVIOUS
  <2>1. Fits(q, r)
    BY <1>3, <1>a, <1>b, <1>4, <1>5, FitsLoaded
  <2> QED BY <2>1, <1>5, FitsFlagged
<1> HIDE DEF s
<1>9. Sound(a, s, tokens)
  BY <1>2, <1>3, <1>4, <1>6 DEF Sound, Kept
<1>10. effect' = IF a = Radio THEN s.kind = "builtIn" /\ s.loaded ELSE effect
  <2>1. effect = (records[Radio].kind = "builtIn" /\ records[Radio].loaded)
    BY <1>2, UserFacts
  <2>2. effect \in BOOLEAN
    BY DEF IInv, TypeOK
  <2>3. CASE a = Radio
    BY <2>1, <2>3, <1>2, <1>4, <1>6 DEF Kept
  <2>4. CASE a # Radio
    BY <2>2, <2>4, <1>2, <1>3 DEF Sound
  <2> QED BY <2>3, <2>4
<1>11. /\ records' \in [Addons -> Record] /\ menu' \subseteq Addons /\ effect' \in BOOLEAN
       /\ tokens' \in Nat /\ tasks' \subseteq QueuedTask
       /\ RecordsSound' /\ PhaseOK' /\ TasksFit' /\ NothingOutlivesItsAddon'
  <2>1. late \in SUBSET QueuedTask /\ \A q \in late : q.born \in 1..tokens /\ q.addon = a
    BY <1>b
  <2> QED BY <2>1, <1>2, <1>3, <1>6, <1>7, <1>8, <1>9, <1>10, ReplaceInv
<1>12. TypeOK'
  <2>1. saved' \in [Addons -> {"unset", "on", "off"}]
    BY <1>7 DEF IInv, TypeOK
  <2> QED BY <1>2, <1>11, <2>1 DEF IInv, TypeOK, QueuedTask
<1>13. InstallOK'
  BY <1>2, <1>3 DEF InstallOK, At, Idle
<1> QED BY <1>11, <1>12, <1>13 DEF IInv

LEMMA DisableInv == ASSUME IInv, NEW a \in Addons, Disable(a) PROVE IInv'
<1> DEFINE r == Unloaded(records[a])
           s == [r EXCEPT !.enabled = FALSE]
           late == LateTasks(a, records[a], r)
<1>1. /\ UserActs(a) /\ records[a].kind # "none"
      /\ records' = [records EXCEPT ![a] = s]
      /\ effect' = (effect /\ records[a].kind # "builtIn")
      /\ menu' = menu \ {a}
      /\ saved' = [saved EXCEPT ![a] = "off"]
      /\ Post(late)
      /\ UNCHANGED <<dir, backup, phase, tokens, installing, faults>>
  BY DEF Disable
<1>2. /\ phase = "window" /\ installing = Idle /\ menu = Listed(records)
      /\ records[a] \in Record /\ Sound(a, records[a], tokens)
      /\ effect = (records[Radio].kind = "builtIn" /\ records[Radio].loaded)
  BY <1>1, UserFacts
<1>3. /\ r \in Record /\ r.kind = records[a].kind /\ r.born = records[a].born
      /\ ~ r.loaded /\ r.hooks = {}
  BY <1>1, <1>2, UnloadedFacts DEF Sound, Record
<1>a. late \in SUBSET QueuedTask /\ \A q \in late : q.born \in 1..tokens /\ q.addon = a /\ Fits(q, r)
  BY UnloadPosts
<1> HIDE DEF late
<1>4. ASSUME NEW q \in tasks \cup late, q.addon = a PROVE Fits(q, s)
  <2>1. Fits(q, r)
    BY <1>2, <1>4, <1>a, TaskFacts, FitsUnloaded
  <2> QED BY <2>1, <1>3, FitsFlagged
<1> HIDE DEF r
<1>5. /\ s \in Record /\ s.kind = records[a].kind /\ s.born = records[a].born
      /\ s.loaded = FALSE /\ s.enabled = FALSE /\ s.hooks = {}
  BY <1>3 DEF Record
<1> HIDE DEF s
<1>6. Sound(a, s, tokens)
  BY <1>1, <1>2, <1>5 DEF Sound
<1>7. effect' = IF a = Radio THEN s.kind = "builtIn" /\ s.loaded ELSE effect
  <2>1. effect \in BOOLEAN
    BY DEF IInv, TypeOK
  <2> QED BY <1>1, <1>2, <1>5, <2>1 DEF Sound
<1>8. menu' = Listed(records')
  BY <1>1, <1>2, <1>5 DEF Listed, IInv, TypeOK
<1>9. /\ records' \in [Addons -> Record] /\ menu' \subseteq Addons /\ effect' \in BOOLEAN
      /\ tokens' \in Nat /\ tasks' \subseteq QueuedTask
      /\ RecordsSound' /\ PhaseOK' /\ TasksFit' /\ NothingOutlivesItsAddon'
  BY <1>1, <1>2, <1>4, <1>5, <1>6, <1>7, <1>8, <1>a, ReplaceInv
<1>10. TypeOK'
  BY <1>1, <1>9 DEF IInv, TypeOK, QueuedTask
<1>11. InstallOK'
  BY <1>1, <1>2 DEF InstallOK, At, Idle
<1> QED BY <1>9, <1>10, <1>11 DEF IInv

\* What a task of an older record has to do with a new one: nothing.
LEMMA FitsNew ==
    ASSUME IInv, NEW q, q.born \in 1..tokens, NEW r, r.born = 0 \/ r.born = tokens + 1
    PROVE  Fits(q, r)
<1>1. tokens \in Nat
  BY DEF IInv, TypeOK
<1> QED BY <1>1 DEF Fits

LEMMA InstallInv ==
    ASSUME IInv, NEW a \in Addons, NEW v \in Versions, Install(a, v) PROVE IInv'
<1> DEFINE late == LateTasks(a, records[a], Unloaded(records[a]))
<1>1. /\ UserActs(a)
      /\ installing' = [at |-> "clear", addon |-> a, version |-> v]
      /\ records' = [records EXCEPT ![a] = NoRecord]
      /\ effect' = (effect /\ records[a].kind # "builtIn")
      /\ menu' = menu \ {a}
      /\ Post(late)
      /\ UNCHANGED <<dir, backup, saved, phase, tokens, faults>>
  BY DEF Install, diskVars
<1>2. /\ phase = "window" /\ menu = Listed(records) /\ Sound(a, records[a], tokens)
      /\ tokens \in Nat
      /\ effect = (records[Radio].kind = "builtIn" /\ records[Radio].loaded)
  BY <1>1, UserFacts
<1>a. late \in SUBSET QueuedTask /\ \A q \in late : q.born \in 1..tokens /\ q.addon = a
  BY UnloadPosts
<1> HIDE DEF late
<1>3. ASSUME NEW q \in tasks \cup late PROVE Fits(q, NoRecord)
  <2>1. q.born \in 1..tokens
    BY <1>a, TaskFacts
  <2> QED BY <2>1, FitsNew DEF NoRecord
<1>4. Sound(a, NoRecord, tokens)
  BY <1>2 DEF Sound, NoRecord
<1>5. effect' = IF a = Radio THEN NoRecord.kind = "builtIn" /\ NoRecord.loaded ELSE effect
  <2>1. effect \in BOOLEAN
    BY DEF IInv, TypeOK
  <2> QED BY <1>1, <1>2, <2>1 DEF Sound, NoRecord
<1>6. menu' = Listed(records')
  BY <1>1, <1>2 DEF Listed, IInv, TypeOK, NoRecord
<1>7. /\ records' \in [Addons -> Record] /\ menu' \subseteq Addons /\ effect' \in BOOLEAN
      /\ tokens' \in Nat /\ tasks' \subseteq QueuedTask
      /\ RecordsSound' /\ TasksFit' /\ NothingOutlivesItsAddon'
  BY <1>1, <1>2, <1>3, <1>4, <1>5, <1>6, <1>a, NoRecordType, ReplaceInv
<1>8. TypeOK'
  BY <1>1, <1>7 DEF IInv, TypeOK, QueuedTask
<1>9. PhaseOK' /\ InstallOK'
  BY <1>1, <1>2 DEF PhaseOK, InstallOK, At, IInv, TypeOK
<1> QED BY <1>7, <1>8, <1>9 DEF IInv

LEMMA RemoveInv == ASSUME IInv, NEW a \in Addons, Remove(a) PROVE IInv'
<1> DEFINE late == LateTasks(a, records[a], Unloaded(records[a]))
<1>1. PICK rest \in Remains(IF records[a].from = "dir" THEN dir[a] ELSE backup[a]) :
         /\ IF records[a].from = "dir"
              THEN dir' = [dir EXCEPT ![a] = rest] /\ UNCHANGED backup
              ELSE backup' = [backup EXCEPT ![a] = rest] /\ UNCHANGED dir
         /\ Fault(rest # Nothing)
         /\ IF rest # Nothing
              THEN /\ records' = [records EXCEPT ![a] = Unloaded(@)]
                   /\ UNCHANGED <<saved, effect, tokens>>
            ELSE IF a # Radio
              THEN /\ records' = [records EXCEPT ![a] = NoRecord]
                   /\ saved' = [saved EXCEPT ![a] = "off"]
                   /\ UNCHANGED <<effect, tokens>>
              ELSE /\ records' = [records EXCEPT ![a] =
                          [NewRecord("builtIn", "dir", records[a].enabled, tokens + 1)
                              EXCEPT !.loaded = records[a].enabled]]
                   /\ saved' = [saved EXCEPT ![a] = IF records[a].enabled THEN "on" ELSE "off"]
                   /\ effect' = records[a].enabled
                   /\ tokens' = tokens + 1
  BY DEF Remove
<1>2. /\ UserActs(a) /\ records[a].kind = "package" /\ menu' = menu \ {a}
      /\ Post(late) /\ UNCHANGED <<phase, installing>>
  BY DEF Remove
<1>3. /\ phase = "window" /\ installing = Idle /\ menu = Listed(records)
      /\ records[a] \in Record /\ Sound(a, records[a], tokens) /\ tokens \in Nat
      /\ effect = (records[Radio].kind = "builtIn" /\ records[Radio].loaded)
  BY <1>2, UserFacts
<1>a. late \in SUBSET QueuedTask
      /\ \A q \in late : q.born \in 1..tokens /\ q.addon = a /\ Fits(q, Unloaded(records[a]))
  BY UnloadPosts
<1> HIDE DEF late
<1>b. \A q \in tasks \cup late : q.born \in 1..tokens
  BY <1>a, TaskFacts
<1>4. PICK s \in Record :
        /\ records' = [records EXCEPT ![a] = s]
        /\ saved' \in [Addons -> {"unset", "on", "off"}]
        /\ tokens' \in {tokens, tokens + 1} /\ Sound(a, s, tokens') /\ s.hooks = {}
        /\ \A q \in tasks \cup late : q.addon = a => Fits(q, s)
        /\ effect' = IF a = Radio THEN s.kind = "builtIn" /\ s.loaded ELSE effect
  <2>0. saved \in [Addons -> {"unset", "on", "off"}] /\ effect \in BOOLEAN
    BY DEF IInv, TypeOK
  <2>1. CASE rest # Nothing
    <3> DEFINE s == Unloaded(records[a])
    <3>1. /\ s \in Record /\ s.kind = "package" /\ s.born = records[a].born
          /\ ~ s.loaded /\ s.hooks = {}
      BY <1>2, <1>3, UnloadedFacts
    <3>2. ASSUME NEW q \in tasks \cup late, q.addon = a PROVE Fits(q, s)
      BY <1>3, <1>a, <3>2, TaskFacts, FitsUnloaded
    <3>3. records' = [records EXCEPT ![a] = s] /\ UNCHANGED <<saved, effect, tokens>>
      BY <1>1, <2>1
    <3> HIDE DEF s
    <3>4. Sound(a, s, tokens')
      BY <1>2, <1>3, <3>1, <3>3 DEF Sound
    <3>5. effect' = IF a = Radio THEN s.kind = "builtIn" /\ s.loaded ELSE effect
      BY <2>0, <1>2, <1>3, <3>1, <3>3
    <3> QED BY <2>0, <3>1, <3>2, <3>3, <3>4, <3>5
  <2>2. CASE rest = Nothing /\ a # Radio
    <3>1. records' = [records EXCEPT ![a] = NoRecord] /\ saved' = [saved EXCEPT ![a] = "off"]
          /\ UNCHANGED <<effect, tokens>>
      BY <1>1, <2>2
    <3>2. ASSUME NEW q \in tasks \cup late PROVE Fits(q, NoRecord)
      BY <1>b, FitsNew DEF NoRecord
    <3>3. Sound(a, NoRecord, tokens') /\ NoRecord.hooks = {}
      BY <1>3, <3>1 DEF Sound, NoRecord
    <3> QED BY <2>0, <2>2, <3>1, <3>2, <3>3, NoRecordType
  <2>3. CASE rest = Nothing /\ a = Radio
    <3> DEFINE n == NewRecord("builtIn", "dir", records[a].enabled, tokens + 1)
               s == [n EXCEPT !.loaded = records[a].enabled]
    <3>1. /\ records' = [records EXCEPT ![a] = s]
          /\ saved' = [saved EXCEPT ![a] = IF records[a].enabled THEN "on" ELSE "off"]
          /\ effect' = records[a].enabled /\ tokens' = tokens + 1
      BY <1>1, <2>3
    <3>2. /\ s \in Record /\ s.kind = "builtIn" /\ s.loaded = records[a].enabled
          /\ s.enabled = records[a].enabled /\ s.hooks = {} /\ s.born = tokens + 1
      <4>1. records[a].enabled \in BOOLEAN /\ tokens + 1 \in Nat
        BY <1>3 DEF Record
      <4> QED BY <4>1 DEF NewRecord, Record
    <3> HIDE DEF s
    <3>3. ASSUME NEW q \in tasks \cup late PROVE Fits(q, s)
      BY <1>b, <3>2, FitsNew
    <3>4. Sound(a, s, tokens')
      BY <2>3, <1>3, <3>1, <3>2 DEF Sound
    <3>5. saved' \in [Addons -> {"unset", "on", "off"}]
      BY <2>0, <3>1
    <3>6. effect' = IF a = Radio THEN s.kind = "builtIn" /\ s.loaded ELSE effect
      <4>1. s.loaded \in BOOLEAN /\ effect' = s.loaded
        BY <3>1, <3>2 DEF Record
      <4> QED BY <2>3, <3>2, <4>1
    <3>7. s \in Record /\ s.hooks = {} /\ tokens' \in {tokens, tokens + 1}
          /\ records' = [records EXCEPT ![a] = s]
      BY <3>1, <3>2
    <3> QED BY <3>3, <3>4, <3>5, <3>6, <3>7
  <2> QED BY <2>1, <2>2, <2>3
<1>5. menu' = Listed(records')
  BY <1>2, <1>3, <1>4 DEF Listed, IInv, TypeOK
<1>6. /\ records' \in [Addons -> Record] /\ menu' \subseteq Addons /\ effect' \in BOOLEAN
      /\ tokens' \in Nat /\ tasks' \subseteq QueuedTask
      /\ RecordsSound' /\ PhaseOK' /\ TasksFit' /\ NothingOutlivesItsAddon'
  BY <1>2, <1>3, <1>4, <1>5, <1>a, ReplaceInv
<1>7. TypeOK'
  <2>1. dir' \in [Addons -> Content] /\ backup' \in [Addons -> Content]
    <3>1. dir \in [Addons -> Content] /\ backup \in [Addons -> Content]
      BY DEF IInv, TypeOK
    <3>2. rest \in Content
      BY <3>1, RemainsFacts
    <3> QED BY <1>1, <3>1, <3>2
  <2>2. faults' \in 0..MaxFaults
    BY <1>1, FaultType DEF IInv
  <2> QED BY <1>2, <1>4, <1>6, <2>1, <2>2 DEF IInv, TypeOK, QueuedTask
<1>8. InstallOK'
  BY <1>2, <1>3 DEF InstallOK, At, Idle
<1> QED BY <1>6, <1>7, <1>8 DEF IInv

----------------------------------------------------------------------------
(* The installation.                                                       *)

\* A step on the disk touches nothing else.
LEMMA DiskStepInv ==
    ASSUME IInv, installing # Idle,
           dir' \in [Addons -> Content], backup' \in [Addons -> Content], faults' \in 0..MaxFaults,
           NEW step \in {"copy", "copying", "rename", "undo", "restore", "sweep", "scan"},
           installing' \in {Idle, [installing EXCEPT !.at = step]},
           UNCHANGED <<saved, phase, processVars, tasks>>,
           LET a == installing.addon
           IN /\ At("copy")' => dir'[a] = Nothing
              /\ installing'.at \in {"copying", "undo", "restore"} => dir'[a].state # "whole"
              /\ At("sweep")' => dir'[a].state = "whole"
    PROVE  IInv'
<1>1. TypeOK'
  BY IdleType DEF IInv, TypeOK, processVars
<1>2. RecordsSound' /\ TasksFit' /\ NothingOutlivesItsAddon'
  BY DEF IInv, RecordsSound, TasksFit, NothingOutlivesItsAddon, processVars
<1>3. PhaseOK'
  BY DEF IInv, PhaseOK, processVars
<1>4. InstallOK'
  <2>1. records[installing.addon] = NoRecord
    BY DEF IInv, InstallOK
  <2>2. CASE installing' = Idle
    BY <2>2 DEF InstallOK, At, Idle
  <2>3. CASE installing' = [installing EXCEPT !.at = step]
    <3>1. installing'.addon = installing.addon
      BY <2>3 DEF IInv, TypeOK
    <3> QED BY <2>1, <3>1 DEF InstallOK, At, processVars
  <2> QED BY <2>2, <2>3
<1> QED BY <1>1, <1>2, <1>3, <1>4 DEF IInv

\* What holds while a package is installed.
LEMMA InstallFacts ==
    ASSUME IInv, installing.at # "idle"
    PROVE  /\ installing # Idle /\ installing.addon \in Addons
           /\ dir \in [Addons -> Content] /\ backup \in [Addons -> Content]
           /\ faults \in 0..MaxFaults
           /\ \A step : [installing EXCEPT !.at = step].at = step
BY DEF Idle, IInv, TypeOK

LEMMA ClearBackupInv == ASSUME IInv, ClearBackup PROVE IInv'
<1>1. PICK rest \in Remains(backup[installing.addon]) :
        backup' = [backup EXCEPT ![installing.addon] = rest] /\ Fault(rest # Nothing)
  BY DEF ClearBackup
<1>2. At("clear") /\ installing' = [installing EXCEPT !.at = "rename"]
      /\ UNCHANGED <<dir, saved, phase, processVars, tasks>>
  BY DEF ClearBackup, Go
<1>3. /\ installing # Idle /\ installing.addon \in Addons
      /\ dir \in [Addons -> Content] /\ backup \in [Addons -> Content]
      /\ installing'.at = "rename"
  BY <1>2, InstallFacts DEF At
<1>4. rest \in Content /\ faults' \in 0..MaxFaults
  BY <1>1, <1>3, RemainsFacts, FaultType DEF IInv
<1>5. backup' \in [Addons -> Content]
  BY <1>1, <1>3, <1>4
<1> QED BY <1>2, <1>3, <1>4, <1>5, DiskStepInv DEF At

LEMMA RenameOldInv == ASSUME IInv, RenameOld PROVE IInv'
<1> DEFINE a == installing.addon
<1>1. /\ At("rename") /\ UNCHANGED <<saved, phase, processVars, tasks>>
      /\ IF dir[a] = Nothing
            THEN Go("copy") /\ UNCHANGED <<dir, backup, faults>>
            ELSE \/ /\ backup[a] = Nothing
                    /\ backup' = [backup EXCEPT ![a] = dir[a]]
                    /\ dir' = [dir EXCEPT ![a] = Nothing]
                    /\ Go("copy") /\ UNCHANGED faults
                 \/ /\ Fault(backup[a] = Nothing)
                    /\ installing' = Idle /\ UNCHANGED <<dir, backup>>
  BY DEF RenameOld
<1>2. /\ installing # Idle /\ a \in Addons
      /\ dir \in [Addons -> Content] /\ backup \in [Addons -> Content]
      /\ faults \in 0..MaxFaults
      /\ [installing EXCEPT !.at = "copy"].at = "copy"
  BY <1>1, InstallFacts DEF At
<1>3. Nothing \in Content
  BY DEF Nothing, Content
<1>4. CASE dir'[a] = Nothing /\ installing' = [installing EXCEPT !.at = "copy"]
            /\ faults' = faults /\ dir' \in [Addons -> Content] /\ backup' \in [Addons -> Content]
  BY <1>1, <1>2, <1>4, DiskStepInv DEF At
<1>5. CASE Fault(backup[a] = Nothing) /\ installing' = Idle /\ UNCHANGED <<dir, backup>>
  <2>1. faults' \in 0..MaxFaults
    BY <1>5, FaultType DEF IInv
  <2>2. installing'.at = "idle"
    BY <1>5 DEF Idle
  <2>3. "copy" \in {"copy", "copying", "rename", "undo", "restore", "sweep", "scan"}
    OBVIOUS
  <2> QED BY <1>1, <1>2, <1>5, <2>1, <2>2, <2>3, DiskStepInv DEF At
<1> QED BY <1>1, <1>2, <1>3, <1>4, <1>5 DEF Go

LEMMA CopyInv == ASSUME IInv, Copy PROVE IInv'
<1>1. PICK c \in {Torn, Short(installing.version)} : dir' = [dir EXCEPT ![installing.addon] = c]
  BY DEF Copy
<1>2. At("copy") /\ installing' = [installing EXCEPT !.at = "copying"]
      /\ UNCHANGED <<saved, backup, phase, processVars, tasks, faults>>
  BY DEF Copy, Go
<1>3. /\ installing # Idle /\ installing.addon \in Addons
      /\ dir \in [Addons -> Content] /\ backup \in [Addons -> Content]
      /\ faults \in 0..MaxFaults /\ installing'.at = "copying"
  BY <1>2, InstallFacts DEF At
<1>4. c \in Content /\ c.state # "whole"
  BY DEF Torn, Short, Content, IInv, TypeOK
<1>5. dir' \in [Addons -> Content] /\ dir'[installing.addon].state # "whole"
  BY <1>1, <1>3, <1>4
<1> QED BY <1>2, <1>3, <1>5, DiskStepInv DEF At

LEMMA CopiedInv == ASSUME IInv, Copied PROVE IInv'
<1>1. At("copying") /\ installing' = [installing EXCEPT !.at = "sweep"]
      /\ dir' = [dir EXCEPT ![installing.addon] = Whole(installing.version)]
      /\ UNCHANGED <<saved, backup, phase, processVars, tasks, faults>>
  BY DEF Copied, Go
<1>2. /\ installing # Idle /\ installing.addon \in Addons
      /\ dir \in [Addons -> Content] /\ backup \in [Addons -> Content]
      /\ faults \in 0..MaxFaults /\ installing'.at = "sweep"
  BY <1>1, InstallFacts DEF At
<1>3. Whole(installing.version) \in Content /\ Whole(installing.version).state = "whole"
  BY DEF Whole, Content, IInv, TypeOK
<1>4. dir' \in [Addons -> Content] /\ dir'[installing.addon].state = "whole"
  BY <1>1, <1>2, <1>3
<1> QED BY <1>1, <1>2, <1>4, DiskStepInv DEF At

LEMMA CopyFailsInv == ASSUME IInv, CopyFails PROVE IInv'
<1>1. installing.at \in {"copy", "copying"} /\ installing' = [installing EXCEPT !.at = "undo"]
      /\ Fault(TRUE) /\ UNCHANGED <<dir, backup, saved, phase, processVars, tasks>>
  BY DEF CopyFails, Go, diskVars
<1>2. /\ installing # Idle /\ installing.addon \in Addons
      /\ dir \in [Addons -> Content] /\ backup \in [Addons -> Content]
      /\ installing'.at = "undo"
  BY <1>1, InstallFacts
<1>3. faults' \in 0..MaxFaults
  BY <1>1, FaultType DEF IInv
<1>4. dir[installing.addon].state # "whole"
  BY <1>1 DEF IInv, InstallOK, At, Nothing
<1> QED BY <1>1, <1>2, <1>3, <1>4, DiskStepInv DEF At

LEMMA UndoCopyInv == ASSUME IInv, UndoCopy PROVE IInv'
<1>1. PICK rest \in Remains(dir[installing.addon]) :
        dir' = [dir EXCEPT ![installing.addon] = rest] /\ Fault(rest # Nothing)
  BY DEF UndoCopy
<1>2. At("undo") /\ installing' = [installing EXCEPT !.at = "restore"]
      /\ UNCHANGED <<saved, backup, phase, processVars, tasks>>
  BY DEF UndoCopy, Go
<1>3. /\ installing # Idle /\ installing.addon \in Addons
      /\ dir \in [Addons -> Content] /\ backup \in [Addons -> Content]
      /\ installing'.at = "restore"
  BY <1>2, InstallFacts DEF At
<1>4. rest \in Content /\ faults' \in 0..MaxFaults /\ (rest.state = "whole" => rest = dir[installing.addon])
  BY <1>1, <1>3, RemainsFacts, FaultType DEF IInv
<1>5. dir[installing.addon].state # "whole"
  BY <1>2 DEF IInv, InstallOK, At
<1>6. dir' \in [Addons -> Content] /\ dir'[installing.addon].state # "whole"
  BY <1>1, <1>3, <1>4, <1>5
<1> QED BY <1>2, <1>3, <1>4, <1>6, DiskStepInv DEF At

LEMMA RestoreInv == ASSUME IInv, Restore PROVE IInv'
<1> DEFINE a == installing.addon
<1>1. /\ At("restore") /\ installing' = Idle /\ UNCHANGED <<saved, phase, processVars, tasks>>
      /\ \/ /\ backup[a] # Nothing /\ dir[a] = Nothing
            /\ dir' = [dir EXCEPT ![a] = backup[a]]
            /\ backup' = [backup EXCEPT ![a] = Nothing]
            /\ UNCHANGED faults
         \/ /\ Fault(backup[a] # Nothing /\ dir[a] = Nothing)
            /\ UNCHANGED <<dir, backup>>
  BY DEF Restore
<1>2. /\ installing # Idle /\ a \in Addons
      /\ dir \in [Addons -> Content] /\ backup \in [Addons -> Content]
      /\ faults \in 0..MaxFaults
  BY <1>1, InstallFacts DEF At
<1>3. dir' \in [Addons -> Content] /\ backup' \in [Addons -> Content]
  BY <1>1, <1>2 DEF Nothing, Content
<1>4. faults' \in 0..MaxFaults
  <2>1. CASE UNCHANGED faults
    BY <1>2, <2>1
  <2>2. CASE Fault(backup[a] # Nothing /\ dir[a] = Nothing)
    BY <2>2, FaultType DEF IInv
  <2> QED BY <1>1, <2>1, <2>2
<1>5. installing'.at = "idle"
  BY <1>1 DEF Idle
<1>6. "scan" \in {"copy", "copying", "rename", "undo", "restore", "sweep", "scan"}
  OBVIOUS
<1> QED BY <1>1, <1>2, <1>3, <1>4, <1>5, <1>6, DiskStepInv DEF At

LEMMA SweepInv == ASSUME IInv, Sweep PROVE IInv'
<1>1. PICK rest \in Remains(backup[installing.addon]) :
        backup' = [backup EXCEPT ![installing.addon] = rest] /\ Fault(rest # Nothing)
  BY DEF Sweep
<1>2. At("sweep") /\ installing' = [installing EXCEPT !.at = "scan"]
      /\ UNCHANGED <<dir, saved, phase, processVars, tasks>>
  BY DEF Sweep, Go
<1>3. /\ installing # Idle /\ installing.addon \in Addons
      /\ dir \in [Addons -> Content] /\ backup \in [Addons -> Content]
      /\ installing'.at = "scan"
  BY <1>2, InstallFacts DEF At
<1>4. rest \in Content /\ faults' \in 0..MaxFaults
  BY <1>1, <1>3, RemainsFacts, FaultType DEF IInv
<1>5. backup' \in [Addons -> Content]
  BY <1>1, <1>3, <1>4
<1> QED BY <1>2, <1>3, <1>4, <1>5, DiskStepInv DEF At

\* The scan leaves the records there are, but the built-in effect that a
\* package replaces.
LEMMA FinishInv == ASSUME IInv, Finish PROVE IInv'
<1> DEFINE a == installing.addon
           all == Scanned(records, tokens)
           n == Cardinality(Found(records))
<1>1. PICK outcome \in Outcomes, hooks \in SUBSET Hooks :
        /\ records' = [all EXCEPT ![a] = IF @.enabled THEN Loaded(@, outcome, hooks) ELSE @]
        /\ Post(LateTasks(a, all[a], records'[a]))
  BY DEF Finish
<1>2. /\ At("scan") /\ effect' = (effect /\ Radio \notin Found(records)) /\ tokens' = tokens + n
      /\ menu' = Listed(records') /\ installing' = Idle
      /\ UNCHANGED <<dir, backup, saved, phase, faults>>
  BY DEF Finish, diskVars
<1>3. installing # Idle /\ a \in Addons /\ records[a] = NoRecord
  BY <1>2, InstallFacts DEF At, IInv, InstallOK
<1>4. records \in [Addons -> Record] /\ tokens \in Nat /\ n \in Nat
  BY <1>3, FoundFinite DEF IInv, TypeOK
<1>5. /\ all \in [Addons -> Record]
      /\ \A b \in Addons \ Found(records) : all[b] = records[b]
      /\ \A b \in Found(records) :
            /\ all[b].kind = "package" /\ ~ all[b].loaded /\ all[b].hooks = {}
            /\ all[b].born \in tokens + 1 .. tokens + n
  <2>1. TypeOK
    BY DEF IInv
  <2> QED BY <1>4, <2>1, ScannedFacts
<1> HIDE DEF all, n
<1>6. ASSUME NEW b \in Addons
      PROVE  /\ records'[b] \in Record
             /\ b \notin Found(records) => records'[b] = records[b]
             /\ b \in Found(records) =>
                   /\ records'[b].kind = "package" /\ records'[b].born \in tokens + 1 .. tokens + n
                   /\ records'[b].hooks # {} => records'[b].loaded
                   /\ records'[b].loaded => records'[b].enabled
  <2>1. CASE b # a \/ ~ all[b].enabled
    <3>1. records'[b] = all[b]
      BY <1>1, <1>5, <2>1
    <3> QED BY <1>5, <3>1
  <2>2. CASE b = a /\ all[b].enabled
    <3> DEFINE s == Loaded(all[a], outcome, hooks)
    <3>1. records'[b] = s
      BY <1>1, <1>3, <1>5, <2>2
    <3>2. b \in Found(records)
      BY <1>3, <1>5, <2>2 DEF NoRecord
    <3>3. all[a] \in Record /\ all[a].kind = "package" /\ all[a].hooks = {} /\ all[a].enabled
          /\ all[a].born \in tokens + 1 .. tokens + n
      BY <1>3, <1>5, <2>2, <3>2
    <3>4. Kept(all[a], s)
      BY <1>4, <3>3, LoadedFacts
    <3> HIDE DEF s
    <3> QED BY <3>1, <3>2, <3>3, <3>4 DEF Kept
  <2> QED BY <2>1, <2>2 DEF Record
<1>7. records' \in [Addons -> Record]
  <2>1. records' = [b \in Addons |-> records'[b]]
    BY <1>1, <1>5
  <2> QED BY <1>6, <2>1
<1>8. ASSUME NEW b \in Addons PROVE Sound(b, records'[b], tokens')
  <2>1. CASE b \in Found(records)
    <3>1. records'[b].born <= tokens' /\ records'[b].born > 0
      BY <1>2, <1>4, <1>6, <2>1
    <3> QED BY <1>6, <2>1, <3>1 DEF Sound
  <2>2. CASE b \notin Found(records)
    <3>1. Sound(b, records[b], tokens) /\ records[b].born \in Nat
      BY <1>4 DEF IInv, RecordsSound, Record
    <3>2. tokens' \in Nat /\ tokens <= tokens'
      BY <1>2, <1>4
    <3>3. records'[b] = records[b]
      BY <1>6, <2>2
    <3> QED BY <1>4, <3>1, <3>2, <3>3 DEF Sound
  <2> QED BY <2>1, <2>2
<1>9. TasksFit' /\ tasks' \subseteq QueuedTask
  <2>0. ASSUME NEW q \in tasks' \ tasks
        PROVE  q \in QueuedTask /\ q.born \in 1..tokens' /\ Fits(q, records'[q.addon])
    <3>1. q \in LateTasks(a, all[a], records'[a])
      BY <1>1 DEF Post
    <3>2. records'[a].kind = all[a].kind
      BY <1>3, <1>5, <1>6
    <3>3. /\ q \in QueuedTask /\ q.addon = a /\ q.born = records'[a].born
          /\ records'[a].kind = "package" /\ Fits(q, records'[a])
      BY <1>3, <1>5, <1>6, <3>1, <3>2, LateFacts
    <3>4. a \in Found(records)
      BY <1>3, <1>6, <3>3 DEF NoRecord
    <3>5. q.born \in 1..tokens'
      BY <1>2, <1>3, <1>4, <1>6, <3>3, <3>4
    <3> QED BY <3>3, <3>5
  <2>1. ASSUME NEW q \in tasks PROVE q.born \in 1..tokens' /\ Fits(q, records'[q.addon])
    <3>1. q.addon \in Addons /\ q.born \in 1..tokens /\ Fits(q, records[q.addon])
      BY TaskFacts
    <3>2. q.born \in 1..tokens'
      BY <1>2, <1>4, <3>1
    <3>3. CASE q.addon \in Found(records)
      <4>1. records'[q.addon].born # q.born
        BY <1>4, <1>6, <3>1, <3>3
      <4> QED BY <3>2, <4>1 DEF Fits
    <3>4. CASE q.addon \notin Found(records)
      BY <1>6, <3>1, <3>2, <3>4
    <3> QED BY <3>3, <3>4
  <2>2. tasks' \subseteq QueuedTask
    BY <2>0, TaskFacts
  <2> QED BY <2>0, <2>1, <2>2 DEF TasksFit
<1>10. phase = "window"
  BY <1>3 DEF IInv, PhaseOK
<1>11. PhaseOK' /\ InstallOK'
  BY <1>2, <1>10 DEF PhaseOK, InstallOK, At, Idle
<1>12. effect' <=> records'[Radio].kind = "builtIn" /\ records'[Radio].loaded
  <2>1. CASE Radio \in Found(records)
    BY <1>2, <1>6, <2>1, AddonsAssumption
  <2>2. CASE Radio \notin Found(records)
    BY <1>2, <1>6, <2>2, AddonsAssumption DEF IInv, NothingOutlivesItsAddon
  <2> QED BY <2>1, <2>2
<1>13. NothingOutlivesItsAddon'
  BY <1>2, <1>8, <1>10, <1>12 DEF NothingOutlivesItsAddon, Sound
<1>14. TypeOK'
  <2>1. menu' \subseteq Addons /\ tokens' \in Nat /\ effect' \in BOOLEAN
    BY <1>2, <1>4 DEF Listed, IInv, TypeOK
  <2> QED BY <1>2, <1>7, <1>9, <2>1, IdleType DEF IInv, TypeOK, QueuedTask
<1> QED BY <1>8, <1>9, <1>11, <1>13, <1>14 DEF IInv, RecordsSound

----------------------------------------------------------------------------
(* The theorems.                                                           *)

LEMMA NextInv == IInv /\ [Next]_vars => IInv'
<1> SUFFICES ASSUME IInv, [Next]_vars PROVE IInv'
  OBVIOUS
<1>1. CASE UNCHANGED vars
  BY <1>1 DEF vars, diskVars, processVars, IInv, TypeOK, RecordsSound, PhaseOK, InstallOK, At,
              TasksFit, NothingOutlivesItsAddon
<1>2. CASE Boot \/ ShowWindow \/ Stop
  BY <1>2, BootInv, ShowWindowInv, StopInv
<1>3. ASSUME NEW a \in Addons,
             ChangeHooks(a) \/ PostTask(a) \/ Enable(a) \/ Disable(a) \/ Remove(a)
      PROVE  IInv'
  BY <1>3, ChangeHooksInv, PostTaskInv, EnableInv, DisableInv, RemoveInv
<1>4. ASSUME NEW a \in Addons, NEW v \in Versions, Install(a, v) PROVE IInv'
  BY <1>4, InstallInv
<1>5. ASSUME NEW q \in tasks, TakeTask(q) PROVE IInv'
  BY <1>5, TakeTaskInv
<1>6. CASE Installation
  BY <1>6, ClearBackupInv, RenameOldInv, CopyInv, CopiedInv, CopyFailsInv, UndoCopyInv,
     RestoreInv, SweepInv, FinishInv DEF Installation
<1> QED BY <1>1, <1>2, <1>3, <1>4, <1>5, <1>6 DEF Next

\* The inductive invariant holds in every reachable state.
THEOREM Inductive == Spec => []IInv
BY InitInv, NextInv, PTL DEF Spec

\* Disk, records, tasks and the installation keep their types.
THEOREM TypeCorrect == Spec => []TypeOK
<1>1. IInv => TypeOK
  BY DEF IInv
<1> QED BY <1>1, Inductive, PTL

\* Callbacks, menu entries and the built-in effect go with their library.
THEOREM CallbacksGoWithTheLibrary == Spec => []NothingOutlivesItsAddon
<1>1. IInv => NothingOutlivesItsAddon
  BY DEF IInv
<1> QED BY <1>1, Inductive, PTL

\* A task that runs, and whose record is still the same, runs in the instance
\* that posted it, or, if that was being unloaded when it did, in the next.
THEOREM TasksKnowTheirInstance == Spec => []TaskKnowsItsInstance
<1>1. IInv => TaskKnowsItsInstance
  BY DEF IInv, TasksFit, Fits, Runs, TaskKnowsItsInstance
<1> QED BY <1>1, Inductive, PTL

\* Which steps may take the last complete copy away.
LEMMA CopyLost ==
    ASSUME IInv, [Next]_vars, NEW a \in Addons, HasCopy(a), ~ HasCopy(a)'
    PROVE  \/ Remove(a)
           \/ At("clear") /\ installing.addon = a /\ dir[a].state # "whole"
<1> USE DEF HasCopy
<1>0. dir \in [Addons -> Content] /\ backup \in [Addons -> Content]
  BY DEF IInv, TypeOK
<1>1. CASE UNCHANGED <<dir, backup>>
  BY <1>1
<1>2. CASE Boot \/ ShowWindow \/ Stop \/ CopyFails \/ Finish \/ UNCHANGED vars
  BY <1>1, <1>2 DEF Boot, ShowWindow, Stop, CopyFails, Finish, vars, diskVars
<1>3. ASSUME NEW b \in Addons, ChangeHooks(b) \/ PostTask(b) \/ Enable(b) \/ Disable(b)
      PROVE  FALSE
  BY <1>1, <1>3 DEF ChangeHooks, PostTask, Enable, Disable, diskVars
<1>4. ASSUME NEW b \in Addons, Remove(b), b # a PROVE FALSE
  <2>1. dir'[a] = dir[a] /\ backup'[a] = backup[a]
    BY <1>0, <1>4 DEF Remove
  <2> QED BY <2>1
<1>5. ASSUME NEW b \in Addons, NEW v \in Versions, Install(b, v) PROVE FALSE
  BY <1>1, <1>5 DEF Install, diskVars
<1>6. ASSUME NEW q \in tasks, TakeTask(q) PROVE FALSE
  BY <1>1, <1>6 DEF TakeTask, diskVars
<1>7. CASE ClearBackup
  <2>1. At("clear") /\ dir' = dir
        /\ \E rest : backup' = [backup EXCEPT ![installing.addon] = rest]
    BY <1>7 DEF ClearBackup
  <2>2. installing.addon = a
    BY <1>0, <2>1
  <2> QED BY <2>1, <2>2
<1>8. CASE RenameOld
  <2>1. CASE /\ backup[installing.addon] = Nothing
             /\ backup' = [backup EXCEPT ![installing.addon] = dir[installing.addon]]
             /\ dir' = [dir EXCEPT ![installing.addon] = Nothing]
    <3>1. Nothing.state # "whole"
      BY DEF Nothing
    <3> QED BY <1>0, <2>1, <3>1
  <2> QED BY <1>1, <1>8, <2>1 DEF RenameOld
<1>9. CASE Copy
  <2>1. dir[installing.addon].state # "whole" /\ backup' = backup
    BY <1>9 DEF Copy, IInv, InstallOK, Nothing
  <2>2. \A b \in Addons : b # installing.addon => dir'[b] = dir[b]
    BY <1>0, <1>9 DEF Copy
  <2> QED BY <2>1, <2>2
<1>10. CASE Copied
  <2>1. dir' = [dir EXCEPT ![installing.addon] = Whole(installing.version)] /\ backup' = backup
    BY <1>10 DEF Copied
  <2> QED BY <1>0, <2>1 DEF Whole
<1>11. CASE UndoCopy
  <2>1. dir[installing.addon].state # "whole" /\ backup' = backup
    BY <1>11 DEF UndoCopy, IInv, InstallOK, At
  <2>2. \A b \in Addons : b # installing.addon => dir'[b] = dir[b]
    BY <1>0, <1>11 DEF UndoCopy
  <2> QED BY <2>1, <2>2
<1>12. CASE Restore
  <2>1. CASE /\ dir[installing.addon] = Nothing
             /\ dir' = [dir EXCEPT ![installing.addon] = backup[installing.addon]]
             /\ backup' = [backup EXCEPT ![installing.addon] = Nothing]
    <3>1. Nothing.state # "whole"
      BY DEF Nothing
    <3> QED BY <1>0, <2>1, <3>1
  <2> QED BY <1>1, <1>12, <2>1 DEF Restore
<1>13. CASE Sweep
  <2>1. dir[installing.addon].state = "whole" /\ dir' = dir
    BY <1>13 DEF Sweep, IInv, InstallOK
  <2>2. \A b \in Addons : b # installing.addon => backup'[b] = backup[b]
    BY <1>0, <1>13 DEF Sweep
  <2> QED BY <2>1, <2>2
<1> QED
  BY <1>2, <1>3, <1>4, <1>5, <1>6, <1>7, <1>8, <1>9, <1>10, <1>11, <1>12, <1>13 DEF Next, Installation

\* An installation never destroys the last complete copy of an add-on.
THEOREM InstallationsKeepACopy == Spec => LastCopyIsKept
<1>1. IInv /\ [Next]_vars =>
        [\A a \in Addons : HasCopy(a) /\ ~ HasCopy(a)' =>
            \/ Remove(a)
            \/ At("clear") /\ installing.addon = a /\ dir[a].state # "whole"]_vars
  BY CopyLost
<1>2. QED BY <1>1, Inductive, PTL DEF Spec, LastCopyIsKept

=============================================================================
