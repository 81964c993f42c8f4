-------------------------------- MODULE Addons --------------------------------
(***************************************************************************)
(* Add-ons of the client (plugins/PluginManager.cpp): their directories on *)
(* the disk, their records, libraries, callbacks and tasks in the process, *)
(* and the menu of the main window that lists their actions.  A package is *)
(* installed over an older version in several file operations, of which    *)
(* any may fail and between which the process may end.  One add-on, the    *)
(* radio effect, is built in and may be replaced by a package.             *)
(*                                                                         *)
(* Bounds: MaxToken on tokens, MaxTasks on queued tasks, MaxFaults on      *)
(* failed file operations and ends of the process during an installation.  *)
(***************************************************************************)
EXTENDS FiniteSets, Naturals

CONSTANTS Addons,     \* identifiers in the order of their names
          Radio,      \* official.radio-voice
          Versions,
          DefaultOn,  \* versions whose manifest says defaultEnabled
          MaxToken, MaxTasks, MaxFaults

ASSUME AddonsAssumption ==
    /\ Addons \subseteq Nat /\ IsFiniteSet(Addons)
    /\ Radio \in Addons
    /\ Versions \subseteq Nat /\ DefaultOn \subseteq Versions
    /\ MaxToken \in Nat /\ MaxTasks \in Nat /\ MaxFaults \in Nat

VARIABLES
    dir,        \* the directory of each add-on
    backup,     \* its ".backup", which a scan reads like any directory
    saved,      \* the setting addons/<id>/enabled
    phase,      \* "off", "booted", then "window" when the main window is there
    records,    \* m_records
    effect,     \* m_radioVoice exists
    menu,       \* add-ons with an action in the window's menu
    tokens,     \* nextInstanceToken: the last one given
    tasks,      \* post_to_ui: tasks in the queue of the GUI thread
    installing, \* where installPackage is
    faults

diskVars    == <<dir, backup, saved>>
processVars == <<records, effect, menu, tokens>>
vars == <<diskVars, phase, processVars, tasks, installing, faults>>

----------------------------------------------------------------------------
(* Directories.  A torn one has no readable manifest or no library, a      *)
(* short one has both but lacks other files.                               *)

Content == [state : {"none", "torn", "short", "whole"}, version : Versions \cup {0}]
Nothing == [state |-> "none", version |-> 0]
Torn == [state |-> "torn", version |-> 0]
Short(v) == [state |-> "short", version |-> v]
Whole(v) == [state |-> "whole", version |-> v]
Readable(c) == c.state \in {"short", "whole"}

\* What removeRecursively leaves: nothing, or after a failure any part.
Remains(c) ==
    IF c.state = "none" THEN {Nothing}
    ELSE {Nothing, Torn, c} \cup (IF Readable(c) THEN {Short(c.version)} ELSE {})

\* A file operation that failed counts as a fault.
Fault(failed) ==
    /\ failed => faults < MaxFaults
    /\ faults' = IF failed THEN faults + 1 ELSE faults

----------------------------------------------------------------------------
(* Records.                                                                *)

Hooks == {"callback", "action"}  \* audio processor or data handler; menu actions

NoRecord == [kind |-> "none", from |-> "dir", enabled |-> FALSE, loaded |-> FALSE,
             hooks |-> {}, token |-> 0, born |-> 0, life |-> 0]

\* A record's first token tells it from all other records of the process; its
\* life counts how often its library was initialised (both history).
NewRecord(kind, from, enabled, token) ==
    [kind |-> kind, from |-> from, enabled |-> enabled, loaded |-> FALSE,
     hooks |-> {}, token |-> token, born |-> token, life |-> 0]

\* Mutant of Unloaded: queued tasks keep a token that counts.
UnloadedSameToken(r) == [r EXCEPT !.loaded = FALSE, !.hooks = {}]

\* unload: what is registered goes with the library, and queued tasks are
\* outdated by a new token.
Unloaded(r) ==
    IF r.kind = "package" THEN [r EXCEPT !.loaded = FALSE, !.hooks = {}, !.token = @ + 1]
                          ELSE [r EXCEPT !.loaded = FALSE]

\* Mutant of Refused: nothing was loaded, so nothing is unloaded.
RefusedLightly(r) == r

\* An add-on that refuses may have registered callbacks before.
Refused(r) == Unloaded(r)

\* load: the library registers what it likes while it is initialised; or it
\* does not load; or it has no entry, a wrong ABI, or refuses.
Loaded(r, outcome, hooks) ==
    IF r.loaded THEN r
    ELSE IF r.kind = "builtIn" THEN [r EXCEPT !.loaded = TRUE]
    ELSE CASE outcome = "ok"      -> [r EXCEPT !.loaded = TRUE, !.hooks = hooks, !.life = @ + 1]
           [] outcome = "missing" -> r
           [] outcome = "refused" -> Refused([r EXCEPT !.hooks = hooks, !.life = @ + 1])

Outcomes == {"ok", "missing", "refused"}

Task(a, r, late) ==
    [addon |-> a, token |-> r.token, born |-> r.born, life |-> r.life, late |-> late]

\* While record r is unloaded, and thereby becomes u, the add-on's threads and
\* its shutdown() may still post tasks, which get the token that unload has
\* raised already; so may one whose initialisation was refused.
LateTasks(a, r, u) ==
    IF r.kind = "package" /\ (r.loaded \/ u.life > r.life) /\ ~ u.loaded
      THEN {Task(a, u, TRUE)} ELSE {}

\* Some of them are posted; no task gets its turn before the unload ends.
Post(late) ==
    \E posted \in SUBSET late :
        /\ posted = {} \/ Cardinality(tasks \cup posted) <= MaxTasks
        /\ tasks' = tasks \cup posted

Flag(a, default) == saved[a] = "on" \/ (saved[a] = "unset" /\ default)

\* scanInstalled, in the order of the names: "<id>" before "<id>.backup".
Source(a) == IF Readable(dir[a]) THEN "dir"
             ELSE IF Readable(backup[a]) THEN "backup" ELSE "nowhere"
Found(recs) == {a \in Addons : Source(a) # "nowhere" /\ recs[a].kind # "package"}
Scanned(recs, next) ==
    [a \in Addons |->
        IF a \notin Found(recs) THEN recs[a]
        ELSE LET c == IF Source(a) = "dir" THEN dir[a] ELSE backup[a]
             IN NewRecord("package", Source(a), Flag(a, c.version \in DefaultOn),
                          next + Cardinality({b \in Found(recs) : b <= a}))]

Listed(recs) == {a \in Addons : "action" \in recs[a].hooks}

Idle == [at |-> "idle", addon |-> Radio, version |-> 0]

----------------------------------------------------------------------------
Init ==
    /\ dir = [a \in Addons |-> Nothing]
    /\ backup = [a \in Addons |-> Nothing]
    /\ saved = [a \in Addons |-> "unset"]
    /\ phase = "off"
    /\ records = [a \in Addons |-> NoRecord]
    /\ effect = FALSE /\ menu = {} /\ tokens = 0
    /\ tasks = {} /\ installing = Idle /\ faults = 0

\* initialize: the overlay's record takes the first token, the radio's the
\* second; what is installed replaces the radio; what is enabled is loaded.
Boot ==
    /\ phase = "off"
    /\ phase' = "booted"
    /\ LET first == [a \in Addons |->
                IF a = Radio THEN NewRecord("builtIn", "dir", Flag(Radio, FALSE), 2) ELSE NoRecord]
           all == Scanned(first, 2)
       IN \E outcome \in [Addons -> Outcomes], hooks \in [Addons -> SUBSET Hooks] :
            /\ records' = [a \in Addons |->
                   IF all[a].enabled THEN Loaded(all[a], outcome[a], hooks[a]) ELSE all[a]]
            /\ tokens' = 2 + Cardinality(Found(first))
            /\ Post(UNION {LateTasks(a, all[a], records'[a]) : a \in Addons})
    /\ effect' = (records'[Radio].kind = "builtIn" /\ records'[Radio].loaded)
    /\ UNCHANGED <<diskVars, menu, installing, faults>>

\* The main window: announceUiActions repeats what was registered before it.
ShowWindow ==
    /\ phase = "booted"
    /\ phase' = "window"
    /\ menu' = {a \in Listed(records) : records[a].loaded /\ records[a].enabled}
    /\ UNCHANGED <<diskVars, records, effect, tokens, tasks, installing, faults>>

\* The process ends, in order or not, at any moment.
Stop ==
    /\ phase # "off"
    /\ Fault(installing.at # "idle")
    /\ phase' = "off"
    /\ records' = [a \in Addons |-> NoRecord]
    /\ effect' = FALSE /\ menu' = {} /\ tokens' = 0
    /\ tasks' = {} /\ installing' = Idle
    /\ UNCHANGED diskVars

----------------------------------------------------------------------------
(* The add-on's code.                                                      *)

\* It registers and removes callbacks; a processor that throws is removed.
ChangeHooks(a) ==
    /\ phase = "window"
    /\ installing = Idle
    /\ records[a].kind = "package" /\ records[a].loaded
    /\ \E hooks \in SUBSET Hooks :
         /\ records' = [records EXCEPT ![a].hooks = hooks]
         /\ menu' = IF "action" \in hooks THEN menu \cup {a} ELSE menu \ {a}
    /\ UNCHANGED <<diskVars, phase, effect, tokens, tasks, installing, faults>>

\* A thread of its own posts a task, with the token of the moment.
PostTask(a) ==
    /\ records[a].kind = "package" /\ records[a].loaded
    /\ Cardinality(tasks) < MaxTasks
    /\ tasks' = tasks \cup {Task(a, records[a], FALSE)}
    /\ UNCHANGED <<diskVars, phase, processVars, installing, faults>>

\* The check of the task's turn.
Runs(q) ==
    LET r == records[q.addon] IN r.token = q.token /\ r.loaded /\ r.enabled

\* A task's turn: it runs, if Runs, or is dropped.
TakeTask(q) ==
    /\ phase = "window"
    /\ installing = Idle
    /\ tasks' = tasks \ {q}
    /\ UNCHANGED <<diskVars, phase, processVars, installing, faults>>

----------------------------------------------------------------------------
(* The user: what follows ends before the next click.                      *)

UserActs(a) ==
    /\ phase = "window"
    /\ installing = Idle
    /\ tokens + Cardinality(Addons) <= MaxToken /\ records[a].token < MaxToken

\* setEnabled(true): an add-on that does not load is disabled again.
Enable(a) ==
    /\ UserActs(a)
    /\ records[a].kind # "none"
    /\ \E outcome \in Outcomes, hooks \in SUBSET Hooks :
         LET r == Loaded(records[a], outcome, hooks)
         IN /\ records' = [records EXCEPT ![a] = [r EXCEPT !.enabled = r.loaded]]
            /\ saved' = [saved EXCEPT ![a] = IF r.loaded THEN "on" ELSE "off"]
            /\ Post(LateTasks(a, records[a], r))
    /\ effect' = (effect \/ records[a].kind = "builtIn")
    /\ menu' = Listed(records')
    /\ UNCHANGED <<dir, backup, phase, tokens, installing, faults>>

\* setEnabled(false).
Disable(a) ==
    /\ UserActs(a)
    /\ records[a].kind # "none"
    /\ records' = [records EXCEPT ![a] = [Unloaded(records[a]) EXCEPT !.enabled = FALSE]]
    /\ effect' = (effect /\ records[a].kind # "builtIn")
    /\ menu' = menu \ {a}
    /\ saved' = [saved EXCEPT ![a] = "off"]
    /\ Post(LateTasks(a, records[a], Unloaded(records[a])))
    /\ UNCHANGED <<dir, backup, phase, tokens, installing, faults>>

\* removeAddon: if the files cannot be removed, the record stays, unloaded.
\* The radio's package gives its place back to the built-in effect.
Remove(a) ==
    /\ UserActs(a)
    /\ records[a].kind = "package"
    /\ \E rest \in Remains(IF records[a].from = "dir" THEN dir[a] ELSE backup[a]) :
         /\ IF records[a].from = "dir"
              THEN dir' = [dir EXCEPT ![a] = rest] /\ UNCHANGED backup
              ELSE backup' = [backup EXCEPT ![a] = rest] /\ UNCHANGED dir
         /\ Fault(rest # Nothing)
         /\ IF rest # Nothing
              THEN /\ records' = [records EXCEPT ![a] = Unloaded(@)]
                   /\ UNCHANGED <<saved, effect, tokens>>
            ELSE IF a # Radio
              THEN /\ records' = [records EXCEPT ![a] = NoRecord]
                   /\ saved' = [saved EXCEPT ![a] = "off"]
                   /\ UNCHANGED <<effect, tokens>>
              ELSE /\ records' = [records EXCEPT ![a] =
                          [NewRecord("builtIn", "dir", records[a].enabled, tokens + 1)
                              EXCEPT !.loaded = records[a].enabled]]
                   /\ saved' = [saved EXCEPT ![a] = IF records[a].enabled THEN "on" ELSE "off"]
                   /\ effect' = records[a].enabled
                   /\ tokens' = tokens + 1
    /\ menu' = menu \ {a}
    /\ Post(LateTasks(a, records[a], Unloaded(records[a])))
    /\ UNCHANGED <<phase, installing>>

----------------------------------------------------------------------------
(* installPackage, from the user's last yes on.  Everything before only    *)
(* reads.                                                                  *)

At(step) == installing.at = step
Go(step) == installing' = [installing EXCEPT !.at = step]

\* The record of the older version, or of the built-in effect, goes first.
Install(a, v) ==
    /\ UserActs(a)
    /\ installing' = [at |-> "clear", addon |-> a, version |-> v]
    /\ records' = [records EXCEPT ![a] = NoRecord]
    /\ effect' = (effect /\ records[a].kind # "builtIn")
    /\ menu' = menu \ {a}
    /\ Post(LateTasks(a, records[a], Unloaded(records[a])))
    /\ UNCHANGED <<diskVars, phase, tokens, faults>>

\* The result of the removal is not looked at.
ClearBackup ==
    /\ At("clear")
    /\ \E rest \in Remains(backup[installing.addon]) :
         /\ backup' = [backup EXCEPT ![installing.addon] = rest]
         /\ Fault(rest # Nothing)
    /\ Go("rename")
    /\ UNCHANGED <<dir, saved, phase, processVars, tasks>>

\* Mutant of RenameOld: the older version is not kept.
RenameOldAway ==
    /\ At("rename")
    /\ dir' = [dir EXCEPT ![installing.addon] = Nothing]
    /\ Go("copy")
    /\ UNCHANGED <<saved, backup, phase, processVars, tasks, faults>>

\* The older version becomes the backup, or the installation ends here.
RenameOld ==
    /\ At("rename")
    /\ LET a == installing.addon
       IN IF dir[a] = Nothing
            THEN Go("copy") /\ UNCHANGED <<dir, backup, faults>>
            ELSE \/ /\ backup[a] = Nothing
                    /\ backup' = [backup EXCEPT ![a] = dir[a]]
                    /\ dir' = [dir EXCEPT ![a] = Nothing]
                    /\ Go("copy") /\ UNCHANGED faults
                 \/ /\ Fault(backup[a] = Nothing)
                    /\ installing' = Idle /\ UNCHANGED <<dir, backup>>
    /\ UNCHANGED <<saved, phase, processVars, tasks>>

\* copyTree, in the order in which the directory is read.
Copy ==
    /\ At("copy")
    /\ \E c \in {Torn, Short(installing.version)} : dir' = [dir EXCEPT ![installing.addon] = c]
    /\ Go("copying")
    /\ UNCHANGED <<saved, backup, phase, processVars, tasks, faults>>

Copied ==
    /\ At("copying")
    /\ dir' = [dir EXCEPT ![installing.addon] = Whole(installing.version)]
    /\ Go("sweep")
    /\ UNCHANGED <<saved, backup, phase, processVars, tasks, faults>>

CopyFails ==
    /\ installing.at \in {"copy", "copying"}
    /\ Fault(TRUE)
    /\ Go("undo")
    /\ UNCHANGED <<diskVars, phase, processVars, tasks>>

UndoCopy ==
    /\ At("undo")
    /\ \E rest \in Remains(dir[installing.addon]) :
         /\ dir' = [dir EXCEPT ![installing.addon] = rest]
         /\ Fault(rest # Nothing)
    /\ Go("restore")
    /\ UNCHANGED <<saved, backup, phase, processVars, tasks>>

\* The older version comes back, if the place is free; its record does not.
Restore ==
    /\ At("restore")
    /\ LET a == installing.addon
       IN \/ /\ backup[a] # Nothing /\ dir[a] = Nothing
             /\ dir' = [dir EXCEPT ![a] = backup[a]]
             /\ backup' = [backup EXCEPT ![a] = Nothing]
             /\ UNCHANGED faults
          \/ /\ Fault(backup[a] # Nothing /\ dir[a] = Nothing)
             /\ UNCHANGED <<dir, backup>>
    /\ installing' = Idle
    /\ UNCHANGED <<saved, phase, processVars, tasks>>

Sweep ==
    /\ At("sweep")
    /\ \E rest \in Remains(backup[installing.addon]) :
         /\ backup' = [backup EXCEPT ![installing.addon] = rest]
         /\ Fault(rest # Nothing)
    /\ Go("scan")
    /\ UNCHANGED <<dir, saved, phase, processVars, tasks>>

\* Everything is scanned again; only the add-on that was installed is loaded.
Finish ==
    /\ At("scan")
    /\ LET a == installing.addon
           all == Scanned(records, tokens)
       IN \E outcome \in Outcomes, hooks \in SUBSET Hooks :
            /\ records' = [all EXCEPT ![a] =
                   IF @.enabled THEN Loaded(@, outcome, hooks) ELSE @]
            /\ Post(LateTasks(a, all[a], records'[a]))
    /\ effect' = (effect /\ Radio \notin Found(records))
    /\ tokens' = tokens + Cardinality(Found(records))
    /\ menu' = Listed(records')
    /\ installing' = Idle
    /\ UNCHANGED <<diskVars, phase, faults>>

Installation ==
    ClearBackup \/ RenameOld \/ Copy \/ Copied \/ CopyFails \/ UndoCopy \/ Restore \/ Sweep \/ Finish

----------------------------------------------------------------------------
Next ==
    \/ Boot \/ ShowWindow \/ Stop
    \/ \E a \in Addons : \/ ChangeHooks(a) \/ PostTask(a)
                         \/ Enable(a) \/ Disable(a) \/ Remove(a)
                         \/ \E v \in Versions : Install(a, v)
    \/ \E q \in tasks : TakeTask(q)
    \/ Installation

Spec == Init /\ [][Next]_vars

----------------------------------------------------------------------------
Record ==
    [kind : {"none", "builtIn", "package"}, from : {"dir", "backup"}, enabled : BOOLEAN,
     loaded : BOOLEAN, hooks : SUBSET Hooks, token : Nat, born : Nat, life : Nat]

TypeOK ==
    /\ dir \in [Addons -> Content] /\ backup \in [Addons -> Content]
    /\ saved \in [Addons -> {"unset", "on", "off"}]
    /\ phase \in {"off", "booted", "window"}
    /\ records \in [Addons -> Record]
    /\ effect \in BOOLEAN /\ menu \subseteq Addons
    /\ tokens \in Nat
    /\ tasks \subseteq [addon : Addons, token : Nat, born : Nat, life : Nat, late : BOOLEAN]
    /\ installing \in [at : {"idle", "clear", "rename", "copy", "copying", "undo", "restore",
                             "sweep", "scan"}, addon : Addons, version : Versions \cup {0}]
    /\ faults \in 0..MaxFaults

HasCopy(a) == "whole" \in {dir[a].state, backup[a].state}

\* An installation, a failure of any of its file operations and the end of
\* the process in the middle of it never destroy the last complete copy of an
\* add-on.  Only the user's removal does, and the next installation over a
\* directory that is not complete, which begins by deleting the backup.
LastCopyIsKept ==
    [][\A a \in Addons : HasCopy(a) /\ ~ HasCopy(a)' =>
          \/ Remove(a)
          \/ At("clear") /\ installing.addon = a /\ dir[a].state # "whole"]_vars

\* What an add-on registers lives no longer than its library, and what runs
\* is enabled, through updates, removals, replacements and failed loads; the
\* built-in radio effect exists exactly while its own record is loaded, so
\* never beside the package; the menu shows the actions there are.
NothingOutlivesItsAddon ==
    /\ \A a \in Addons : /\ records[a].hooks # {} => records[a].loaded
                         /\ records[a].loaded => records[a].enabled
    /\ effect <=> records[Radio].kind = "builtIn" /\ records[Radio].loaded
    /\ menu = IF phase = "window" THEN Listed(records) ELSE {}

\* A task of a record runs in the instance of the library that posted it,
\* however often the add-on was disabled, enabled and refused meanwhile.  What
\* an instance posted while it was being unloaded is the exception: it may run
\* in the next one, and in no later one.  Nothing is said of a record that was
\* made anew, whose token may come to the task's.
TaskKnowsItsInstance ==
    \A q \in tasks :
        LET r == records[q.addon]
        IN  Runs(q) /\ r.born = q.born =>
               r.life = q.life \/ (q.late /\ r.life = q.life + 1)

===============================================================================
