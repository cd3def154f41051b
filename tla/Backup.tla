------------------------------- MODULE Backup -------------------------------
(***************************************************************************)
(* Backups of the site, their retention, restoring one and emptying the    *)
(* site (BackupService, BackupJob), with the cached settings.              *)
(*                                                                         *)
(* Dumps and restores take long: a user's request and the nightly run      *)
(* interleave between their steps, the site is edited meanwhile, a restore *)
(* may fail halfway, and the process may die at any point.                 *)
(***************************************************************************)
EXTENDS Naturals, FiniteSets

CONSTANTS
    Content,      \* what the site may hold
    Empty,        \* what it holds after a reset
    Key,          \* the settings that describe the server (isEnvironmentSetting)
    Retention,    \* BACKUP_RETENTION
    Scenes,       \* whether people edit the site or its settings, the backups of
                  \* other servers, and a bound of the backups ever written
    MaxEvents,    \* bounds nightly runs, pins, changes of settings and failures
    None

VARIABLES
    usage,        \* the scene
    site,         \* the database: its content, and its row of each key
    ours,         \* the rows people of this server have set and nothing has failed for
    cached,       \* the keys' values as SettingsService has cached them
    reading,      \* what get has read and is about to cache
    changing,     \* the key whose row is written, its cached value still to be dropped
    missed,       \* keys whose cached value may be of a row that is no more
    files,        \* the backups on disk by name: what their manifests say, and the dump
    second,       \* the clock, as names show it
    written,      \* the clock, as manifests show it: the backups ever written
    named,        \* the names ever given ...
    shared,       \* ... and those given again to another backup
    process,      \* what the user's request and the nightly run are doing
    events        \* how many of the bounded events there have been

settingState == <<ours, cached, reading, changing, missed>>
disk == <<files, second, written, named, shared>>
vars == <<usage, site, settingState, disk, process, events>>

Process == {"user", "night"}

Idle == [step |-> "idle"]

(* No row: the environment or the default decides.                         *)
NoRows == [k \in Key |-> "none"]

(* A new site; some keys have a row.                                       *)
Init ==
    /\ usage \in Scenes
    /\ ours \in [Key -> {"none", "ours"}]
    /\ site = [content |-> Empty, settings |-> ours]
    /\ cached = [k \in Key |-> None] /\ reading = None /\ changing = None /\ missed = {}
    /\ files = <<>>
    /\ second = 0 /\ written = 0 /\ named = {} /\ shared = {}
    /\ process = [p \in Process |-> Idle]
    /\ events = 0

Event == events < MaxEvents /\ events' = events + 1

Go(p, next) == process' = [process EXCEPT ![p] = next]

(* People use the site.                                                    *)
Edit ==
    /\ usage.edited = "content"
    /\ \E c \in Content \ {site.content} : site' = [site EXCEPT !.content = c]
    /\ UNCHANGED <<settingState, disk, process, events>>

(***************************************************************************)
(* Settings                                                                *)
(***************************************************************************)

(* SettingsService.get: what is not cached is read, and then cached.       *)
GetSetting(k) ==
    /\ usage.edited = "settings" /\ cached[k] = None /\ reading = None
    /\ reading' = [key |-> k, value |-> site.settings[k]]
    /\ UNCHANGED <<site, ours, cached, changing, missed, disk, process, events>>

CacheSetting ==
    /\ reading # None
    /\ cached' = [cached EXCEPT ![reading.key] = reading.value] /\ reading' = None
    /\ UNCHANGED <<site, ours, changing, missed, disk, process, events>>

(* Cached values are dropped, but not one that is about to be cached.      *)
Uncache(keys) ==
    /\ cached' = [k \in Key |-> IF k \in keys THEN None ELSE cached[k]]
    /\ missed' = (missed \ keys) \union
          {k \in keys : reading # None /\ reading.key = k /\ reading.value # site.settings[k]}
    /\ UNCHANGED reading

(* A restore that has read this server's rows and not yet put them back    *)
(* undoes what is changed meanwhile.                                       *)
Restoring == process["user"].step \in {"load", "own"}

(* set, or clear, whose failure to delete the row is ignored: the row is   *)
(* written, and then its cached value dropped.                             *)
ChangeSetting(k) ==
    /\ usage.edited = "settings" /\ changing = None /\ Event
    /\ \E v \in {"changed", "none", site.settings[k]} :
          /\ site' = [site EXCEPT !.settings[k] = v]
          /\ ours' = [ours EXCEPT ![k] = IF Restoring \/ v # "changed" THEN "none" ELSE v]
    /\ changing' = k
    /\ UNCHANGED <<cached, reading, missed, disk, process>>

DropSetting ==
    /\ changing # None /\ changing' = None
    /\ Uncache({changing})
    /\ UNCHANGED <<site, ours, disk, process, events>>

(***************************************************************************)
(* Creating                                                                *)
(***************************************************************************)

(* A backup, a safety copy (trigger pre-restore) or another, and what the  *)
(* process does after it.  An alias pins it, and shows in its name.        *)
Create(p, safety, alias, then) ==
    /\ written < usage.backups
    /\ Go(p, [step |-> "dump", safety |-> safety, alias |-> alias, then |-> then])
    /\ UNCHANGED <<site, settingState, disk>>

Manual ==
    /\ process["user"] = Idle
    /\ \/ Create("user", FALSE, "", Idle) /\ UNCHANGED events
       \/ Create("user", FALSE, "alias", Idle) /\ Event

Nightly ==
    /\ process["night"] = Idle
    /\ Event
    /\ Create("night", FALSE, "", Idle)

(* pg_dump ...                                                             *)
Dump(p) ==
    LET me == process[p] IN
    /\ me.step = "dump"
    /\ Go(p, [step |-> "write", safety |-> me.safety, alias |-> me.alias,
              then |-> me.then, dump |-> site])
    /\ UNCHANGED <<site, settingState, disk, events>>

(* A file gets the name of its second and alias, whatever has that name.   *)
Put(name, file) ==
    /\ files' = [x \in DOMAIN files \union {name} |-> IF x = name THEN file ELSE files[x]]
    /\ second' = name.second
    /\ written' = written + 1
    /\ named' = named \union {name}
    /\ shared' = IF name \in named THEN shared \union {name} ELSE shared

(* Names given in this second or the next.                                 *)
Names(alias) == {[second |-> s, alias |-> alias] : s \in {second, second + 1}}

(* The moments of the clock are even.                                      *)
Now == 2 * (written + 1)

(* ... and the file.                                                       *)
Write(p) ==
    LET me == process[p] IN
    /\ me.step = "write"
    /\ written < usage.backups
    /\ \E name \in Names(me.alias) :
          /\ Put(name, [at |-> Now, holds |-> me.dump, safety |-> me.safety,
                        pinned |-> me.alias # ""])
          /\ Go(p, [step |-> "list", then |-> me.then, made |-> me.dump.content,
                    copy |-> [name |-> name, at |-> Now]])
    /\ UNCHANGED <<site, settingState, events>>

Disposable == {x \in DOMAIN files : ~files[x].pinned}

(* Mutant of Enough: one fewer is kept.                                    *)
EnoughShort(kept) == Cardinality(kept) + 1 = Retention \/ kept = Disposable

(* As many as are to be kept, if there are.                                *)
Enough(kept) == Cardinality(kept) = Retention \/ kept = Disposable

(* prune keeps the newest of those that are not pinned ...                 *)
Newest(kept) ==
    /\ Cardinality(kept) <= Retention
    /\ Enough(kept)
    /\ \A x \in kept, y \in Disposable \ kept : files[x].at >= files[y].at

List(p) ==
    LET me == process[p] IN
    /\ me.step = "list"
    /\ \E kept \in SUBSET Disposable :
          /\ Newest(kept)
          /\ Go(p, [step |-> "prune", then |-> me.then, made |-> me.made, copy |-> me.copy,
                    doomed |-> Disposable \ kept])
    /\ UNCHANGED <<site, settingState, disk, events>>

(* ... as it listed them; the request fails if its own file is gone.       *)
Prune(p) ==
    LET me == process[p]
        left == DOMAIN files \ me.doomed IN
    /\ me.step = "prune"
    /\ files' = [x \in left |-> files[x]]
    /\ Go(p, IF me.then = Idle \/ me.copy.name \notin left THEN Idle
             ELSE [me.then EXCEPT !.was = me.made, !.copy = me.copy])
    /\ UNCHANGED <<site, settingState, second, written, named, shared, events>>

(***************************************************************************)
(* Files                                                                   *)
(***************************************************************************)

(* importFile: a file of another server, or of this one, is kept as it is; *)
(* its name has the alias of its manifest, or "imported".                  *)
Import ==
    /\ process["user"] = Idle /\ written < usage.backups
    /\ \E file \in usage.foreign \union {files[x] : x \in DOMAIN files}, name \in Names("alias") :
          Put(name, file)
    /\ UNCHANGED <<site, settingState, process, events>>

(* update, remove.                                                         *)
Pin(x) ==
    /\ process["user"] = Idle
    /\ Event
    /\ files' = [files EXCEPT ![x].pinned = ~@]
    /\ UNCHANGED <<site, settingState, second, written, named, shared, process>>

RemoveFile(x) ==
    /\ process["user"] = Idle
    /\ files' = [y \in DOMAIN files \ {x} |-> files[y]]
    /\ UNCHANGED <<site, settingState, second, written, named, shared, process, events>>

(***************************************************************************)
(* Restoring                                                               *)
(***************************************************************************)

(* restore reads the file, and makes a safety copy unless the file is one. *)
Restore(x) ==
    LET load == [step |-> "keep", loads |-> files[x].holds, was |-> None, copy |-> None] IN
    /\ process["user"] = Idle
    /\ IF files[x].safety
          THEN Go("user", load) /\ UNCHANGED <<site, settingState, disk>>
          ELSE Create("user", TRUE, "", load)
    /\ UNCHANGED events

(* environmentSettings: this server's own rows, before they go; none if    *)
(* they cannot be read.                                                    *)
Keep ==
    LET me == process["user"] IN
    /\ me.step = "keep"
    /\ \E rows \in {site.settings, NoRows} :
          /\ Go("user", [step |-> "load", loads |-> me.loads, was |-> me.was,
                         copy |-> me.copy, own |-> rows])
          /\ IF rows = site.settings THEN UNCHANGED <<ours, events>> ELSE Event /\ ours' = NoRows
    /\ UNCHANGED <<site, cached, reading, changing, missed, disk>>

(* pg_restore replaces everything ...                                      *)
Load ==
    LET me == process["user"] IN
    /\ me.step = "load"
    /\ site' = me.loads
    /\ Go("user", [step |-> "own", own |-> me.own, was |-> me.was, copy |-> me.copy])
    /\ UNCHANGED <<settingState, disk, events>>

(* What is left of a restore that stops, and of the rows people have set.  *)
Interrupted ==
    /\ IF process["user"].step = "load"
          THEN LET loads == process["user"].loads IN
               site' \in [content : {site.content, Empty, loads.content},
                          settings : {site.settings, NoRows, loads.settings}]
          ELSE UNCHANGED site
    /\ ours' = [k \in Key |-> IF site'.settings[k] = ours[k] THEN ours[k] ELSE "none"]

(* ... or fails: the request ends there, and the cache stays.              *)
LoadFails ==
    /\ process["user"].step = "load"
    /\ Event
    /\ Interrupted
    /\ missed' = missed \union {k \in Key : site'.settings[k] # site.settings[k]}
    /\ Go("user", Idle)
    /\ UNCHANGED <<cached, reading, changing, disk>>

(* restoreEnvironmentSettings: each row is put back, or fails to be.       *)
OwnSetting(k) ==
    LET me == process["user"] IN
    /\ me.step = "own" /\ me.own[k] # "none"
    /\ Go("user", [me EXCEPT !.own[k] = "none"])
    /\ \/ site' = [site EXCEPT !.settings[k] = me.own[k]] /\ UNCHANGED <<ours, events>>
       \/ Event /\ ours' = [ours EXCEPT ![k] = "none"] /\ UNCHANGED site
    /\ UNCHANGED <<cached, reading, changing, missed, disk>>

(* The site is replaced or emptied, and no row is left to put back.        *)
Replaced ==
    \/ process["user"].step = "clear"
    \/ process["user"].step = "own" /\ process["user"].own = NoRows

(* Mutant of ClearCache: the cache outlives the restore.                   *)
ClearCacheNot ==
    /\ Replaced
    /\ Go("user", Idle)
    /\ UNCHANGED <<site, settingState, disk, events>>

(* clearCache, after all of them.                                          *)
ClearCache ==
    /\ Replaced
    /\ Uncache(Key)
    /\ Go("user", Idle)
    /\ UNCHANGED <<site, ours, changing, disk, events>>

(* resetData: a safety copy, and then one statement empties the tables;    *)
(* the settings stay.                                                      *)
ResetData ==
    /\ process["user"] = Idle
    /\ Create("user", TRUE, "", [step |-> "empty", was |-> None, copy |-> None])
    /\ UNCHANGED events

EmptySite ==
    LET me == process["user"] IN
    /\ me.step = "empty"
    /\ site' = [site EXCEPT !.content = Empty]
    /\ Go("user", [step |-> "clear", was |-> me.was, copy |-> me.copy])
    /\ UNCHANGED <<settingState, disk, events>>

(* The process dies, or is restarted after a restore (scheduleRestart).    *)
Crash ==
    /\ Event
    /\ Interrupted
    /\ process' = [p \in Process |-> Idle]
    /\ cached' = [k \in Key |-> None] /\ reading' = None /\ changing' = None /\ missed' = {}
    /\ UNCHANGED disk

Next ==
    /\ UNCHANGED usage
    /\ \/ Edit \/ CacheSetting \/ DropSetting
       \/ Manual \/ Nightly \/ Import
       \/ \E p \in Process : Dump(p) \/ Write(p) \/ List(p) \/ Prune(p)
       \/ \E x \in DOMAIN files : Pin(x) \/ RemoveFile(x) \/ Restore(x)
       \/ \E k \in Key : GetSetting(k) \/ ChangeSetting(k) \/ OwnSetting(k)
       \/ Keep \/ Load \/ LoadFails \/ ClearCache
       \/ ResetData \/ EmptySite \/ Crash

Spec == Init /\ [][Next]_vars

(***************************************************************************)
(* Properties                                                              *)
(***************************************************************************)

(* Other backups that may have been rolled off before a copy: unpinned and *)
(* dated no earlier.                                                       *)
Ahead(copy) ==
    {x \in DOMAIN files : x # copy.name /\ ~files[x].pinned /\ files[x].at >= copy.at}

(* While a restore or a reset replaces the site, what it held when the     *)
(* request copied it is in a backup ("the single worst outcome here is     *)
(* restoring the wrong file and having nothing to go back to", restore),   *)
(* whatever nightly runs write and roll off at any moment: unless another  *)
(* backup was given the copy's name, in the same second, or as many others *)
(* as are kept are dated no earlier than the copy.                         *)
WayBack ==
    LET me == process["user"] IN
    me.step \in {"keep", "load", "own", "empty", "clear"} /\ me.was # None =>
        \/ \E x \in DOMAIN files : files[x].holds.content = me.was
        \/ me.copy.name \in shared
        \/ Cardinality(Ahead(me.copy)) >= Retention

(* What that comment says without the exceptions; a nightly run in the     *)
(* copy's second, or one after an import dated ahead, breaks it.           *)
AlwaysAWayBack ==
    LET me == process["user"] IN
    me.step \in {"keep", "load", "own", "empty", "clear"} /\ me.was # None =>
        \E x \in DOMAIN files : files[x].holds.content = me.was

(* When no restore is going on, the rows people of this server have set    *)
(* are as they set them, however restores, reads, changes, failures and    *)
(* deaths of the process interleaved ("Mail, Google and backup             *)
(* configuration belong to whichever machine is running", restore), unless *)
(* they could not be read or put back, or were changed while a restore was *)
(* putting them back; and what is cached is what is in the database,       *)
(* unless it is about to be dropped, was about to be cached when it was    *)
(* dropped, or the restore failed before clearCache.                       *)
ServerKeepsItsSettings ==
    process["user"] = Idle =>
        /\ \A k \in Key : ours[k] # "none" => site.settings[k] = ours[k]
        /\ \A k \in Key \ (missed \union {changing}) : cached[k] \in {None, site.settings[k]}

(* What the comment says of all of them; a key without a row of this       *)
(* server's keeps the snapshot's.                                          *)
NothingForeignSurvives ==
    process["user"] = Idle /\ events = 0 => \A k \in Key : site.settings[k] # "theirs"

=============================================================================
