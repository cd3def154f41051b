------------------------------- MODULE Content -------------------------------
(***************************************************************************)
(* What a player uploads and others judge: the build of an entrant for a   *)
(* tournament (BuildService) or the gallery image of a profile for a game  *)
(* (GalleryService), with its reports, removal, restoration and purge      *)
(* (ModerationService).                                                    *)
(*                                                                         *)
(* A behaviour follows one slot: one entrant's build, or one game of one   *)
(* profile.  Rows and image files are kept apart, as the database and the  *)
(* disk are.  A request reads, writes a row and deletes a file in separate *)
(* steps, between which others run.                                        *)
(***************************************************************************)
EXTENDS FiniteSets, FiniteSetsExt, Naturals

CONSTANTS
    Scenes,       \* what is explored: a kind of slot, a set of requests, and
                  \* whether people judge it and organizers run the event
    MaxItem,      \* bounds the rows the slot has at a time, removed ones too
    MaxFile       \* bounds the files on the disk, orphans too

VARIABLES
    scene,        \* one of Scenes
    event,        \* the tournament: status, buildsRequired, buildsLockAtStart
    items,        \* the rows of the slot
    disk,         \* the image files that exist
    request

vars == <<scene, event, items, disk, request>>

File == 1 .. MaxFile + 4

(* The row the unique index of the slot allows: it covers live rows only.  *)
Live == {i \in items : i.removed = "no"}

(* A request remembers the rows it found, the files it will delete and the *)
(* file it stored (0: none).                                               *)
Memory(step, ids, old, new) ==
    [step |-> step, ids |-> ids, old |-> old, new |-> new]

Idle == Memory("idle", {}, {}, 0)

(* Names nobody remembers, which stand for new ones.                       *)
FreeFile == File \ (disk \union {i.file : i \in items} \union {i.judged : i \in items} \union
                    UNION {request[r].old \union {request[r].new} : r \in scene.crowd})

FreshFile == CHOOSE f \in FreeFile : TRUE

FreeId == 1 .. 2 * MaxItem + 2 \
          ({i.id : i \in items} \union UNION {request[r].ids : r \in scene.crowd})

FreshId == CHOOSE id \in FreeId : TRUE

Init ==
    /\ scene \in Scenes
    /\ event = [status |-> "OPEN", required |-> FALSE, lock |-> FALSE]
    /\ items = {}
    /\ disk = {}
    /\ request = [r \in scene.crowd |-> Idle]

(* isLocked.                                                               *)
Locked ==
    \/ event.status = "COMPLETED"
    \/ event.lock /\ event.status = "ONGOING"

(* A build is changed while it is not locked.  The gallery asks for a      *)
(* tournament finished, which is taken to have happened.                   *)
MayChange == scene.kind = "BUILD" => ~Locked

(* visibleToPublic, for a tournament with public builds.                   *)
Visible(i) == i.removed = "no" /\ (event.required => i.status = "APPROVED")

Begins(r, memory) ==
    /\ request[r] = Idle
    /\ request' = [request EXCEPT ![r] = memory]
    /\ UNCHANGED <<scene, event, items>>

(* The step of r is taken; what r remembers after it.                      *)
Goes(r, step, memory) ==
    /\ request[r].step = step
    /\ request' = [request EXCEPT ![r] = memory]
    /\ UNCHANGED <<scene, event>>

Found(r) == {i \in items : i.id \in request[r].ids}

(* BuildService.submit, and GalleryService.upsert with a file: the slot's  *)
(* row is looked up and the image stored under a new name.                 *)
Submit(r) ==
    /\ MayChange
    /\ Cardinality(disk) < MaxFile
    /\ Cardinality(items) < MaxItem
    /\ FreeFile # {}
    /\ disk' = disk \union {FreshFile}
    /\ Begins(r, Memory("save", {i.id : i \in Live}, {i.file : i \in Live}, FreshFile))

(* Mutant of Changed: the verdict stays.                                   *)
ChangedQuietly(i, f) == [i EXCEPT !.file = f]

(* Any change goes back to the queue.                                      *)
Changed(i, f) == [i EXCEPT !.file = f, !.status = "PENDING", !.judged = 0]

(* The row found is written, or a new one, which the unique index refuses  *)
(* when the slot has been taken since; a row that has gone is an error.    *)
Save(r) ==
    LET now == request[r] IN
    /\ now.ids = {} => FreeId # {}
    /\ Goes(r, "save", IF now.ids = {} \/ Found(r) = {}
                          THEN Idle ELSE Memory("unlink", {}, now.old, 0))
    /\ items' = IF now.ids # {}
                   THEN (items \ Found(r)) \union {Changed(i, now.new) : i \in Found(r)}
                   ELSE items \union
                        {i \in {[id |-> FreshId, file |-> now.new,
                                 status |-> "PENDING", removed |-> "no",
                                 report |-> "NONE", judged |-> 0]} : Live = {}}
    /\ UNCHANGED disk

(* The files of what was replaced, withdrawn or purged are deleted.        *)
Unlink(r) ==
    /\ Goes(r, "unlink", Idle)
    /\ disk' = disk \ request[r].old
    /\ UNCHANGED items

(* BuildService.withdraw, GalleryService.remove.                           *)
Withdraw(r) ==
    /\ MayChange
    /\ Live # {}
    /\ Begins(r, Memory("delete", {i.id : i \in Live}, {i.file : i \in Live}, 0))
    /\ UNCHANGED disk

(* Mutant of DeleteRows: the files go first.                               *)
DeleteRowsLast(r) ==
    /\ Goes(r, "delete", Memory("unlink", {}, request[r].old, 0))
    /\ disk' = disk \ request[r].old
    /\ UNCHANGED items

(* The rows are deleted by id, whatever has become of them.                *)
DeleteRows(r) ==
    /\ Goes(r, "delete", Memory("unlink", {}, request[r].old, 0))
    /\ items' = items \ Found(r)
    /\ UNCHANGED disk

(* GalleryService.upsert without a file writes back the image it found.    *)
Caption(r) ==
    /\ scene.kind = "GALLERY"
    /\ Live # {}
    /\ Begins(r, Memory("save", {i.id : i \in Live}, {}, Max({i.file : i \in Live})))
    /\ UNCHANGED disk

(* A reviewer looks at a live build and then decides.                      *)
Look(r) ==
    /\ scene.kind = "BUILD" /\ scene.judged
    /\ Live # {}
    /\ Begins(r, Memory("verdict", {i.id : i \in Live}, {}, Max({i.file : i \in Live})))
    /\ UNCHANGED disk

(* review: the live row by id, with whatever is in it now.  judged keeps   *)
(* what the reviewer saw.                                                  *)
Review(r, decision) ==
    /\ Goes(r, "verdict", Idle)
    /\ items' = {IF i \in Found(r) \intersect Live
                    THEN [i EXCEPT !.status = decision, !.judged = request[r].new]
                    ELSE i : i \in items}
    /\ UNCHANGED disk

(* report: once per reporter and item, on what the reporter can see.       *)
Report(r) ==
    /\ scene.judged
    /\ \E i \in Live :
          /\ scene.kind = "BUILD" => Visible(i)
          /\ i.report = "NONE"
          /\ Begins(r, Memory("report", {i.id}, {}, 0))
    /\ UNCHANGED disk

AddReport(r) ==
    /\ Goes(r, "report", Idle)
    /\ items' = {IF i \in Found(r) THEN [i EXCEPT !.report = "OPEN"] ELSE i : i \in items}
    /\ UNCHANGED disk

(* dismiss, one update.                                                    *)
Dismiss ==
    /\ \E i \in items :
          /\ i.report = "OPEN"
          /\ items' = (items \ {i}) \union {[i EXCEPT !.report = "DISMISSED"]}
    /\ UNCHANGED <<scene, event, disk, request>>

(* remove: a live item, by an admin.                                       *)
Remove(r) ==
    /\ \E i \in Live : Begins(r, Memory("remove", {i.id}, {}, 0))
    /\ UNCHANGED disk

(* The item is hidden and its open reports resolved, in one transaction.   *)
Hide(r) ==
    /\ Goes(r, "remove", Idle)
    /\ items' = {IF i \in Found(r)
                    THEN [i EXCEPT !.removed = "held",
                                   !.report = IF @ = "OPEN" THEN "RESOLVED" ELSE @]
                    ELSE i : i \in items}
    /\ UNCHANGED disk

(* restore: a removed item, overdue or not.                                *)
Restore(r) ==
    /\ \E i \in items \ Live : Begins(r, Memory("restore", {i.id}, {}, 0))
    /\ UNCHANGED disk

(* The unique index refuses it when the slot has another item.             *)
Unhide(r) ==
    /\ Goes(r, "restore", Idle)
    /\ items' = IF Live \subseteq Found(r)
                   THEN {IF i \in Found(r) THEN [i EXCEPT !.removed = "no"]
                         ELSE i : i \in items}
                   ELSE items
    /\ UNCHANGED disk

(* The hold of 30 days of a removed item passes.                           *)
Expire ==
    /\ \E i \in items :
          /\ i.removed = "held"
          /\ items' = (items \ {i}) \union {[i EXCEPT !.removed = "overdue"]}
    /\ UNCHANGED <<scene, event, disk, request>>

(* purgeExpired lists the overdue items, deletes them by id and then their *)
(* files.                                                                  *)
Purge(r) ==
    LET overdue == {i \in items : i.removed = "overdue"} IN
    /\ overdue # {}
    /\ Begins(r, Memory("delete", {i.id : i \in overdue}, {i.file : i \in overdue}, 0))
    /\ UNCHANGED disk

(* assertBuildsReady, for this entrant.                                    *)
Ready == event.required => \E i \in Live : i.status = "APPROVED"

(* startTournament, and the end of the tournament.                         *)
Start ==
    /\ event.status = "OPEN" /\ Ready
    /\ event' = [event EXCEPT !.status = "ONGOING"]
    /\ UNCHANGED <<scene, items, disk, request>>

Finish ==
    /\ event.status = "ONGOING"
    /\ event' = [event EXCEPT !.status = "COMPLETED"]
    /\ UNCHANGED <<scene, items, disk, request>>

(* updateSettings: what a tournament demands changes only before it starts.*)
UpdateSettings(required, lock) ==
    /\ scene.kind = "BUILD" /\ scene.organized
    /\ event.status = "OPEN"
    /\ event' = [event EXCEPT !.required = required, !.lock = lock]
    /\ UNCHANGED <<scene, items, disk, request>>

Next ==
    \/ Dismiss \/ Expire
    \/ scene.kind = "BUILD" /\ scene.organized /\ (Start \/ Finish)
    \/ \E required, lock \in BOOLEAN : UpdateSettings(required, lock)
    \/ \E r \in scene.crowd :
          \/ Submit(r) \/ Save(r) \/ Unlink(r) \/ Withdraw(r) \/ DeleteRows(r)
          \/ Caption(r) \/ Look(r)
          \/ \E decision \in {"APPROVED", "REJECTED"} : Review(r, decision)
          \/ Report(r) \/ AddReport(r) \/ Remove(r) \/ Hide(r)
          \/ Restore(r) \/ Unhide(r) \/ Purge(r)

Spec == Init /\ [][Next]_vars

(***************************************************************************)
(* Properties                                                              *)
(***************************************************************************)

(* However submissions, withdrawals, removals, restorations and purges     *)
(* overlap, the image a build's row names is on the disk: a file goes only *)
(* after the row has let go of it (submit, withdraw, purgeExpired).        *)
BuildImagesExist ==
    scene.kind = "BUILD" => \A i \in items : i.file \in disk

(* One request at a time, an approved build is the one that was reviewed   *)
(* ("an approval covers what was reviewed, not whatever the player swaps   *)
(* in afterwards", submit), through removal and restoration too.           *)
ApprovalCoversWhatWasReviewed ==
    Cardinality(scene.crowd) = 1 =>
        \A i \in items : i.status = "APPROVED" => i.file = i.judged
=============================================================================
