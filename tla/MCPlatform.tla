----------------------------- MODULE MCPlatform -----------------------------
(* The platform, small enough for TLC.                                     *)
EXTENDS Platform, TLC

CONSTANTS
    r0,           \* the request of a part that is taken one at a time
    r1, r2,       \* requests that overlap
    autumn        \* what the site of another server holds

(* Overlapping requests are interchangeable.                               *)
Alike == Permutations({r1, r2})

(* One request on the roster, or two that overlap; one on the awards.      *)
TheCrowds == {{r0}, {r1, r2}}
TheJuries == {{r0}}

(* Overlapping submissions of a build; a build that is judged and whose    *)
(* tournament changes its rules; a gallery picture.                        *)
BuildScene(together, judged, organized) ==
    [kind |-> "BUILD", crowd |-> together, judged |-> judged, organized |-> organized]
TheUploads ==
    {BuildScene({r1, r2}, FALSE, FALSE), BuildScene({r0}, TRUE, TRUE),
     [kind |-> "GALLERY", crowd |-> {r0}, judged |-> TRUE, organized |-> FALSE]}

VisitScene(together, tournaments, reopens, deletions) ==
    [crowd |-> together, tournaments |-> tournaments, reopens |-> reopens,
     deletions |-> deletions]
TheVisits ==
    {VisitScene({r0}, {"spring", "autumn"}, FALSE, TRUE),
     VisitScene({r0}, {"spring"}, TRUE, TRUE),
     VisitScene({r1, r2}, {"spring"}, TRUE, FALSE)}

(* Sites that ask for a code, or for a proved address; one without mail    *)
(* that knows Google; the admin a new site is born with.                   *)
DoorScene(asks, mail, born, google, admin) ==
    [asks |-> asks, mail |-> mail, born |-> born, google |-> google, admin |-> admin]
TheDoors ==
    {DoorScene("code", TRUE, "signup", FALSE, FALSE),
     DoorScene("none", TRUE, "admin", FALSE, TRUE),
     DoorScene("none", FALSE, "google", TRUE, FALSE),
     DoorScene("none", FALSE, "signup", FALSE, FALSE),
     DoorScene("none", TRUE, "seed", FALSE, FALSE)}

(* A backup of another server: where the site is edited, one dated after   *)
(* everything here, and a copy and a nightly run besides; where its        *)
(* settings are, a safety copy dated before, and one backup besides.       *)
Theirs(at, safety) ==
    [at |-> at, safety |-> safety, pinned |-> FALSE,
     holds |-> [content |-> autumn, settings |-> [k \in Key |-> "theirs"]]]
TheUsages ==
    {[edited |-> "content", foreign |-> {Theirs(7, FALSE)}, backups |-> 3],
     [edited |-> "settings", foreign |-> {Theirs(1, TRUE)}, backups |-> 2]}

(* A part that is not in focus begins in one way only.                     *)
MCInit ==
    /\ PlatformInit
    /\ focus = "draw" \/ n = 2
    /\ focus = "entries" \/ crowd = {r0}
    /\ focus = "slot" \/ slot.kind = "GALLERY"
    /\ focus = "visitors" \/ visit.crowd = {r1, r2}
    /\ focus = "door" \/ door.born = "seed"
    /\ focus = "vault" \/ usage.edited = "content"
    /\ usage.edited = "content" => \A k \in Key : ours[k] = "none"

MCSpec == MCInit /\ [][PlatformNext]_AllState
=============================================================================
