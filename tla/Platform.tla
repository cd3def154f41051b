------------------------------ MODULE Platform ------------------------------
(***************************************************************************)
(* The drawing loops and the platform's services, Roster (the one that is  *)
(* extended) among them.  Each has variables of its own and they share no  *)
(* state: a behaviour moves one of them, the others stay as they began.    *)
(***************************************************************************)
EXTENDS Roster, Integers

CONSTANTS
    None,             \* no value
    MaxField,         \* the largest field drawn
    Uploads, MaxRow, MaxImage,                       \* of Content
    Visits, Tournament, Identity, MaxPaid,           \* of Guests
    Doors, Address, Void, SignInLife, VerifyLife, Throttle, Tries,
    PasswordTries, PasswordWindow, MaxMinute, MaxRight,                 \* of SignIn
    Match, Flipper, Timing, Jobs, Durations, MaxTick, MaxStarts,        \* of MatchTimer
    Medal, Plaque, MaxPins, MaxGrant, MaxPicture, Juries,               \* of Awards
    Contents, Empty, Key, Retention, Usages, MaxEvents                  \* of Backup

VARIABLES
    focus,        \* the part this behaviour is about
    n, power, order, current, rounds, pc,
    slot, event, items, disk, editing,
    visit, phase, late, entry, won, user, holder, excluded, lifetime, leftOut, visiting,
    door, minute, account, code, held, trusted, misses, guesses, rights, proved,
    tick, woke, row, timing, pass, starts, announced,
    jury, catalog, pictures, grants, wish, awarding,
    usage, site, ours, cached, reading, changing, missed, files, second, written, named, shared,
    process, events

Draw == INSTANCE BracketDraw

Slot == INSTANCE Content WITH
    Scenes <- Uploads, MaxItem <- MaxRow, MaxFile <- MaxImage, scene <- slot, request <- editing

Visitors == INSTANCE Guests WITH
    Scenes <- Visits, NoOne <- None, scene <- visit, status <- phase, request <- visiting

Door == INSTANCE SignIn WITH
    Scenes <- Doors, MaxTime <- MaxMinute, scene <- door, now <- minute

(* What a pass of the job does may take any time.                          *)
Clock == INSTANCE MatchTimer WITH
    Player <- Flipper, Request <- Timing, Pass <- Jobs, MaxTime <- MaxTick, QuickFlags <- FALSE,
    now <- tick, request <- timing

Prizes == INSTANCE Awards WITH
    MaxFile <- MaxPicture, Crowds <- Juries,
    crowd <- jury, files <- pictures, request <- awarding

Vault == INSTANCE Backup WITH Content <- Contents, Scenes <- Usages

Parts == {"draw", "entries", "slot", "visitors", "door", "clock", "prizes", "vault"}

PlatformInit ==
    /\ focus \in Parts
    /\ Draw!Init /\ Init /\ Slot!Init /\ Visitors!Init
    /\ Door!Init /\ Clock!Init /\ Prizes!Init /\ Vault!Init

DrawState == <<n, power, order, current, rounds, pc>>
EntryState == <<crowd, status, rows, invite, matches, request>>
SlotState == <<slot, event, items, disk, editing>>
VisitorState == <<visit, phase, late, entry, won, user, holder, excluded,
    lifetime, leftOut, visiting>>
DoorState == <<door, minute, account, code, held, trusted, misses, guesses,
    rights, proved>>
ClockState == <<tick, woke, row, timing, pass, starts, announced>>
PrizeState == <<jury, catalog, pictures, grants, wish, awarding>>
VaultState == <<usage, site, ours, cached, reading, changing, missed, files, second,
    written, named, shared, process, events>>

DrawMoves ==
    /\ focus = "draw" /\ Draw!Next
    /\ UNCHANGED <<focus, EntryState, SlotState, VisitorState, DoorState,
                   ClockState, PrizeState, VaultState>>

EntryMoves ==
    /\ focus = "entries" /\ Next
    /\ UNCHANGED <<focus, DrawState, SlotState, VisitorState, DoorState,
                   ClockState, PrizeState, VaultState>>

SlotMoves ==
    /\ focus = "slot" /\ Slot!Next
    /\ UNCHANGED <<focus, DrawState, EntryState, VisitorState, DoorState,
                   ClockState, PrizeState, VaultState>>

VisitorMoves ==
    /\ focus = "visitors" /\ Visitors!Next
    /\ UNCHANGED <<focus, DrawState, EntryState, SlotState, DoorState,
                   ClockState, PrizeState, VaultState>>

DoorMoves ==
    /\ focus = "door" /\ Door!Next
    /\ UNCHANGED <<focus, DrawState, EntryState, SlotState, VisitorState,
                   ClockState, PrizeState, VaultState>>

ClockMoves ==
    /\ focus = "clock" /\ Clock!Next
    /\ UNCHANGED <<focus, DrawState, EntryState, SlotState, VisitorState,
                   DoorState, PrizeState, VaultState>>

PrizeMoves ==
    /\ focus = "prizes" /\ Prizes!Next
    /\ UNCHANGED <<focus, DrawState, EntryState, SlotState, VisitorState,
                   DoorState, ClockState, VaultState>>

VaultMoves ==
    /\ focus = "vault" /\ Vault!Next
    /\ UNCHANGED <<focus, DrawState, EntryState, SlotState, VisitorState,
                   DoorState, ClockState, PrizeState>>

PlatformNext ==
    \/ DrawMoves \/ EntryMoves \/ SlotMoves \/ VisitorMoves
    \/ DoorMoves \/ ClockMoves \/ PrizeMoves \/ VaultMoves

AllState == <<focus, DrawState, EntryState, SlotState, VisitorState,
    DoorState, ClockState, PrizeState, VaultState>>

PlatformSpec == PlatformInit /\ [][PlatformNext]_AllState

(***************************************************************************)
(* The properties of the parts                                             *)
(***************************************************************************)

(* The draw seats everybody once and gives the byes to the best seeds.     *)
FirstRoundSeatsTheField == Draw!FirstRoundSeatsTheField

(* The best seeds are drawn apart, for every size of field.                *)
SeedsStayApart == Draw!SeedsStayApart

(* The drawing loops build the shape the bracket models are wired by.      *)
DrawMatchesShape == Draw!DrawMatchesShape

(* The image a build's row names is on the disk.                           *)
BuildImagesExist == Slot!BuildImagesExist

(* An approved build is the one that was reviewed.                         *)
ApprovalCoversWhatWasReviewed == Slot!ApprovalCoversWhatWasReviewed

(* Unfinished events never lose entrants to a purge or a reassigned name.  *)
UnfinishedEventsKeepEntrants == Visitors!UnfinishedEventsKeepEntrants

(* A guest's result counts once in the lifetime of whoever earned it.      *)
ResultsCountOnce == Visitors!ResultsCountOnce

(* Failing codes on purpose buys no more than the throttle allows.         *)
GuessingIsSlow == Door!GuessingIsSlow

(* A verified address is one a code was entered for.                       *)
VerifiedAddressIsProved == Door!VerifiedAddressIsProved

(* While passes of the job do not overlap, a countdown is announced once.  *)
CountdownAnnouncedOnce == Clock!CountdownAnnouncedOnce

(* Awards are shown where their holder put them.                           *)
ShowcaseAsPut == Prizes!ShowcaseAsPut

(* What a restore replaces is in a backup while it does, unless its copy   *)
(* shares a name or other backups are dated ahead of it.                   *)
WayBack == Vault!WayBack

(* A restore leaves the server the settings it has set, also as cached.    *)
ServerKeepsItsSettings == Vault!ServerKeepsItsSettings
=============================================================================
