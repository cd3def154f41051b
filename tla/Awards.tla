------------------------------- MODULE Awards -------------------------------
(***************************************************************************)
(* Medals and plaques: the catalog, what one person was given, and how     *)
(* they show it (AwardService).                                            *)
(*                                                                         *)
(* A request reads, checks, and writes later; a transaction, and what the  *)
(* database refuses with it (foreign keys, one grant to a slot, one plaque *)
(* shown), is one step.                                                    *)
(***************************************************************************)
EXTENDS FiniteSets, FiniteSetsExt, Naturals

CONSTANTS
    Medal, Plaque,    \* the awards there may be, by AwardKind
    MaxPins,          \* MAX_PINS
    MaxGrant,         \* bounds the grants there are at a time
    MaxFile,          \* bounds the files of artwork
    Crowds,           \* the sets of requests explored: how many run at once
    None

VARIABLES
    crowd,
    catalog,          \* Award rows: archived or not, and their picture; None without
    files,            \* the pictures on disk
    grants,           \* UserAward rows of one person
    wish,             \* the place they put each award in
    request

vars == <<crowd, catalog, files, grants, wish, request>>

Award == Medal \union Plaque

Idle == [step |-> "idle"]

(* A place in the showcase: none, a slot for a pin, or under the name.     *)
Nowhere == 0
UnderName == MaxPins + 1

Place(g) == IF g.slot # 0 THEN g.slot ELSE IF g.shown THEN UnderName ELSE Nowhere

Init ==
    /\ crowd \in Crowds
    /\ catalog = [a \in Award |-> None]
    /\ files = {}
    /\ grants = {}
    /\ wish = [a \in Award |-> Nowhere]
    /\ request = [r \in crowd |-> Idle]

Begin(r, next) ==
    /\ request[r] = Idle
    /\ request' = [request EXCEPT ![r] = next]
    /\ UNCHANGED <<crowd, catalog, files, grants, wish>>

Go(r, next) ==
    /\ request' = [request EXCEPT ![r] = next]
    /\ UNCHANGED <<crowd, wish>>

Done(r) == Go(r, Idle)

(***************************************************************************)
(* Catalog                                                                 *)
(***************************************************************************)

(* Pictures have names of their own.                                       *)
NewFile ==
    LET named == files \union {request[r].file : r \in {q \in crowd : request[q].step
                                                          \in {"make", "hang", "drop", "remove"}}}
        free == (1 .. MaxFile) \ (named \union {catalog[a].file : a \in
                                       {b \in Award : catalog[b] # None}}) IN
    IF free = {} THEN 0 ELSE CHOOSE f \in free : TRUE

(* create: the picture is saved, then the row.                             *)
Create(r, a) ==
    /\ request[r] = Idle
    /\ catalog[a] = None
    /\ NewFile # 0
    /\ files' = files \union {NewFile}
    /\ Go(r, [step |-> "make", award |-> a, file |-> NewFile])
    /\ UNCHANGED <<catalog, grants>>

Make(r) ==
    /\ request[r].step = "make"
    /\ catalog' = IF catalog[request[r].award] # None THEN catalog
                  ELSE [catalog EXCEPT ![request[r].award] =
                           [archived |-> FALSE, file |-> request[r].file]]
    /\ Done(r) /\ UNCHANGED <<files, grants>>

(* update, as far as anything but wording goes.                            *)
Archive(a) ==
    /\ catalog[a] # None
    /\ catalog' = [catalog EXCEPT ![a].archived = ~@]
    /\ UNCHANGED <<crowd, files, grants, wish, request>>

(* replaceImage: save, point the row at it, delete the one read before.    *)
ReplaceImage(r, a) ==
    /\ request[r] = Idle
    /\ catalog[a] # None
    /\ NewFile # 0
    /\ files' = files \union {NewFile}
    /\ Go(r, [step |-> "hang", award |-> a, file |-> NewFile, old |-> catalog[a].file])
    /\ UNCHANGED <<catalog, grants>>

Hang(r) ==
    LET me == request[r] IN
    /\ me.step = "hang"
    /\ IF catalog[me.award] = None
          THEN UNCHANGED catalog /\ Done(r)
          ELSE /\ catalog' = [catalog EXCEPT ![me.award].file = me.file]
               /\ Go(r, [step |-> "drop", file |-> me.old])
    /\ UNCHANGED <<files, grants>>

Drop(r) ==
    /\ request[r].step = "drop"
    /\ files' = files \ {request[r].file}
    /\ Done(r) /\ UNCHANGED <<catalog, grants>>

Held(a) == {g \in grants : g.award = a}

(* remove: refused while somebody holds it; the foreign key refuses a      *)
(* grant that came after the count.                                        *)
Remove(r, a) ==
    /\ catalog[a] # None
    /\ Held(a) = {}
    /\ Begin(r, [step |-> "remove", award |-> a, file |-> catalog[a].file])

Removed(r) ==
    LET me == request[r] IN
    /\ me.step = "remove"
    /\ IF catalog[me.award] = None \/ Held(me.award) # {}
          THEN UNCHANGED catalog /\ Done(r)
          ELSE catalog' = [catalog EXCEPT ![me.award] = None]
               /\ Go(r, [step |-> "drop", file |-> me.file])
    /\ UNCHANGED <<files, grants>>

(***************************************************************************)
(* Grants                                                                  *)
(***************************************************************************)

(* An id no request remembers.                                             *)
Remembered ==
    {g.id : g \in grants} \union
    UNION {request[r].ids : r \in {q \in crowd : request[q].step \in {"revoke", "show"}}}

Free == (1 .. MaxGrant + 4) \ Remembered

Grant(r, a) ==
    /\ catalog[a] # None /\ ~catalog[a].archived
    /\ Begin(r, [step |-> "grant", award |-> a])

Granted(r) ==
    LET a == request[r].award IN
    /\ request[r].step = "grant"
    /\ IF catalog[a] = None THEN UNCHANGED grants
       ELSE /\ Cardinality(grants) < MaxGrant
            /\ grants' = grants \union
                  {[id |-> CHOOSE i \in Free : TRUE, award |-> a,
                    slot |-> 0, shown |-> FALSE]}
    /\ Done(r) /\ UNCHANGED <<catalog, files>>

(* Mutant of Passes: only a pin is passed on.                              *)
PassesPins(g) == g.slot # 0

(* What is shown by a grant is passed on to another of the same award, the *)
(* one given last: here any.                                               *)
Passes(g) == Place(g) # Nowhere

Heirs(g) == IF Passes(g) THEN Held(g.award) \ {g} ELSE {}

Revoke(r, g) ==
    \E heir \in IF Heirs(g) = {} THEN {None} ELSE {h.id : h \in Heirs(g)} :
        Begin(r, [step |-> "revoke", grant |-> g, heir |-> heir,
                  ids |-> {g.id} \union ({heir} \ {None})])

Row(id) == CHOOSE g \in grants : g.id = id

(* The index on slots, the one on plaques shown.                           *)
Indexed(rows) ==
    \A g, h \in rows : g # h => /\ g.slot = 0 \/ g.slot # h.slot
                                /\ ~(g.shown /\ h.shown)

(* Delete, then move: the transaction fails as a whole.                    *)
Revoked(r) ==
    LET me == request[r]
        rest == {g \in grants : g.id # me.grant.id}
        moved == IF me.heir = None THEN rest
                 ELSE {IF g.id = me.heir
                          THEN [g EXCEPT !.slot = me.grant.slot, !.shown = me.grant.shown]
                          ELSE g : g \in rest}
        works == /\ rest # grants
                 /\ me.heir # None => \E g \in rest : g.id = me.heir
                 /\ Indexed(moved) IN
    /\ me.step = "revoke"
    /\ request' = [request EXCEPT ![r] = Idle]
    /\ grants' = IF works THEN moved ELSE grants
    /\ wish' = [a \in Award |-> IF \E g \in grants' : g.award = a THEN wish[a] ELSE Nowhere]
    /\ UNCHANGED <<crowd, catalog, files>>

(***************************************************************************)
(* Showcase                                                                *)
(***************************************************************************)

(* setShowcase: which grants to pin, in which slots, and which plaque.     *)
(* They are this person's own, of the right kind, and no medal twice.      *)
SetShowcase(r, pins, plaque) ==
    LET pinned == {g \in grants : pins[g.id] # 0} IN
    /\ \A g \in pinned : g.award \in Medal
    /\ \A g, h \in pinned : g # h => g.award # h.award /\ pins[g.id] # pins[h.id]
    /\ {pins[g.id] : g \in pinned} = 1 .. Cardinality(pinned)
    /\ plaque # None => Row(plaque).award \in Plaque
    /\ Begin(r, [step |-> "show", pins |-> pins, plaque |-> plaque,
                 ids |-> {g.id : g \in pinned} \union ({plaque} \ {None})])

(* Clear, then set; a grant revoked since makes the transaction fail.      *)
Shown(r) ==
    LET me == request[r]
        slot(g) == IF g.id \in DOMAIN me.pins THEN me.pins[g.id] ELSE 0
        works == me.ids \subseteq {g.id : g \in grants} IN
    /\ me.step = "show"
    /\ request' = [request EXCEPT ![r] = Idle]
    /\ IF ~works THEN UNCHANGED <<grants, wish>>
       ELSE /\ grants' = {[g EXCEPT !.slot = slot(g), !.shown = g.id = me.plaque] : g \in grants}
            /\ wish' = [a \in Award |->
                  IF \E g \in grants' : g.award = a /\ Place(g) # Nowhere
                  THEN Place(CHOOSE g \in grants' : g.award = a /\ Place(g) # Nowhere)
                  ELSE Nowhere]
    /\ UNCHANGED <<crowd, catalog, files>>

Next ==
    \E r \in crowd :
        \/ \E a \in Award :
              \/ Create(r, a) \/ ReplaceImage(r, a) \/ Remove(r, a) \/ Grant(r, a)
              \/ Archive(a)
        \/ Make(r) \/ Hang(r) \/ Drop(r) \/ Removed(r) \/ Granted(r)
        \/ \E g \in grants : Revoke(r, g)
        \/ Revoked(r)
        \/ \E pins \in [{g.id : g \in grants} -> 0 .. MaxPins],
              plaque \in {g.id : g \in grants} \union {None} : SetShowcase(r, pins, plaque)
        \/ Shown(r)

Spec == Init /\ [][Next]_vars

(***************************************************************************)
(* Properties                                                              *)
(***************************************************************************)

(* One request at a time, each award still held is shown where its holder  *)
(* put it, by one of its grants, whichever grants were revoked since ("the *)
(* medal must stay where they put it", revoke).                            *)
ShowcaseAsPut ==
    Cardinality(crowd) = 1 =>
        \A a \in Award :
            LET carriers == {g \in Held(a) : Place(g) # Nowhere} IN
            IF wish[a] = Nowhere THEN carriers = {}
            ELSE Cardinality(carriers) = 1 /\ \A g \in carriers : Place(g) = wish[a]

=============================================================================
