--------------------------- MODULE ServicesProofs ---------------------------
(***************************************************************************)
(* Theorems about what players upload, guests and awards.                  *)
(***************************************************************************)
EXTENDS Platform, FiniteSetTheorems, TLAPS

(***************************************************************************)
(* The images of builds                                                    *)
(***************************************************************************)

Fields == {"id", "file", "status", "removed", "report", "judged"}

SlotTyped ==
    /\ DOMAIN editing = slot.crowd
    /\ \A r \in slot.crowd : DOMAIN editing[r] = {"step", "ids", "old", "new"}
    /\ \A i \in items : DOMAIN i = Fields

(* What r remembers when it has gone on.                                   *)
LEMMA OneEdits ==
    ASSUME SlotTyped, NEW r \in slot.crowd, NEW memory, editing' = [editing EXCEPT ![r] = memory]
    PROVE  /\ DOMAIN editing' = slot.crowd /\ editing'[r] = memory
           /\ \A q \in slot.crowd : q # r => editing'[q] = editing[q]
  BY DEF SlotTyped

(* A step that only marks rows, or none.                                   *)
Marks(i, j) == i.id = j.id /\ i.file = j.file

Marked == DOMAIN editing' = slot.crowd /\ disk' = disk
          /\ \A i \in items' : DOMAIN i = Fields /\ \E j \in items : Marks(i, j)

(* Requests that mark rows remember no image; whoever judges remembers the *)
(* one that was seen.                                                      *)
Marking(m) == m.step \in {"idle", "verdict", "report", "remove", "restore"} /\ m.old = {}

LEMMA MarkSteps ==
    ASSUME SlotTyped, Slot!Dismiss \/ Slot!Expire
    PROVE  /\ UNCHANGED <<slot, event, disk, editing>>
           /\ \A i \in items' : DOMAIN i = Fields /\
                 \E j \in items : /\ Marks(i, j) /\ i.status = j.status /\ i.judged = j.judged
                                  /\ i.removed = "no" => j.removed = "no"
<1>1. UNCHANGED <<slot, event, disk, editing>>
  BY DEF Slot!Dismiss, Slot!Expire
<1>2. ASSUME NEW i \in items, NEW new,
             new = [i EXCEPT !.report = "DISMISSED"]
                \/ (i.removed = "held" /\ new = [i EXCEPT !.removed = "overdue"]),
             items' = (items \ {i}) \union {new}
      PROVE  \A k \in items' : DOMAIN k = Fields /\
                 \E j \in items : /\ Marks(k, j) /\ k.status = j.status /\ k.judged = j.judged
                                  /\ k.removed = "no" => j.removed = "no"
  <2>1. /\ DOMAIN new = Fields /\ Marks(new, i) /\ new.status = i.status /\ new.judged = i.judged
        /\ new.removed = "no" => i.removed = "no"
    BY <1>2 DEF SlotTyped, Fields, Marks
  <2>2. \A k \in items' : k = new \/ k \in items
    BY <1>2
  <2>3. \A k \in items : DOMAIN k = Fields /\ Marks(k, k)
    BY DEF SlotTyped, Marks
  <2> QED
    BY <2>1, <2>2, <2>3
<1> QED
  BY <1>1, <1>2 DEF Slot!Dismiss, Slot!Expire

(* The steps of a request that only mark.                                  *)
MarkStep(r) ==
    \/ Slot!Look(r) \/ Slot!Report(r) \/ Slot!AddReport(r) \/ Slot!Remove(r) \/ Slot!Hide(r)
    \/ Slot!Restore(r) \/ Slot!Unhide(r)
    \/ \E decision \in {"APPROVED", "REJECTED"} : Slot!Review(r, decision)

LEMMA MarkBegins ==
    ASSUME SlotTyped, NEW r \in slot.crowd,
           Slot!Look(r) \/ Slot!Report(r) \/ Slot!Remove(r) \/ Slot!Restore(r)
    PROVE  /\ UNCHANGED <<slot, disk, items>> /\ editing[r] = Slot!Idle
           /\ \E memory : /\ editing' = [editing EXCEPT ![r] = memory] /\ Marking(memory)
                          /\ DOMAIN memory = {"step", "ids", "old", "new"}
                          /\ memory.step = "restore" => \A a, b \in memory.ids : a = b
                          /\ memory.step = "verdict" =>
                                /\ memory.ids = {i.id : i \in Slot!Live} /\ Slot!Live # {}
                                /\ memory.new = Slot!Max({i.file : i \in Slot!Live})
<1> DEFINE Fits(memory) ==
                          /\ editing' = [editing EXCEPT ![r] = memory] /\ Marking(memory)
                          /\ DOMAIN memory = {"step", "ids", "old", "new"}
                          /\ memory.step = "restore" => \A a, b \in memory.ids : a = b
                          /\ memory.step = "verdict" =>
                                /\ memory.ids = {i.id : i \in Slot!Live} /\ Slot!Live # {}
                                /\ memory.new = Slot!Max({i.file : i \in Slot!Live})
<1>1. UNCHANGED <<slot, disk, items>> /\ editing[r] = Slot!Idle
  BY DEF Slot!Look, Slot!Report, Slot!Remove, Slot!Restore, Slot!Begins
<1>2. ASSUME NEW step, NEW ids, NEW new
      PROVE  /\ DOMAIN Slot!Memory(step, ids, {}, new) = {"step", "ids", "old", "new"}
             /\ Slot!Memory(step, ids, {}, new).step = step
             /\ Slot!Memory(step, ids, {}, new).ids = ids
             /\ Slot!Memory(step, ids, {}, new).old = {}
             /\ Slot!Memory(step, ids, {}, new).new = new
  BY DEF Slot!Memory
<1>3. ASSUME Slot!Look(r)
      PROVE  \E memory : Fits(memory)
  <2> DEFINE ids == {i.id : i \in Slot!Live}
             new == Slot!Max({i.file : i \in Slot!Live})
             memory == Slot!Memory("verdict", ids, {}, new)
  <2>1. editing' = [editing EXCEPT ![r] = memory] /\ Slot!Live # {}
    BY <1>3 DEF Slot!Look, Slot!Begins
  <2>2. /\ memory.step = "verdict" /\ memory.old = {} /\ memory.ids = ids /\ memory.new = new
        /\ DOMAIN memory = {"step", "ids", "old", "new"}
    BY <1>2
  <2> HIDE DEF memory
  <2>3. Fits(memory)
    BY <2>1, <2>2 DEF Marking
  <2> QED
    BY <2>3
<1>4. ASSUME Slot!Report(r) \/ Slot!Remove(r) \/ Slot!Restore(r)
      PROVE  \E memory : Fits(memory)
  <2>1. PICK i \in items, step \in {"report", "remove", "restore"} :
           editing' = [editing EXCEPT ![r] = Slot!Memory(step, {i.id}, {}, 0)]
    BY <1>4 DEF Slot!Report, Slot!Remove, Slot!Restore, Slot!Begins, Slot!Live
  <2> DEFINE memory == Slot!Memory(step, {i.id}, {}, 0)
  <2>2. /\ memory.step = step /\ memory.old = {} /\ memory.ids = {i.id}
        /\ DOMAIN memory = {"step", "ids", "old", "new"}
        /\ editing' = [editing EXCEPT ![r] = memory]
    BY <1>2, <2>1
  <2> HIDE DEF memory
  <2>3. Fits(memory)
    BY <2>2 DEF Marking
  <2> QED
    BY <2>3
<1> HIDE DEF Fits
<1>5. \E memory : Fits(memory)
  BY <1>3, <1>4
<1> QED
  BY <1>1, <1>5 DEF Fits

(* What a marked row i was before: a row j that is the same but for what   *)
(* the request decided.                                                    *)
Decided(r, i, j) ==
    LET me == editing[r] IN
    /\ Marks(i, j)
    /\ i.removed = "no" =>
          \/ j.removed = "no"
          \/ me.step = "restore" /\ i.id \in me.ids /\ \A k \in Slot!Live : k.id \in me.ids
    /\ \/ i.status = j.status /\ i.judged = j.judged
       \/ me.step = "verdict" /\ i.id \in me.ids /\ i.judged = me.new

LEMMA MarkWrites ==
    ASSUME SlotTyped, NEW r \in slot.crowd,
           \/ Slot!AddReport(r) \/ Slot!Hide(r) \/ Slot!Unhide(r)
           \/ \E decision \in {"APPROVED", "REJECTED"} : Slot!Review(r, decision)
    PROVE  /\ UNCHANGED <<slot, disk>> /\ editing' = [editing EXCEPT ![r] = Slot!Idle]
           /\ editing[r].step \in {"report", "remove", "restore", "verdict"}
           /\ \A i \in items' : DOMAIN i = Fields /\ \E j \in items : Decided(r, i, j)
<1>1. /\ UNCHANGED <<slot, disk>> /\ editing' = [editing EXCEPT ![r] = Slot!Idle]
      /\ editing[r].step \in {"report", "remove", "restore", "verdict"}
  BY DEF Slot!AddReport, Slot!Hide, Slot!Unhide, Slot!Review, Slot!Goes
<1>2. \A j \in items : DOMAIN j = Fields /\ Decided(r, j, j)
  BY DEF SlotTyped, Decided, Marks
<1>3. ASSUME Slot!AddReport(r), NEW i \in items'
      PROVE  DOMAIN i = Fields /\ \E j \in items : Decided(r, i, j)
  <2>1. PICK j \in items : i = j \/ i = [j EXCEPT !.report = "OPEN"]
    BY <1>3 DEF Slot!AddReport
  <2>2. DOMAIN i = Fields /\ Decided(r, i, j)
    BY <1>2, <2>1 DEF Decided, Marks, Fields
  <2> QED
    BY <2>2
<1>4. ASSUME Slot!Hide(r), NEW i \in items'
      PROVE  DOMAIN i = Fields /\ \E j \in items : Decided(r, i, j)
  <2>1. PICK j \in items :
           i = j \/ \E report : i = [j EXCEPT !.removed = "held", !.report = report]
    BY <1>4 DEF Slot!Hide
  <2>2. CASE i = j
    BY <1>2, <2>2
  <2>3. ASSUME NEW report, i = [j EXCEPT !.removed = "held", !.report = report]
        PROVE  DOMAIN i = Fields /\ Decided(r, i, j)
    <3>1. /\ DOMAIN i = Fields /\ i.removed # "no" /\ Marks(i, j) /\ i.status = j.status
          /\ i.judged = j.judged
      BY <1>2, <2>3 DEF Marks, Fields
    <3> QED
      BY <3>1 DEF Decided
  <2> QED
    BY <2>1, <2>2, <2>3
<1>5. ASSUME Slot!Unhide(r), NEW i \in items'
      PROVE  DOMAIN i = Fields /\ \E j \in items : Decided(r, i, j)
  <2>1. CASE ~(Slot!Live \subseteq Slot!Found(r))
    BY <1>2, <1>5, <2>1 DEF Slot!Unhide
  <2>2. CASE Slot!Live \subseteq Slot!Found(r)
    <3>1. PICK j \in items : i = IF j \in Slot!Found(r) THEN [j EXCEPT !.removed = "no"] ELSE j
      BY <1>5, <2>2 DEF Slot!Unhide
    <3>2. CASE j \notin Slot!Found(r)
      BY <1>2, <3>1, <3>2
    <3>3. CASE j \in Slot!Found(r)
      <4>1. i = [j EXCEPT !.removed = "no"] /\ j.id \in editing[r].ids
        BY <3>1, <3>3 DEF Slot!Found
      <4>2. DOMAIN i = Fields /\ Marks(i, j) /\ i.status = j.status /\ i.judged = j.judged
        BY <1>2, <4>1 DEF Marks, Fields
      <4>3. i.id \in editing[r].ids /\ \A k \in Slot!Live : k.id \in editing[r].ids
        BY <2>2, <4>1, <4>2 DEF Marks, Slot!Found
      <4>4. editing[r].step = "restore"
        BY <1>5 DEF Slot!Unhide, Slot!Goes
      <4> QED
        BY <4>2, <4>3, <4>4 DEF Decided
    <3> QED
      BY <3>2, <3>3
  <2> QED
    BY <2>1, <2>2
<1>6. ASSUME NEW decision, Slot!Review(r, decision), NEW i \in items'
      PROVE  DOMAIN i = Fields /\ \E j \in items : Decided(r, i, j)
  <2>1. PICK j \in items : i = IF j \in Slot!Found(r) \intersect Slot!Live
                             THEN [j EXCEPT !.status = decision, !.judged = editing[r].new]
                             ELSE j
    BY <1>6 DEF Slot!Review
  <2>2. CASE j \notin Slot!Found(r) \intersect Slot!Live
    BY <1>2, <2>1, <2>2
  <2>3. CASE j \in Slot!Found(r) \intersect Slot!Live
    <3>1. /\ i = [j EXCEPT !.status = decision, !.judged = editing[r].new]
          /\ j.id \in editing[r].ids
      BY <2>1, <2>3 DEF Slot!Found
    <3>2. /\ DOMAIN i = Fields /\ Marks(i, j) /\ i.removed = j.removed
          /\ i.judged = editing[r].new /\ i.id \in editing[r].ids
      BY <1>2, <3>1 DEF Marks, Fields
    <3>3. editing[r].step = "verdict"
      BY <1>6 DEF Slot!Review, Slot!Goes
    <3> QED
      BY <3>2, <3>3 DEF Decided
  <2> QED
    BY <2>2, <2>3
<1> QED
  BY <1>1, <1>3, <1>4, <1>5, <1>6

(* A build's row and its image: a file a request has stored is nobody      *)
(* else's yet, the files it will delete are only in rows it will write or  *)
(* delete first, and those it is about to delete are in none.              *)
Careful(r) ==
    LET me == editing[r] IN
    /\ me.step = "save" =>
          /\ me.new \in disk /\ \A i \in items : i.file # me.new
          /\ \A q \in slot.crowd : /\ me.new \notin editing[q].old
                                   /\ q # r /\ editing[q].step = "save" => editing[q].new # me.new
    /\ me.step \in {"save", "delete"} => \A i \in items : i.file \in me.old => i.id \in me.ids
    /\ me.step = "unlink" => \A i \in items : i.file \notin me.old
    /\ me.step \in {"save", "restore"} => \A a, b \in me.ids : a = b

ImagesInv ==
    /\ \A i \in items : i.file \in disk
    /\ \A i, j \in items : i.file = j.file => i.id = j.id
    /\ \A i, j \in items : i.removed = "no" /\ j.removed = "no" => i.id = j.id
    /\ \A r \in slot.crowd : Careful(r)

LEMMA Stored ==
    ASSUME ImagesInv, NEW q \in slot.crowd, editing[q].step = "save"
    PROVE  /\ editing[q].new \in disk /\ \A i \in items : i.file # editing[q].new
           /\ \A p \in slot.crowd : editing[q].new \notin editing[p].old
           /\ \A p \in slot.crowd : p # q /\ editing[p].step = "save"
                                     => editing[p].new # editing[q].new
<1>1. Careful(q)
  BY DEF ImagesInv
<1>2. editing[q].new \in disk /\ \A i \in items : i.file # editing[q].new
  BY <1>1 DEF Careful
<1>3. \A p \in slot.crowd :
         /\ editing[q].new \notin editing[p].old
         /\ p # q /\ editing[p].step = "save" => editing[p].new # editing[q].new
  BY <1>1 DEF Careful
<1> QED
  BY <1>2, <1>3

(* Marking rows disturbs none of it.                                       *)
LEMMA MarkingIsHarmless ==
    ASSUME ImagesInv, UNCHANGED <<slot, disk>>,
           \A i \in items' : \E j \in items : Marks(i, j),
           \A i, j \in items' : i.removed = "no" /\ j.removed = "no" => i.id = j.id,
           \A q \in slot.crowd : \/ editing'[q] = editing[q]
                                 \/ /\ Marking(editing'[q])
                                    /\ editing'[q].step = "restore" =>
                                          \A a, b \in editing'[q].ids : a = b
    PROVE  ImagesInv'
<1>1. \A i \in items' : i.file \in disk'
  BY DEF ImagesInv, Marks
<1>2. \A i, j \in items' : i.file = j.file => i.id = j.id
  BY DEF ImagesInv, Marks
<1>3. ASSUME NEW r \in slot.crowd
      PROVE  Careful(r)'
  <2>1. \A q \in slot.crowd : editing'[q].old = editing[q].old \/ editing'[q].old = {}
    BY DEF Marking
  <2>2. \A q \in slot.crowd : editing'[q].step = "save" => editing'[q] = editing[q]
    BY DEF Marking
  <2>3. CASE editing'[r] = editing[r]
    <3>1. Careful(r)
      BY DEF ImagesInv
    <3>2. editing[r].step = "save" => \A i \in items' : i.file # editing[r].new
      BY <3>1 DEF Careful, Marks
    <3>3. editing[r].step \in {"save", "delete"} =>
             \A i \in items' : i.file \in editing[r].old => i.id \in editing[r].ids
      BY <3>1 DEF Careful, Marks
    <3>4. editing[r].step = "unlink" => \A i \in items' : i.file \notin editing[r].old
      BY <3>1 DEF Careful, Marks
    <3> QED
      BY <2>1, <2>2, <2>3, <3>1, <3>2, <3>3, <3>4 DEF Careful
  <2>4. CASE editing'[r] # editing[r]
    <3>1. Marking(editing'[r])
      BY <2>4
    <3> QED
      BY <2>4, <3>1 DEF Careful, Marking
  <2> QED
    BY <2>3, <2>4
<1> QED
  BY <1>1, <1>2, <1>3 DEF ImagesInv

(* One request goes on, and it is careful.                                 *)
LEMMA StaysCareful ==
    ASSUME SlotTyped, ImagesInv, NEW r \in slot.crowd, NEW memory,
           UNCHANGED slot, editing' = [editing EXCEPT ![r] = memory],
           \A q \in slot.crowd \ {r} : editing[q].step = "save" =>
               /\ editing[q].new \in disk' /\ editing[q].new \notin memory.old
               /\ \A i \in items' : i.file # editing[q].new
               /\ memory.step = "save" => memory.new # editing[q].new,
           \A q \in slot.crowd \ {r} : \A i \in items' :
               i.file \in editing[q].old => \E j \in items : Marks(i, j),
           Careful(r)'
    PROVE  \A q \in slot.crowd : Careful(q)'
<1>1. /\ editing'[r] = memory
      /\ \A q \in slot.crowd : q # r => editing'[q] = editing[q]
  BY OneEdits
<1> SUFFICES ASSUME NEW q \in slot.crowd, q # r
             PROVE  Careful(q)'
  OBVIOUS
<1>2. Careful(q) /\ editing'[q] = editing[q]
  BY <1>1 DEF ImagesInv
<1>3. editing[q].step = "save" =>
        /\ editing[q].new \in disk' /\ \A i \in items' : i.file # editing[q].new
        /\ \A p \in slot.crowd : /\ editing[q].new \notin editing'[p].old
                                 /\ p # q /\ editing'[p].step = "save"
                                       => editing'[p].new # editing[q].new
  BY <1>1, <1>2 DEF Careful
<1>4. editing[q].step \in {"save", "delete"} =>
        \A i \in items' : i.file \in editing[q].old => i.id \in editing[q].ids
  BY <1>2 DEF Careful, Marks
<1>5. editing[q].step = "unlink" => \A i \in items' : i.file \notin editing[q].old
  BY <1>2 DEF Careful, Marks
<1> QED
  BY <1>2, <1>3, <1>4, <1>5 DEF Careful

LEMMA SubmitCareful ==
    ASSUME SlotTyped, ImagesInv, NEW r \in slot.crowd, Slot!Submit(r)
    PROVE  SlotTyped' /\ ImagesInv' /\ UNCHANGED slot
<1>1. PICK new, memory :
        /\ new = Slot!FreshFile
        /\ memory = Slot!Memory("save", {i.id : i \in Slot!Live}, {i.file : i \in Slot!Live}, new)
  OBVIOUS
<1>2. /\ memory.step = "save" /\ memory.new = new /\ memory.ids = {i.id : i \in Slot!Live}
      /\ memory.old = {i.file : i \in Slot!Live}
      /\ DOMAIN memory = {"step", "ids", "old", "new"}
  BY <1>1 DEF Slot!Memory
<1>3. /\ UNCHANGED <<slot, items>> /\ editing' = [editing EXCEPT ![r] = memory]
      /\ disk' = disk \union {new} /\ new \in Slot!FreeFile
  BY <1>1 DEF Slot!Submit, Slot!Begins, Slot!FreshFile
<1>4. /\ \A i \in items : i.file # new
      /\ \A q \in slot.crowd : new \notin editing[q].old /\ editing[q].new # new
  BY <1>3 DEF Slot!FreeFile
<1>5. /\ DOMAIN editing' = slot.crowd /\ editing'[r] = memory
      /\ \A q \in slot.crowd : q # r => editing'[q] = editing[q]
  BY <1>3, OneEdits
<1>6. Careful(r)'
  <2>1. /\ new \in disk' /\ \A i \in items' : i.file # new
    BY <1>3, <1>4
  <2>2. ASSUME NEW q \in slot.crowd
        PROVE  new \notin editing'[q].old /\ (q # r => editing'[q].new # new)
    BY <1>2, <1>4, <1>5 DEF Slot!Live
  <2>3. \A i \in items' : i.file \in memory.old => i.id \in memory.ids
    BY <1>2, <1>3 DEF ImagesInv, Slot!Live
  <2>4. \A a, b \in memory.ids : a = b
    BY <1>2 DEF ImagesInv, Slot!Live
  <2> QED
    BY <1>2, <1>3, <1>5, <2>1, <2>2, <2>3, <2>4 DEF Careful
<1>7. ASSUME NEW q \in slot.crowd \ {r}, editing[q].step = "save"
      PROVE  /\ editing[q].new \in disk' /\ editing[q].new \notin memory.old
             /\ \A i \in items' : i.file # editing[q].new
             /\ memory.step = "save" => memory.new # editing[q].new
  <2>1. Careful(q)
    BY DEF ImagesInv
  <2> QED
    BY <1>2, <1>3, <1>4, <1>7, <2>1 DEF Careful, Slot!Live
<1>8. \A i \in items' : \E j \in items : Marks(i, j)
  BY <1>3 DEF Marks
<1>9. \A q \in slot.crowd : Careful(q)'
  BY <1>3, <1>6, <1>7, <1>8, StaysCareful
<1> QED
  BY <1>2, <1>3, <1>5, <1>9 DEF SlotTyped, ImagesInv

LEMMA SaveCareful ==
    ASSUME SlotTyped, ImagesInv, NEW r \in slot.crowd, Slot!Save(r)
    PROVE  SlotTyped' /\ ImagesInv' /\ UNCHANGED slot
<1>1. PICK me, new : me = editing[r] /\ new = me.new
  OBVIOUS
<1>2. PICK memory : memory = IF me.ids = {} \/ Slot!Found(r) = {} THEN Slot!Idle
                             ELSE Slot!Memory("unlink", {}, me.old, 0)
  OBVIOUS
<1>3. /\ UNCHANGED <<slot, disk>> /\ editing' = [editing EXCEPT ![r] = memory]
      /\ me.step = "save"
  BY <1>1, <1>2 DEF Slot!Save, Slot!Goes
<1>4. /\ DOMAIN memory = {"step", "ids", "old", "new"} /\ memory.step \in {"idle", "unlink"}
      /\ memory.old \subseteq me.old
      /\ memory.step = "unlink" => memory.old = me.old /\ me.ids # {}
  BY <1>2 DEF Slot!Idle, Slot!Memory
<1>5. /\ new \in disk /\ \A i \in items : i.file # new
      /\ \A q \in slot.crowd : /\ new \notin editing[q].old
                               /\ q # r /\ editing[q].step = "save" => editing[q].new # new
      /\ \A i \in items : i.file \in me.old => i.id \in me.ids
      /\ \A a, b \in me.ids : a = b
  BY <1>1, <1>3 DEF ImagesInv, Careful
<1>5a. /\ \A q \in slot.crowd : new \notin editing[q].old
       /\ \A q \in slot.crowd : q # r /\ editing[q].step = "save" => editing[q].new # new
  BY <1>1, <1>3, Stored
<1>5b. new \notin me.old
  BY <1>1, <1>5a
<1>6. ASSUME NEW i \in items', i \notin items
      PROVE  DOMAIN i = Fields /\ i.file = new
  <2>1. CASE me.ids = {}
    <3>1. i = [id |-> Slot!FreshId, file |-> new, status |-> "PENDING", removed |-> "no",
               report |-> "NONE", judged |-> 0]
      BY <1>1, <1>6, <2>1 DEF Slot!Save
    <3> QED
      BY <3>1 DEF Fields
  <2>2. CASE me.ids # {}
    <3>1. PICK j \in items : i = Slot!Changed(j, new)
      BY <1>1, <1>6, <2>2 DEF Slot!Save, Slot!Found
    <3> QED
      BY <3>1 DEF Slot!Changed, SlotTyped, Fields
  <2> QED
    BY <2>1, <2>2
<1>7. ASSUME me.ids = {}
      PROVE  /\ \A i, j \in items' : i \notin items /\ j \notin items => i = j
             /\ items' = items \/ \A i \in items : i.removed # "no"
  BY <1>1, <1>7 DEF Slot!Save, Slot!Live
<1>8. ASSUME me.ids # {}
      PROVE  /\ \A i \in items' : i \in items => i.id \notin me.ids
             /\ \A i \in items' : i \notin items => i.id \in me.ids /\
                    \E j \in items : i.id = j.id /\ i.removed = j.removed
  <2>1. items' = (items \ Slot!Found(r)) \union {Slot!Changed(j, new) : j \in Slot!Found(r)}
    BY <1>1, <1>8 DEF Slot!Save
  <2>2. \A j \in Slot!Found(r) : j \in items /\ j.id \in me.ids
    BY <1>1 DEF Slot!Found
  <2>3. \A j \in items : j.id \in me.ids => j \in Slot!Found(r)
    BY <1>1 DEF Slot!Found
  <2>4. \A j \in items : /\ Slot!Changed(j, new).id = j.id /\ Slot!Changed(j, new).removed = j.removed
                         /\ Slot!Changed(j, new).file = new
    BY DEF Slot!Changed, SlotTyped, Fields
  <2>5. \A j \in items : Slot!Changed(j, new) \notin items
    BY <1>5, <2>4
  <2> QED
    BY <2>1, <2>2, <2>3, <2>4, <2>5
<1>9. \A i \in items' : i.file \in disk'
  BY <1>3, <1>5, <1>6 DEF ImagesInv
<1>10. ASSUME NEW i \in items', NEW j \in items', i.file = j.file
       PROVE  i.id = j.id
  <2>1. CASE i \in items /\ j \in items
    BY <1>10, <2>1 DEF ImagesInv
  <2>2. CASE i \notin items \/ j \notin items
    <3>1. i \notin items /\ j \notin items
      BY <1>5, <1>6, <1>10, <2>2
    <3> QED
      BY <1>5, <1>7, <1>8, <3>1
  <2> QED
    BY <2>1, <2>2
<1>11. ASSUME NEW i \in items', NEW j \in items', i.removed = "no", j.removed = "no"
       PROVE  i.id = j.id
  <2>1. CASE me.ids = {}
    BY <1>7, <1>11, <2>1 DEF ImagesInv
  <2>2. CASE me.ids # {}
    <3>1. /\ \E k \in items : i.id = k.id /\ i.removed = k.removed
          /\ \E k \in items : j.id = k.id /\ j.removed = k.removed
      BY <1>8, <2>2
    <3> QED
      BY <1>11, <3>1 DEF ImagesInv
  <2> QED
    BY <2>1, <2>2
<1>12. /\ DOMAIN editing' = slot.crowd /\ editing'[r] = memory
       /\ \A q \in slot.crowd : q # r => editing'[q] = editing[q]
  BY <1>3, OneEdits
<1>13. Careful(r)'
  <2>1. ASSUME memory.step = "unlink", NEW i \in items'
        PROVE  i.file \notin memory.old
    <3>1. memory.old = me.old /\ me.ids # {} /\ new \notin me.old
      BY <1>4, <1>5b, <2>1
    <3>2. CASE i \in items
      BY <1>5, <1>8, <3>1, <3>2
    <3>3. CASE i \notin items
      BY <1>6, <3>1, <3>3
    <3> QED
      BY <3>2, <3>3
  <2> QED
    BY <1>4, <1>12, <2>1 DEF Careful
<1>14. ASSUME NEW q \in slot.crowd \ {r}, editing[q].step = "save"
       PROVE  /\ editing[q].new \in disk' /\ editing[q].new \notin memory.old
              /\ \A i \in items' : i.file # editing[q].new
              /\ memory.step = "save" => memory.new # editing[q].new
  <2>1. /\ editing[q].new \in disk /\ \A i \in items : i.file # editing[q].new
        /\ editing[q].new \notin me.old
    BY <1>1, <1>14, Stored
  <2>2. editing[q].new # new
    BY <1>14, <1>5a
  <2>3. \A i \in items' : i.file # editing[q].new
    BY <1>6, <2>1, <2>2
  <2> QED
    BY <1>3, <1>4, <2>1, <2>3
<1>15. ASSUME NEW q \in slot.crowd \ {r}, NEW i \in items', i.file \in editing[q].old
       PROVE  \E j \in items : Marks(i, j)
  <2>1. i \in items
    <3>1. new \notin editing[q].old
      BY <1>5a
    <3> QED
      BY <1>6, <1>15, <3>1
  <2> QED
    BY <2>1 DEF Marks
<1>16. \A q \in slot.crowd : Careful(q)'
  BY <1>3, <1>13, <1>14, <1>15, StaysCareful
<1>17. ImagesInv'
  BY <1>3, <1>9, <1>10, <1>11, <1>16 DEF ImagesInv
<1> QED
  BY <1>3, <1>4, <1>6, <1>12, <1>17 DEF SlotTyped

(* Withdrawing a build, and the purge of those removed long ago.           *)
LEMMA DeletionBegins ==
    ASSUME SlotTyped, ImagesInv, NEW r \in slot.crowd, Slot!Withdraw(r) \/ Slot!Purge(r)
    PROVE  SlotTyped' /\ ImagesInv' /\ UNCHANGED slot
<1>0. PICK gone \in SUBSET items :
        editing' = [editing EXCEPT ![r] =
            Slot!Memory("delete", {i.id : i \in gone}, {i.file : i \in gone}, 0)]
  BY DEF Slot!Withdraw, Slot!Purge, Slot!Begins, Slot!Live
<1>1. PICK memory :
        /\ memory = Slot!Memory("delete", {i.id : i \in gone}, {i.file : i \in gone}, 0)
        /\ editing' = [editing EXCEPT ![r] = memory]
  BY <1>0
<1>2. /\ memory.step = "delete" /\ memory.ids = {i.id : i \in gone}
      /\ memory.old = {i.file : i \in gone}
      /\ DOMAIN memory = {"step", "ids", "old", "new"}
  BY <1>1 DEF Slot!Memory
<1>3. UNCHANGED <<slot, items, disk>>
  BY DEF Slot!Withdraw, Slot!Purge, Slot!Begins
<1>4. /\ DOMAIN editing' = slot.crowd /\ editing'[r] = memory
      /\ \A q \in slot.crowd : q # r => editing'[q] = editing[q]
  BY <1>1, OneEdits
<1>5. \A i \in items : i.file \in memory.old => i.id \in memory.ids
  BY <1>2 DEF ImagesInv
<1>6. Careful(r)'
  BY <1>2, <1>3, <1>4, <1>5 DEF Careful
<1>7. ASSUME NEW q \in slot.crowd \ {r}, editing[q].step = "save"
      PROVE  /\ editing[q].new \in disk' /\ editing[q].new \notin memory.old
             /\ \A i \in items' : i.file # editing[q].new
             /\ memory.step = "save" => memory.new # editing[q].new
  BY <1>2, <1>3, <1>7 DEF ImagesInv, Careful
<1>8. \A i \in items' : \E j \in items : Marks(i, j)
  BY <1>3 DEF Marks
<1>9. \A q \in slot.crowd : Careful(q)'
  BY <1>1, <1>3, <1>6, <1>7, <1>8, StaysCareful
<1> QED
  BY <1>2, <1>3, <1>4, <1>9 DEF SlotTyped, ImagesInv

(* The rows go, and then the files that are in none.                       *)
LEMMA DeletionsCareful ==
    ASSUME SlotTyped, ImagesInv, NEW r \in slot.crowd, Slot!DeleteRows(r) \/ Slot!Unlink(r)
    PROVE  SlotTyped' /\ ImagesInv' /\ UNCHANGED slot
<1>1. PICK me : me = editing[r]
  OBVIOUS
<1>2. PICK memory :
        /\ memory = IF me.step = "delete" THEN Slot!Memory("unlink", {}, me.old, 0) ELSE Slot!Idle
        /\ editing' = [editing EXCEPT ![r] = memory]
  BY <1>1 DEF Slot!DeleteRows, Slot!Unlink, Slot!Goes
<1>3. /\ DOMAIN memory = {"step", "ids", "old", "new"} /\ memory.step \in {"idle", "unlink"}
      /\ memory.old \subseteq me.old
      /\ memory.step = "unlink" => me.step = "delete" /\ memory.old = me.old
  BY <1>2 DEF Slot!Idle, Slot!Memory
<1>4. /\ UNCHANGED slot /\ items' \subseteq items /\ me.step \in {"delete", "unlink"}
      /\ me.step = "delete" => disk' = disk /\ items' = items \ Slot!Found(r)
      /\ me.step = "unlink" => items' = items /\ disk' = disk \ me.old
  BY <1>1 DEF Slot!DeleteRows, Slot!Unlink, Slot!Goes
<1>5. /\ DOMAIN editing' = slot.crowd /\ editing'[r] = memory
      /\ \A q \in slot.crowd : q # r => editing'[q] = editing[q]
  BY <1>2, OneEdits
<1>6. Careful(r)
  BY DEF ImagesInv
<1>7. ASSUME me.step = "delete", NEW i \in items'
      PROVE  i.file \notin me.old
  BY <1>1, <1>4, <1>6, <1>7 DEF Careful, Slot!Found
<1>8. ASSUME me.step = "unlink", NEW i \in items
      PROVE  i.file \notin me.old
  BY <1>1, <1>6, <1>8 DEF Careful
<1>9. \A i \in items' : i.file \in disk'
  BY <1>4, <1>8 DEF ImagesInv
<1>10. Careful(r)'
  BY <1>3, <1>5, <1>7 DEF Careful
<1>11. ASSUME NEW q \in slot.crowd \ {r}, editing[q].step = "save"
       PROVE  /\ editing[q].new \in disk' /\ editing[q].new \notin memory.old
              /\ \A i \in items' : i.file # editing[q].new
              /\ memory.step = "save" => memory.new # editing[q].new
  <2>1. /\ editing[q].new \in disk /\ \A i \in items : i.file # editing[q].new
        /\ editing[q].new \notin me.old
    BY <1>1, <1>11, Stored
  <2> QED
    BY <1>3, <1>4, <2>1
<1>12. \A i \in items' : \E j \in items : Marks(i, j)
  BY <1>4 DEF Marks
<1>13. \A q \in slot.crowd : Careful(q)'
  BY <1>2, <1>4, <1>10, <1>11, <1>12, StaysCareful
<1> QED
  BY <1>3, <1>4, <1>5, <1>9, <1>13 DEF SlotTyped, ImagesInv

LEMMA MarksCareful ==
    ASSUME SlotTyped, ImagesInv, NEW r \in slot.crowd, MarkStep(r)
    PROVE  SlotTyped' /\ ImagesInv' /\ UNCHANGED slot
<1>1. CASE Slot!Look(r) \/ Slot!Report(r) \/ Slot!Remove(r) \/ Slot!Restore(r)
  <2>1. UNCHANGED <<slot, disk, items>>
    BY <1>1, MarkBegins
  <2>2. PICK memory : /\ editing' = [editing EXCEPT ![r] = memory] /\ Marking(memory)
                      /\ DOMAIN memory = {"step", "ids", "old", "new"}
                      /\ memory.step = "restore" => \A a, b \in memory.ids : a = b
    BY <1>1, MarkBegins
  <2>3. /\ DOMAIN editing' = slot.crowd /\ editing'[r] = memory
        /\ \A q \in slot.crowd : q # r => editing'[q] = editing[q]
    BY <2>2, OneEdits
  <2>4. /\ \A i \in items' : \E j \in items : Marks(i, j)
        /\ \A i, j \in items' : i.removed = "no" /\ j.removed = "no" => i.id = j.id
    BY <2>1 DEF Marks, ImagesInv
  <2>5. ImagesInv'
    BY <2>1, <2>2, <2>3, <2>4, MarkingIsHarmless
  <2> QED
    BY <2>1, <2>2, <2>3, <2>5 DEF SlotTyped
<1>2. CASE \/ Slot!AddReport(r) \/ Slot!Hide(r) \/ Slot!Unhide(r)
           \/ \E decision \in {"APPROVED", "REJECTED"} : Slot!Review(r, decision)
  <2>1. /\ UNCHANGED <<slot, disk>> /\ editing' = [editing EXCEPT ![r] = Slot!Idle]
        /\ \A i \in items' : DOMAIN i = Fields /\ \E j \in items : Decided(r, i, j)
    BY <1>2, MarkWrites
  <2>2. /\ DOMAIN editing' = slot.crowd /\ editing'[r] = Slot!Idle
        /\ \A q \in slot.crowd : q # r => editing'[q] = editing[q]
    BY <2>1, OneEdits
  <2>3. Marking(Slot!Idle) /\ DOMAIN Slot!Idle = {"step", "ids", "old", "new"}
        /\ Slot!Idle.step = "idle"
    BY DEF Marking, Slot!Idle, Slot!Memory
  <2>4. ASSUME NEW i \in items', NEW j \in items', i.removed = "no", j.removed = "no"
        PROVE  i.id = j.id
    <3>1. PICK k \in items, l \in items : Decided(r, i, k) /\ Decided(r, j, l)
      BY <2>1
    <3>2. Careful(r)
      BY DEF ImagesInv
    <3>3. CASE k.removed = "no" /\ l.removed = "no"
      BY <3>1, <3>3 DEF Decided, Marks, ImagesInv
    <3>4. CASE k.removed # "no" \/ l.removed # "no"
      <4>1. /\ editing[r].step = "restore" /\ \A m \in Slot!Live : m.id \in editing[r].ids
            /\ i.id \in editing[r].ids \/ k.removed = "no"
            /\ j.id \in editing[r].ids \/ l.removed = "no"
        BY <2>4, <3>1, <3>4 DEF Decided
      <4>2. k.removed = "no" => i.id \in editing[r].ids
        BY <3>1, <4>1 DEF Decided, Marks, Slot!Live
      <4>3. l.removed = "no" => j.id \in editing[r].ids
        BY <3>1, <4>1 DEF Decided, Marks, Slot!Live
      <4> QED
        BY <3>2, <4>1, <4>2, <4>3 DEF Careful
    <3> QED
      BY <3>3, <3>4
  <2>5. \A i \in items' : \E j \in items : Marks(i, j)
    BY <2>1 DEF Decided
  <2>6. \A q \in slot.crowd : \/ editing'[q] = editing[q]
                              \/ /\ Marking(editing'[q])
                                 /\ editing'[q].step = "restore" =>
                                       \A a, b \in editing'[q].ids : a = b
    BY <2>2, <2>3
  <2>7. ImagesInv'
    BY <2>1, <2>4, <2>5, <2>6, MarkingIsHarmless
  <2> QED
    BY <2>1, <2>2, <2>3, <2>7 DEF SlotTyped
<1> QED
  BY <1>1, <1>2 DEF MarkStep

(* The steps that mark rows and belong to no request.                      *)
LEMMA OthersCareful ==
    ASSUME SlotTyped, ImagesInv, Slot!Dismiss \/ Slot!Expire
    PROVE  SlotTyped' /\ ImagesInv' /\ UNCHANGED slot
<1>1. /\ UNCHANGED <<slot, event, disk, editing>>
      /\ \A i \in items' : DOMAIN i = Fields /\
            \E j \in items : /\ Marks(i, j) /\ i.status = j.status /\ i.judged = j.judged
                             /\ i.removed = "no" => j.removed = "no"
  BY MarkSteps
<1>2. \A i, j \in items' : i.removed = "no" /\ j.removed = "no" => i.id = j.id
  BY <1>1 DEF ImagesInv, Marks
<1>3. ImagesInv'
  BY <1>1, <1>2, MarkingIsHarmless
<1> QED
  BY <1>1, <1>3 DEF SlotTyped

SlotMove(r) ==
    \/ Slot!Submit(r) \/ Slot!Save(r) \/ Slot!Unlink(r) \/ Slot!Withdraw(r) \/ Slot!DeleteRows(r)
    \/ Slot!Caption(r) \/ Slot!Purge(r) \/ MarkStep(r)

LEMMA SlotSteps ==
    ASSUME Slot!Next
    PROVE  \/ Slot!Dismiss \/ Slot!Expire \/ \E r \in slot.crowd : SlotMove(r)
           \/ UNCHANGED <<slot, items, disk, editing>>
  BY DEF Slot!Next, Slot!Start, Slot!Finish, Slot!UpdateSettings, SlotMove, MarkStep

LEMMA ImagesStay ==
    ASSUME SlotTyped, ImagesInv, slot.kind = "BUILD", [Slot!Next]_Slot!vars
    PROVE  SlotTyped' /\ ImagesInv' /\ UNCHANGED slot
<1>1. CASE UNCHANGED <<slot, items, disk, editing>>
  BY <1>1 DEF SlotTyped, ImagesInv, Careful
<1>2. ASSUME NEW r \in slot.crowd, SlotMove(r)
      PROVE  SlotTyped' /\ ImagesInv' /\ UNCHANGED slot
  <2>1. ~Slot!Caption(r)
    BY DEF Slot!Caption
  <2> QED
    BY <1>2, <2>1, SubmitCareful, SaveCareful, DeletionBegins, DeletionsCareful, MarksCareful
       DEF SlotMove
<1> QED
  BY <1>1, <1>2, SlotSteps, OthersCareful DEF Slot!vars

LEMMA SameSlot == [Slot!Next]_Slot!vars => UNCHANGED slot
<1>1. \A r : SlotMove(r) => UNCHANGED slot
  BY DEF SlotMove, MarkStep, Slot!Submit, Slot!Save, Slot!Unlink, Slot!Withdraw, Slot!DeleteRows,
     Slot!Caption, Slot!Purge, Slot!Look, Slot!Report, Slot!AddReport, Slot!Remove, Slot!Hide,
     Slot!Restore, Slot!Unhide, Slot!Review, Slot!Begins, Slot!Goes
<1>2. Slot!Dismiss \/ Slot!Expire => UNCHANGED slot
  BY DEF Slot!Dismiss, Slot!Expire
<1> QED
  BY <1>1, <1>2, SlotSteps DEF Slot!vars

LEMMA SlotBegins ==
    ASSUME Slot!Init
    PROVE  SlotTyped /\ ImagesInv /\ items = {} /\ editing = [r \in slot.crowd |-> Slot!Idle]
  BY DEF Slot!Init, SlotTyped, ImagesInv, Careful, Slot!Idle, Slot!Memory

(* Whatever requests there are and however they overlap, the image that a  *)
(* build's row names is on the disk: submissions, withdrawals, removals,   *)
(* restorations and purges delete a file only when no row names it or will *)
(* (BuildService.submit and withdraw, ModerationService.purgeExpired).     *)
THEOREM ImagesOutliveRows == Slot!Spec => []BuildImagesExist
<1> DEFINE Inv == slot.kind = "BUILD" => SlotTyped /\ ImagesInv
<1>1. Slot!Init => Inv
  BY SlotBegins
<1>2. Inv /\ [Slot!Next]_Slot!vars => Inv'
  <2> SUFFICES ASSUME Inv, [Slot!Next]_Slot!vars, slot'.kind = "BUILD"
               PROVE  SlotTyped' /\ ImagesInv'
    OBVIOUS
  <2>1. UNCHANGED slot
    BY SameSlot
  <2> QED
    BY <2>1, ImagesStay
<1>3. Inv => BuildImagesExist
  BY DEF ImagesInv, BuildImagesExist, Slot!BuildImagesExist
<1> QED
  BY <1>1, <1>2, <1>3, PTL DEF Slot!Spec

(***************************************************************************)
(* Approvals                                                               *)
(***************************************************************************)

(* One request at a time: rows of one id have one image, which is the one  *)
(* that was judged if it is approved; the request remembers one slot, and  *)
(* whoever judges the image of the row it will decide on.                  *)
ApprovalInv(r) ==
    LET me == editing[r] IN
    /\ \A i, j \in items : i.id = j.id => i.file = j.file
    /\ \A i, j \in items : i.removed = "no" /\ j.removed = "no" => i.id = j.id
    /\ \A i \in items : i.file \in Int /\ (i.status = "APPROVED" => i.file = i.judged)
    /\ me.step \in {"save", "restore"} => \A a, b \in me.ids : a = b
    /\ me.step = "save" => me.new \in Int
    /\ me.step = "verdict" => \A i \in items : i.id \in me.ids => i.file = me.new

LEMMA MaxOfOne ==
    ASSUME NEW f \in Int
    PROVE  Slot!Max({f}) = f
  BY DEF Slot!Max

(* What is live has one image.                                             *)
LEMMA LiveImage ==
    ASSUME NEW r, ApprovalInv(r), Slot!Live # {}
    PROVE  LET new == Slot!Max({i.file : i \in Slot!Live}) IN
           new \in Int /\ \A i \in items : i.id \in {j.id : j \in Slot!Live} => i.file = new
<1>1. PICK k \in Slot!Live : TRUE
  OBVIOUS
<1>2. /\ k.file \in Int
      /\ \A i \in items : i.id \in {j.id : j \in Slot!Live} => i.file = k.file
  BY <1>1 DEF ApprovalInv, Slot!Live
<1>3. {i.file : i \in Slot!Live} = {k.file}
  BY <1>1, <1>2 DEF Slot!Live
<1> QED
  BY <1>2, <1>3, MaxOfOne

LEMMA ApprovalSubmitted ==
    ASSUME SlotTyped, NEW r, slot.crowd = {r}, ApprovalInv(r), Slot!Submit(r) \/ Slot!Caption(r)
    PROVE  SlotTyped' /\ ApprovalInv(r)'
<1>0. /\ UNCHANGED <<slot, items>>
      /\ \E old, new : editing' = [editing EXCEPT ![r] =
                             Slot!Memory("save", {i.id : i \in Slot!Live}, old, new)] /\ new \in Int
  <2>1. CASE Slot!Submit(r)
    <3>1. Slot!FreshFile \in Slot!FreeFile
      BY <2>1 DEF Slot!Submit, Slot!FreshFile
    <3>2. Slot!FreshFile \in Int
      BY <3>1 DEF Slot!FreeFile, Slot!File
    <3> QED
      BY <2>1, <3>2 DEF Slot!Submit, Slot!Begins
  <2>2. CASE Slot!Caption(r)
    BY <2>2, LiveImage DEF Slot!Caption, Slot!Begins
  <2> QED
    BY <2>1, <2>2
<1>1. PICK old, new : editing' = [editing EXCEPT ![r] =
                         Slot!Memory("save", {i.id : i \in Slot!Live}, old, new)] /\ new \in Int
  BY <1>0
<1>2. PICK memory : /\ memory = Slot!Memory("save", {i.id : i \in Slot!Live}, old, new)
                    /\ editing' = [editing EXCEPT ![r] = memory]
  BY <1>1
<1>3. /\ memory.step = "save" /\ memory.ids = {i.id : i \in Slot!Live} /\ memory.new = new
      /\ DOMAIN memory = {"step", "ids", "old", "new"}
  BY <1>2 DEF Slot!Memory
<1>4. /\ DOMAIN editing' = slot.crowd /\ editing'[r] = memory
      /\ \A q \in slot.crowd : q # r => editing'[q] = editing[q]
  BY <1>2, OneEdits
<1>5. \A a, b \in memory.ids : a = b
  BY <1>3 DEF ApprovalInv, Slot!Live
<1> QED
  BY <1>0, <1>1, <1>3, <1>4, <1>5 DEF SlotTyped, ApprovalInv

LEMMA ApprovalSaved ==
    ASSUME SlotTyped, NEW r, slot.crowd = {r}, ApprovalInv(r), Slot!Save(r)
    PROVE  SlotTyped' /\ ApprovalInv(r)'
<1>1. PICK me, new : me = editing[r] /\ new = me.new
  OBVIOUS
<1>2. PICK memory : memory = IF me.ids = {} \/ Slot!Found(r) = {} THEN Slot!Idle
                             ELSE Slot!Memory("unlink", {}, me.old, 0)
  OBVIOUS
<1>3. /\ UNCHANGED slot /\ editing' = [editing EXCEPT ![r] = memory] /\ me.step = "save"
  BY <1>1, <1>2 DEF Slot!Save, Slot!Goes
<1>4. DOMAIN memory = {"step", "ids", "old", "new"} /\ memory.step \in {"idle", "unlink"}
  BY <1>2 DEF Slot!Idle, Slot!Memory
<1>5. new \in Int /\ \A a, b \in me.ids : a = b
  BY <1>1, <1>3 DEF ApprovalInv
<1>6. /\ DOMAIN editing' = slot.crowd /\ editing'[r] = memory
      /\ \A q \in slot.crowd : q # r => editing'[q] = editing[q]
  BY <1>3, OneEdits
<1>7. ASSUME me.ids = {}
      PROVE  /\ \A i \in items' : DOMAIN i = Fields /\ i.file \in Int
                                  /\ (i.status = "APPROVED" => i.file = i.judged)
             /\ \A i, j \in items' : i.id = j.id => i.file = j.file
             /\ \A i, j \in items' : i.removed = "no" /\ j.removed = "no" => i.id = j.id
  <2>1. PICK added : added = [id |-> Slot!FreshId, file |-> new, status |-> "PENDING",
                          removed |-> "no", report |-> "NONE", judged |-> 0]
    OBVIOUS
  <2>2. DOMAIN added = Fields /\ added.id = Slot!FreshId /\ added.file = new /\ added.status = "PENDING"
    BY <2>1 DEF Fields
  <2>3. items' = items \/ (items' = items \union {added} /\ Slot!Live = {})
    BY <1>1, <1>7, <2>1 DEF Slot!Save
  <2>4. \A i \in items : i.id # added.id
    <3>1. Slot!FreshId \in Slot!FreeId
      BY <1>1, <1>7 DEF Slot!Save, Slot!FreshId
    <3> QED
      BY <2>2, <3>1 DEF Slot!FreeId
  <2> HIDE <2>1
  <2>5. CASE items' = items
    BY <2>5 DEF ApprovalInv, SlotTyped
  <2>6. CASE items' = items \union {added} /\ Slot!Live = {}
    <3>1. \A i \in items : i.removed # "no"
      BY <2>6 DEF Slot!Live
    <3>2. \A i \in items' : i = added \/ i \in items
      BY <2>6
    <3> QED
      BY <1>5, <2>2, <2>4, <3>1, <3>2 DEF ApprovalInv, SlotTyped
  <2> QED
    BY <2>3, <2>5, <2>6
<1>8. ASSUME me.ids # {}
      PROVE  /\ \A i \in items' : DOMAIN i = Fields /\ i.file \in Int
                                  /\ (i.status = "APPROVED" => i.file = i.judged)
             /\ \A i, j \in items' : i.id = j.id => i.file = j.file
             /\ \A i, j \in items' : i.removed = "no" /\ j.removed = "no" => i.id = j.id
  <2>1. items' = (items \ Slot!Found(r)) \union {Slot!Changed(i, new) : i \in Slot!Found(r)}
    BY <1>1, <1>8 DEF Slot!Save
  <2>2. \A i \in items : /\ Slot!Changed(i, new).id = i.id /\ Slot!Changed(i, new).file = new
                         /\ Slot!Changed(i, new).removed = i.removed
                         /\ Slot!Changed(i, new).status = "PENDING"
                         /\ DOMAIN Slot!Changed(i, new) = Fields
    BY DEF Slot!Changed, SlotTyped, Fields
  <2>3. \A i \in items' :
           \E k \in items : /\ i.id = k.id /\ i.removed = k.removed
                            /\ \/ i = k /\ k.id \notin me.ids
                               \/ /\ k.id \in me.ids /\ i.file = new /\ i.status = "PENDING"
                                  /\ DOMAIN i = Fields
    <3>1. \A k \in items : k \in Slot!Found(r) <=> k.id \in me.ids
      BY <1>1 DEF Slot!Found
    <3>2. Slot!Found(r) \subseteq items
      BY DEF Slot!Found
    <3> QED
      BY <2>1, <2>2, <3>1, <3>2
  <2>4. \A i \in items' : DOMAIN i = Fields /\ i.file \in Int
                          /\ (i.status = "APPROVED" => i.file = i.judged)
    BY <1>5, <2>3 DEF ApprovalInv, SlotTyped
  <2>5. \A i, j \in items' : i.id = j.id => i.file = j.file
    BY <2>3 DEF ApprovalInv
  <2>6. \A i, j \in items' : i.removed = "no" /\ j.removed = "no" => i.id = j.id
    BY <2>3 DEF ApprovalInv
  <2> QED
    BY <2>4, <2>5, <2>6
<1> QED
  BY <1>3, <1>4, <1>6, <1>7, <1>8 DEF SlotTyped, ApprovalInv

LEMMA ApprovalDeleted ==
    ASSUME SlotTyped, NEW r, slot.crowd = {r}, ApprovalInv(r),
           Slot!Withdraw(r) \/ Slot!Purge(r) \/ Slot!DeleteRows(r) \/ Slot!Unlink(r)
    PROVE  SlotTyped' /\ ApprovalInv(r)'
<1>1. /\ UNCHANGED slot /\ items' \subseteq items
      /\ \E step \in {"delete", "unlink", "idle"} : \E ids, old :
            editing' = [editing EXCEPT ![r] = Slot!Memory(step, ids, old, 0)]
  BY DEF Slot!Withdraw, Slot!Purge, Slot!DeleteRows, Slot!Unlink, Slot!Begins, Slot!Goes, Slot!Idle
<1>2. PICK memory : /\ editing' = [editing EXCEPT ![r] = memory]
                    /\ memory.step \in {"delete", "unlink", "idle"}
                    /\ DOMAIN memory = {"step", "ids", "old", "new"}
  <2>1. PICK step \in {"delete", "unlink", "idle"} : \E ids, old :
           editing' = [editing EXCEPT ![r] = Slot!Memory(step, ids, old, 0)]
    BY <1>1
  <2>2. PICK ids, old : editing' = [editing EXCEPT ![r] = Slot!Memory(step, ids, old, 0)]
    BY <2>1
  <2>3. /\ Slot!Memory(step, ids, old, 0).step = step
        /\ DOMAIN Slot!Memory(step, ids, old, 0) = {"step", "ids", "old", "new"}
    BY DEF Slot!Memory
  <2> QED
    BY <2>1, <2>2, <2>3
<1>3. /\ DOMAIN editing' = slot.crowd /\ editing'[r] = memory
      /\ \A q \in slot.crowd : q # r => editing'[q] = editing[q]
  BY <1>2, OneEdits
<1> QED
  BY <1>1, <1>2, <1>3 DEF SlotTyped, ApprovalInv

(* A row that was only marked keeps what was judged; the verdict itself is *)
(* on the image the reviewer has looked at.                                *)
LEMMA ApprovalMarked ==
    ASSUME SlotTyped, NEW r, slot.crowd = {r}, ApprovalInv(r), MarkStep(r)
    PROVE  SlotTyped' /\ ApprovalInv(r)'
<1>1. CASE Slot!Look(r) \/ Slot!Report(r) \/ Slot!Remove(r) \/ Slot!Restore(r)
  <2>1. UNCHANGED <<slot, disk, items>>
    BY <1>1, MarkBegins
  <2>2. PICK memory : /\ editing' = [editing EXCEPT ![r] = memory] /\ Marking(memory)
                      /\ DOMAIN memory = {"step", "ids", "old", "new"}
                      /\ memory.step = "restore" => \A a, b \in memory.ids : a = b
                      /\ memory.step = "verdict" =>
                            /\ memory.ids = {i.id : i \in Slot!Live} /\ Slot!Live # {}
                            /\ memory.new = Slot!Max({i.file : i \in Slot!Live})
    BY <1>1, MarkBegins
  <2>3. /\ DOMAIN editing' = slot.crowd /\ editing'[r] = memory
        /\ \A q \in slot.crowd : q # r => editing'[q] = editing[q]
    BY <2>2, OneEdits
  <2>4. memory.step = "verdict" => \A i \in items : i.id \in memory.ids => i.file = memory.new
    BY <2>2, LiveImage
  <2>5. memory.step # "save"
    BY <2>2 DEF Marking
  <2>6. SlotTyped'
    BY <2>1, <2>2, <2>3 DEF SlotTyped
  <2> QED
    BY <2>1, <2>2, <2>3, <2>4, <2>5, <2>6 DEF ApprovalInv
<1>2. CASE \/ Slot!AddReport(r) \/ Slot!Hide(r) \/ Slot!Unhide(r)
           \/ \E decision \in {"APPROVED", "REJECTED"} : Slot!Review(r, decision)
  <2>1. /\ UNCHANGED <<slot, disk>> /\ editing' = [editing EXCEPT ![r] = Slot!Idle]
        /\ \A i \in items' : DOMAIN i = Fields /\ \E j \in items : Decided(r, i, j)
    BY <1>2, MarkWrites
  <2>2. /\ DOMAIN editing' = slot.crowd /\ editing'[r] = Slot!Idle
        /\ \A q \in slot.crowd : q # r => editing'[q] = editing[q]
    BY <2>1, OneEdits
  <2>3. DOMAIN Slot!Idle = {"step", "ids", "old", "new"} /\ Slot!Idle.step = "idle"
    BY DEF Slot!Idle, Slot!Memory
  <2>4. \A i, j \in items' : i.id = j.id => i.file = j.file
    BY <2>1 DEF Decided, Marks, ApprovalInv
  <2>5. ASSUME NEW i \in items', NEW j \in items', i.removed = "no", j.removed = "no"
        PROVE  i.id = j.id
    <3>1. PICK k \in items, l \in items : Decided(r, i, k) /\ Decided(r, j, l)
      BY <2>1
    <3>2. CASE k.removed = "no" /\ l.removed = "no"
      BY <3>1, <3>2 DEF Decided, Marks, ApprovalInv
    <3>3. CASE k.removed # "no" \/ l.removed # "no"
      <4>1. /\ editing[r].step = "restore" /\ \A m \in Slot!Live : m.id \in editing[r].ids
            /\ i.id \in editing[r].ids \/ k.removed = "no"
            /\ j.id \in editing[r].ids \/ l.removed = "no"
        BY <2>5, <3>1, <3>3 DEF Decided
      <4>2. /\ k.removed = "no" => i.id \in editing[r].ids
            /\ l.removed = "no" => j.id \in editing[r].ids
        BY <3>1, <4>1 DEF Decided, Marks, Slot!Live
      <4> QED
        BY <4>1, <4>2 DEF ApprovalInv
    <3> QED
      BY <3>2, <3>3
  <2>6. ASSUME NEW i \in items'
        PROVE  i.file \in Int /\ (i.status = "APPROVED" => i.file = i.judged)
    <3>1. PICK j \in items : Decided(r, i, j)
      BY <2>1
    <3>2. i.file = j.file /\ i.id = j.id
      BY <3>1 DEF Decided, Marks
    <3>3. CASE i.status = j.status /\ i.judged = j.judged
      BY <3>2, <3>3 DEF ApprovalInv
    <3>4. CASE editing[r].step = "verdict" /\ i.id \in editing[r].ids
               /\ i.judged = editing[r].new
      BY <3>2, <3>4 DEF ApprovalInv
    <3> QED
      BY <3>1, <3>3, <3>4 DEF Decided
  <2>7. SlotTyped'
    BY <2>1, <2>2, <2>3 DEF SlotTyped
  <2> QED
    BY <2>1, <2>2, <2>3, <2>4, <2>5, <2>6, <2>7 DEF ApprovalInv
<1> QED
  BY <1>1, <1>2 DEF MarkStep

LEMMA ApprovalByOthers ==
    ASSUME SlotTyped, NEW r, slot.crowd = {r}, ApprovalInv(r), Slot!Dismiss \/ Slot!Expire
    PROVE  SlotTyped' /\ ApprovalInv(r)'
<1>1. /\ UNCHANGED <<slot, event, disk, editing>>
      /\ \A i \in items' : DOMAIN i = Fields /\
            \E j \in items : /\ Marks(i, j) /\ i.status = j.status /\ i.judged = j.judged
                             /\ i.removed = "no" => j.removed = "no"
  BY MarkSteps
<1>2. \A i, j \in items' : i.removed = "no" /\ j.removed = "no" => i.id = j.id
  BY <1>1 DEF ApprovalInv, Marks
<1>3. \A i \in items' : i.file \in Int /\ (i.status = "APPROVED" => i.file = i.judged)
  BY <1>1 DEF ApprovalInv, Marks
<1>4. \A i, j \in items' : i.id = j.id => i.file = j.file
  BY <1>1 DEF ApprovalInv, Marks
<1>5. editing[r].step = "verdict" =>
         \A i \in items' : i.id \in editing[r].ids => i.file = editing[r].new
  BY <1>1 DEF ApprovalInv, Marks
<1> QED
  BY <1>1, <1>2, <1>3, <1>4, <1>5 DEF SlotTyped, ApprovalInv

LEMMA ApprovalStays ==
    ASSUME SlotTyped, NEW r, slot.crowd = {r}, ApprovalInv(r), [Slot!Next]_Slot!vars
    PROVE  SlotTyped' /\ ApprovalInv(r)'
<1>1. CASE UNCHANGED <<slot, items, disk, editing>>
  BY <1>1 DEF SlotTyped, ApprovalInv
<1>2. ASSUME SlotMove(r)
      PROVE  SlotTyped' /\ ApprovalInv(r)'
  BY <1>2, ApprovalSubmitted, ApprovalSaved, ApprovalDeleted, ApprovalMarked DEF SlotMove
<1> QED
  BY <1>1, <1>2, SlotSteps, ApprovalByOthers DEF Slot!vars

(* As long as requests do not overlap, an approved build is the image its  *)
(* reviewer saw, whatever has been submitted, removed and restored since   *)
(* (BuildService.submit and review, ModerationService.restore).            *)
THEOREM ApprovalsCoverTheImage ==
    ASSUME \A s \in Uploads : IsFiniteSet(s.crowd)
    PROVE  Slot!Spec => []ApprovalCoversWhatWasReviewed
<1> DEFINE Inv == /\ slot \in Uploads
                  /\ \A r : slot.crowd = {r} => SlotTyped /\ ApprovalInv(r)
<1>1. Slot!Init => Inv
  <2> SUFFICES ASSUME Slot!Init
               PROVE  Inv
    OBVIOUS
  <2>1. SlotTyped /\ items = {} /\ editing = [r \in slot.crowd |-> Slot!Idle]
    BY SlotBegins
  <2>2. Slot!Idle.step = "idle"
    BY DEF Slot!Idle, Slot!Memory
  <2>3. \A r : slot.crowd = {r} => ApprovalInv(r)
    BY <2>1, <2>2 DEF ApprovalInv
  <2> QED
    BY <2>1, <2>3 DEF Slot!Init
<1>2. Inv /\ [Slot!Next]_Slot!vars => Inv'
  <2> SUFFICES ASSUME Inv, [Slot!Next]_Slot!vars
               PROVE  Inv'
    OBVIOUS
  <2>1. UNCHANGED slot
    BY SameSlot
  <2>2. ASSUME NEW r, slot.crowd = {r}
        PROVE  SlotTyped' /\ ApprovalInv(r)'
    BY <2>2, ApprovalStays
  <2> QED
    BY <2>1, <2>2
<1>3. Inv => ApprovalCoversWhatWasReviewed
  <2> SUFFICES ASSUME Inv, Slot!Cardinality(slot.crowd) = 1
               PROVE  \A i \in items : i.status = "APPROVED" => i.file = i.judged
    BY DEF ApprovalCoversWhatWasReviewed, Slot!ApprovalCoversWhatWasReviewed
  <2>1. Cardinality(slot.crowd) = 1 /\ IsFiniteSet(slot.crowd)
    BY DEF Slot!Cardinality, Cardinality
  <2>2. PICK r : slot.crowd = {r}
    BY <2>1, FS_Singleton
  <2> QED
    BY <2>2 DEF ApprovalInv
<1> QED
  BY <1>1, <1>2, <1>3, PTL DEF Slot!Spec

(***************************************************************************)
(* Guests                                                                  *)
(***************************************************************************)

(* The row a name passes to is new, the one it passes from a guest's whose *)
(* tournaments are finished.                                               *)
LEMMA Naming ==
    ASSUME None \notin Identity, Visitors!MayName, Visitors!Named
    PROVE  /\ DOMAIN user' = Identity /\ holder' = Visitors!Fresh /\ holder' \in Identity
           /\ user[holder'] = "unused" /\ user'[holder'] = "guest"
           /\ \A u \in Identity \ {holder'} :
                 \/ user'[u] = user[u]
                 \/ /\ u = holder /\ user'[u] = "retired" /\ user[u] = "guest"
                    /\ Visitors!Unfinished(u) = {}
<1>1. Visitors!Fresh \in Visitors!Unused
  BY DEF Visitors!MayName, Visitors!Fresh
<1> QED
  BY <1>1 DEF Visitors!Unused, Visitors!MayName, Visitors!Named

LEMMA UsersStay ==
    ASSUME None \notin Identity, DOMAIN user = Identity, [Visitors!Next]_Visitors!vars
    PROVE  /\ DOMAIN user' = Identity
           /\ \A u \in Identity :
                 user[u] = "guest" /\ user'[u] = "retired" => Visitors!Unfinished(u) = {}
<1> USE DEF Visitors!Reads, Visitors!Writes
<1>1. CASE UNCHANGED user
  BY <1>1
<1>2. CASE Visitors!CreateGuestUser
  BY <1>2, Naming DEF Visitors!CreateGuestUser
<1>3. ASSUME NEW r, Visitors!Enter(r)
      PROVE  UNCHANGED user \/ (Visitors!MayName /\ Visitors!Named)
  BY <1>3 DEF Visitors!Enter
<1>4. ASSUME NEW r, Visitors!Convert(r)
      PROVE  UNCHANGED user \/ \E u : user' = [user EXCEPT ![u] = "registered"]
  BY <1>4 DEF Visitors!Convert
<1>5. ASSUME NEW r, Visitors!Retire(r)
      PROVE  UNCHANGED user \/
             \E u : Visitors!Unfinished(u) = {} /\ user' = [user EXCEPT ![u] = "retired"]
  BY <1>5 DEF Visitors!Retire, Visitors!Overdue
<1>6. ASSUME NEW r, Visitors!Delete(r)
      PROVE  \E u : user' = [user EXCEPT ![u] = "deleted"]
  BY <1>6 DEF Visitors!Delete
<1>7. \/ UNCHANGED user \/ Visitors!CreateGuestUser
      \/ \E r : Visitors!Enter(r) \/ Visitors!Convert(r) \/ Visitors!Retire(r) \/ Visitors!Delete(r)
  BY DEF Visitors!Next, Visitors!vars, Visitors!JoinRegistered, Visitors!Start, Visitors!Win,
     Visitors!ResetWin, Visitors!Pass, Visitors!Exclude, Visitors!Include, Visitors!JoinAsGuest,
     Visitors!CompleteTournament, Visitors!Purge, Visitors!DeleteUser, Visitors!ConvertGuest,
     Visitors!Pay
<1>8. ASSUME NEW u, NEW s, s # "retired" \/ Visitors!Unfinished(u) = {},
             user' = [user EXCEPT ![u] = s]
      PROVE  /\ DOMAIN user' = Identity
             /\ \A v \in Identity :
                   user[v] = "guest" /\ user'[v] = "retired" => Visitors!Unfinished(v) = {}
  BY <1>8
<1> QED
  BY <1>1, <1>2, <1>3, <1>4, <1>5, <1>6, <1>7, <1>8, Naming

(* Nobody loses a guest row to a purge or to a reassigned name while a     *)
(* tournament they are in is unfinished, whatever overlaps and whatever is *)
(* reopened: the deadline and the tournaments are read in the transaction  *)
(* that retires (retireGuest).                                             *)
THEOREM EventsKeepTheirGuests ==
    ASSUME None \notin Identity
    PROVE  Visitors!Spec => UnfinishedEventsKeepEntrants
<1> DEFINE Inv == DOMAIN user = Identity
           Kept == \A u \in Identity :
                      user[u] = "guest" /\ user'[u] = "retired" => Visitors!Unfinished(u) = {}
<1>1. Visitors!Init => Inv
  BY DEF Visitors!Init
<1>2. Inv /\ [Visitors!Next]_Visitors!vars => Inv' /\ Kept
  BY UsersStay
<1>3. Visitors!Spec => [][Kept]_Visitors!vars
  BY <1>1, <1>2, PTL DEF Visitors!Spec
<1> QED
  BY <1>3 DEF UnfinishedEventsKeepEntrants, Visitors!UnfinishedEventsKeepEntrants

(* The tournaments in the lifetime of u, and those won and played of them. *)
CountedBy(u) == Visitors!Entered(u) \ {x.tournament : x \in {y \in leftOut : y.user = u}}
WonBy(u) == CountedBy(u) \intersect won
PlayedBy(u) == {t \in CountedBy(u) : phase[t] = "COMPLETED"}

Honoured(u) == \A x \in leftOut : x.user = u => x.finished

Right(u) ==
    user[u] = "registered" /\ Honoured(u) =>
        lifetime[u] = [wins |-> Cardinality(WonBy(u)), played |-> Cardinality(PlayedBy(u))]

(* One request at a time: nothing that it read changes until it writes.    *)
VisitTyped(r) ==
    /\ phase \in [Tournament -> {"OPEN", "ONGOING", "COMPLETED"}] /\ DOMAIN entry = Tournament
    /\ DOMAIN user = Identity /\ DOMAIN lifetime = Identity
    /\ holder \in Identity \union {None}
    /\ DOMAIN visiting = {r}
    /\ visiting[r].step \in {"enter", "pay"} => visiting[r].tournament \in Tournament
    /\ visiting[r].step = "convert" => visiting[r].user \in Identity

VisitInv(r) ==
    LET me == visiting[r] IN
    /\ \A t \in Tournament : t \in won => phase[t] # "OPEN"
    /\ \A x \in leftOut : /\ user[x.user] \in {"registered", "deleted"}
                          /\ x.user \in Identity
                          /\ x.finished => phase[x.tournament] = "COMPLETED"
    /\ me.step = "pay" =>
          /\ phase[me.tournament] = "ONGOING"
          /\ me.paid <=> entry[me.tournament] # None /\ user[entry[me.tournament]] = "registered"
    /\ \A u \in Identity : Right(u)

LEMMA LifetimeIs ==
    ASSUME NEW u, NEW w \in Int, NEW p, user[u] = "registered", u # None,
           DOMAIN lifetime = Identity, u \in Identity, lifetime[u].wins + w \in Nat
    PROVE  LET now == Visitors!Lifetime(u, w, p) IN
           /\ DOMAIN now = Identity
           /\ now[u] = [wins |-> lifetime[u].wins + w, played |-> lifetime[u].played + p]
           /\ \A v \in Identity : v # u => now[v] = lifetime[v]
<1>1. Visitors!Max({0, lifetime[u].wins + w}) = lifetime[u].wins + w
  BY DEF Visitors!Max
<1> QED
  BY <1>1 DEF Visitors!Lifetime

(* A step that touches nobody's results.                                   *)
LEMMA NothingCounted ==
    ASSUME NEW u, Right(u),
           user'[u] = "registered" /\ Honoured(u)' =>
              /\ user[u] = "registered" /\ Honoured(u) /\ lifetime'[u] = lifetime[u]
              /\ WonBy(u)' = WonBy(u) /\ PlayedBy(u)' = PlayedBy(u)
    PROVE  Right(u)'
  BY DEF Right

LEMMA NameGiven ==
    ASSUME None \notin Identity, NEW r, VisitTyped(r), VisitInv(r),
           Visitors!MayName, Visitors!Named, UNCHANGED <<phase, won, lifetime, leftOut>>,
           DOMAIN entry' = Tournament,
           \A t \in Tournament : entry'[t] = entry[t] \/ (entry[t] = None /\ entry'[t] = holder'),
           DOMAIN visiting' = {r}, visiting'[r].step = "idle"
    PROVE  VisitTyped(r)' /\ VisitInv(r)'
<1>1. /\ DOMAIN user' = Identity /\ holder' \in Identity
      /\ user[holder'] = "unused" /\ user'[holder'] = "guest"
      /\ \A u \in Identity \ {holder'} :
            \/ user'[u] = user[u]
            \/ user'[u] = "retired" /\ user[u] = "guest"
  BY Naming
<1>2. ASSUME NEW u \in Identity
      PROVE  Right(u)'
  <2>1. CASE user'[u] # "registered"
    BY <2>1 DEF Right
  <2>2. CASE user'[u] = "registered"
    <3>1. u # holder' /\ u # None /\ user[u] = "registered"
      BY <1>1, <2>2
    <3>2. \A t \in Tournament : entry'[t] = u <=> entry[t] = u
      BY <3>1
    <3>3. Visitors!Entered(u)' = Visitors!Entered(u)
      BY <3>2 DEF Visitors!Entered
    <3>4. WonBy(u)' = WonBy(u) /\ PlayedBy(u)' = PlayedBy(u) /\ Honoured(u)' = Honoured(u)
      BY <3>3 DEF WonBy, PlayedBy, CountedBy, Honoured
    <3> QED
      BY <3>1, <3>4, NothingCounted DEF VisitInv
  <2> QED
    BY <2>1, <2>2
<1>3. \A x \in leftOut' : /\ user'[x.user] \in {"registered", "deleted"}
                          /\ x.user \in Identity
                          /\ x.finished => phase'[x.tournament] = "COMPLETED"
  BY <1>1 DEF VisitInv
<1>4. VisitTyped(r)'
  BY <1>1 DEF VisitTyped
<1> QED
  BY <1>2, <1>3, <1>4 DEF VisitInv

(* Steps that leave results and rows alone.                                *)
LEMMA OnlyRead ==
    ASSUME NEW r, VisitTyped(r), VisitInv(r),
           UNCHANGED <<phase, entry, won, user, holder, lifetime, leftOut>>,
           DOMAIN visiting' = {r},
           \/ visiting' = visiting
           \/ visiting'[r].step \in {"idle", "retire", "delete"}
           \/ visiting'[r].step = "convert" /\ visiting'[r].user \in Identity
           \/ visiting'[r].step = "enter" /\ visiting'[r].tournament \in Tournament
           \/ /\ visiting'[r].step = "pay" /\ visiting'[r].tournament \in Tournament
              /\ phase[visiting'[r].tournament] = "ONGOING"
              /\ visiting'[r].paid <=> /\ entry[visiting'[r].tournament] # None
                                       /\ user[entry[visiting'[r].tournament]] = "registered"
    PROVE  VisitTyped(r)' /\ VisitInv(r)'
<1>1. \A u \in Identity : Right(u)'
  BY DEF VisitInv, Right, WonBy, PlayedBy, CountedBy, Honoured, Visitors!Entered
<1>2. VisitTyped(r)'
  BY DEF VisitTyped
<1> QED
  BY <1>1, <1>2 DEF VisitInv

LEMMA CountsAreFinite ==
    ASSUME IsFiniteSet(Tournament), NEW u
    PROVE  /\ IsFiniteSet(WonBy(u)) /\ Cardinality(WonBy(u)) \in Nat
           /\ IsFiniteSet(PlayedBy(u)) /\ Cardinality(PlayedBy(u)) \in Nat
           /\ WonBy(u) \subseteq Tournament /\ PlayedBy(u) \subseteq Tournament
<1>1. WonBy(u) \subseteq Tournament /\ PlayedBy(u) \subseteq Tournament
  BY DEF WonBy, PlayedBy, CountedBy, Visitors!Entered
<1>2. IsFiniteSet(WonBy(u)) /\ IsFiniteSet(PlayedBy(u))
  BY <1>1, FS_Subset
<1> QED
  BY <1>1, <1>2, FS_CardinalityType

(* A tournament that is not over is counted for whoever is entered in it   *)
(* and honoured.                                                           *)
LEMMA StillCounted ==
    ASSUME NEW r, VisitInv(r), NEW t \in Tournament, phase[t] # "COMPLETED", Honoured(entry[t])
    PROVE  t \in CountedBy(entry[t])
  BY DEF VisitInv, Honoured, CountedBy, Visitors!Entered

(* A result of t is recorded or reset.                                     *)
LEMMA ResultCounted ==
    ASSUME None \notin Identity, IsFiniteSet(Tournament), NEW r, VisitTyped(r), VisitInv(r),
           NEW t \in Tournament, phase[t] = "ONGOING", visiting[r].step = "idle",
           UNCHANGED <<phase, entry, user, holder, leftOut, visiting>>,
           \/ /\ t \notin won /\ won' = won \union {t}
              /\ lifetime' = Visitors!Lifetime(entry[t], 1, 0)
           \/ /\ t \in won /\ won' = won \ {t}
              /\ lifetime' = Visitors!Lifetime(entry[t], 0 - 1, 0)
    PROVE  VisitTyped(r)' /\ VisitInv(r)'
<1>1. ASSUME NEW u \in Identity
      PROVE  /\ CountedBy(u)' = CountedBy(u) /\ PlayedBy(u)' = PlayedBy(u)
             /\ Honoured(u)' = Honoured(u) /\ user'[u] = user[u]
  BY DEF CountedBy, PlayedBy, Honoured, Visitors!Entered
<1>2. ASSUME NEW u \in Identity, u # entry[t]
      PROVE  WonBy(u)' = WonBy(u)
  <2>1. t \notin CountedBy(u)
    BY <1>2 DEF CountedBy, Visitors!Entered
  <2> QED
    BY <1>1, <2>1 DEF WonBy
<1>3. DOMAIN lifetime' = Identity /\ \A v \in Identity : v # entry[t] => lifetime'[v] = lifetime[v]
  BY DEF Visitors!Lifetime, VisitTyped
<1>4. ASSUME NEW u \in Identity, u = entry[t], user[u] = "registered", Honoured(u)
      PROVE  Right(u)'
  <2>1. PICK now, played : now = Cardinality(WonBy(u)) /\ played = Cardinality(PlayedBy(u))
    OBVIOUS
  <2>2. /\ now \in Nat /\ played \in Nat /\ IsFiniteSet(WonBy(u))
        /\ lifetime[u] = [wins |-> now, played |-> played]
    BY <1>4, <2>1, CountsAreFinite DEF VisitInv, Right
  <2>3. t \in CountedBy(u) /\ u # None
    BY <1>4, StillCounted
  <2>4. CASE t \notin won /\ won' = won \union {t}
             /\ lifetime' = Visitors!Lifetime(entry[t], 1, 0)
    <3>1. WonBy(u)' = WonBy(u) \union {t} /\ t \notin WonBy(u)
      BY <1>1, <2>3, <2>4 DEF WonBy
    <3>2. Cardinality(WonBy(u)') = now + 1
      BY <2>1, <2>2, <3>1, FS_AddElement
    <3>3. lifetime'[u] = [wins |-> now + 1, played |-> played]
      BY <1>4, <2>2, <2>3, <2>4, LifetimeIs DEF VisitTyped
    <3> QED
      BY <1>1, <2>1, <3>2, <3>3 DEF Right
  <2>5. CASE t \in won /\ won' = won \ {t} /\ lifetime' = Visitors!Lifetime(entry[t], 0 - 1, 0)
    <3>1. WonBy(u)' = WonBy(u) \ {t} /\ t \in WonBy(u)
      BY <1>1, <2>3, <2>5 DEF WonBy
    <3>2. Cardinality(WonBy(u)') = now - 1
      BY <2>1, <2>2, <3>1, FS_RemoveElement
    <3>3. now - 1 \in Nat
      <4>1. now # 0
        BY <2>1, <2>2, <3>1, FS_EmptySet
      <4> QED
        BY <2>2, <4>1
    <3>4. lifetime'[u] = [wins |-> now - 1, played |-> played]
      BY <1>4, <2>2, <2>3, <2>5, <3>3, LifetimeIs DEF VisitTyped
    <3> QED
      BY <1>1, <2>1, <3>2, <3>4 DEF Right
  <2> QED
    BY <2>4, <2>5
<1>5. ASSUME NEW u \in Identity
      PROVE  Right(u)'
  <2>1. CASE u = entry[t]
    BY <1>1, <1>4, <2>1 DEF Right
  <2>2. CASE u # entry[t]
    BY <1>1, <1>2, <1>3, <2>2, NothingCounted DEF VisitInv
  <2> QED
    BY <2>1, <2>2
<1>6. VisitTyped(r)'
  BY <1>3 DEF VisitTyped
<1>7. \A x \in Tournament : x \in won' => phase'[x] # "OPEN"
  BY DEF VisitInv
<1> QED
  BY <1>5, <1>6, <1>7 DEF VisitInv

(* A tournament is over and its entrant, if registered, is paid.           *)
LEMMA PlayedCounted ==
    ASSUME None \notin Identity, IsFiniteSet(Tournament), NEW r, VisitTyped(r), VisitInv(r),
           Visitors!Pay(r)
    PROVE  VisitTyped(r)' /\ VisitInv(r)'
<1>1. PICK t, paid : t = visiting[r].tournament /\ paid = visiting[r].paid
  OBVIOUS
<1>2. /\ t \in Tournament /\ phase[t] = "ONGOING" /\ visiting[r].step = "pay"
      /\ paid <=> entry[t] # None /\ user[entry[t]] = "registered"
  BY <1>1 DEF VisitTyped, VisitInv, Visitors!Pay, Visitors!Writes
<1>3. /\ UNCHANGED <<entry, won, user, holder, leftOut>>
      /\ phase' = [phase EXCEPT ![t] = "COMPLETED"]
      /\ visiting' = [visiting EXCEPT ![r] = Visitors!Idle]
      /\ lifetime' = IF paid THEN Visitors!Lifetime(entry[t], 0, 1) ELSE lifetime
  BY <1>1 DEF Visitors!Pay, Visitors!Writes
<1>4. Visitors!Idle.step = "idle"
  BY DEF Visitors!Idle
<1>5. /\ DOMAIN phase' = Tournament /\ phase'[t] = "COMPLETED"
      /\ \A x \in Tournament : x # t => phase'[x] = phase[x]
  BY <1>2, <1>3 DEF VisitTyped
<1>6. ASSUME NEW u \in Identity
      PROVE  /\ CountedBy(u)' = CountedBy(u) /\ WonBy(u)' = WonBy(u)
             /\ Honoured(u)' = Honoured(u) /\ user'[u] = user[u]
  BY <1>3 DEF CountedBy, WonBy, Honoured, Visitors!Entered
<1>7. DOMAIN lifetime' = Identity /\ \A v \in Identity : v # entry[t] => lifetime'[v] = lifetime[v]
  BY <1>3 DEF Visitors!Lifetime, VisitTyped
<1>8. ASSUME NEW u \in Identity, u # entry[t]
      PROVE  PlayedBy(u)' = PlayedBy(u)
  <2>1. CountedBy(u) \subseteq Tournament /\ t \notin CountedBy(u)
    BY <1>8 DEF CountedBy, Visitors!Entered
  <2> QED
    BY <1>5, <1>6, <2>1 DEF PlayedBy
<1>9. ASSUME NEW u \in Identity, u = entry[t], user[u] = "registered", Honoured(u)
      PROVE  Right(u)'
  <2>1. PICK wins, now : wins = Cardinality(WonBy(u)) /\ now = Cardinality(PlayedBy(u))
    OBVIOUS
  <2>2. /\ now \in Nat /\ wins \in Nat /\ IsFiniteSet(PlayedBy(u))
        /\ lifetime[u] = [wins |-> wins, played |-> now]
    BY <1>9, <2>1, CountsAreFinite DEF VisitInv, Right
  <2>3. t \in CountedBy(u) /\ u # None
    BY <1>2, <1>9, StillCounted
  <2>4. PlayedBy(u)' = PlayedBy(u) \union {t} /\ t \notin PlayedBy(u)
    <3>1. CountedBy(u) \subseteq Tournament
      BY DEF CountedBy, Visitors!Entered
    <3> QED
      BY <1>2, <1>5, <1>6, <2>3, <3>1 DEF PlayedBy
  <2>5. Cardinality(PlayedBy(u)') = now + 1
    BY <2>1, <2>2, <2>4, FS_AddElement
  <2>6. lifetime' = Visitors!Lifetime(u, 0, 1)
    BY <1>2, <1>3, <1>9, <2>3
  <2>7. lifetime'[u] = [wins |-> wins, played |-> now + 1]
    <3>1. lifetime[u].wins + 0 \in Nat /\ lifetime[u].wins + 0 = wins /\ lifetime[u].played = now
      BY <2>2
    <3>2. DOMAIN lifetime = Identity
      BY DEF VisitTyped
    <3> QED
      BY <1>9, <2>3, <2>6, <3>1, <3>2, LifetimeIs
  <2> QED
    BY <1>6, <2>1, <2>5, <2>7 DEF Right
<1>10. ASSUME NEW u \in Identity
       PROVE  Right(u)'
  <2>1. CASE u = entry[t]
    BY <1>6, <1>9, <2>1 DEF Right
  <2>2. CASE u # entry[t]
    BY <1>6, <1>7, <1>8, <2>2, NothingCounted DEF VisitInv
  <2> QED
    BY <2>1, <2>2
<1>11. VisitTyped(r)'
  BY <1>3, <1>4, <1>5, <1>7 DEF VisitTyped
<1>12. \A x \in Tournament : x \in won' => phase'[x] # "OPEN"
  BY <1>3, <1>5 DEF VisitInv
<1>13. \A x \in leftOut' : /\ user'[x.user] \in {"registered", "deleted"}
                           /\ x.user \in Identity
                           /\ x.finished => phase'[x.tournament] = "COMPLETED"
  BY <1>2, <1>3 DEF VisitInv
<1>14. visiting'[r].step # "pay"
  BY <1>3, <1>4 DEF VisitTyped
<1> QED
  BY <1>10, <1>11, <1>12, <1>13, <1>14 DEF VisitInv

(* A claim counts the history, and leaves out what is excluded.            *)
LEMMA Claimed ==
    ASSUME None \notin Identity, NEW r, VisitTyped(r), VisitInv(r), Visitors!Convert(r)
    PROVE  VisitTyped(r)' /\ VisitInv(r)'
<1>1. PICK u : u = visiting[r].user
  OBVIOUS
<1>2. /\ u \in Identity /\ visiting' = [visiting EXCEPT ![r] = Visitors!Idle]
      /\ UNCHANGED <<phase, entry, won, excluded>>
  BY <1>1 DEF VisitTyped, Visitors!Convert, Visitors!Writes
<1>3. Visitors!Idle.step = "idle"
  BY DEF Visitors!Idle
<1>4. CASE ~Visitors!Claimable(u)
  <2>1. UNCHANGED <<user, holder, lifetime, leftOut>>
    BY <1>1, <1>4 DEF Visitors!Convert
  <2>2. DOMAIN visiting' = {r} /\ visiting'[r].step = "idle"
    BY <1>2, <1>3 DEF VisitTyped
  <2> QED
    BY <1>2, <2>1, <2>2, OnlyRead
<1>5. CASE Visitors!Claimable(u)
  <2>1. PICK gone : gone = {[user |-> u, tournament |-> t, finished |-> phase[t] = "COMPLETED"]
                               : t \in Visitors!Entered(u) \intersect excluded}
    OBVIOUS
  <2>2. /\ user' = [user EXCEPT ![u] = "registered"] /\ user[u] = "guest"
        /\ holder' = holder \/ holder' = None
        /\ lifetime' = [lifetime EXCEPT ![u] = Visitors!History(u)]
        /\ leftOut' = leftOut \union gone
    BY <1>1, <1>5, <2>1 DEF Visitors!Convert, Visitors!Claimable
  <2> DEFINE Left(t) == [user |-> u, tournament |-> t, finished |-> phase[t] = "COMPLETED"]
  <2>11. \A t : /\ Left(t).user = u /\ Left(t).tournament = t
                /\ Left(t).finished => phase[t] = "COMPLETED"
    OBVIOUS
  <2>12. gone = {Left(t) : t \in Visitors!Entered(u) \intersect excluded}
    BY <2>1
  <2> HIDE <2>1 DEF Left
  <2>3. \A x \in gone : x.user = u /\ (x.finished => phase[x.tournament] = "COMPLETED")
    BY <2>11, <2>12
  <2>4. \A x \in leftOut : x.user # u
    BY <2>2 DEF VisitInv
  <2>5. ASSUME NEW v \in Identity, v # u
        PROVE  Right(v)'
    <3>1. \A x : x \in leftOut' /\ x.user = v <=> x \in leftOut /\ x.user = v
      BY <2>2, <2>3, <2>5
    <3>2. {x \in leftOut' : x.user = v} = {x \in leftOut : x.user = v}
      BY <3>1
    <3>3. {x.tournament : x \in {y \in leftOut' : y.user = v}}
             = {x.tournament : x \in {y \in leftOut : y.user = v}}
      BY <3>2
    <3>4. CountedBy(v)' = CountedBy(v)
      BY <1>2, <3>3 DEF CountedBy, Visitors!Entered
    <3>5. WonBy(v)' = WonBy(v) /\ PlayedBy(v)' = PlayedBy(v) /\ Honoured(v)' = Honoured(v)
      BY <1>2, <3>1, <3>4 DEF WonBy, PlayedBy, Honoured
    <3>6. user'[v] = user[v] /\ lifetime'[v] = lifetime[v]
      BY <2>2, <2>5 DEF VisitTyped
    <3> QED
      BY <3>5, <3>6, NothingCounted DEF VisitInv
  <2>6. Right(u)'
    <3>1. {x.tournament : x \in {y \in leftOut' : y.user = u}}
             = Visitors!Entered(u) \intersect excluded
      <4>1. \A x : x \in leftOut' /\ x.user = u <=> x \in gone
        BY <2>2, <2>3, <2>4
      <4>2. {y \in leftOut' : y.user = u} = gone
        BY <4>1
      <4>3. {x.tournament : x \in gone} = Visitors!Entered(u) \intersect excluded
        BY <2>11, <2>12
      <4> QED
        BY <4>2, <4>3
    <3>2. CountedBy(u)' = Visitors!Entered(u) \ excluded
      BY <1>2, <3>1 DEF CountedBy, Visitors!Entered
    <3>3. /\ WonBy(u)' = (Visitors!Entered(u) \ excluded) \intersect won
          /\ PlayedBy(u)' = {t \in Visitors!Entered(u) \ excluded : phase[t] = "COMPLETED"}
      BY <1>2, <3>2 DEF WonBy, PlayedBy
    <3>4. Visitors!History(u) = [wins |-> Cardinality(WonBy(u)'),
                                 played |-> Cardinality(PlayedBy(u)')]
      BY <3>3 DEF Visitors!History, Visitors!Cardinality, Cardinality
    <3>5. lifetime'[u] = Visitors!History(u)
      BY <1>2, <2>2 DEF VisitTyped
    <3> QED
      BY <3>4, <3>5 DEF Right
  <2>7. VisitTyped(r)'
    BY <1>2, <1>3, <2>2 DEF VisitTyped
  <2>8. visiting'[r].step = "idle"
    BY <1>2, <1>3 DEF VisitTyped
  <2>9. \A x \in leftOut' : /\ user'[x.user] \in {"registered", "deleted"}
                            /\ x.user \in Identity
                            /\ x.finished => phase'[x.tournament] = "COMPLETED"
    <3>1. user'[u] = "registered" /\ \A v \in Identity : v # u => user'[v] = user[v]
      BY <1>2, <2>2 DEF VisitTyped
    <3> QED
      BY <1>2, <2>2, <2>3, <2>4, <3>1 DEF VisitInv
  <2>10. \A t \in Tournament : t \in won' => phase'[t] # "OPEN"
    BY <1>2 DEF VisitInv
  <2> QED
    BY <2>5, <2>6, <2>7, <2>8, <2>9, <2>10 DEF VisitInv
<1> QED
  BY <1>4, <1>5

(* A row goes, by the purge or by an administrator.                        *)
LEMMA RowGone ==
    ASSUME None \notin Identity, NEW r, VisitTyped(r), VisitInv(r),
           Visitors!Retire(r) \/ Visitors!Delete(r)
    PROVE  VisitTyped(r)' /\ VisitInv(r)'
<1>1. PICK u : u = visiting[r].user
  OBVIOUS
<1>2. /\ visiting' = [visiting EXCEPT ![r] = Visitors!Idle]
      /\ UNCHANGED <<phase, won, lifetime, leftOut>>
  BY DEF Visitors!Retire, Visitors!Delete, Visitors!Writes
<1>3. DOMAIN visiting' = {r} /\ visiting'[r].step = "idle"
  BY <1>2 DEF VisitTyped, Visitors!Idle
<1>4. CASE Visitors!Retire(r)
  <2>1. \/ UNCHANGED <<user, holder, entry>>
        \/ /\ user[u] = "guest" /\ user' = [user EXCEPT ![u] = "retired"]
           /\ holder' = None /\ UNCHANGED entry
    BY <1>1, <1>4 DEF Visitors!Retire
  <2>2. CASE UNCHANGED <<user, holder, entry>>
    BY <1>2, <1>3, <2>2, OnlyRead
  <2>3. CASE user[u] = "guest" /\ user' = [user EXCEPT ![u] = "retired"] /\ holder' = None
             /\ UNCHANGED entry
    <3>1. \A v \in Identity : user'[v] = user[v] \/ (user[v] = "guest" /\ user'[v] = "retired")
      BY <2>3 DEF VisitTyped
    <3>2. ASSUME NEW v \in Identity
          PROVE  Right(v)'
      <4>1. WonBy(v)' = WonBy(v) /\ PlayedBy(v)' = PlayedBy(v) /\ Honoured(v)' = Honoured(v)
        BY <1>2, <2>3 DEF WonBy, PlayedBy, CountedBy, Honoured, Visitors!Entered
      <4> QED
        BY <1>2, <3>1, <4>1, NothingCounted DEF VisitInv
    <3>3. \A x \in leftOut' : /\ user'[x.user] \in {"registered", "deleted"}
                              /\ x.user \in Identity
                              /\ x.finished => phase'[x.tournament] = "COMPLETED"
      BY <1>2, <3>1 DEF VisitInv
    <3>4. VisitTyped(r)'
      BY <1>2, <1>3, <2>3 DEF VisitTyped
    <3> QED
      BY <1>2, <1>3, <3>2, <3>3, <3>4 DEF VisitInv
  <2> QED
    BY <2>1, <2>2, <2>3
<1>5. CASE Visitors!Delete(r)
  <2>1. /\ user' = [user EXCEPT ![u] = "deleted"]
        /\ holder' = holder \/ holder' = None
        /\ entry' = [t \in Tournament |-> IF entry[t] = u THEN None ELSE entry[t]]
    BY <1>1, <1>5 DEF Visitors!Delete
  <2>2. \A v \in Identity : user'[v] = user[v] \/ (v = u /\ user'[v] = "deleted")
    BY <2>1 DEF VisitTyped
  <2>3. ASSUME NEW v \in Identity
        PROVE  Right(v)'
    <3>1. CASE user'[v] # "registered"
      BY <3>1 DEF Right
    <3>2. CASE user'[v] = "registered"
      <4>1. v # u /\ v # None
        BY <2>1, <3>2 DEF VisitTyped
      <4>2. \A t \in Tournament : entry'[t] = v <=> entry[t] = v
        BY <2>1, <4>1
      <4>3. Visitors!Entered(v)' = Visitors!Entered(v)
        BY <4>2 DEF Visitors!Entered
      <4>4. WonBy(v)' = WonBy(v) /\ PlayedBy(v)' = PlayedBy(v) /\ Honoured(v)' = Honoured(v)
        BY <1>2, <4>3 DEF WonBy, PlayedBy, CountedBy, Honoured
      <4> QED
        BY <1>2, <2>2, <3>2, <4>1, <4>4, NothingCounted DEF VisitInv
    <3> QED
      BY <3>1, <3>2
  <2>4. \A x \in leftOut' : /\ user'[x.user] \in {"registered", "deleted"}
                            /\ x.user \in Identity
                            /\ x.finished => phase'[x.tournament] = "COMPLETED"
    BY <1>2, <2>2 DEF VisitInv
  <2>5. VisitTyped(r)'
    BY <1>2, <1>3, <2>1 DEF VisitTyped
  <2> QED
    BY <1>2, <1>3, <2>3, <2>4, <2>5 DEF VisitInv
<1> QED
  BY <1>4, <1>5

LEMMA OneVisitor ==
    ASSUME NEW r, VisitTyped(r), visit.crowd = {r}, Visitors!Free
    PROVE  visiting[r] = Visitors!Idle /\ visiting[r].step = "idle"
  BY DEF Visitors!Free, Visitors!Idle

(* What happens to a tournament.                                           *)
LEMMA TournamentGoesOn ==
    ASSUME None \notin Identity, IsFiniteSet(Tournament), NEW r, VisitTyped(r), VisitInv(r),
           visit.crowd = {r}, ~visit.reopens, NEW t \in Tournament,
           \/ Visitors!JoinRegistered(t) \/ Visitors!Start(t) \/ Visitors!Win(t)
           \/ Visitors!ResetWin(t) \/ Visitors!Pass(t) \/ Visitors!Exclude(t)
           \/ Visitors!Include(t)
    PROVE  VisitTyped(r)' /\ VisitInv(r)'
<1>1. CASE Visitors!Pass(t) \/ Visitors!Exclude(t) \/ Visitors!Include(t)
  <2>1. UNCHANGED <<phase, entry, won, user, holder, lifetime, leftOut, visiting>>
    BY <1>1 DEF Visitors!Pass, Visitors!Exclude, Visitors!Include
  <2>2. DOMAIN visiting' = {r}
    BY <2>1 DEF VisitTyped
  <2> QED
    BY <2>1, <2>2, OnlyRead
<1>2. CASE Visitors!Win(t)
  BY <1>2, OneVisitor, ResultCounted DEF Visitors!Win
<1>3. CASE Visitors!ResetWin(t)
  <2>1. visiting[r].step = "idle" /\ phase[t] = "ONGOING"
    BY <1>3, OneVisitor DEF Visitors!ResetWin
  <2>2. phase' = phase
    BY <1>3, <2>1 DEF Visitors!ResetWin, VisitTyped
  <2> QED
    BY <1>3, <2>1, <2>2, ResultCounted DEF Visitors!ResetWin
<1>4. CASE Visitors!Start(t)
  <2>1. /\ phase' = [phase EXCEPT ![t] = "ONGOING"] /\ phase[t] = "OPEN"
        /\ UNCHANGED <<entry, won, user, holder, lifetime, leftOut, visiting>>
        /\ visiting[r].step = "idle"
    BY <1>4, OneVisitor DEF Visitors!Start
  <2>2. /\ DOMAIN phase' = Tournament
        /\ \A x \in Tournament : \/ phase'[x] = phase[x]
                                 \/ phase[x] = "OPEN" /\ phase'[x] = "ONGOING"
    BY <2>1 DEF VisitTyped
  <2>3. ASSUME NEW u \in Identity
        PROVE  Right(u)'
    <3>1. CountedBy(u)' = CountedBy(u) /\ CountedBy(u) \subseteq Tournament
      BY <2>1 DEF CountedBy, Visitors!Entered
    <3>2. WonBy(u)' = WonBy(u) /\ PlayedBy(u)' = PlayedBy(u) /\ Honoured(u)' = Honoured(u)
      BY <2>1, <2>2, <3>1 DEF WonBy, PlayedBy, Honoured
    <3> QED
      BY <2>1, <3>2, NothingCounted DEF VisitInv
  <2>4. \A x \in leftOut' : /\ user'[x.user] \in {"registered", "deleted"}
                            /\ x.user \in Identity
                            /\ x.finished => phase'[x.tournament] = "COMPLETED"
    BY <2>1 DEF VisitInv
  <2>5. \A x \in Tournament : x \in won' => phase'[x] # "OPEN"
    BY <2>1, <2>2 DEF VisitInv
  <2>6. VisitTyped(r)'
    BY <2>1, <2>2 DEF VisitTyped
  <2> QED
    BY <2>1, <2>3, <2>4, <2>5, <2>6 DEF VisitInv
<1>5. CASE Visitors!JoinRegistered(t)
  <2>1. /\ entry' = [entry EXCEPT ![t] = holder] /\ entry[t] = None /\ phase[t] = "OPEN"
        /\ UNCHANGED <<phase, won, user, holder, lifetime, leftOut, visiting>>
        /\ visiting[r].step = "idle" /\ holder \in Identity
    BY <1>5, OneVisitor DEF Visitors!JoinRegistered, VisitTyped
  <2>2. t \notin won
    BY <2>1 DEF VisitInv
  <2>3. ASSUME NEW u \in Identity
        PROVE  Right(u)'
    <3>1. \A x : x # t => (x \in Visitors!Entered(u)' <=> x \in Visitors!Entered(u))
      BY <2>1 DEF Visitors!Entered, VisitTyped
    <3>2. \A x : x # t => (x \in CountedBy(u)' <=> x \in CountedBy(u))
      BY <2>1, <3>1 DEF CountedBy
    <3>3. WonBy(u)' = WonBy(u) /\ PlayedBy(u)' = PlayedBy(u) /\ Honoured(u)' = Honoured(u)
      BY <2>1, <2>2, <3>2 DEF WonBy, PlayedBy, Honoured
    <3> QED
      BY <2>1, <3>3, NothingCounted DEF VisitInv
  <2>4. VisitTyped(r)'
    BY <2>1 DEF VisitTyped
  <2> QED
    BY <2>1, <2>3, <2>4 DEF VisitInv
<1> QED
  BY <1>1, <1>2, <1>3, <1>4, <1>5

(* A request reads; nobody else is under way.                              *)
LEMMA VisitorReads ==
    ASSUME NEW r, VisitTyped(r), VisitInv(r),
           \/ \E t \in Tournament : Visitors!JoinAsGuest(r, t) \/ Visitors!CompleteTournament(r, t)
           \/ \E u \in Identity : \/ Visitors!Purge(r, u) \/ Visitors!DeleteUser(r, u)
                                  \/ \E keeps \in BOOLEAN : Visitors!ConvertGuest(r, u, keeps)
    PROVE  VisitTyped(r)' /\ VisitInv(r)'
<1>1. ASSUME NEW memory, Visitors!Reads(r, memory)
      PROVE  /\ UNCHANGED <<phase, entry, won, user, holder, lifetime, leftOut>>
             /\ DOMAIN visiting' = {r} /\ visiting'[r] = memory
  BY <1>1 DEF Visitors!Reads, VisitTyped
<1>2. ASSUME NEW t \in Tournament, Visitors!JoinAsGuest(r, t)
      PROVE  VisitTyped(r)' /\ VisitInv(r)'
  <2>1. Visitors!Reads(r, [step |-> "enter", tournament |-> t])
    BY <1>2 DEF Visitors!JoinAsGuest
  <2>2. visiting'[r].step = "enter" /\ visiting'[r].tournament = t
    BY <1>1, <2>1
  <2> QED
    BY <1>1, <2>1, <2>2, OnlyRead
<1>3. ASSUME NEW t \in Tournament, Visitors!CompleteTournament(r, t)
      PROVE  VisitTyped(r)' /\ VisitInv(r)'
  <2>1. PICK paid : paid = (entry[t] # None /\ user[entry[t]] = "registered")
    OBVIOUS
  <2>2. Visitors!Reads(r, [step |-> "pay", tournament |-> t, paid |-> paid]) /\ phase[t] = "ONGOING"
    BY <1>3, <2>1 DEF Visitors!CompleteTournament
  <2>3. visiting'[r].step = "pay" /\ visiting'[r].tournament = t /\ visiting'[r].paid = paid
    BY <1>1, <2>2
  <2>4. visiting'[r].paid <=> entry[t] # None /\ user[entry[t]] = "registered"
    BY <2>1, <2>3
  <2> QED
    BY <1>1, <2>2, <2>3, <2>4, OnlyRead
<1>4. ASSUME NEW u \in Identity, Visitors!Purge(r, u) \/ Visitors!DeleteUser(r, u)
      PROVE  VisitTyped(r)' /\ VisitInv(r)'
  <2>1. PICK step \in {"retire", "delete"} : Visitors!Reads(r, [step |-> step, user |-> u])
    BY <1>4 DEF Visitors!Purge, Visitors!DeleteUser
  <2>2. visiting'[r].step = step
    BY <1>1, <2>1
  <2> QED
    BY <1>1, <2>1, <2>2, OnlyRead
<1>5. ASSUME NEW u \in Identity, NEW keeps, Visitors!ConvertGuest(r, u, keeps)
      PROVE  VisitTyped(r)' /\ VisitInv(r)'
  <2>1. Visitors!Reads(r, [step |-> "convert", user |-> u, keeps |-> keeps])
    BY <1>5 DEF Visitors!ConvertGuest
  <2>2. visiting'[r].step = "convert" /\ visiting'[r].user = u
    BY <1>1, <2>1
  <2> QED
    BY <1>1, <2>1, <2>2, OnlyRead
<1> QED
  BY <1>2, <1>3, <1>4, <1>5

(* The name is given to somebody new.                                      *)
LEMMA VisitorNamed ==
    ASSUME None \notin Identity, NEW r, VisitTyped(r), VisitInv(r), visit.crowd = {r},
           Visitors!CreateGuestUser \/ Visitors!Enter(r)
    PROVE  VisitTyped(r)' /\ VisitInv(r)'
<1>1. CASE Visitors!CreateGuestUser
  <2>1. /\ Visitors!MayName /\ Visitors!Named
        /\ UNCHANGED <<phase, entry, won, lifetime, leftOut, visiting>>
        /\ visiting[r].step = "idle"
    BY <1>1, OneVisitor DEF Visitors!CreateGuestUser
  <2>2. DOMAIN entry' = Tournament /\ DOMAIN visiting' = {r} /\ visiting'[r].step = "idle"
    BY <2>1 DEF VisitTyped
  <2> QED
    BY <2>1, <2>2, NameGiven
<1>2. CASE Visitors!Enter(r)
  <2>1. PICK t : t = visiting[r].tournament
    OBVIOUS
  <2>2. /\ UNCHANGED <<phase, won, lifetime, leftOut>>
        /\ DOMAIN visiting' = {r} /\ visiting'[r].step = "idle"
    BY <1>2 DEF Visitors!Enter, Visitors!Writes, Visitors!Idle, VisitTyped
  <2>3. CASE ~(entry[t] = None /\ Visitors!MayName)
    <3>1. UNCHANGED <<entry, user, holder>>
      BY <1>2, <2>1, <2>3 DEF Visitors!Enter
    <3> QED
      BY <2>2, <3>1, OnlyRead
  <2>4. CASE entry[t] = None /\ Visitors!MayName
    <3>1. Visitors!Named /\ entry' = [entry EXCEPT ![t] = Visitors!Fresh]
      BY <1>2, <2>1, <2>4 DEF Visitors!Enter
    <3>2. /\ DOMAIN entry' = Tournament
          /\ \A x \in Tournament : \/ entry'[x] = entry[x]
                                   \/ entry[x] = None /\ entry'[x] = holder'
      BY <2>4, <3>1 DEF VisitTyped, Visitors!Named
    <3> QED
      BY <2>2, <2>4, <3>1, <3>2, NameGiven
  <2> QED
    BY <2>3, <2>4
<1> QED
  BY <1>1, <1>2

LEMMA VisitStays ==
    ASSUME None \notin Identity, IsFiniteSet(Tournament), NEW r, VisitTyped(r), VisitInv(r),
           visit.crowd = {r}, ~visit.reopens, visit.tournaments \subseteq Tournament,
           [Visitors!Next]_Visitors!vars
    PROVE  VisitTyped(r)' /\ VisitInv(r)'
<1>1. CASE UNCHANGED Visitors!vars
  <2>1. UNCHANGED <<phase, entry, won, user, holder, lifetime, leftOut, visiting>>
    BY <1>1 DEF Visitors!vars
  <2>2. DOMAIN visiting' = {r}
    BY <2>1 DEF VisitTyped
  <2> QED
    BY <2>1, <2>2, OnlyRead
<1>2. CASE Visitors!Next
  BY <1>2, TournamentGoesOn, VisitorReads, VisitorNamed, PlayedCounted, Claimed, RowGone
     DEF Visitors!Next
<1> QED
  BY <1>1, <1>2

LEMMA SameVisit == [Visitors!Next]_Visitors!vars => UNCHANGED visit
  BY DEF Visitors!Next, Visitors!vars, Visitors!JoinRegistered, Visitors!Start, Visitors!Win,
     Visitors!ResetWin, Visitors!Pass, Visitors!Exclude, Visitors!Include, Visitors!JoinAsGuest,
     Visitors!CompleteTournament, Visitors!Purge, Visitors!DeleteUser, Visitors!ConvertGuest,
     Visitors!Pay, Visitors!CreateGuestUser, Visitors!Enter, Visitors!Convert, Visitors!Retire,
     Visitors!Delete, Visitors!Reads, Visitors!Writes

LEMMA VisitBegins ==
    ASSUME None \notin Identity, Visitors!Init, NEW r, visit.crowd = {r}
    PROVE  VisitTyped(r) /\ VisitInv(r)
<1>1. Visitors!Idle.step = "idle"
  BY DEF Visitors!Idle
<1>2. VisitTyped(r)
  BY <1>1 DEF VisitTyped, Visitors!Init
<1>3. \A u \in Identity : Right(u)
  BY DEF Right, Visitors!Init
<1> QED
  BY <1>1, <1>2, <1>3 DEF VisitInv, Visitors!Init

(* As long as requests do not overlap and nothing finished is reopened,    *)
(* each result counts once in the lifetime of who earned it: by the claim  *)
(* when it came before they registered, by the match or the completion     *)
(* when it came after (convertGuest, applyMatchStats, completeTournament). *)
THEOREM LifetimesAddUp ==
    ASSUME None \notin Identity, IsFiniteSet(Tournament),
           \A v \in Visits : IsFiniteSet(v.crowd) /\ v.tournaments \subseteq Tournament
    PROVE  Visitors!Spec => []ResultsCountOnce
<1> DEFINE Inv == /\ visit \in Visits
                  /\ \A r : visit.crowd = {r} /\ ~visit.reopens => VisitTyped(r) /\ VisitInv(r)
<1>1. Visitors!Init => Inv
  BY VisitBegins DEF Visitors!Init
<1>2. Inv /\ [Visitors!Next]_Visitors!vars => Inv'
  <2> SUFFICES ASSUME Inv, [Visitors!Next]_Visitors!vars
               PROVE  Inv'
    OBVIOUS
  <2>1. UNCHANGED visit
    BY SameVisit
  <2>2. ASSUME NEW r, visit.crowd = {r}, ~visit.reopens
        PROVE  VisitTyped(r)' /\ VisitInv(r)'
    BY <2>2, VisitStays
  <2> QED
    BY <2>1, <2>2
<1>3. Inv => ResultsCountOnce
  <2> SUFFICES ASSUME Inv, Visitors!Cardinality(visit.crowd) = 1, ~visit.reopens,
                      NEW u \in Identity, user[u] = "registered", Honoured(u)
               PROVE  lifetime[u] = [wins |-> Visitors!Cardinality(WonBy(u)),
                                     played |-> Visitors!Cardinality(PlayedBy(u))]
    BY DEF ResultsCountOnce, Visitors!ResultsCountOnce, Honoured, WonBy, PlayedBy, CountedBy
  <2>1. Cardinality(visit.crowd) = 1 /\ IsFiniteSet(visit.crowd)
    BY DEF Visitors!Cardinality, Cardinality
  <2>2. PICK r : visit.crowd = {r}
    BY <2>1, FS_Singleton
  <2>3. Right(u)
    BY <2>2 DEF VisitInv
  <2> QED
    BY <2>3 DEF Right, Visitors!Cardinality, Cardinality
<1> QED
  BY <1>1, <1>2, <1>3, PTL DEF Visitors!Spec

(***************************************************************************)
(* Awards                                                                  *)
(***************************************************************************)

Carries(g) == Prizes!Place(g) # 0

(* One request at a time: what it read is still so when it writes.         *)
AwardsTyped(r) ==
    LET me == awarding[r] IN
    /\ DOMAIN awarding = {r} /\ DOMAIN wish = Prizes!Award
    /\ \A g \in grants : /\ DOMAIN g = {"id", "award", "slot", "shown"}
                         /\ g.id \in 1 .. MaxGrant + 4 /\ g.award \in Prizes!Award
    /\ \A g, h \in grants : g.id = h.id => g = h
    /\ me.step = "grant" => me.award \in Prizes!Award
    /\ me.step = "revoke" =>
          /\ me.grant \in grants
          /\ IF Prizes!Heirs(me.grant) = {} THEN me.heir = None
             ELSE \E h \in Prizes!Heirs(me.grant) : me.heir = h.id
    /\ me.step = "show" =>
          /\ me.pins \in [{g.id : g \in grants} -> 0 .. MaxPins]
          /\ \A g \in grants : me.pins[g.id] # 0 => g.award \in Medal
          /\ \A g, h \in grants : /\ me.pins[g.id] # 0 /\ me.pins[h.id] # 0
                                  /\ g.award = h.award
                                  => g = h
          /\ \A g \in grants : g.id = me.plaque => g.award \in Plaque

(* An award is carried by one of its grants at most, in its place.         *)
AsPut ==
    /\ \A g, h \in grants : Carries(g) /\ Carries(h) /\ g.award = h.award => g = h
    /\ \A g \in grants : Carries(g) => wish[g.award] = Prizes!Place(g)
    /\ \A a \in Prizes!Award : wish[a] # 0 => \E g \in grants : g.award = a /\ Carries(g)

(* There is an id for a new grant: fewer are taken than there are.         *)
LEMMA IdFree ==
    ASSUME MaxGrant \in Nat, NEW r, jury = {r}, AwardsTyped(r), awarding[r].step = "grant",
           Prizes!Cardinality(grants) < MaxGrant
    PROVE  Prizes!Free # {}
<1>1. \A q \in jury : awarding[q].step \notin {"revoke", "show"}
  OBVIOUS
<1>2. Prizes!Remembered = {g.id : g \in grants}
  BY <1>1 DEF Prizes!Remembered
<1> SUFFICES ASSUME Prizes!Free = {}
             PROVE  FALSE
  OBVIOUS
<1> DEFINE Ids == 1 .. MaxGrant + 4
<1>3. \A i \in Ids : \E g \in grants : g.id = i
  BY <1>2 DEF Prizes!Free
<1>4. IsFiniteSet(Ids) /\ Cardinality(Ids) = MaxGrant + 4
  BY FS_Interval
<1>5. IsFiniteSet(grants)
  <2> DEFINE ids == [g \in grants |-> g.id]
  <2>1. ids \in [grants -> Ids] /\ \A g, h \in grants : ids[g] = ids[h] => g = h
    BY DEF AwardsTyped
  <2>2. ids \in Injection(grants, Ids)
    BY <2>1 DEF Injection, IsInjective
  <2> QED
    BY <1>4, <2>2, FS_Injection
<1>6. Cardinality(grants) < MaxGrant
  BY DEF Prizes!Cardinality, Cardinality
<1>7. Cardinality(grants) < Cardinality(Ids)
  BY <1>4, <1>5, <1>6, FS_CardinalityType
<1> DEFINE f == [i \in Ids |-> CHOOSE g \in grants : g.id = i]
<1>8. \A i \in Ids : f[i] \in grants /\ f[i].id = i
  BY <1>3
<1>9. f \in [Ids -> grants]
  BY <1>8
<1> HIDE DEF Ids, f
<1>10. \E x, y \in Ids : x # y /\ f[x] = f[y]
  BY <1>4, <1>5, <1>7, <1>9, FS_PigeonHole
<1> QED
  BY <1>8, <1>10

(* Steps that leave the grants alone.                                      *)
LEMMA ShowcaseUntouched ==
    ASSUME NEW r, AwardsTyped(r), AsPut, UNCHANGED <<grants, wish>>, DOMAIN awarding' = {r},
           \/ awarding' = awarding
           \/ awarding'[r].step \in {"idle", "make", "hang", "drop", "remove"}
           \/ awarding'[r].step = "grant" /\ awarding'[r].award \in Prizes!Award
    PROVE  AwardsTyped(r)' /\ AsPut'
  BY DEF AwardsTyped, AsPut, Prizes!Heirs, Prizes!Held

LEMMA CatalogSteps ==
    ASSUME NEW r, AwardsTyped(r), AsPut, NEW a \in Prizes!Award,
           \/ Prizes!Create(r, a) \/ Prizes!ReplaceImage(r, a) \/ Prizes!Remove(r, a)
           \/ Prizes!Grant(r, a) \/ Prizes!Archive(a) \/ Prizes!Make(r) \/ Prizes!Hang(r)
           \/ Prizes!Drop(r) \/ Prizes!Removed(r)
    PROVE  AwardsTyped(r)' /\ AsPut'
<1>1. ASSUME NEW memory, awarding' = [awarding EXCEPT ![r] = memory]
      PROVE  DOMAIN awarding' = {r} /\ awarding'[r] = memory
  BY <1>1 DEF AwardsTyped
<1>2. CASE Prizes!Archive(a)
  <2>1. UNCHANGED <<grants, wish, awarding>>
    BY <1>2 DEF Prizes!Archive
  <2>2. DOMAIN awarding' = {r}
    BY <2>1 DEF AwardsTyped
  <2> QED
    BY <2>1, <2>2, ShowcaseUntouched
<1>3. CASE ~Prizes!Archive(a)
  <2>1. /\ UNCHANGED <<grants, wish>>
        /\ \E memory : /\ awarding' = [awarding EXCEPT ![r] = memory]
                       /\ \/ memory.step \in {"idle", "make", "hang", "drop", "remove"}
                          \/ memory.step = "grant" /\ memory.award = a
    BY <1>3 DEF Prizes!Create, Prizes!ReplaceImage, Prizes!Remove, Prizes!Grant, Prizes!Make,
       Prizes!Hang, Prizes!Drop, Prizes!Removed, Prizes!Begin, Prizes!Go, Prizes!Done, Prizes!Idle
  <2> QED
    BY <1>1, <2>1, ShowcaseUntouched
<1> QED
  BY <1>2, <1>3

(* A new grant is shown nowhere.                                           *)
LEMMA GrantAdded ==
    ASSUME MaxGrant \in Nat, NEW r, jury = {r}, AwardsTyped(r), AsPut, Prizes!Granted(r)
    PROVE  AwardsTyped(r)' /\ AsPut'
<1>1. PICK a : a = awarding[r].award
  OBVIOUS
<1>2. /\ a \in Prizes!Award /\ awarding[r].step = "grant" /\ UNCHANGED wish
      /\ awarding' = [awarding EXCEPT ![r] = Prizes!Idle]
  BY <1>1 DEF AwardsTyped, Prizes!Granted, Prizes!Done, Prizes!Go
<1>3. DOMAIN awarding' = {r} /\ awarding'[r].step = "idle"
  BY <1>2 DEF AwardsTyped, Prizes!Idle
<1>4. CASE catalog[a] = None
  <2>1. UNCHANGED grants
    BY <1>1, <1>4 DEF Prizes!Granted
  <2> QED
    BY <1>2, <1>3, <2>1, ShowcaseUntouched
<1>5. CASE catalog[a] # None
  <2>1. PICK new : new = [id |-> CHOOSE i \in Prizes!Free : TRUE, award |-> a,
                          slot |-> 0, shown |-> FALSE]
    OBVIOUS
  <2>2. Prizes!Cardinality(grants) < MaxGrant /\ grants' = grants \union {new}
    BY <1>1, <1>5, <2>1 DEF Prizes!Granted
  <2>3. new.id \in Prizes!Free
    BY <1>2, <2>1, <2>2, IdFree
  <2>4. new.id \in 1 .. MaxGrant + 4 /\ \A g \in grants : g.id # new.id
    BY <2>3 DEF Prizes!Free, Prizes!Remembered
  <2>5. /\ DOMAIN new = {"id", "award", "slot", "shown"} /\ new.award = a
        /\ ~Carries(new)
    BY <2>1 DEF Carries, Prizes!Place, Prizes!Nowhere
  <2> HIDE <2>1
  <2>6. \A g \in grants' : g \in grants \/ g = new
    BY <2>2
  <2>7. AwardsTyped(r)'
    BY <1>2, <1>3, <2>4, <2>5, <2>6 DEF AwardsTyped
  <2>8. AsPut'
    <3>1. \A g, h \in grants' : Carries(g) /\ Carries(h) /\ g.award = h.award => g = h
      BY <2>5, <2>6 DEF AsPut
    <3>2. \A g \in grants' : Carries(g) => wish'[g.award] = Prizes!Place(g)
      BY <1>2, <2>5, <2>6 DEF AsPut
    <3>3. \A b \in Prizes!Award : wish'[b] # 0 => \E g \in grants' : g.award = b /\ Carries(g)
      BY <1>2, <2>2 DEF AsPut
    <3> QED
      BY <3>1, <3>2, <3>3 DEF AsPut, Carries
  <2> QED
    BY <2>7, <2>8
<1> QED
  BY <1>4, <1>5

(* The grant to revoke and its heir are read together.                     *)
LEMMA RevocationBegins ==
    ASSUME NEW r, AwardsTyped(r), AsPut, NEW g \in grants, Prizes!Revoke(r, g)
    PROVE  AwardsTyped(r)' /\ AsPut'
<1>1. PICK heir \in IF Prizes!Heirs(g) = {} THEN {None} ELSE {h.id : h \in Prizes!Heirs(g)} :
         Prizes!Begin(r, [step |-> "revoke", grant |-> g, heir |-> heir,
                          ids |-> {g.id} \union ({heir} \ {None})])
  BY DEF Prizes!Revoke
<1>2. PICK me : me = [step |-> "revoke", grant |-> g, heir |-> heir,
                      ids |-> {g.id} \union ({heir} \ {None})]
  OBVIOUS
<1>3. /\ awarding' = [awarding EXCEPT ![r] = me] /\ UNCHANGED <<grants, wish>>
      /\ me.step = "revoke" /\ me.grant = g /\ me.heir = heir
  BY <1>1, <1>2 DEF Prizes!Begin
<1>4. DOMAIN awarding' = {r} /\ awarding'[r] = me
  BY <1>3 DEF AwardsTyped
<1>5. IF Prizes!Heirs(g) = {} THEN heir = None ELSE \E h \in Prizes!Heirs(g) : heir = h.id
  BY <1>1
<1>6. AsPut'
  BY <1>3 DEF AsPut
<1>7. AwardsTyped(r)'
  <2>1. /\ awarding'[r].step = "revoke" /\ awarding'[r].grant = g
        /\ awarding'[r].heir = heir
    BY <1>3, <1>4
  <2> QED
    BY <1>3, <1>4, <1>5, <2>1 DEF AwardsTyped, Prizes!Heirs, Prizes!Held
<1> QED
  BY <1>6, <1>7

(* What the revoked grant showed its heir shows, in the same place.        *)
LEMMA RevocationEnds ==
    ASSUME None \notin Nat, MaxGrant \in Nat, NEW r, AwardsTyped(r), AsPut, Prizes!Revoked(r)
    PROVE  AwardsTyped(r)' /\ AsPut'
<1>1. PICK me, gone : me = awarding[r] /\ gone = me.grant
  OBVIOUS
<1>2. PICK rest : rest = {g \in grants : g.id # gone.id}
  OBVIOUS
<1>3. PICK moved : moved = IF me.heir = None THEN rest
                 ELSE {IF g.id = me.heir
                          THEN [g EXCEPT !.slot = gone.slot, !.shown = gone.shown]
                          ELSE g : g \in rest}
  OBVIOUS
<1>4. /\ me.step = "revoke" /\ awarding' = [awarding EXCEPT ![r] = Prizes!Idle]
      /\ grants' = grants \/ grants' = moved
      /\ wish' = [a \in Prizes!Award |-> IF \E g \in grants' : g.award = a THEN wish[a]
                                         ELSE Prizes!Nowhere]
  BY <1>1, <1>2, <1>3 DEF Prizes!Revoked
<1>5. /\ gone \in grants
      /\ IF Prizes!Heirs(gone) = {} THEN me.heir = None
         ELSE \E h \in Prizes!Heirs(gone) : me.heir = h.id
  BY <1>1, <1>4 DEF AwardsTyped
<1>6. DOMAIN awarding' = {r} /\ awarding'[r].step = "idle"
  BY <1>4 DEF AwardsTyped, Prizes!Idle
<1>7. /\ DOMAIN wish' = Prizes!Award
      /\ \A a \in Prizes!Award : wish'[a] = IF \E g \in grants' : g.award = a THEN wish[a] ELSE 0
  BY <1>4 DEF Prizes!Nowhere
<1>8. \A g \in grants : g.id # None
  BY DEF AwardsTyped
<1>9. CASE grants' = grants
  <2>1. \A a \in Prizes!Award : wish'[a] = wish[a]
    BY <1>7, <1>9 DEF AsPut
  <2>2. AwardsTyped(r)'
    BY <1>6, <1>7, <1>9 DEF AwardsTyped
  <2>3. AsPut'
    BY <1>9, <2>1 DEF AsPut, AwardsTyped
  <2> QED
    BY <2>2, <2>3
<1>10. CASE grants' = moved /\ me.heir = None
  <2>1. \A g : g \in grants' <=> g \in grants /\ g # gone
    BY <1>2, <1>3, <1>5, <1>10 DEF AwardsTyped
  <2>2. Prizes!Heirs(gone) = {}
    BY <1>5, <1>8, <1>10 DEF Prizes!Heirs, Prizes!Held
  <2>3. Carries(gone) => \A g \in grants' : g.award # gone.award
    BY <2>1, <2>2 DEF Prizes!Heirs, Prizes!Held, Prizes!Passes, Prizes!Nowhere, Carries
  <2>4. AwardsTyped(r)'
    BY <1>6, <1>7, <2>1 DEF AwardsTyped
  <2>5. \A g, h \in grants' : Carries(g) /\ Carries(h) /\ g.award = h.award => g = h
    BY <2>1 DEF AsPut
  <2>6. \A g \in grants' : Carries(g) => wish'[g.award] = Prizes!Place(g)
    BY <1>7, <2>1 DEF AsPut, AwardsTyped
  <2>7. ASSUME NEW a \in Prizes!Award, wish'[a] # 0
        PROVE  \E g \in grants' : g.award = a /\ Carries(g)
    <3>1. (\E g \in grants' : g.award = a) /\ wish[a] # 0
      BY <1>7, <2>7
    <3>2. PICK g \in grants : g.award = a /\ Carries(g)
      BY <3>1 DEF AsPut
    <3> QED
      BY <2>1, <2>3, <3>1, <3>2
  <2> QED
    BY <2>4, <2>5, <2>6, <2>7 DEF AsPut, Carries
<1>11. CASE grants' = moved /\ me.heir # None
  <2>1. PICK heir \in Prizes!Heirs(gone) : me.heir = heir.id
    BY <1>5, <1>11
  <2>2. heir \in grants /\ heir # gone /\ heir.award = gone.award /\ Carries(gone)
    BY <2>1 DEF Prizes!Heirs, Prizes!Held, Prizes!Passes, Prizes!Nowhere, Carries
  <2>3. ~Carries(heir)
    BY <1>5, <2>2 DEF AsPut
  <2>4. PICK new : new = [heir EXCEPT !.slot = gone.slot, !.shown = gone.shown]
    OBVIOUS
  <2>5. /\ DOMAIN new = {"id", "award", "slot", "shown"} /\ new.id = heir.id
        /\ new.award = gone.award /\ Prizes!Place(new) = Prizes!Place(gone)
    BY <2>2, <2>4 DEF AwardsTyped, Prizes!Place
  <2>6. \A g : g \in grants' <=> g = new \/ (g \in grants /\ g # gone /\ g # heir)
    <3>1. \A g \in grants : /\ g.id = gone.id <=> g = gone
                            /\ g.id = heir.id <=> g = heir
      BY <1>5, <2>2 DEF AwardsTyped
    <3>2. grants' = {IF g.id = heir.id THEN [g EXCEPT !.slot = gone.slot, !.shown = gone.shown]
                     ELSE g : g \in rest}
      BY <1>3, <1>11, <2>1
    <3> QED
      BY <1>2, <2>2, <2>4, <3>1, <3>2
  <2> HIDE <2>4
  <2>7. Carries(new)
    BY <2>2, <2>5 DEF Carries
  <2>8. AwardsTyped(r)'
    <3>1. \A g \in grants' : /\ DOMAIN g = {"id", "award", "slot", "shown"}
                             /\ g.id \in 1 .. MaxGrant + 4 /\ g.award \in Prizes!Award
      BY <1>5, <2>2, <2>5, <2>6 DEF AwardsTyped
    <3>2. \A g, h \in grants' : g.id = h.id => g = h
      BY <2>2, <2>5, <2>6 DEF AwardsTyped
    <3> QED
      BY <1>6, <1>7, <3>1, <3>2 DEF AwardsTyped
  <2>9. \A g, h \in grants' : Carries(g) /\ Carries(h) /\ g.award = h.award => g = h
    BY <1>5, <2>2, <2>5, <2>6 DEF AsPut
  <2>10. \A g \in grants' : Carries(g) => wish'[g.award] = Prizes!Place(g)
    BY <1>5, <1>7, <2>2, <2>5, <2>6 DEF AsPut, AwardsTyped
  <2>11. ASSUME NEW a \in Prizes!Award, wish'[a] # 0
         PROVE  \E g \in grants' : g.award = a /\ Carries(g)
    <3>1. wish[a] # 0
      BY <1>7, <2>11
    <3>2. PICK g \in grants : g.award = a /\ Carries(g)
      BY <3>1 DEF AsPut
    <3> QED
      BY <2>3, <2>5, <2>6, <2>7, <3>2
  <2> QED
    BY <2>8, <2>9, <2>10, <2>11 DEF AsPut, Carries
<1> QED
  BY <1>4, <1>9, <1>10, <1>11

(* What is asked for: medals in slots, each once, and one plaque.          *)
LEMMA ShowBegins ==
    ASSUME NEW r, AwardsTyped(r), AsPut,
           NEW pins \in [{g.id : g \in grants} -> 0 .. MaxPins],
           NEW plaque \in {g.id : g \in grants} \union {None},
           None \notin Nat, Prizes!SetShowcase(r, pins, plaque)
    PROVE  AwardsTyped(r)' /\ AsPut'
<1>1. PICK me : me = [step |-> "show", pins |-> pins, plaque |-> plaque,
                 ids |-> {g.id : g \in {h \in grants : pins[h.id] # 0}}
                         \union ({plaque} \ {None})]
  OBVIOUS
<1>2. /\ awarding' = [awarding EXCEPT ![r] = me] /\ UNCHANGED <<grants, wish>>
      /\ me.step = "show" /\ me.pins = pins /\ me.plaque = plaque
  BY <1>1 DEF Prizes!SetShowcase, Prizes!Begin
<1>3. DOMAIN awarding' = {r} /\ awarding'[r] = me
  BY <1>2 DEF AwardsTyped
<1>4. /\ \A g \in grants : pins[g.id] # 0 => g.award \in Medal
      /\ \A g, h \in grants : pins[g.id] # 0 /\ pins[h.id] # 0 /\ g # h => g.award # h.award
  BY DEF Prizes!SetShowcase
<1>5. ASSUME NEW g \in grants, g.id = plaque
      PROVE  g.award \in Plaque
  <2>1. plaque # None
    BY <1>5 DEF AwardsTyped
  <2>2. Prizes!Row(plaque) = g
    BY <1>5 DEF Prizes!Row, AwardsTyped
  <2> QED
    BY <2>1, <2>2 DEF Prizes!SetShowcase
<1>6. AsPut'
  BY <1>2 DEF AsPut
<1>7. AwardsTyped(r)'
  BY <1>2, <1>3, <1>4, <1>5 DEF AwardsTyped
<1> QED
  BY <1>6, <1>7

LEMMA ShowEnds ==
    ASSUME MaxPins \in Nat, Medal \intersect Plaque = {}, NEW r, AwardsTyped(r), AsPut,
           Prizes!Shown(r)
    PROVE  AwardsTyped(r)' /\ AsPut'
<1>1. PICK me, pins : me = awarding[r] /\ pins = me.pins
  OBVIOUS
<1>2. /\ me.step = "show" /\ awarding' = [awarding EXCEPT ![r] = Prizes!Idle]
  BY <1>1 DEF Prizes!Shown
<1>3. DOMAIN awarding' = {r} /\ awarding'[r].step = "idle"
  BY <1>2 DEF AwardsTyped, Prizes!Idle
<1>4. CASE UNCHANGED <<grants, wish>>
  BY <1>3, <1>4, ShowcaseUntouched
<1>5. CASE ~UNCHANGED <<grants, wish>>
  <2> DEFINE New(g) == [g EXCEPT !.slot = IF g.id \in DOMAIN pins THEN pins[g.id] ELSE 0,
                                 !.shown = g.id = me.plaque]
             Carrier(a) == CHOOSE g \in grants' : g.award = a /\ Prizes!Place(g) # Prizes!Nowhere
  <2>1. /\ grants' = {New(g) : g \in grants}
        /\ wish' = [a \in Prizes!Award |->
                  IF \E g \in grants' : g.award = a /\ Prizes!Place(g) # Prizes!Nowhere
                  THEN Prizes!Place(Carrier(a))
                  ELSE Prizes!Nowhere]
    BY <1>1, <1>5 DEF Prizes!Shown
  <2>2. ASSUME NEW g \in grants
        PROVE  /\ DOMAIN New(g) = {"id", "award", "slot", "shown"}
               /\ New(g).id = g.id /\ New(g).award = g.award
               /\ Carries(New(g)) <=> pins[g.id] # 0 \/ g.id = me.plaque
    <3>1. pins[g.id] \in 0 .. MaxPins /\ g.id \in DOMAIN pins
      BY <1>1, <1>2 DEF AwardsTyped
    <3>2. /\ DOMAIN New(g) = {"id", "award", "slot", "shown"}
          /\ New(g).id = g.id /\ New(g).award = g.award /\ New(g).slot = pins[g.id]
      BY <3>1 DEF AwardsTyped
    <3>3. /\ g.id = me.plaque => New(g).shown = TRUE
          /\ g.id # me.plaque => New(g).shown = FALSE
      BY DEF AwardsTyped
    <3> HIDE DEF New
    <3>4. Carries(New(g)) <=> pins[g.id] # 0 \/ g.id = me.plaque
      <4>1. CASE pins[g.id] # 0
        BY <3>2, <4>1 DEF Carries, Prizes!Place
      <4>2. CASE pins[g.id] = 0 /\ g.id = me.plaque
        <5>1. Prizes!Place(New(g)) = MaxPins + 1
          BY <3>2, <3>3, <4>2 DEF Prizes!Place, Prizes!UnderName
        <5> QED
          BY <4>2, <5>1 DEF Carries
      <4>3. CASE pins[g.id] = 0 /\ g.id # me.plaque
        <5>1. Prizes!Place(New(g)) = 0
          BY <3>2, <3>3, <4>3 DEF Prizes!Place, Prizes!Nowhere
        <5> QED
          BY <4>3, <5>1 DEF Carries
      <4> QED
        BY <4>1, <4>2, <4>3
    <3> QED
      BY <3>2, <3>4
  <2>3. ASSUME NEW g \in grants, NEW h \in grants, g.award = h.award,
               pins[g.id] # 0 \/ g.id = me.plaque, pins[h.id] # 0 \/ h.id = me.plaque
        PROVE  g = h
    <3>1. /\ \A k \in grants : pins[k.id] # 0 => k.award \in Medal
          /\ \A k \in grants : k.id = me.plaque => k.award \in Plaque
          /\ \A k, l \in grants : pins[k.id] # 0 /\ pins[l.id] # 0 /\ k.award = l.award => k = l
          /\ \A k, l \in grants : k.id = l.id => k = l
      BY <1>1, <1>2 DEF AwardsTyped
    <3>2. CASE g.award \in Medal
      BY <2>3, <3>1, <3>2
    <3>3. CASE g.award \notin Medal
      BY <2>3, <3>1, <3>3
    <3> QED
      BY <3>2, <3>3
  <2> HIDE DEF New
  <2>4. \A x \in grants' : \E g \in grants : x = New(g)
    BY <2>1
  <2>5. \A x, y \in grants' : Carries(x) /\ Carries(y) /\ x.award = y.award => x = y
    BY <2>2, <2>3, <2>4
  <2>6. \A a \in Prizes!Award :
           wish'[a] = IF \E g \in grants' : g.award = a /\ Carries(g)
                      THEN Prizes!Place(Carrier(a)) ELSE 0
    BY <2>1 DEF Carries, Prizes!Nowhere
  <2>7. ASSUME NEW x \in grants', Carries(x), x.award \in Prizes!Award
        PROVE  wish'[x.award] = Prizes!Place(x)
    <3>1. \E g \in grants' : g.award = x.award /\ Prizes!Place(g) # Prizes!Nowhere
      BY <2>7 DEF Carries, Prizes!Nowhere
    <3>2. Carrier(x.award) \in grants' /\ Carrier(x.award).award = x.award
          /\ Carries(Carrier(x.award))
      BY <3>1 DEF Carries, Prizes!Nowhere
    <3>3. Carrier(x.award) = x
      BY <2>5, <2>7, <3>2
    <3> QED
      BY <2>6, <2>7, <3>3
  <2>8. AwardsTyped(r)'
    <3>1. \A x \in grants' : /\ DOMAIN x = {"id", "award", "slot", "shown"}
                             /\ x.id \in 1 .. MaxGrant + 4 /\ x.award \in Prizes!Award
      BY <2>2, <2>4 DEF AwardsTyped
    <3>2. \A x, y \in grants' : x.id = y.id => x = y
      BY <2>2, <2>4 DEF AwardsTyped
    <3>3. DOMAIN wish' = Prizes!Award
      BY <2>1
    <3> QED
      BY <1>3, <3>1, <3>2, <3>3 DEF AwardsTyped
  <2>9. \A x \in grants' : x.award \in Prizes!Award
    BY <2>2, <2>4 DEF AwardsTyped
  <2>10. \A a \in Prizes!Award : wish'[a] # 0 => \E g \in grants' : g.award = a /\ Carries(g)
    BY <2>6
  <2> HIDE DEF Carrier
  <2>11. AsPut'
    BY <2>5, <2>7, <2>9, <2>10 DEF AsPut, Carries
  <2> QED
    BY <2>8, <2>11
<1> QED
  BY <1>4, <1>5

LEMMA AwardsStay ==
    ASSUME None \notin Nat, MaxPins \in Nat, MaxGrant \in Nat, Medal \intersect Plaque = {},
           NEW r, jury = {r}, AwardsTyped(r), AsPut, [Prizes!Next]_Prizes!vars
    PROVE  AwardsTyped(r)' /\ AsPut'
<1>1. CASE UNCHANGED Prizes!vars
  <2>1. UNCHANGED <<grants, wish, awarding>>
    BY <1>1 DEF Prizes!vars
  <2>2. DOMAIN awarding' = {r}
    BY <2>1 DEF AwardsTyped
  <2> QED
    BY <2>1, <2>2, ShowcaseUntouched
<1>2. ASSUME NEW a \in Prizes!Award,
             \/ Prizes!Create(r, a) \/ Prizes!ReplaceImage(r, a) \/ Prizes!Remove(r, a)
             \/ Prizes!Grant(r, a) \/ Prizes!Archive(a)
      PROVE  AwardsTyped(r)' /\ AsPut'
  BY <1>2, CatalogSteps
<1>3. CASE Prizes!Make(r) \/ Prizes!Hang(r) \/ Prizes!Drop(r) \/ Prizes!Removed(r)
  <2>1. /\ UNCHANGED <<grants, wish>>
        /\ \/ awarding' = [awarding EXCEPT ![r] = [step |-> "idle"]]
           \/ \E file : awarding' = [awarding EXCEPT ![r] = [step |-> "drop", file |-> file]]
    BY <1>3 DEF Prizes!Make, Prizes!Hang, Prizes!Drop, Prizes!Removed, Prizes!Go, Prizes!Done,
       Prizes!Idle
  <2>2. \A memory : awarding' = [awarding EXCEPT ![r] = memory]
                       => DOMAIN awarding' = {r} /\ awarding'[r] = memory
    BY DEF AwardsTyped
  <2>3. DOMAIN awarding' = {r} /\ awarding'[r].step \in {"idle", "drop"}
    <3>1. CASE awarding' = [awarding EXCEPT ![r] = [step |-> "idle"]]
      BY <2>2, <3>1
    <3>2. ASSUME NEW file, awarding' = [awarding EXCEPT ![r] = [step |-> "drop", file |-> file]]
          PROVE  DOMAIN awarding' = {r} /\ awarding'[r].step = "drop"
      BY <2>2, <3>2
    <3> QED
      BY <2>1, <3>1, <3>2
  <2> QED
    BY <2>1, <2>3, ShowcaseUntouched
<1>4. CASE Prizes!Next
  BY <1>2, <1>3, <1>4, GrantAdded, RevocationBegins, RevocationEnds, ShowBegins, ShowEnds
     DEF Prizes!Next
<1> QED
  BY <1>1, <1>4

LEMMA SameJury == [Prizes!Next]_Prizes!vars => UNCHANGED jury
  BY DEF Prizes!Next, Prizes!vars, Prizes!Create, Prizes!ReplaceImage, Prizes!Remove, Prizes!Grant,
     Prizes!Archive, Prizes!Make, Prizes!Hang, Prizes!Drop, Prizes!Removed, Prizes!Granted,
     Prizes!Revoke, Prizes!Revoked, Prizes!SetShowcase, Prizes!Shown, Prizes!Begin, Prizes!Go,
     Prizes!Done

(* As long as requests do not overlap, each award that is still held is    *)
(* shown by one of its grants, in the place its holder put it, whatever    *)
(* was granted, revoked or archived since (setShowcase, revoke).           *)
THEOREM MedalsStayPut ==
    ASSUME None \notin Nat, MaxPins \in Nat, MaxGrant \in Nat, Medal \intersect Plaque = {},
           \A c \in Juries : IsFiniteSet(c)
    PROVE  Prizes!Spec => []ShowcaseAsPut
<1> DEFINE Inv == jury \in Juries /\ \A r : jury = {r} => AwardsTyped(r) /\ AsPut
<1>1. Prizes!Init => Inv
  <2> SUFFICES ASSUME Prizes!Init, NEW r, jury = {r}
               PROVE  AwardsTyped(r) /\ AsPut
    BY DEF Prizes!Init
  <2>1. Prizes!Idle.step = "idle"
    BY DEF Prizes!Idle
  <2> QED
    BY <2>1 DEF Prizes!Init, AwardsTyped, AsPut, Prizes!Nowhere
<1>2. Inv /\ [Prizes!Next]_Prizes!vars => Inv'
  <2> SUFFICES ASSUME Inv, [Prizes!Next]_Prizes!vars
               PROVE  Inv'
    OBVIOUS
  <2>1. UNCHANGED jury
    BY SameJury
  <2>2. ASSUME NEW r, jury = {r}
        PROVE  AwardsTyped(r)' /\ AsPut'
    BY <2>2, AwardsStay
  <2> QED
    BY <2>1, <2>2
<1>3. Inv => ShowcaseAsPut
  <2> SUFFICES ASSUME Inv, Prizes!Cardinality(jury) = 1, NEW a \in Prizes!Award
               PROVE  LET carriers == {g \in Prizes!Held(a) : Prizes!Place(g) # Prizes!Nowhere} IN
                      IF wish[a] = Prizes!Nowhere THEN carriers = {}
                      ELSE /\ Prizes!Cardinality(carriers) = 1
                           /\ \A g \in carriers : Prizes!Place(g) = wish[a]
    BY DEF ShowcaseAsPut, Prizes!ShowcaseAsPut
  <2>1. Cardinality(jury) = 1 /\ IsFiniteSet(jury)
    BY DEF Prizes!Cardinality, Cardinality
  <2>2. PICK r : jury = {r}
    BY <2>1, FS_Singleton
  <2>3. AsPut
    BY <2>2
  <2> DEFINE carriers == {g \in Prizes!Held(a) : Prizes!Place(g) # Prizes!Nowhere}
  <2>4. \A g : g \in carriers <=> g \in grants /\ g.award = a /\ Carries(g)
    BY DEF Prizes!Held, Carries, Prizes!Nowhere
  <2> HIDE DEF carriers
  <2>5. CASE wish[a] = 0
    <3>1. carriers = {}
      BY <2>3, <2>4, <2>5 DEF AsPut, Carries
    <3> QED
      BY <2>5, <3>1 DEF carriers, Prizes!Nowhere
  <2>6. CASE wish[a] # 0
    <3>1. PICK g \in grants : g.award = a /\ Carries(g)
      BY <2>3, <2>6 DEF AsPut
    <3>2. carriers = {g}
      BY <2>3, <2>4, <3>1 DEF AsPut
    <3>3. Cardinality(carriers) = 1
      BY <3>2, FS_Singleton
    <3>4. \A h \in carriers : Prizes!Place(h) = wish[a]
      BY <2>3, <2>4 DEF AsPut
    <3> QED
      BY <2>6, <3>3, <3>4 DEF carriers, Prizes!Nowhere, Prizes!Cardinality, Cardinality
  <2> QED
    BY <2>5, <2>6
<1> QED
  BY <1>1, <1>2, <1>3, PTL DEF Prizes!Spec
=============================================================================
