---------------------------- MODULE RosterProofs ----------------------------
(***************************************************************************)
(* The roster of a tournament implements Seats, for every set of people,   *)
(* every cap and any number of requests at once.  With one request at a    *)
(* time its matches name nobody who is not entered.                        *)
(***************************************************************************)
EXTENDS Roster, FiniteSetTheorems, TLAPS

(* The cap and the seeds are numbers, players are invited.                 *)
Sane == MaxPlayers \in Nat /\ MaxSeed \in Nat /\ Invited \subseteq Player

(* A row has an id and a user of its own, and there are not too many.      *)
OneRowEach ==
    /\ IsFiniteSet(rows)
    /\ Cardinality(rows) <= MaxPlayers
    /\ \A p, q \in rows : p.user = q.user => p = q
    /\ \A p, q \in rows : p.id = q.id => p = q

(***************************************************************************)
(* Types                                                                   *)
(***************************************************************************)

(* What a request writes down keeps the type of all of them.               *)
LEMMA MemoryKept ==
    ASSUME NEW r \in crowd, NEW next \in Memory, request \in [crowd -> Memory],
           crowd' = crowd, request' = [request EXCEPT ![r] = next]
    PROVE  request' \in [crowd' -> Memory]
  OBVIOUS

LEMMA IdleIsMemory == Idle \in Memory
  BY DEF Idle, Memory

(* The request is done: it keeps nothing.                                  *)
LEMMA DoneKeepsTypes ==
    ASSUME TypeOK, NEW r \in crowd, Done(r)
    PROVE  /\ crowd' \in Crowds
           /\ status' \in {"OPEN", "ONGOING"}
           /\ request' \in [crowd' -> Memory]
  BY IdleIsMemory, MemoryKept DEF TypeOK, Done

(* Checks that are passed change nothing but what the request remembers.   *)
LEMMA ReadKeepsTypes ==
    ASSUME TypeOK, NEW r \in crowd, NEW next \in Memory, Read(r, next)
    PROVE  TypeOK'
  <1>1. request' \in [crowd' -> Memory]
    BY MemoryKept DEF TypeOK, Read
  <1> QED  BY <1>1 DEF TypeOK, Read

(* The user of a seat is looked up among the rows.                         *)
LEMMA RowFound ==
    ASSUME TypeOK, NEW u \in Seated
    PROVE  RowOf(u) \in rows /\ RowOf(u).user = u /\ RowOf(u).id \in RowId
  <1>1. PICK p \in rows : p.user = u
    BY DEF Seated
  <1>2. RowOf(u) \in rows /\ RowOf(u).user = u
    BY <1>1 DEF RowOf
  <1> QED  BY <1>2 DEF TypeOK

LEMMA SeatedArePersons ==
    ASSUME TypeOK
    PROVE  Seated \subseteq Person
  BY DEF TypeOK, Seated

(* What a writing request remembers, by its step.                          *)
LEMMA Remembers ==
    ASSUME NEW m \in Memory
    PROVE  /\ m.step \in {"seat", "unseat"} => m.user \in Person
           /\ m.step \in {"send", "accept", "decline"} => m.user \in Invited
           /\ m.step = "seed" => m.user \in Person /\ m.seed \in 1 .. MaxSeed
           /\ m.step = "swap" => /\ m.user \in Person /\ m.substitute \in Person
                                 /\ m.row \in RowId
  BY DEF Memory

(* A new row is of the right type, and its id is not in use.               *)
LEMMA NewRow ==
    ASSUME Sane, TypeOK, NEW u \in Person, Adds(u)
    PROVE  \E i \in RowId :
              /\ \A p \in rows : p.id # i
              /\ rows' = rows \union {[id |-> i, user |-> u, seed |-> 0]}
              /\ rows' \subseteq [id : RowId, user : Person, seed : 0 .. MaxSeed]
  <1> DEFINE i == CHOOSE j \in Fresh : TRUE
  <1>1. i \in Fresh
    BY DEF Adds
  <1>2. i \in RowId /\ \A p \in rows : p.id # i
    BY <1>1 DEF Fresh, Remembered
  <1>3. rows' = rows \union {[id |-> i, user |-> u, seed |-> 0]}
    BY DEF Adds
  <1>4. 0 \in 0 .. MaxSeed
    BY DEF Sane
  <1> HIDE DEF i
  <1>5. rows' \subseteq [id : RowId, user : Person, seed : 0 .. MaxSeed]
    BY <1>2, <1>3, <1>4 DEF TypeOK
  <1> QED  BY <1>2, <1>3, <1>5

(* Reads that will write keep the types.                                   *)
LEMMA ReadsKeepTypes ==
    ASSUME Sane, TypeOK, NEW r \in crowd
    PROVE  /\ \A u \in Person : Join(r, u) => TypeOK'
           /\ \A u \in Person : Leave(r, u) => TypeOK'
           /\ \A u \in Person, s \in 1 .. MaxSeed : UpdateSeed(r, u, s) => TypeOK'
           /\ \A u, v \in Person : ReplaceParticipant(r, u, v) => TypeOK'
           /\ \A u \in Invited : Invite(r, u) => TypeOK'
           /\ \A u \in Invited, b \in BOOLEAN : Respond(r, u, b) => TypeOK'
  <1>1. ASSUME NEW u \in Person
        PROVE  /\ Join(r, u) => TypeOK'
               /\ Leave(r, u) => TypeOK'
    <2>1. /\ [step |-> "seat", user |-> u] \in Memory
          /\ [step |-> "unseat", user |-> u] \in Memory
      BY DEF Memory
    <2> QED  BY <2>1, ReadKeepsTypes DEF Join, Leave
  <1>2. ASSUME NEW u \in Person, NEW s \in 1 .. MaxSeed, UpdateSeed(r, u, s)
        PROVE  TypeOK'
    <2>1. [step |-> "seed", user |-> u, seed |-> s] \in Memory
      BY DEF Memory
    <2> QED  BY <1>2, <2>1, ReadKeepsTypes DEF UpdateSeed
  <1>3. ASSUME NEW u \in Person, NEW v \in Person, ReplaceParticipant(r, u, v)
        PROVE  TypeOK'
    <2>1. RowOf(u).id \in RowId
      BY <1>3, RowFound DEF ReplaceParticipant
    <2>2. [step |-> "swap", user |-> u, row |-> RowOf(u).id, substitute |-> v] \in Memory
      BY <2>1 DEF Memory
    <2> QED  BY <1>3, <2>2, ReadKeepsTypes DEF ReplaceParticipant
  <1>4. ASSUME NEW u \in Invited
        PROVE  /\ Invite(r, u) => TypeOK'
               /\ \A b \in BOOLEAN : Respond(r, u, b) => TypeOK'
    <2>1. /\ [step |-> "send", user |-> u] \in Memory
          /\ \A b \in BOOLEAN :
                [step |-> IF b THEN "accept" ELSE "decline", user |-> u] \in Memory
      BY DEF Memory
    <2> QED  BY <2>1, ReadKeepsTypes DEF Invite, Respond
  <1> QED  BY <1>1, <1>2, <1>3, <1>4

(* So do the writes.                                                       *)
LEMMA WritesKeepTypes ==
    ASSUME Sane, TypeOK, NEW r \in crowd,
           \/ Seat(r) \/ Send(r) \/ Accept(r) \/ Decline(r) \/ Unseat(r)
           \/ SetSeed(r) \/ Swap(r)
    PROVE  TypeOK'
  <1> DEFINE me == request[r]
  <1>1. me \in Memory
    BY DEF TypeOK
  <1>2. /\ me.step \in {"seat", "unseat"} => me.user \in Person
        /\ me.step \in {"send", "accept", "decline"} => me.user \in Invited
        /\ me.step = "seed" => me.user \in Person /\ me.seed \in 1 .. MaxSeed
        /\ me.step = "swap" => /\ me.user \in Person /\ me.substitute \in Person
                               /\ me.row \in RowId
    BY <1>1, Remembers
  <1>3. Done(r)
    BY DEF Seat, Send, Accept, Decline, Unseat, SetSeed, Swap, Refused
  <1>4. /\ crowd' \in Crowds
        /\ status' \in {"OPEN", "ONGOING"}
        /\ request' \in [crowd' -> Memory]
    BY <1>3, DoneKeepsTypes
  <1>5. Refused(r) => TypeOK'
    BY <1>4 DEF Refused, TypeOK
  <1>6. CASE Seat(r)
    BY <1>2, <1>4, <1>5, <1>6, NewRow DEF Seat, TypeOK
  <1>7. CASE Send(r) \/ Decline(r)
    BY <1>4, <1>7 DEF Send, Decline, TypeOK
  <1>8. CASE Accept(r)
    <2>1. CASE Full \/ me.user \in Seated
      BY <1>5, <1>8, <2>1 DEF Accept
    <2>2. CASE ~(Full \/ me.user \in Seated)
      <3>1. me.user \in Person
        BY <1>2, <1>8 DEF Accept, Sane, Person
      <3>2. rows' \subseteq [id : RowId, user : Person, seed : 0 .. MaxSeed]
        BY <1>8, <2>2, <3>1, NewRow DEF Accept
      <3> QED  BY <1>4, <1>8, <2>2, <3>2 DEF Accept, TypeOK
    <2> QED  BY <2>1, <2>2
  <1>9. CASE Unseat(r)
    BY <1>4, <1>9 DEF Unseat, TypeOK
  <1>10. CASE SetSeed(r)
    <2>1. me.seed \in 0 .. MaxSeed
      BY <1>2, <1>10 DEF SetSeed, Sane
    <2>2. \A p \in rows : [p EXCEPT !.seed = me.seed] \in [id : RowId, user : Person, seed : 0 .. MaxSeed]
      BY <2>1 DEF TypeOK
    <2>3. rows' \subseteq [id : RowId, user : Person, seed : 0 .. MaxSeed]
      BY <1>10, <2>2 DEF SetSeed, TypeOK
    <2> QED  BY <1>4, <1>10, <2>3 DEF SetSeed, TypeOK
  <1>11. CASE Swap(r)
    <2>1. CASE (\A p \in rows : p.id # me.row) \/ me.substitute \in Seated
      BY <1>5, <1>11, <2>1 DEF Swap
    <2>2. CASE ~((\A p \in rows : p.id # me.row) \/ me.substitute \in Seated)
      <3>1. me.user \in Person /\ me.substitute \in Person
        BY <1>2, <1>11 DEF Swap
      <3>2. \A p \in rows : [p EXCEPT !.user = me.substitute] \in [id : RowId, user : Person, seed : 0 .. MaxSeed]
        BY <3>1 DEF TypeOK
      <3>3. rows' \subseteq [id : RowId, user : Person, seed : 0 .. MaxSeed]
        BY <1>11, <2>2, <3>2 DEF Swap, TypeOK
      <3>4. \A m \in matches : Renamed(m, me.user, me.substitute) \in
               [player1 : Person, player2 : Person \union {Nobody}, completed : BOOLEAN]
        BY <3>1 DEF Renamed, TypeOK
      <3>5. matches' \subseteq
               [player1 : Person, player2 : Person \union {Nobody}, completed : BOOLEAN]
        BY <1>11, <2>2, <3>4 DEF Swap, TypeOK
      <3> QED  BY <1>4, <1>11, <2>2, <3>3, <3>5 DEF Swap, TypeOK
    <2> QED  BY <2>1, <2>2
  <1> QED  BY <1>6, <1>7, <1>8, <1>9, <1>10, <1>11

(* The start and the results.                                              *)
LEMMA MatchesKeepTypes ==
    ASSUME TypeOK, Start \/ \E m \in matches : Report(m)
    PROVE  TypeOK'
  <1> DEFINE Match == [player1 : Person, player2 : Person \union {Nobody}, completed : BOOLEAN]
  <1>1. CASE Start
    <2>1. Seated \subseteq Person
      BY SeatedArePersons
    <2>2. PICK u, v \in Seated :
             matches' = {[player1 |-> u, player2 |-> v, completed |-> FALSE]} \union
                        {[player1 |-> w, player2 |-> Nobody, completed |-> TRUE]
                            : w \in Seated \ {u, v}}
      BY <1>1 DEF Start
    <2>3. /\ [player1 |-> u, player2 |-> v, completed |-> FALSE] \in Match
          /\ \A w \in Seated :
                [player1 |-> w, player2 |-> Nobody, completed |-> TRUE] \in Match
      BY <2>1
    <2>4. matches' \subseteq Match
      BY <2>2, <2>3
    <2> QED  BY <1>1, <2>4 DEF Start, TypeOK
  <1>2. ASSUME NEW m \in matches, Report(m)
        PROVE  TypeOK'
    <2>1. [m EXCEPT !.completed = TRUE] \in Match
      BY DEF TypeOK
    <2> QED  BY <1>2, <2>1 DEF Report, TypeOK
  <1> QED  BY <1>1, <1>2

LEMMA TypesKept ==
    ASSUME Sane, TypeOK, [Next]_vars
    PROVE  TypeOK'
  <1>1. CASE UNCHANGED vars
    BY <1>1 DEF vars, TypeOK
  <1>2. CASE Start \/ \E m \in matches : Report(m)
    BY <1>2, MatchesKeepTypes
  <1>3. ASSUME NEW r \in crowd, NEW u \in Person,
               \/ Join(r, u) \/ Leave(r, u)
               \/ \E s \in 1 .. MaxSeed : UpdateSeed(r, u, s)
               \/ \E v \in Person : ReplaceParticipant(r, u, v)
        PROVE  TypeOK'
    BY <1>3, ReadsKeepTypes
  <1>4. ASSUME NEW r \in crowd, NEW u \in Invited,
               Invite(r, u) \/ \E b \in BOOLEAN : Respond(r, u, b)
        PROVE  TypeOK'
    BY <1>4, ReadsKeepTypes
  <1>5. ASSUME NEW r \in crowd,
               \/ Seat(r) \/ Send(r) \/ Accept(r) \/ Decline(r) \/ Unseat(r)
               \/ SetSeed(r) \/ Swap(r)
        PROVE  TypeOK'
    BY <1>5, WritesKeepTypes
  <1> QED  BY <1>1, <1>2, <1>3, <1>4, <1>5 DEF Next

(* Every row, request and match stays of its type, whatever overlaps       *)
(* (ParticipantService).                                                   *)
THEOREM TypeCorrect == ASSUME Sane PROVE Spec => []TypeOK
  <1>1. Init => TypeOK
    BY IdleIsMemory DEF Init, TypeOK
  <1>2. TypeOK /\ [Next]_vars => TypeOK'
    BY TypesKept
  <1> QED  BY <1>1, <1>2, PTL DEF Spec

(***************************************************************************)
(* One row each                                                            *)
(***************************************************************************)

(* As many rows as before or fewer, when each is rewritten.                *)
LEMMA Rewritten ==
    ASSUME NEW S, IsFiniteSet(S), NEW f, f = [x \in S |-> f[x]],
           NEW T, T = {f[x] : x \in S}
    PROVE  IsFiniteSet(T) /\ Cardinality(T) <= Cardinality(S)
  <1>1. f \in Surjection(S, T)
    BY DEF Surjection
  <1> QED  BY <1>1, FS_Surjection

(* No more people than rows.                                               *)
LEMMA SeatedFit ==
    ASSUME IsFiniteSet(rows)
    PROVE  IsFiniteSet(Seated) /\ Cardinality(Seated) <= Cardinality(rows)
  <1> DEFINE f == [p \in rows |-> p.user]
  <1>1. Seated = {f[p] : p \in rows}
    BY DEF Seated
  <1>2. f = [p \in rows |-> f[p]]
    OBVIOUS
  <1> HIDE DEF f
  <1> QED  BY <1>1, <1>2, Rewritten

(* Seats counts as this module does.                                       *)
LEMMA SameCount == \A S : Promise!Cardinality(S) = Cardinality(S)
  BY Zenon DEF Promise!Cardinality, Cardinality

(* A seat taken keeps one row each, and is somebody coming.                *)
LEMMA AddsKeeps ==
    ASSUME Sane, TypeOK, OneRowEach, NEW u \in Person, Adds(u), ~Full, u \notin Seated
    PROVE  OneRowEach' /\ Promise!Come(u)
  <1>1. PICK i \in RowId :
           /\ \A p \in rows : p.id # i
           /\ rows' = rows \union {[id |-> i, user |-> u, seed |-> 0]}
    BY NewRow
  <1> DEFINE new == [id |-> i, user |-> u, seed |-> 0]
  <1>2. \A p \in rows : p.user # u
    BY DEF Seated
  <1>3. new \notin rows
    BY <1>2
  <1>4. IsFiniteSet(rows') /\ Cardinality(rows') = Cardinality(rows) + 1
    BY <1>1, <1>3, FS_AddElement DEF OneRowEach
  <1>5. Cardinality(rows) \in Nat /\ Cardinality(rows) < MaxPlayers
    BY FS_CardinalityType DEF OneRowEach, Full, Sane
  <1>6. Cardinality(rows') <= MaxPlayers
    BY <1>4, <1>5 DEF Sane
  <1>7. new.id = i /\ new.user = u
    OBVIOUS
  <1> HIDE DEF new
  <1>8. \A p, q \in rows' : p.user = q.user => p = q
    BY <1>1, <1>2, <1>7 DEF OneRowEach, new
  <1>9. \A p, q \in rows' : p.id = q.id => p = q
    BY <1>1, <1>7 DEF OneRowEach, new
  <1>10. Seated' = Seated \union {u}
    BY <1>1, <1>7 DEF Seated, new
  <1>11. Cardinality(Seated) < MaxPlayers
    BY <1>5, SeatedFit, FS_CardinalityType DEF OneRowEach, Sane
  <1> QED  BY <1>4, <1>6, <1>8, <1>9, <1>10, <1>11, SameCount DEF OneRowEach, Promise!Come

(* A row that is there no more keeps nothing from the others.              *)
LEMMA FewerRows ==
    ASSUME Sane, OneRowEach, rows' \subseteq rows
    PROVE  OneRowEach'
  <1>1. /\ IsFiniteSet(rows') /\ Cardinality(rows') <= Cardinality(rows)
        /\ Cardinality(rows) \in Nat /\ Cardinality(rows') \in Nat
    BY FS_Subset, FS_CardinalityType DEF OneRowEach
  <1>2. Cardinality(rows') <= MaxPlayers
    BY <1>1 DEF OneRowEach, Sane
  <1> QED  BY <1>1, <1>2 DEF OneRowEach

(* Rows rewritten so that ids stay and users stay apart are one row each.  *)
LEMMA RewrittenRows ==
    ASSUME Sane, OneRowEach, NEW f, f = [p \in rows |-> f[p]],
           rows' = {f[p] : p \in rows},
           \A p \in rows : f[p].id = p.id,
           \A p, q \in rows : f[p].user = f[q].user => p.user = q.user
    PROVE  OneRowEach'
  <1>1. /\ IsFiniteSet(rows') /\ Cardinality(rows') <= Cardinality(rows)
        /\ Cardinality(rows) \in Nat /\ Cardinality(rows') \in Nat
    BY Rewritten, FS_CardinalityType DEF OneRowEach
  <1>2. Cardinality(rows') <= MaxPlayers
    BY <1>1 DEF OneRowEach, Sane
  <1>3. \A p, q \in rows' : p.user = q.user => p = q
    BY DEF OneRowEach
  <1>4. \A p, q \in rows' : p.id = q.id => p = q
    BY DEF OneRowEach
  <1> QED  BY <1>1, <1>2, <1>3, <1>4 DEF OneRowEach

(* What every step does to the roster: nothing, or what Seats allows.      *)
Moves == OneRowEach' /\ (Promise!Next \/ UNCHANGED Seated)

LEMMA SameRows ==
    ASSUME OneRowEach, UNCHANGED rows
    PROVE  Moves
  BY DEF Moves, OneRowEach, Seated

LEMMA UnseatMoves ==
    ASSUME Sane, TypeOK, OneRowEach, NEW r \in crowd, Unseat(r)
    PROVE  Moves
  <1> DEFINE u == request[r].user
  <1>1. u \in Person
    BY Remembers DEF TypeOK, Unseat
  <1>2. rows' = {p \in rows : p.user # u}
    BY DEF Unseat
  <1> HIDE DEF u
  <1>3. OneRowEach'
    BY <1>2, FewerRows
  <1>4. Seated' = Seated \ {u}
    BY <1>2 DEF Seated
  <1>5. Promise!Go(u) \/ UNCHANGED Seated
    BY <1>4 DEF Promise!Go
  <1> QED  BY <1>1, <1>3, <1>5 DEF Moves, Promise!Next

LEMMA SetSeedMoves ==
    ASSUME Sane, TypeOK, OneRowEach, NEW r \in crowd, SetSeed(r)
    PROVE  Moves
  <1> DEFINE u == request[r].user
             s == request[r].seed
             f == [p \in rows |-> IF p.user = u THEN [p EXCEPT !.seed = s] ELSE p]
  <1>1. rows' = {f[p] : p \in rows}
    BY DEF SetSeed
  <1>2. \A p \in rows : f[p].id = p.id /\ f[p].user = p.user
    BY DEF TypeOK
  <1>3. f = [p \in rows |-> f[p]]
    OBVIOUS
  <1> HIDE DEF f
  <1>4. OneRowEach'
    BY <1>1, <1>2, <1>3, RewrittenRows
  <1>5. Seated' = Seated
    BY <1>1, <1>2 DEF Seated
  <1> QED  BY <1>4, <1>5 DEF Moves

(* The row found by its id changes hands, whoever holds it by now.         *)
LEMMA SwapMoves ==
    ASSUME Sane, TypeOK, OneRowEach, NEW r \in crowd, Swap(r)
    PROVE  Moves
  <1> DEFINE id == request[r].row
             v  == request[r].substitute
             f  == [p \in rows |-> IF p.id = id THEN [p EXCEPT !.user = v] ELSE p]
  <1>1. CASE (\A p \in rows : p.id # id) \/ v \in Seated
    <2>1. UNCHANGED rows
      BY <1>1 DEF Swap, Refused
    <2> QED  BY <2>1, SameRows
  <1>2. CASE ~((\A p \in rows : p.id # id) \/ v \in Seated)
    <2>1. v \in Person
      BY Remembers DEF TypeOK, Swap
    <2>2. PICK old \in rows : old.id = id
      BY <1>2
    <2>3. rows' = {f[p] : p \in rows}
      BY <1>2 DEF Swap
    <2>4. \A p \in rows : /\ f[p].id = p.id
                          /\ f[p].user = IF p = old THEN v ELSE p.user
      BY <2>2 DEF TypeOK, OneRowEach
    <2>5. f = [p \in rows |-> f[p]]
      OBVIOUS
    <2>6. v \notin Seated
      BY <1>2
    <2> HIDE DEF f, v, id
    <2>7. \A p, q \in rows : f[p].user = f[q].user => p.user = q.user
      BY <2>4, <2>6 DEF Seated
    <2>8. OneRowEach'
      BY <2>3, <2>4, <2>5, <2>7, RewrittenRows
    <2>9. Seated' = (Seated \ {old.user}) \union {v}
      <3>1. \A u \in Seated' : u \in (Seated \ {old.user}) \union {v}
        BY <2>2, <2>3, <2>4 DEF Seated, OneRowEach
      <3>2. v \in Seated'
        BY <2>2, <2>3, <2>4 DEF Seated
      <3>3. \A u \in Seated \ {old.user} : u \in Seated'
        BY <2>2, <2>3, <2>4 DEF Seated
      <3> QED  BY <3>1, <3>2, <3>3
    <2>10. old.user \in Seated /\ old.user \in Person
      BY <2>2, SeatedArePersons DEF Seated
    <2>11. Promise!Replace(old.user, v)
      BY <2>6, <2>9, <2>10 DEF Promise!Replace
    <2> QED  BY <2>1, <2>8, <2>10, <2>11 DEF Moves, Promise!Next
  <1> QED  BY <1>1, <1>2

LEMMA EveryStepMoves ==
    ASSUME Sane, TypeOK, OneRowEach, [Next]_vars
    PROVE  Moves
  <1>1. CASE UNCHANGED vars
    BY <1>1, SameRows DEF vars
  <1>2. CASE Start \/ \E m \in matches : Report(m)
    BY <1>2, SameRows DEF Start, Report
  <1>3. ASSUME NEW r \in crowd,
               \/ \E u \in Person :
                     \/ Join(r, u) \/ Leave(r, u)
                     \/ \E s \in 1 .. MaxSeed : UpdateSeed(r, u, s)
                     \/ \E v \in Person : ReplaceParticipant(r, u, v)
               \/ \E u \in Invited :
                     Invite(r, u) \/ \E b \in BOOLEAN : Respond(r, u, b)
        PROVE  Moves
    <2>1. UNCHANGED rows
      BY <1>3 DEF Join, Leave, UpdateSeed, ReplaceParticipant, Invite, Respond, Read
    <2> QED  BY <2>1, SameRows
  <1>4. ASSUME NEW r \in crowd, Seat(r) \/ Accept(r)
        PROVE  Moves
    <2> DEFINE u == request[r].user
    <2>1. u \in Person
      BY <1>4, Remembers DEF TypeOK, Seat, Accept, Sane, Person
    <2>2. CASE Full \/ u \in Seated
      <3>1. UNCHANGED rows
        BY <1>4, <2>2 DEF Seat, Accept, Refused
      <3> QED  BY <3>1, SameRows
    <2>3. CASE ~(Full \/ u \in Seated)
      <3>1. Adds(u)
        BY <1>4, <2>3 DEF Seat, Accept
      <3>2. OneRowEach' /\ Promise!Come(u)
        BY <2>1, <2>3, <3>1, AddsKeeps
      <3> QED  BY <2>1, <3>2 DEF Moves, Promise!Next
    <2> QED  BY <2>2, <2>3
  <1>5. ASSUME NEW r \in crowd, Send(r) \/ Decline(r)
        PROVE  Moves
    BY <1>5, SameRows DEF Send, Decline
  <1>6. ASSUME NEW r \in crowd, Unseat(r) \/ SetSeed(r) \/ Swap(r)
        PROVE  Moves
    BY <1>6, UnseatMoves, SetSeedMoves, SwapMoves
  <1> QED  BY <1>1, <1>2, <1>3, <1>4, <1>5, <1>6 DEF Next

(* However many requests overlap, the roster moves one person at a time,   *)
(* never above the cap and never with one person twice (joinTournament,    *)
(* respondToParticipantInvitation, leaveTournament, replaceParticipant).   *)
THEOREM RosterImplementsSeats == ASSUME Sane PROVE Spec => RosterKeepsItsPromise
  <1> DEFINE IInv == TypeOK /\ OneRowEach
  <1>1. Init => IInv /\ Promise!Init
    <2> SUFFICES ASSUME Init PROVE IInv /\ Promise!Init
      OBVIOUS
    <2>1. TypeOK
      BY IdleIsMemory DEF Init, TypeOK
    <2>2. OneRowEach
      BY FS_EmptySet DEF Init, OneRowEach, Sane
    <2>3. Promise!Init
      BY DEF Init, Promise!Init, Seated
    <2> QED  BY <2>1, <2>2, <2>3
  <1>2. IInv /\ [Next]_vars => IInv' /\ [Promise!Next]_Seated
    BY TypesKept, EveryStepMoves DEF Moves
  <1> HIDE DEF IInv
  <1> QED  BY <1>1, <1>2, PTL DEF Spec, RosterKeepsItsPromise, Promise!Spec

(***************************************************************************)
(* Whom the matches name                                                   *)
(***************************************************************************)

(* The people a match names.                                               *)
Names(m) == {m.player1, m.player2} \ {Nobody}

(* What the only request must still find when it writes: nobody leaves     *)
(* once matches are drawn, and the row it will rewrite is the player's,    *)
(* who has played nothing to the end.                                      *)
Timely(me) ==
    /\ me.step = "unseat" => status = "OPEN"
    /\ me.step = "swap" =>
          /\ \E p \in rows : p.id = me.row /\ p.user = me.user
          /\ ~\E m \in matches : m.completed /\ Plays(m, me.user)

Named ==
    /\ \A m \in matches : Names(m) \subseteq Seated
    /\ status = "OPEN" => matches = {}

(* The inductive invariant of a request that runs alone.                   *)
NamedAlone(r) == crowd = {r} /\ Named /\ Timely(request[r])

LEMMA MatchesAreDue ==
    ASSUME NEW r, NamedAlone(r), Start \/ \E m \in matches : Report(m)
    PROVE  NamedAlone(r)'
  <1>1. request[r] = Idle
    BY DEF NamedAlone, Start, Report, Free
  <1>2. request' = request /\ crowd' = crowd /\ Seated' = Seated
    BY DEF Start, Report, Seated
  <1>3. Timely(request[r])'
    BY <1>1, <1>2 DEF Timely, Idle
  <1>4. CASE Start
    <2>1. PICK u, v \in Seated :
             matches' = {[player1 |-> u, player2 |-> v, completed |-> FALSE]} \union
                        {[player1 |-> w, player2 |-> Nobody, completed |-> TRUE]
                            : w \in Seated \ {u, v}}
      BY <1>4 DEF Start
    <2>2. \A m \in matches' : m.player1 \in Seated /\ (m.player2 \in Seated \/ m.player2 = Nobody)
      BY <2>1
    <2>3. status' # "OPEN"
      BY <1>4 DEF Start
    <2> QED  BY <1>2, <1>3, <2>2, <2>3 DEF NamedAlone, Named, Names
  <1>5. ASSUME NEW m \in matches, Report(m)
        PROVE  NamedAlone(r)'
    <2> DEFINE done == [m EXCEPT !.completed = TRUE]
    <2>1. Names(done) = Names(m)
      BY DEF Names
    <2>2. matches' = (matches \ {m}) \union {done} /\ status' = status
      BY <1>5 DEF Report
    <2> HIDE DEF done
    <2>3. Named'
      BY <1>2, <2>1, <2>2 DEF NamedAlone, Named
    <2> QED  BY <1>2, <1>3, <2>3 DEF NamedAlone
  <1> QED  BY <1>4, <1>5

(* Nothing but what the request remembers is changed by a read.            *)
LEMMA ReadsAreTimely ==
    ASSUME TypeOK, NEW r, NamedAlone(r), NEW next, Read(r, next), Timely(next)
    PROVE  NamedAlone(r)'
  <1>1. request'[r] = next
    BY DEF Read, TypeOK, NamedAlone
  <1>2. UNCHANGED <<crowd, status, rows, matches>>
    BY DEF Read
  <1> QED  BY <1>1, <1>2 DEF NamedAlone, Named, Timely, Seated

(* After a write the request remembers nothing.                            *)
LEMMA WritesAreTimely ==
    ASSUME TypeOK, NEW r, NamedAlone(r), Done(r), Named'
    PROVE  NamedAlone(r)'
  <1>1. request'[r] = Idle
    BY DEF Done, TypeOK, NamedAlone
  <1>2. Timely(request[r])'
    BY <1>1 DEF Timely, Idle
  <1> QED  BY <1>2 DEF NamedAlone, Done

LEMMA MoreSeats ==
    ASSUME Named, Seated \subseteq Seated', UNCHANGED <<status, matches>>
    PROVE  Named'
  BY DEF Named

LEMMA SwapIsTimely ==
    ASSUME TypeOK, OneRowEach, NEW r, NamedAlone(r), Swap(r)
    PROVE  Named'
  <1> DEFINE me == request[r]
             v  == me.substitute
             Turned(m) == IF m.completed THEN m ELSE Renamed(m, me.user, v)
  <1>1. CASE (\A p \in rows : p.id # me.row) \/ v \in Seated
    BY <1>1 DEF Swap, Refused, Done, NamedAlone, Named, Seated
  <1>2. CASE ~((\A p \in rows : p.id # me.row) \/ v \in Seated)
    <2>1. PICK old \in rows : old.id = me.row /\ old.user = me.user
      BY DEF NamedAlone, Timely, Swap
    <2>2. /\ rows' = {IF p.id = me.row THEN [p EXCEPT !.user = v] ELSE p : p \in rows}
          /\ matches' = {Turned(m) : m \in matches}
          /\ status' = status
      BY <1>2 DEF Swap, Done
    <2>3. \A m \in matches : m.completed => ~Plays(m, me.user)
      BY DEF NamedAlone, Timely, Swap
    <2>4. \A p \in rows : p.id = me.row => p.user = me.user
      BY <2>1 DEF OneRowEach
    <2>5. v \in Seated'
      <3>1. [old EXCEPT !.user = v] \in rows'
        BY <2>1, <2>2
      <3>2. [old EXCEPT !.user = v].user = v
        BY DEF TypeOK
      <3> QED  BY <3>1, <3>2 DEF Seated
    <2>6. \A u \in Seated : u # me.user => u \in Seated'
      <3> SUFFICES ASSUME NEW p \in rows, p.user # me.user
                   PROVE  p \in rows'
        BY DEF Seated
      <3> QED  BY <2>2, <2>4
    <2>7. \A m \in matches : Names(m) \subseteq Seated
      BY DEF NamedAlone, Named
    <2>8. \A m \in matches : Names(Turned(m)) \subseteq (Names(m) \ {me.user}) \union {v}
      <3> SUFFICES ASSUME NEW m \in matches
                   PROVE  Names(Turned(m)) \subseteq (Names(m) \ {me.user}) \union {v}
        OBVIOUS
      <3>1. CASE m.completed
        BY <2>3, <3>1 DEF Names, Plays
      <3>2. CASE ~m.completed
        <4>1. /\ Renamed(m, me.user, v).player1 = IF m.player1 = me.user THEN v ELSE m.player1
              /\ Renamed(m, me.user, v).player2 = IF m.player2 = me.user THEN v ELSE m.player2
          BY DEF Renamed, TypeOK
        <4> QED  BY <3>2, <4>1 DEF Names
      <3> QED  BY <3>1, <3>2
    <2> HIDE DEF Turned, v
    <2>9. \A m \in matches' : Names(m) \subseteq Seated'
      BY <2>2, <2>5, <2>6, <2>7, <2>8
    <2>10. status' = "OPEN" => matches' = {}
      BY <2>2 DEF NamedAlone, Named
    <2> QED  BY <2>9, <2>10 DEF Named
  <1> QED  BY <1>1, <1>2

(* Every step of a request that runs alone.                                *)
LEMMA NamedAloneKept ==
    ASSUME Sane, TypeOK, OneRowEach, NEW r, NamedAlone(r), [Next]_vars
    PROVE  NamedAlone(r)'
  <1> DEFINE me == request[r]
  <1>1. CASE UNCHANGED vars
    BY <1>1 DEF vars, NamedAlone, Named, Timely, Seated, Plays
  <1>2. CASE Start \/ \E m \in matches : Report(m)
    BY <1>2, MatchesAreDue
  <1>3. ASSUME NEW u \in Person,
               \/ Join(r, u) \/ Leave(r, u)
               \/ \E s \in 1 .. MaxSeed : UpdateSeed(r, u, s)
        PROVE  NamedAlone(r)'
    <2>1. /\ Timely([step |-> "seat", user |-> u])
          /\ status = "OPEN" => Timely([step |-> "unseat", user |-> u])
          /\ \A s : Timely([step |-> "seed", user |-> u, seed |-> s])
      BY DEF Timely
    <2> QED  BY <1>3, <2>1, ReadsAreTimely DEF Join, Leave, UpdateSeed
  <1>4. ASSUME NEW u \in Person, NEW w \in Person, ReplaceParticipant(r, u, w)
        PROVE  NamedAlone(r)'
    <2>1. RowOf(u) \in rows /\ RowOf(u).user = u
      BY <1>4, RowFound DEF ReplaceParticipant
    <2>2. Timely([step |-> "swap", user |-> u, row |-> RowOf(u).id, substitute |-> w])
      BY <1>4, <2>1 DEF Timely, ReplaceParticipant
    <2> QED  BY <1>4, <2>2, ReadsAreTimely DEF ReplaceParticipant
  <1>5. ASSUME NEW u \in Invited,
               Invite(r, u) \/ \E b \in BOOLEAN : Respond(r, u, b)
        PROVE  NamedAlone(r)'
    <2>1. /\ Timely([step |-> "send", user |-> u])
          /\ \A b \in BOOLEAN :
                Timely([step |-> IF b THEN "accept" ELSE "decline", user |-> u])
      BY DEF Timely
    <2> QED  BY <1>5, <2>1, ReadsAreTimely DEF Invite, Respond
  <1>6. ASSUME Seat(r) \/ Accept(r)
        PROVE  NamedAlone(r)'
    <2>1. Done(r) /\ UNCHANGED matches /\ rows \subseteq rows'
      BY <1>6 DEF Seat, Accept, Refused, Adds
    <2>2. Seated \subseteq Seated'
      BY <2>1 DEF Seated
    <2> QED  BY <2>1, <2>2, MoreSeats, WritesAreTimely DEF Done, NamedAlone
  <1>7. ASSUME Send(r) \/ Decline(r)
        PROVE  NamedAlone(r)'
    <2>1. Done(r) /\ UNCHANGED <<rows, matches>>
      BY <1>7 DEF Send, Decline
    <2>2. Seated \subseteq Seated'
      BY <2>1 DEF Seated
    <2> QED  BY <2>1, <2>2, MoreSeats, WritesAreTimely DEF Done, NamedAlone
  <1>8. ASSUME Unseat(r)
        PROVE  NamedAlone(r)'
    <2>1. Done(r) /\ UNCHANGED matches /\ matches = {}
      BY <1>8 DEF Unseat, NamedAlone, Timely, Named
    <2>2. Named'
      BY <2>1 DEF Named
    <2> QED  BY <2>1, <2>2, WritesAreTimely
  <1>9. ASSUME SetSeed(r)
        PROVE  NamedAlone(r)'
    <2>1. Done(r) /\ UNCHANGED matches
      BY <1>9 DEF SetSeed
    <2>2. \A p \in rows : [p EXCEPT !.seed = me.seed].user = p.user
      BY DEF TypeOK
    <2>3. Seated \subseteq Seated'
      BY <1>9, <2>2 DEF SetSeed, Seated
    <2> QED  BY <2>1, <2>3, MoreSeats, WritesAreTimely DEF Done, NamedAlone
  <1>10. ASSUME Swap(r)
         PROVE  NamedAlone(r)'
    <2>1. Done(r)
      BY <1>10 DEF Swap, Refused
    <2> QED  BY <1>10, <2>1, SwapIsTimely, WritesAreTimely
  <1>11. \A q \in crowd : q = r
    BY DEF NamedAlone
  <1> QED  BY <1>1, <1>2, <1>3, <1>4, <1>5, <1>6, <1>7, <1>8, <1>9, <1>10, <1>11 DEF Next

(* Nobody runs infinitely many requests.                                   *)
FewRequests == \A c \in Crowds : IsFiniteSet(c)

(* A request that runs alone never leaves a match naming somebody who is   *)
(* not in the tournament, whatever is played and whoever is replaced       *)
(* (leaveTournament, replaceParticipant, startTournament).                 *)
THEOREM EveryMatchNamesEntrants ==
    ASSUME Sane, FewRequests PROVE Spec => []MatchesNameEntrants
  <1> DEFINE One  == Cardinality(crowd) = 1 => \E r : NamedAlone(r)
             IInv == TypeOK /\ OneRowEach /\ One
  <1>1. Init => IInv
    <2> SUFFICES ASSUME Init PROVE IInv
      OBVIOUS
    <2>1. TypeOK
      BY IdleIsMemory DEF Init, TypeOK
    <2>2. OneRowEach
      BY FS_EmptySet DEF Init, OneRowEach, Sane
    <2>3. Cardinality(crowd) = 1 => \E r : crowd = {r}
      BY FS_Singleton DEF Init, FewRequests
    <2>4. \A r : crowd = {r} => NamedAlone(r)
      BY DEF Init, NamedAlone, Named, Timely, Idle
    <2> QED  BY <2>1, <2>2, <2>3, <2>4
  <1>2. IInv /\ [Next]_vars => IInv'
    <2> SUFFICES ASSUME IInv, [Next]_vars PROVE IInv'
      OBVIOUS
    <2>1. TypeOK'
      BY TypesKept
    <2>2. OneRowEach'
      BY EveryStepMoves DEF Moves
    <2>3. crowd' = crowd
      BY DEF Next, vars, Start, Report, Join, Leave, UpdateSeed, ReplaceParticipant,
             Invite, Respond, Read, Seat, Send, Accept, Decline, Unseat, SetSeed,
             Swap, Refused, Done
    <2>4. One'
      BY <2>3, NamedAloneKept
    <2> QED  BY <2>1, <2>2, <2>4
  <1>3. IInv => MatchesNameEntrants
    BY DEF MatchesNameEntrants, NamedAlone, Named, Names
  <1> HIDE DEF IInv
  <1> QED  BY <1>1, <1>2, <1>3, PTL DEF Spec

=============================================================================
