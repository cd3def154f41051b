# A TLA+ verification of the JOUST backend

JOUST is a NestJS backend, over Prisma and Postgres, that runs tournaments:
registration, drawing, matches and their scoring, results, statistics and
awards, with accounts, moderation and administration around them. This
directory models what decides who plays whom, who wins and what it earns them,
and the services around it whose state can go wrong between two requests; it
checks the models with TLC and proves theorems about them with TLAPS.

Paths below are relative to the repository. These abbreviations are used for
the files most of the models come from:

| | |
|---|---|
| M | `src/src/tournament/match/match.service.ts` |
| F | `src/src/Formats/formats.service.ts` |
| T | `src/src/tournament/tournament.service.ts` |
| P | `src/src/tournament/participant/participant.service.ts` |
| K | `src/src/tournament/match/tracker/tracker.service.ts` |
| L | `src/src/leaderboard/leaderboard.service.ts` |

## 1. The system

### How it runs

One Node process, or several, serve HTTP requests. A handler is an `async`
function: it runs to its next `await` without interruption, and every `await`
is (almost always) one database statement. Between two statements any other
request may run. There is no lock; what protects a handler is a condition in
the statement itself (`updateMany where status = OPEN`), a unique index, or a
transaction. Transactions are few: joining, accepting an invitation and
replacing, `resetMatch`, `undoDecidingResult`, `discardGeneratedBracket`,
`completeTournament`'s payment, `deleteTournament`, and those of guests, awards
and sign-in. The models therefore take *one database statement
(or one transaction) per step*, and keep what a handler has read in the state
of its request.

A handler can be cut short between two statements by an error (a failing
query, a thrown exception); what it has written stays. The models have the
exceptions the code throws itself, and database errors at the places where the code
catches them and goes on, as far as a property depends on it: the draw of
`startTournament` (`TournamentLifecycle`), the guard's reading of the stamp
(`Sessions`), and reading and putting back a server's own settings, clearing a
setting and a failing `pg_restore` (`Backup`). An error that simply ends a request
before it has written anything leaves no trace and is no step of the models. The death
of the whole process is modelled where long operations on files make it matter, in
`Backup`.

### Components

| Component | State it keeps | Operations | Interacts with |
|---|---|---|---|
| Bracket engine (F, `bracket-seeding.helper.ts`) | none of its own: `Match.nextMatchId`, `loserNextMatchId`, slots | draw, `handleMatchCompletion`, `settleLosersStarvation`, completion checks, grand-final reset | called by M on every completion, calls M to advance and T to complete |
| Match service (M, `match-stats.helper.ts`, `match-completion.helper.ts`) | `Match`, `TournamentParticipantStats`, `UserGlobalStats` | start, game result, self report, verify, reject, result, draw, walkover, reset, advance | calls F; called by K and P |
| Tracker (K) | `MatchGameLog` | open, update, submit game | calls M |
| Tournament service (T) | `Tournament` | create, edit, status, start, complete, delete, tie | calls F; called by F on completion |
| Participants (P) | `TournamentParticipant`, invitations | join, leave, guest join, invite, respond, seed, forfeit, replace | calls M for walkovers |
| Swiss, round robin, hybrid (F) | rounds | pair a round, notice its end, change phase, tie | as the bracket engine |
| Match utilities, timer job | `MatchUtilityState` | countdown, flips, dice; cron pass over expired countdowns | notifications |
| Leaderboard | none | order records, structural placements | read by T at completion |
| Organizers | `TournamentOrganizer` | invite, answer, revoke | guards |
| Builds, gallery, moderation | `TournamentBuild`, `GalleryImage`, `ContentReport` | submit, review, withdraw, report, remove, restore, purge | T refuses to start before builds are approved |
| Awards | `Award`, `UserAward` | grant, revoke, pin | profile |
| Accounts | `User`, codes, tokens, devices | register, sign in, 2FA, e-mail verification, sessions, guests | guards |
| Settings | `SystemSetting` and a cache in memory | get, set, clear | mail, auth |
| Backup | files and the whole database | dump, prune, restore | settings cache |
| Rest | catalogue rows, files, outgoing messages | CRUD, queries | - |

`PROJECT.json` lists every component with its status.

### What is hard in it

* **Cascades.** One result completes a match, advances two players, may resolve
  a forfeit, settle starved losers-bracket matches, create the reset match, crown
  a champion and complete the tournament, all in one chain of calls without a
  transaction.
* **Races** between two requests that read before either writes: two results of
  sibling matches, two starts, two verdicts, a join during a start.
* **Undoing.** Rejecting a report, resetting a match, discarding a failed draw and
  deleting a tournament must take back exactly what was given.
* **Counters nobody recomputes.** Lifetime statistics are only ever incremented.
* **Fields that are not powers of two.** Byes, and losers-bracket matches that
  nobody will ever reach.

The list with the line where each bites is under `hazards` in `PROJECT.json`.

## 2. The modules

| Module | Models |
|---|---|
| `BracketShape` | the shape of a bracket: seed order, slots, matches, links, as operators |
| `BracketDraw` | the loops that draw it, one action per iteration |
| `Elimination` | a started bracket, from the first result to the champion |
| `EliminationProofs` | theorems about it |
| `MatchScoring` | one match from start to result and back |
| `ScoringProofs` | theorems about it |
| `TournamentLifecycle` | one tournament from creation to completion or deletion |
| `LifecycleProofs` | theorems about it |
| `Rounds` | a Swiss, round robin or hybrid tournament from its first round to its winner |
| `RoundsProofs` | theorems about it |
| `Standings` | the table, its tiebreakers and the final placements, as operators |
| `Roster` | the entry list of one tournament |
| `Seats` | what an entry list promises, the abstract specification `Roster` implements |
| `RosterProofs` | theorems about `Roster`, the refinement among them |
| `Content` | an uploaded build or gallery image, and its moderation |
| `Guests` | people without an account and the results they claim |
| `SignIn` | getting into an account, and changing what gets one in |
| `Sessions` | the tokens of an account and their revocation |
| `SessionsProofs` | a theorem about it |
| `MatchTimer` | countdowns and flips of matches, and the job that announces them |
| `Awards` | the catalogue, grants and the showcase |
| `Backup` | backups, their retention, restores, the cache of settings |
| `Platform` | the drawing loops, the roster and one instance of each of the smaller services, composed |
| `PlatformProofs` | theorems about the timer, backup and sign-in of `Platform` |
| `ServicesProofs` | theorems about its content, guests and awards |
| `MCElimination`, `MCMatchScoring`, `MCTournamentLifecycle`, `MCRounds`, `MCSessions`, `MCPlatform` | instances for TLC |

`Elimination` composes the bracket engine (F), the advancement half of M and
`forfeitParticipant` (P); its instances take their wiring from `BracketShape`,
and `BracketDraw` shows that the drawing loops build that wiring. `MatchScoring`
composes M and K. `TournamentLifecycle` composes T, P and the first Swiss round
of F. The three meet in the completion of a match: `Elimination` takes it as
one step and follows the cascade; `MatchScoring` follows everything before and
beside that step; `TournamentLifecycle` keeps only the deciding match; `Rounds`
does for the round-based formats what `Elimination` does for brackets, with
`Standings` for the table that pairs the next round and decides the end.

The parts of `Platform` (the drawing loops, `Roster`, `Content`, `Guests`,
`SignIn`, `MatchTimer`, `Awards`, `Backup`) keep rows of their own and
no modelled decision of one reads the rows of another. The composition says
so: each has its own variables, and a behaviour moves one of them, chosen by
`focus` at the start (`DrawMoves`, `EntryMoves` and so on), while the others stay
as they began. To let them move together would only multiply the states. `MCPlatform`
gives a part out of focus one initial state. `Roster` is extended rather than
instantiated, so that the run and `RosterProofs` speak of the same definitions; the
proofs about the other parts speak of the instances of `Platform` for the same reason.
Each theorem is about the specification of its part (`Clock!Spec`, `Vault!Spec`, ...);
the composition adds nothing to it, since its steps are steps of one part.

Definitions named after a mutation ("Mutant of ...") are deliberately wrong
variants of the definition they precede. They are used by no specification:
each, put in place of the right one, breaks a property, which shows that the
property depends on that piece of code. `PROJECT.json` pairs them.

### BracketShape, BracketDraw

A match is `<<round, index>>` with the code's round numbers: winners rounds
1..k, losers rounds 101.., grand final 200, reset 201. `Exponent` is
`nextPowerOfTwo`, `Doubled` one pass of `standardSeedOrder`, `Slots` is
`seedBracketSlots`, `SingleNext`, `DoubleNext`, `DoubleLoserNext` are the links
`initializeSingleElimination` and `initializeDoubleElimination` write through
`linkMatches`. `BracketDraw` runs the loops one iteration per step for every
field up to `MaxField`; a slot holds a seed, 0 for null, or -1 for
`generateBracket`'s `'ALIVE'`.

Random seeding (`shuffled`) only permutes which player has which seed, so
seeds stand for players throughout.

### Elimination

State: per match its `status` (`ABSENT` until the row of the reset match
exists), `slots`, `winner`, `bye`, `started`; the forfeited participants `out`;
`over` and `champion` for the tournament; `calls[r]`, the stack of pending
calls of request `r`.

| Action | Code |
|---|---|
| `SubmitResult`, `StartMatch`, `ForfeitParticipant`, `Reset` | the guards of the handlers, M and P; `Reset` is the whole serializable transaction of `resetMatch` |
| `Complete` | the write of `completedMatchData` and what is awaited after it |
| `Handle` | `handleMatchCompletion` |
| `Advance`, `Fill` | the read and the write of `advanceWinner`/`advanceLoser` |
| `Resolve`, `Walkover` | `resolveForfeitedPairing`, `completeAsWalkover` |
| `Settle` | `settleLosersStarvation` |
| `Check`, `CreateDecider`, `Crown` | the completion checks, `createGrandFinalReset`, the two writes that finish |
| `List`, `Award` | the query and the loop of `forfeitParticipant` |

The initial states are those of a bracket just drawn, with the byes about to be
completed in some order (the query that lists them has no `ORDER BY`). The
slots a reset leaves are rebuilt from the feeders in the order of their random
ids, so both orders are possible.

`Rank` is no column of the code: it numbers the matches so that `nextMatchId` and
`loserNextMatchId` lead upwards, which the proofs count along. `LosersBracket` excludes the
double elimination of two players, where both players of the one match meet again in the
grand final.

Left out: the discarding of a failed start (it is in `TournamentLifecycle`),
statistics and scores (`MatchScoring`), phases of hybrid tournaments, third-place
information (the code keeps none).

### MatchScoring

State: the match row (`status`, `score`, `winner`, `reported`), its `logs`, the
two players' `record`, and `job[r]`, what request `r` does next with what it has
read. `Endpoints` says which routes an instance calls, `Actors` who scores.

| Action | Code |
|---|---|
| `StartMatch`/`Start`, `OpenTracker`/`Open` | `startMatch`, `openTracker`: read, then write |
| `SubmitGame` ... `Close` | `submitGame`: result first, then its log |
| `Game`, `Count`, `Defer`, `Finish`, `Credit` | `reportGameResult`: refusals, the increment, the report that waits for staff, or completion and statistics |
| `Draw` | `reportDraw` as the tracker reaches it |
| `SelfReport`/`Report`, `Verify`, `Reject`/`Undo` | `selfReportResult`, `verifyResult`, `rejectReportedResult` with `undoDecidingResult` |
| `SubmitResult`/`Submit` | `submitResult` |
| `CompleteAsWalkover`/`Award`/`CreditWalkover` | `completeAsWalkover`, `creditWalkoverWin` |
| `Reset` | `resetMatch` |

Completing a match in an instance with one request is followed by its credit
before anything else; the cascade into the bracket is left to `Elimination`.
Live values (`updateTracker`), notifications, and the per-game and global
copies of the statistics, which the helper changes by the same amounts in the
same transaction, are left out.

### TournamentLifecycle

State: the tournament row (`status`, `champion`), its `entrants`, the row of
round 1 and what it holds (`round`, `placed`, `benched`), the winner of the
deciding match (`final`), the first-round `byes` on the players' records, and
the lifetime counters `played` and `won`. `plan` is fixed by the initial state and
stands for what an instance explores: who may be in flight at once, which routes
are called, who may join and how many, how many database errors and resets.

| Action | Code |
|---|---|
| `UpdateStatus`/`SetStatus`, `AutoOpen` | `updateStatus`, the first statement of `getAllTournaments` |
| `Join`/`Seat`, `Leave`/`Unseat` | `joinTournament`, `leaveTournament` |
| `StartTournament`, `Claim` | validation and the conditional update of `startTournament` |
| `Discard`, `Round`, `Place`, `Verify` | `discardGeneratedBracket`, `initSwiss`, `isFirstRoundComplete` |
| `Fail`, `Undo`, `Reopen`, `Announce` | the `catch`, and `updateStatusInternal` |
| `Decide`, `Crown`, `Complete`, `CompleteEarly`, `Pay` | the last result, the winner written by the format check, `completeTournament` |
| `ResetFinal` | `resetMatch` on the deciding match |
| `DeleteTournament`/`Delete` | `deleteTournament` |

The draw is that of a Swiss first round, because it is the one that credits a
bye while it is written; the other formats differ in rows that the properties
do not look at. Guests, invitations and builds are left out. A failure while
an older, complete round is being reused is left out. `deleteTournament` reads
the completed matches before its transaction; the model keeps the player of the
bye that was read instead of the match's id, so a draw undone and made again in
between with the same player on the bench counts as the one that was read.

### Rounds, Standings

State: the numbers of the `Round` rows, the `Match` rows (round, players, bye,
phase, done, winner, whether it was scored), the `forfeited`, `status`,
`champion`, and `job[r]`. Players are numbered in the shuffled order of the
first round, so that shuffle is the identity. A request works by statements as
in the other modules: a result, then the check, then the rows of the next
round one by one.

| Action | Code |
|---|---|
| `Init` | `initSwiss`, `initRoundRobin`, `initHybrid`: first round, all rounds of a round robin by the circle method |
| `Report`, `Draws` | the ways a match is given a result, M |
| `Reset` | `resetMatch`: everything but a round robin needs the later rounds gone (M 472) |
| `Forfeit`, `Walkover` | `forfeitParticipant`, `completeAsWalkover` |
| `Check`, `Final` | `handleMatchCompletion`, `checkTournamentComplete` |
| `Pair`, `Open`, `Seat`, `Bye` | `checkSwissRoundComplete`, `generateNextSwissRound` (`BenchOf`, `Pairings` are its choice of bye and opponents), `creditBye` |
| `Cut` | `checkHybridPhase1Complete`, the top cut of two |
| `Crown`, `Complete` | the winner written, `completeTournament` |
| `ApplyTiebreakers`, `ExtendRound` | `resolveTie` |

The circle of a round robin turns the way `initRoundRobin` turns its array, and `Without`
(a sequence less the players of a set) is what filtering and splicing the list of the
unpaired leave of it. `RoundsAssumption` says what the code guarantees: a tournament starts
with at least two players (T 446), `NoPlayer` is not one of them, requests are finitely
many. `PointsAssumption` is that points are whole numbers.

`Standings` has the records, the tiebreakers of `computeOpponentTiebreakers`, the
order of `getLeaderboard` (where equal keys come in any order, as the sort sees
them in the order of the query) and the placements of `resolveFinalPlacements`. A top
cut has two players, so it is one final; a larger one is a bracket, and
`Elimination`'s business. `TiedOnTop` is what stops a Swiss tournament to ask the
organizer.

### Seats, Roster

`Seats` is the promise: a set of people, never more than the cap, changed by one
person coming, going or being replaced. `Roster` has the rows, the invitations,
the matches they are named in, and what every request remembers between its
reads and its transaction; `Promise == INSTANCE Seats WITH seated <- Seated` is the
refinement, and `RosterKeepsItsPromise == Promise!Spec` the property.

| Action | Code |
|---|---|
| `Join`/`Seat` | `joinTournament`, `joinTournamentAsGuest`: checks, then the transaction that counts again |
| `Invite`/`Send`, `Respond`/`Accept`/`Decline` | `inviteTournamentParticipant`, `respondToParticipantInvitation` |
| `Leave`/`Unseat` | `leaveTournament` |
| `UpdateSeed`/`SetSeed` | `updateSeed` |
| `ReplaceParticipant`/`Swap` | `replaceParticipant`, which renames the open matches |
| `Start`, `Report` | the draw and a result, each in one step: their detail is in `TournamentLifecycle` and the bracket modules |

### Content

One slot: the build of one entrant, or one game of one profile's gallery, as
`items` (rows, live or removed) and `disk` (files). `Submit`/`Save`/`Unlink`
is `BuildService.submit`: read, write the row, delete the old file; `Withdraw`,
`Look`/`Review`, `UpdateSettings`, `Start` (`assertBuildsReady`) the rest of it;
`Caption` is `GalleryService.upsert` without an image; `Report`/`AddReport`,
`Remove`/`Hide`, `Dismiss`, `Restore`/`Unhide`, `Purge`/`DeleteRows` and `Expire`
(the days of a removal's hold) are `ModerationService`. `judged`, kept with a row, is
the file the reviewer looked at. Only builds with an image: text and links have
no file.

### Guests

One name, the `User` rows that have held it (`user`, `holder`), its `entry` in each
tournament with one match it may have `won`, exclusions, and the `lifetime`
counters. `CreateGuestUser`, `JoinAsGuest`/`Enter`, `JoinRegistered`,
`ConvertGuest`/`Convert` (which rebuilds the lifetime from history, `History`),
`Exclude`, `Include`, `Purge`/`Retire`, `DeleteUser`/`Delete` are the operations;
`Win`, `ResetWin`, `CompleteTournament`/`Pay` are what the match and tournament
services do to a guest's numbers; `Pass` is the retention of 30 days running out.

### SignIn, Sessions

`SignIn` is one account: its row, the latest code, the steps somebody holds a token
for (`held`), remembered devices, and what was guessed and proved. A request is
one action here. Each action is a route: `SignUp`, `AdminCreate`,
`PasswordSignIn`, `SubmitCode`, `SubmitRecoveryCode`, `ResendCode`, `RequestReset`,
`ResetPassword`, `ChangeForcedPassword`, `SendCode`, `ChangePassword`, `ChangeEmail`,
`NewRecoveryCodes`, `SignOutEverywhere`, `GoogleSignIn`, `GoogleLink`,
`UpdateProfile`; `WrongCode` and `WrongPassword` are refused attempts, and `Tick` the
clock that throttles and expires. The site's configuration is the `scene`.

`Sessions` is the revocation: tokens know the second they were issued in
(`thisSecond`), `Stamp` is the write of `sessionsValidFrom` and `Forget` the
dropping of the cached reading after it; a guard does `Check` (the cache may
answer), `Read`, `Keep`, `Answer`. `Read` either learns the stamp or fails, and a failed
reading is kept and used as no stamp at all, as the guard does (`.catch(() => null)`,
`jwt-auth.guard.ts` 77). `voided` remembers since when a token should be void, and
`failures` when the requests began whose reading failed.

### MatchTimer, Awards, Backup

`MatchTimer`: requests `Read` the row of a match and `Set`, `Start`, `Pause`, `Reset`
or `Flip` it by a plain update later (dice are recorded like flips); a pass of the
job does `Wake` (the query), then `Flag` and `Notify` for each row it found. Requests
go on while a pass notifies, and a countdown may be started again under it; that a
second pass begins meanwhile is the run `TimerDoubleFires`.

`Awards`: `Create`/`Make`, `ReplaceImage`/`Hang`/`Drop`, `Remove`/`Removed`, `Archive`,
`Grant`/`Granted`, `Revoke`/`Revoked` (with `Heirs`, the grant that takes the place of the
revoked one), `SetShowcase`/`Shown` are `AwardService`, reads and writes apart.
`wish` remembers where the holder put each award.

`Backup`: a user's request and the nightly run are two processes over one
database and one directory; one user at a time works on backups here. `Dump`, `Write`, `List`, `Prune` are `create` and its pruning. A file
has the name of its second and its alias and overwrites whatever has that name
(`Put`, `Names`); its manifest has the moment it was made, whether it is a safety copy
and whether it is pinned. `Prune` keeps the newest by that moment (`Newest`). `Import`
keeps the manifest of the imported file as it is, its moment and its pin too, so an
import may be dated before or after everything here, and may bring back a copy of one
of the server's own files. `Restore`, `Keep`, `Load` or `LoadFails`, `OwnSetting`,
`ClearCache` is `restore`; `ResetData`, `EmptySite` is `resetData`; `Pin`, `RemoveFile`
the rest. `Crash` is the death of the process at any point, and the restart after a
restore: what was going on is gone, database and files stay, with whatever a load cut
short has left (`Interrupted`). `Edit` is anything anybody does on the site.

The settings that describe the server (`isEnvironmentSetting`) are one row per key, or
none, where the environment or the default decides. `Load` replaces all of them by the
snapshot's. `Keep` reads this server's rows before, and takes a failed reading for no rows;
`OwnSetting` puts one of those rows back, or fails to, and goes on. A key for which this
server had no row keeps the snapshot's. `ours` remembers, per key, the row that people of
this server have set, for as long as nothing has failed for it: it is forgotten when
the row could not be read or put back, was lost with a failed load, or was changed while
a restore held the older one.

`SettingsService` keeps one value in memory per setting, and so does the model:
`GetSetting` and `CacheSetting` are `get` (the row is read, then the value is
cached), `ChangeSetting` and `DropSetting` are `set` and `clear` (the row is written,
or its deletion fails quietly, then the cached value is dropped). `usage` says what people
do meanwhile, edit the site or read and change settings. `missed` remembers that a value
was dropped while a reader that had read the older row was still about to cache it, or
was not dropped at all because the restore failed before `clearCache`.

## 3. The runs

| Run | Instance | Shows |
|---|---|---|
| `ElimDouble` | double elimination, 4 players, players 1 and 2 may forfeit, 1 reset, 1 start | `SlotsMatchFeeders`, `ResultStandsUntilReset` |
| `ElimDoubleByes` | double elimination, 5 players, 3 byes, player 2 may forfeit | `SlotsWithinDraw`, `NoUnplayableMatch`, `ChampionOutlastsTheField`, and, under fairness, `BracketIsDecided` |
| `ElimConcurrent` | single elimination, 4 players, 2 requests, player 1 may forfeit, results for half-filled matches | `ForfeitsTerminateCleanly` under every interleaving of two requests |
| `ScoringSeries` | best of three by tracker, staff and players, walkovers, 1 reset | `DecidedSeriesIsHeld`, `ScoreMatchesLogs` |
| `ScoringCredit` | single game, every route but the walkover, draws, 2 resets | `StatsCountTheMatchOnce` |
| `Lifecycle` | three plans: 3 players, 1 request, early completion, manual status changes and deletion; any 2 of them, 2 requests, every route but manual status changes, 1 reset; any 2 of them, 2 requests, manual status changes, but no results. 1 database error in each | the types (no bye is taken back that was not given), `EveryEntrantIsDrawn`, `AwardsPaidOnce` (the title among them), `FinishedStaysFinished`, `OneGenerator`, `NothingLeftBehind`, `WholeRoundOrNone` |
| `Rounds` | ten fields: Swiss of 3, 4, 5, round robin of 3, 4, hybrid of 3, 4; one of them with 2 requests | `OncePerRound`, `NextRoundWaits`, `ByesAreShared`, `FreshOpponents`, `OneTopCut`, `ChampionPlacedFirst`, `NeverStranded` |
| `Platform` | the parts of `Platform`, one per behaviour | see below |
| `Sessions` | 2 guards, a span of 1, 4 half seconds, readings failing at 1 moment | `VoidedSessionsEndInTime` |
| `ElimForfeitedReset` | double elimination, 3 players | violation, see section 5 |
| `TimerDoubleFires` | two passes of the job, 2 matches | violation, see section 5 |
| `LifecycleResetPays` | 2 players, the final may be reset | violation, see section 5 |

The parts of `Platform`:

| Part | Instance | Shows |
|---|---|---|
| drawing loops | every field of 2..33 players | `FirstRoundSeatsTheField` (everybody once, byes for exactly the best `power - n` seeds), `SeedsStayApart` (the best 2^j seeds in different 2^j-ths), `DrawMatchesShape` (the loops build `BracketShape`) |
| `Roster` | 2 players and a guest, cap 2; 1 request, or 2 without seeds | `RosterKeepsItsPromise`; with 1 request `MatchesNameEntrants` |
| `Content` | a build with 2 submitters, a build with reviewer and organizer, a gallery image; 2 rows, 2 files | `BuildImagesExist` under interleaving, `ApprovalCoversWhatWasReviewed` with 1 request |
| `Guests` | 2 identities of a name; 2 tournaments with 1 request, 1 that is reopened with 1 or 2 | `UnfinishedEventsKeepEntrants` throughout, `ResultsCountOnce` with 1 request and no reopening |
| `SignIn` | five sites: codes asked, an admin-made account, Google without mail, registration without mail, the seeded account | `GuessingIsSlow`, `VerifiedAddressIsProved` |
| `MatchTimer` | 2 matches, 1 request, passes one after the other, countdowns started twice | `CountdownAnnouncedOnce` |
| `Awards` | a medal and a plaque, 3 grants, 1 request | `ShowcaseAsPut` |
| `Backup` | retention of 2 and one key; the site edited, 3 backups and one of another server dated ahead; or settings read and changed, 2 backups and an older safety copy of another server. In either one nightly run, pin, alias, change, failure or death | `WayBack`, `ServerKeepsItsSettings` |

A property that says "one request at a time" is one the code does not keep
when requests overlap; section 5 has those cases. In `TournamentLifecycle` that
condition is `Alone`, and `ByHand` says that the status is also set by hand.
`WholeRoundOrNone` is the strongest of its properties: even where two requests
draw at once, because somebody set the status back to `OPEN`, one of them fails
on the unique index or a foreign key and takes everything with it.

Most runs take seconds; `Sessions` (6.3 million states) and `Platform` (1.4 million
states with many variables) take two to three minutes each.

### Bounds, and why they are enough

* **Players.** Five is the smallest field whose double-elimination bracket has a
  losers match that *both* feeders starve (a dead match); four has every losers
  round but no bye; three is the smallest with a bye and an odd Swiss field.
  The drawing loops are cheap and run for every field up to 33, which crosses
  five powers of two. `Rounds` has three to five: three and five have byes (with
  five, one that can be given to the wrong player while several are left), four
  has a table of two pairs. Four matches each is the most anybody plays, so the
  percentages of the tiebreakers are exact as integers over 12.
* **Requests.** One request at a time shows what the handlers do when nobody
  interferes; two show every race between a read and a write of two handlers.
  The races found need no more than two.
* **Forfeits (`Quitters`)**: by the symmetry of a bracket without byes one
  forfeiting player stands for any; two of them cover matches between two
  forfeited players. **Resets, failures, starts** are bounded by one or two: the
  effects that matter (a second completion, a second draw) need one.
* **`Limits` of `Rounds`**: draws, resets, forfeits and extra rounds, one each at
  most and only in some of the fields, because a table depends on all results.
  Of the ten fields nine take one request at a time; the tenth, Swiss with four,
  two, which is what it takes to finish the two matches of a round at once.
* **Scenes and crowds.** The parts of `Platform` take a set of situations: who
  runs at once, what may happen besides. Two requests that overlap are `r1` and
  `r2`, one alone is `r0`; the first two are interchangeable, and so are the two
  addresses of `SignIn`, and TLC is told so (no liveness is checked there).
* **Clocks** (`MaxTime`) run two or three spans: long enough for a code to end, a
  throttle to pass and a cached stamp to be forgotten, each with something in
  flight. `Sessions` counts half seconds, because a token knows the second it was
  issued in and the stamp is compared with it. Its readings fail at one moment
  (`MaxFailures`), so that a failure, a revocation and the end of both spans fit; its two
  guards are interchangeable.
* **Backups.** Retention is two, so that a copy can be rolled off by what comes after
  it and survive one of those. The three backups of the first scene are a safety copy, a
  nightly one and an import or another; `Theirs` is dated after all of them there, which
  is where it harms the copy, and before them in the second scene, where it is a safety
  copy, so that its restore makes no other and the steps are left to the settings. The
  bounded events (`MaxEvents`) are one per behaviour because two of them multiply the
  states past the time a run may take; that properties hold for any number, of keys too,
  is proved (`OwnSettingsSurvive`, `TheWayBackIsKept`).
* **Rows, files, grants** (`MaxItem`, `MaxFile`, `MaxGrant`): two of a kind, so that a
  new one and the one it replaces are there at once, three where one of them is
  kept as a copy. A submission waits until a file name and a row number are free
  (`FreeFile`, `FreeId` of `Content`), where the code draws fresh ones without end.
* **`MaxGames`, `MaxLogs`** let a best of three be played, rejected and played
  again.

### Fairness

`FairSpec` of `Elimination` has weak fairness of `Progress`: an awaited call
returns, which the runtime and the database provide, and as long as some match
can be given a result somebody gives one, which is the organizers' job and no
property of the code. Nothing is assumed about *which* match or winner, nor that
anybody starts, forfeits or resets. Under it the bracket is decided; without
it a tournament may simply be abandoned. Resets are bounded there: with
unlimited resets no bracket need ever finish. `Rounds` states the safety half,
`NeverStranded`, which needs no fairness: when nothing runs, nothing is left to
play and somebody is still in it, the tournament is over or waits for the organizer. Nothing in the other
modules must happen by itself, except for the timer job and the nightly backup,
whose passes may come at any time or never.

## 4. The proofs

TLC shows a property on one instance; the theorems below hold for every value of
the constants that satisfies the named assumptions. A condition in the third column
is a hypothesis of the theorem; "alone" is part of the property itself (one request
at a time), so nothing else is assumed for it.

| Theorem | Proves | Condition |
|---|---|---|
| `EliminationProofs!TypeCorrect` | `TypeOK` | |
| `EliminationProofs!NobodyStrays` | `SlotsWithinDraw` | |
| `EliminationProofs!NobodyWaitsForAQuitter` | `ForfeitsTerminateCleanly` | single elimination, nothing reset or restarted (`OneWay`) |
| `EliminationProofs!RecordedResultsStand` | `ResultStandsUntilReset` | one request |
| `EliminationProofs!SlotsAreWhatFeedersDelivered` | `SlotsMatchFeeders` | one request, no half-filled results, a losers bracket if double |
| `EliminationProofs!SomebodyCanWin` | `NoUnplayableMatch` | the same, nothing reset |
| `EliminationProofs!TitleIsEarned` | `ChampionOutlastsTheField` | one request, no half-filled results, a losers bracket if double |
| `LifecycleProofs!TypeCorrect` | `TypeOK` | |
| `LifecycleProofs!OnlyOneDraws` | `OneGenerator` | no status by hand, in the property |
| `LifecycleProofs!EntrantsAreDrawn` | `EveryEntrantIsDrawn` | alone |
| `LifecycleProofs!FailedStartsLeaveNothing` | `NothingLeftBehind` | alone, or no status by hand |
| `LifecycleProofs!FinishedForGood` | `FinishedStaysFinished` | alone |
| `LifecycleProofs!AwardsPaidOnlyOnce` | `AwardsPaidOnce` | alone, and only until a final is reset |
| `LifecycleProofs!NoPartialRound` | `WholeRoundOrNone` | alone, or a field of two |
| `ScoringProofs!TypeCorrect` | `TypeOK` | |
| `ScoringProofs!MatchIsCountedOnce` | `StatsCountTheMatchOnce` | one request, no walkovers |
| `ScoringProofs!DecidedStaysHeld` | `DecidedSeriesIsHeld` | one request, no self reports |
| `ScoringProofs!ScoreIsTheLog` | `ScoreMatchesLogs` | one request, every game through the tracker |
| `RoundsProofs!NobodyTwice` | `OncePerRound` | |
| `RoundsProofs!DrawsWait` | `NextRoundWaits` | alone |
| `RoundsProofs!ByesTakeTurns` | `ByesAreShared` | alone |
| `RoundsProofs!TheCutIsTheTop` | `OneTopCut` | alone, no extra rounds, a round to play |
| `RoundsProofs!NobodyWaitsForNothing` | `NeverStranded` | one request, no extra rounds, a round to play |
| `RoundsProofs!TitleAndFirstPrize` | `ChampionPlacedFirst` | alone, no extra rounds in a hybrid, a round to play there |
| `RoundsProofs!EveryPairOnce` | `FreshOpponents` | round robin |
| `RosterProofs!TypeCorrect` | `TypeOK` | |
| `RosterProofs!RosterImplementsSeats` | `RosterKeepsItsPromise`, the refinement of `Seats` | |
| `RosterProofs!EveryMatchNamesEntrants` | `MatchesNameEntrants` | alone |
| `SessionsProofs!VoidedEndInTime` | `VoidedSessionsEndInTime` | except within a span of a failed reading, in the property |
| `PlatformProofs!FieldIsSeated` | `FirstRoundSeatsTheField` | |
| `PlatformProofs!NobodyPlaysNobody` | `NoPhantomMatch` of `BracketDraw` | |
| `PlatformProofs!BestMeetLast` | `SeedsStayApart` | |
| `PlatformProofs!LoopsBuildTheShape` | `DrawMatchesShape` | |
| `PlatformProofs!CountdownsAnnouncedOnce` | `CountdownAnnouncedOnce` | one pass of the job at a time |
| `PlatformProofs!OwnSettingsSurvive` | `ServerKeepsItsSettings` | rows that were set, read and put back without failure, in the property; `Imported` |
| `PlatformProofs!TheWayBackIsKept` | `WayBack` | the copy's name not given again, and not outranked by as many backups as are kept, in the property; `Imported` |
| `PlatformProofs!GuessesAreFew` | `GuessingIsSlow` | |
| `PlatformProofs!VerifiedMeansProved` | `VerifiedAddressIsProved` | |
| `ServicesProofs!ImagesOutliveRows` | `BuildImagesExist` | |
| `ServicesProofs!ApprovalsCoverTheImage` | `ApprovalCoversWhatWasReviewed` | alone |
| `ServicesProofs!EventsKeepTheirGuests` | `UnfinishedEventsKeepEntrants` | |
| `ServicesProofs!LifetimesAddUp` | `ResultsCountOnce` | alone, nothing reopened |
| `ServicesProofs!MedalsStayPut` | `ShowcaseAsPut` | alone |

Besides these, the theorems assume what says that the constants are what they are meant
to be: limits are numbers, sets of requests and tournaments finite, a null is none
of the ids, a medal is no plaque, people are finitely many and a guest is no player
(`Sane`), and the assumptions of the modules (`WiringAssumption`,
`RoundsAssumption`, ...), which TLC evaluates on every run. `Imported` says that backups
of other servers have the fields of backups and are not dated at the very millisecond of
a backup of this server, where the order of the list would be the directory's.

### Why the conditions

Each condition marks where the code stops keeping the property. *One request*: two
that overlap break it, in the way section 5 tells for each. *No half-filled
results*: a result for a match with one player leaves the other finalist without
a seat (section 5). *Nothing reset*: a dead match that is reset is never settled again
(section 5). *A losers bracket if double*: in a double elimination of two, the only
match delivers both its players to the grand final, which `Delivers` does not tell
apart; that field is a finite case, for which TLC settles the other two properties. *No walkovers*: the
walkover credits its winner alone and the reset takes from both. *No self reports*:
a report may name another player than the one who has won. *Through the tracker*:
a game reported to the match directly has no row in the log. *One pass*: this is
`TimerDoubleFires`. *Until a final is reset*: this is `LifecycleResetPays`. *Fewer
nightly runs*: as many as are kept roll the safety copy off. *No extra rounds*: an
extra round may be drawn while another one is played, and then which round is
the last depends on who finishes first; in a hybrid it may bring a second cut
(section 5). *A round to play*: the form wants at least one round
(`config-fields.helper.ts` 215), the server does not ask; with none, the
first round is drawn all the same and the cut has the number 2, not 1. *Round robin*: the
greedy pairing of the other systems may repeat a pair. `OneWay`: with a reset
(`MaxResets = 1`) or a start that races with a result (`MaxStarts = 1`) a completed
match opens again with a forfeited player in it, and TLC finds the property violated
on `ElimConcurrent`; in double elimination the reset match does it
(`ElimForfeitedReset`).

### The bracket

**NobodyStrays** holds for every wiring that satisfies `WiringAssumption`
(links lead to matches whose draw contains the draw of the feeder, the grand
final's draw is contained in the reset match's), any set of players, any number
of interleaving requests, half-filled results included. `SlotsWithinDraw` alone
is not inductive: a player who is *about* to be moved is not in a slot but in a
pending call. The invariant `IInv` adds that the winner of a match is in its
draw, and that every call on every stack (and every entry of a forfeit's list)
carries a player of the draw of the match it names. Each action either leaves
a stack's tail or pushes calls that satisfy this, by a lemma on concatenation;
`Handle` uses that links respect the draw.

**NobodyWaitsForAQuitter** is about a result and a forfeit that cross: the result
moves a player into a match while the forfeit has already listed the matches to
walk over, or the other way round. The invariant `FInv` says that a match with
exactly one forfeited player is *pursued*: some request has it in hand, or will list it.
That this is never lost takes to know where a forfeited player can be. `InLine`
says that whoever is in a match, or on the way to it, has finished every match below it
in the draw; two open matches one player is in would have to lie below one another
(`Apart` of the wiring, a condition only single elimination has), so a player is in
one open match at most, and a forfeit's list has one entry at most (`GoodCalls`). The
conditions on trees in `WiringAssumption` are met by the brackets of `BracketShape`; TLC
evaluates them for the wirings the runs use, and did so for every field of 2..9
players.

**RecordedResultsStand** is an action property: no step but a reset changes the winner, the
slots or the status of a completed match. Every write follows a check that its match is
open, at once or, for the byes of the start, much later on the same stack. `Fresh`
says so of a stack: the call on top that writes has an open match, and the byes that
wait below are different matches of the first round, which nothing above them
completes.

**SlotsAreWhatFeedersDelivered**, **SomebodyCanWin** and **TitleIsEarned** rest on one
invariant, `Cascade(r)`, of the rows and the stack of the request that runs. A property
of the bracket *between* requests is false while one cascades, so the invariant says what is
still owed. Its parts:

* `Rows`: a match has only players its feeders delivered (`FedRow`), no two equal ones,
  and leaves PENDING only when all its feeders are completed (`Ready`); a completed match
  without a winner had nobody in it (`PlayedRow`).
* `Brought`: what a feeder has to deliver is in the match, or a call on the stack will
  bring it (`Owes`: the `Handle` of the feeder, or the `Advance` or `Fill` of that player
  into that match).
* `Tended`, as long as nothing may be reset: a match that is ready and open has a player, or
  a call on the stack will look after it (`Tends`).
* `CallOK`: what each call relies on is true already when it is pushed and stays true until it
  is on top; for an `Advance`, that its match is still PENDING.
* `Ordered`, which is why it stays true: whatever runs above a waiting `Advance` is about a
  match of higher `Rank`, because the loser's match is served before the winner's and
  comes earlier in the order of play. A cascade never turns back.
* `DeciderRow`, `Decisive`: the reset match is there only if the grand final calls for it, with
  the same two players, and a tournament is over only with the winner of its last match.

There is a lemma per action that `Cascade` survives it (`CompleteGoesOn`, `HandleGoesOn`, ...);
with an empty stack nothing is owed and the first two theorems are read off. For the
third, a tournament that is over has played everything (`AllPlayed`), so each player has a *way*
through the bracket: the matches he was seen in (`Seen`), each but the first reached
from an earlier one by winning or losing it (`Goes`, `ComesFrom`). `Path`: he goes from each
straight to the next, without side branches, by induction over `Rank`. So he has one last
match. In single elimination he lost that one or won the final. In double elimination he was in
the losers bracket only after a loss (`Dropped`), never comes back to the winners bracket
(`NeverBack`), loses once at most on either side (`TwoLosses`), and reaches the grand final
undefeated as the winners' finalist or with one loss (`IntoTheGrandFinal`,
`Undefeated`); the rest is who won the grand final and its reset match.

These three also assume `ShapeAssumption`: a `Rank` that grows along the links and puts the
losers' match between a match and its successor, one final, two feeders at most,
each entrant drawn once, the losers bracket closed but for its exit to the grand final.
TLC evaluates it on every run, and did for single and double elimination of 2..9, 12, 16 and
17 players (`MCRank` is the order of play of the rounds).

### The draw

**FieldIsSeated**, **NobodyPlaysNobody**, **BestMeetLast** and **LoopsBuildTheShape** hold for
a field of every size, up to any `MaxField`. The invariant `DrawInv` says after how many turns each
loop is: `power` is a power of two no larger than needed, `order` is `SeedOrder` of
some number of doublings, and the line of slots after r rounds is `Folded`, alive
everywhere from the second round on. What the loops leave is then said of the
seed order alone, by induction over the doublings: it is a permutation
(`DoubledPermuted`); neighbours add up to the size plus one (`PairFacing`), so one
of two neighbours is in the better half, which every field fills: no
match is without a player, and a bye goes to the seeds whose neighbour is past the field;
and the best seeds of one doubling stay in different blocks in the next (`ApartDoubled`). Of `2^i`
the provers know nothing: that it doubles (`Powers`) is proved by counting, for it is
the number of subsets of i things.

### The tournament

**OnlyOneDraws** holds for any number of players, requests, starts and failures.
The property speaks of two requests in the drawing operations; the invariant
`ClaimInv` says in addition that while one is drawing, or undoing, the tournament
is not `OPEN`, so the conditional update of a second one misses. `Reopen` is
the only way back to `OPEN`, and the request that takes it has stopped drawing.
`ClaimInv` is claimed only where the status is not set by hand (`~ByHand`), which
no step changes (`PlanFixed`). The condition is needed: with manual status
changes the property is false (see the last of the divergences).
**FailedStartsLeaveNothing** adds `ClearInv`, that an open tournament has no round and
nobody else touches the round of the one who draws.

**EntrantsAreDrawn**, **FinishedForGood**, **AwardsPaidOnlyOnce** share one invariant
(`AloneInv`), for a request that runs alone: `Steady` says for each statement what the
request that will execute it may still rely on (the roster it read is the roster there is,
the status it checked still holds, it created the round it fills), `Settled` what is
true of the tournament between two requests. `PaidInv` adds that nothing was paid before
the end. **NoPartialRound** has a second half for fields of two with any number of requests
and manual changes (`DuelInv`): what is placed is both or nobody, because two requests that
draw place the same match.

### Scoring

`Crediting`, `Deciding` and `Logging` each relate the row of the match to something
else, with a term for the request that has done half of it. `Crediting`: the records
are those before the match plus the delta of the result that stands, except between
the write of a result and its credit. `Deciding`: whoever has the wins a series takes is held
as the winner by the row, by a report, or by the request about to write one. `Logging`:
the rows of the log that were discarded are its first k, the others are numbered from 1, only
the last may be active, and the score of a player is the number of closed games won plus
the win that is counted but not yet logged (`Owed`); a report names the winner of the last
closed game, so a rejection takes away the right one.

### Rounds

**NobodyTwice** holds for any field, points, number of requests. Two things can go
wrong: a draw could name a player twice, or a round could be filled by two. For the
first, the lemmas follow the operators that choose: `Leaderboards` gives every order of
the players without doubles, `Without` keeps such an order, `Pairings` takes two off
it at a time, `Circle` sets nobody at two tables of a round (`CircleApart`). For the second, `DrawInv` says that a
request that seats a round created it, no two seat the same round, and what it has
still to seat is apart from the matches that are there. **DrawsWait** has `TurnInv`: the
rounds are numbered without gaps, and a draw that has been decided on follows a
round that is complete (`Follows`). **ByesTakeTurns** has `ByeInv`: a second bye
exists only when everybody still in the tournament has had one, and the bye of a draw that is
being seated was fair when it was drawn and still is, because nothing that runs alone
gives a bye in between; for the round robin, that the turning circle brings each player
opposite the empty place once (`CircleRestsOnce`).

**TheCutIsTheTop**, **NobodyWaitsForNothing** and **TitleAndFirstPrize** follow the one request
from the result that completes a round to what comes of it. `PlayInv` says where a
tournament by rounds can be then: all but the latest round has been played
(`OthersDone`), what is still on the request's agenda is in that round (`Agenda`, `Plan`), a
draw to be seated has somebody to play unless everybody has forfeited (`Seating`), and when all
has been played somebody is *busy* with it or the tournament is over, or tied on top
(`Settling`). Then a standstill is over or tied, which is `NeverStranded`. It takes that a
table exists for every set of results (`TableIsThere`: among finitely many keys there is
a greatest, by induction over the number of those placed), and that the keys do not change
while a later round is being drawn; else the tie found by `Final` might be gone
when the request has ended. `OneCut` is part of the same invariant: the cut is drawn
after the last round of the first phase, of the first two of the table that its rows
still give, because a row of the first phase cannot be reset once there is
a later round (`CutStays`). Swiss tournaments have no cut (`PlainInv`); the round robin, which asks
for all matches and for the status, has an invariant of its own (`RobinInv`). `Title` says of
the winner on the record, and of the one about to be written, that some table of the
results that are there now places him first: the leader of the table, or the winner of
the only match of the cut (`CutPlacesWinner`), who stays first when the results of the
first phase are placed behind (`CutIsFirst`).

**EveryPairOnce** is about the circle. In round r the places of two players add up to the
last place for one r exactly, because 2r is a given number modulo an odd one
(`CircleMeetsAll`, `CircleMeetsOnce`); afterwards a row is rewritten with the same two
players and none is added (`FullDraw`), with any number of requests.

The operators are recursive functions. The library's induction takes an operator as
a parameter, so what they compute is proved differently: one lemma gives the steps
of the function (`WithoutSteps`, `PairingsSteps`, `LeaderboardsSteps`), and `Induct` is
induction over a *set* of numbers, proved from the well-foundedness of the numbers
by taking the least that is missing.

### Roster, sessions

**RosterImplementsSeats** is the refinement: for any people, any cap, any number of
requests that overlap, `Roster` implies `Seats`. The invariant is `TypeOK` and
`OneRowEach`, nobody has two rows, which the mapping needs: the transactions
count *rows* against the cap, `Seats` counts *people*, and by `OneRowEach`
`Cardinality(rows) = Cardinality(Seated)` (`RosterProofs` proves that a map that is
one-to-one keeps the size of a finite set). Then each step is matched: `Seat` and
`Accept` take a free seat or find none, `Unseat` is `Go`, `Swap` is `Replace`, `SetSeed`
rewrites a row and leaves the people alone, everything else stutters.
**EveryMatchNamesEntrants** adds `Timely`: when the only request writes, nobody leaves after
the draw, and the row that a replacement rewrites is still that player's.

**VoidedEndInTime** holds for any number of requests in flight, any number of failed
readings and any span of the cache. Stale readings are the difficulty: a guard may have
read the stamp before the revocation, or failed to read it, and keep what it has in the
cache after, where `Forget` has already been. The invariant says that whatever would still
let a voided token pass (the cache, a reading under way, a reading about to be kept) began
no later than the token was voided or is a failed one, so that its span, which counts from
when the reading *began*, is over in time (`LeniencyIsOld`). A span that counts from when
the reading is kept breaks it, which is the mutant. What the theorem leaves of the guard's
promise after a failure is that failures do not add up: each opens one span and no longer.

### The services

**CountdownsAnnouncedOnce**: what was announced, plus what waits in a row or on the
list of a pass, plus what is flagged and about to be announced, is no more than what was
started (`Started`), match by match.

**OwnSettingsSurvive**, key by key (`SettingsInv`): a row in `ours` is in the database, or
the restore that replaced it holds it and has yet to put it back (`RowHeld`); what is cached,
or has been read to be cached, is the row in the database, unless the key is in `missed`, is
being changed, or a restore has yet to clear the cache (`CacheFresh`). Steps that only make
copies leave both alone, which `CopiesAside` says once for all of them. The theorem says what
the code keeps to after its failures too: one row that cannot be put back loses that row and
no other.

**TheWayBackIsKept** (`CopyInv`) holds for any retention and any number of nightly runs.
`VaultInOrder` says that names are of seconds gone by and that backups are dated by now or
at no moment of this server's clock, so that no other backup has the copy's own moment.
`Guarded` follows the copy from its writing on: as long as its file is there it holds what
the site held, and other files of later seconds are of later moments (`CopyLasts`); what
a nightly run is about to roll off while the copy stays is older than it (`DoomedOlder`);
and when the copy is rolled off, as many backups as are kept outrank it and are not on that list
(`Outranked`). No later step takes that back: the user is busy with the restore and removes
nothing, and the next pruning again keeps the newest. The last step is counting: those
kept are `Retention` many, and all of them are ahead.

**GuessesAreFew** is a potential: wrong guesses never exceed the tries of a code per period
of the throttle that has begun when the last code was sent, and per code that was read
(`GuessInv`). **VerifiedMeansProved**: a live code was sent to the address the account has,
so changing the address without dropping the code would break it (`AddressInv`).

**ImagesOutliveRows** holds under every interleaving: a file about to be saved is nobody
else's, a file about to be deleted is only in rows that will be written first, or in none
(`Careful`). **ApprovalsCoverTheImage**, **LifetimesAddUp** and **MedalsStayPut** say of a
request that runs alone that what it read is still so (`ApprovalInv`, `VisitInv`,
`AwardsTyped`), next to the relation itself: an approved row has the judged image; a lifetime is
the tournaments counted and won of them; each held award is carried by one grant, in its
place (`AsPut`). **EventsKeepTheirGuests** needs no invariant but the domain of the
users, for the transaction that retires reads what it needs itself.

### Only model-checked

* Liveness (`BracketIsDecided`), and anything about `ENABLED`, is outside TLAPS.
* `NoUnplayableMatch` and `ChampionOutlastsTheField` in a double elimination of two
  players: a finite case (`ElimDoubleByes` with `Field = 2`).
* Of `FreshOpponents`, that the greedy pairing of four repeats nobody: a finite case
  that TLC settles. `OneTopCut`, `ChampionPlacedFirst` and `NeverStranded` with extra
  rounds, and `NeverStranded` with two requests at once, as far as `Rounds` has them.
* The violations of section 5, which are counterexamples.

## 5. Divergences

Three runs expect a violation. In each the code does something its own comments
exclude. The second table below has more of the same kind.

* `ElimForfeitedReset`. `createGrandFinalReset` (F 504-519) seats both grand
  finalists in the reset match, and nothing asks whether one of them has
  forfeited meanwhile; the match stays open. M 1016-1019: the resolution "is
  what lets a forfeit terminate cleanly in every format".
* `TimerDoubleFires`. A pass of the timer job reads all countdowns that ran out in
  one query and flags them one by one, each after the notifications of the one
  before. A pass that begins meanwhile reads the same rows and announces them
  again. `matchTimer.ts` 63: "Flag first so a slow notification pass can't
  double-fire on the next tick".
* `LifecycleResetPays`. Resetting the deciding match reopens a completed
  tournament (M 559-569) and keeps its awards; replaying it pays them again.
  T 816-819: a second completion "would permanently inflate the global
  leaderboard".

### Known divergences without a run of their own

Each of these was found with TLC on the instance described, by checking the
named property, which the module defines. Starting from the named configuration,
change what the second column says.

| Property | Instance | What happens |
|---|---|---|
| `Elimination!EveryLaterRoundReceivesTwoWinners` | `ElimConcurrent`, `Quitters = {}` , `HalfFilled = FALSE` | both semi-finals finish at once, both winners are written into `player1Id`, one is lost (M 1068; F 165-166: "every non-first round always receives two winners") |
| the same | the same, one request, `HalfFilled = TRUE` | a result is accepted for a final with one player; the other finalist cannot be advanced (M 606) |
| `Elimination!StartOnlyFromPending` | `ElimConcurrent`, `MaxStarts = 1` | a match completed during `startMatch` becomes ONGOING again (M 1184; M 1119: "PENDING → ONGOING") |
| `Elimination!NoUnplayableMatch` | `ElimDoubleByes`, `Spec`, `MaxResets = 1` | a match settled as dead is reset and nothing settles it again (F 110-113: "Without this, double elimination with a non-power-of-two field deadlocks") |
| `MatchScoring!DecidedSeriesIsHeld` | `ScoringSeries`, `Endpoints <- Reported` | a self report replaces or clears the winner of a decided series (M 300; M 743-744: "nothing more may be recorded until staff verdict it") |
| `MatchScoring!BareReportKeepsTheScore` | the same | rejecting a bare report takes away a game (M 384-391; M 344-345: "it only needs the score step skipped") |
| `MatchScoring!StatsCountTheMatchOnce` | `ScoringCredit`, two requests | two verdicts both pass "Match already completed" (M 602) |
| `MatchScoring!ResetTakesBackWhatWasGiven` | `ScoringCredit`, `Endpoints <- Tracked` | the reset takes a game and a loss from a player the walkover gave none (M 495; `match-stats.helper.ts` 29-31: "only the winner is credited (and only the winner reversed)") |
| `MatchScoring!OneLiveGame` | `ScoringSeries`, two requests | two trackers are opened at once (K 79: "Submit it before opening the next") |
| `TournamentLifecycle!AwardsPaidOnce` | `Lifecycle`, its second plan with `again` 0, without `Alone` | two completions both pass the guard (T 931-933: "makes this path run once") |
| `TournamentLifecycle!WinnerHoldsTheTitle` | `Lifecycle`, its first plan | a result recorded after an early completion renames the winner (F 475-478, 543-547; T 826-831) |
| `TournamentLifecycle!EveryEntrantIsDrawn` | `Lifecycle`, its second plan, without `Alone` | a player who joins during the start has no match (P 34-145; T 704-705) |
| `TournamentLifecycle!FinishedStaysFinished` | `Lifecycle`, its second plan with `again` 0 and no deletion, without `Alone` | the last write of a start undoes a completion (T 697-698: "this re-write is harmless") |
| the same | the same, with deletion | a deletion that read the status before the completion deletes the finished tournament (T 1356-1392) |
| `TournamentLifecycle!FirstRoundByeOnce` | `Lifecycle`, its first plan | the bye of a failed start stays credited (T 686-687: "the way it was") |
| `TournamentLifecycle!OneGenerator` | `Lifecycle`, its third plan, without `~ByHand` | a late manual "OPEN" reopens a tournament that is being drawn (T 106; T 559-560: "Only one caller can move the row out of OPEN") |
| `Sessions!RevokedWithinWindow` | `Sessions` | a guard whose query fails takes that for no stamp and caches it: every voided token passes for another span, however old its revocation (`jwt-auth.guard.ts` 77; 42-43: "A revocation takes effect within this window") |
| `Backup!AlwaysAWayBack` | `Platform`, stated of `Vault` as `WayBack` is | a nightly run in the second of the safety copy overwrites it; or an import dated ahead outranks it and the next nightly run rolls it off (`backup.service.ts` 246, 382, 420-421; 470-471: "the single worst outcome here is restoring the wrong file and having nothing to go back to") |
| `Backup!NothingForeignSurvives` | `Platform`, stated of `Vault` as `WayBack` is | a key that this server has in its environment and not in its table keeps the snapshot's row, which overrides the environment (`backup.service.ts` 661-690; 511-512: "Mail, Google and backup configuration belong to whichever machine is running, not to the snapshot") |

### Cases found while modelling the services

These were seen in counterexamples of properties before their condition was
added (mostly "one request at a time"), or while translating. They have no run.

*Rounds.* Two requests that finish the last two matches of a hybrid first phase
both find it complete and draw two top cuts (F 272-290). `resolveTie` asks neither
for the status nor the system: extending a hybrid draws a second top cut, and
answering the tie of a completed tournament overwrites its winner. A forfeited
player can be seeded into the top cut and is not walked over there (M 1016-1019).
A tournament in which everybody forfeited gets an empty round and waits for ever.
The pairing is greedy: with five players round three may repeat a pair that
another pairing would avoid. A match won by walkover or a direct result has no game
score, where L 229-231 says one is "still" scored 1-0. Matches of the top cut count in
the tiebreakers of those who are not in it.

*Roster.* Two replacements at once, a replacement while a match completes, or a
departure that checked the status before a start leave matches that name
somebody who is not in the tournament, though each roster is in order (P 583:
"half-applied swap"). An invitation once accepted cannot be sent again after the
player left. Of an acceptance and a refusal at once the last to write names the state
of the invitation.

*Content.* A review reads the build, and its verdict is written onto whatever the
row holds by then (`build.service.ts` 264). The purge deletes by id what was restored
since it looked. A caption saved while the image is deleted can write the deleted
image's name back (which is why `BuildImagesExist` is about builds). Submissions at
once leave a file nobody names. A report that races with a removal stays open on a
hidden item.

*Guests.* A tournament excluded while unfinished still counts what happens in it
later. A completion reads `isGuest` before it pays, so a claim in between loses its
result or counts it twice. A reset final, replayed, pays again.

*Sessions.* A password changed in the second of a sign-out-everywhere moves the
stamp back by a second and revives tokens of that second; a sign-in in that second is
void at birth. Other processes keep their cached reading for its span.

*SignIn.* Two requests at once can both use one code, and lose each other's count
of attempts. An admin who changes an address leaves it verified
(`updateProfile`); a code sent to the old address verifies the new one when the
change was proved by Google. `submitCode` takes a challenge token of any step. The
token of a forced password change stays good for its 15 minutes.
`resetPassword` revokes devices but does not stamp the sessions.

*MatchTimer.* A pass that read a countdown stops it although it was restarted since.
Two flips at once lose one. *Awards.* A revocation whose heir was chosen before a new
showcase was saved can put a medal in a slot it was taken from.

*Backup.* The safety copy "is taken first and unconditionally" (`backup.service.ts` 470),
except when the file restored
is itself a safety copy. A retention that is not a number makes `prune` delete every
unpinned backup, the new one included. With a retention of one a nightly run during a
restore removes the safety copy (the run has two). When this server's rows cannot be read
before a restore, all of them become the snapshot's, and a row that cannot be put back becomes
the snapshot's too; both are logged and the restore succeeds (651-657, 685). A failed `pg_restore`
leaves the settings of the other server and a stale cache, because `clearCache` comes
after it. A backup pinned between list
and deletion is deleted. A reader that races with a writer or with
`clearCache` caches the old value with no limit of time (`missed`). A setting that
an admin changes during a restore is lost: `restoreEnvironmentSettings` writes back what was
read before. Two backups in the same
second with the same alias, or none, have the same name, and the second overwrites the first.

*Start.* A process that dies between the claim and the end of a draw leaves the
tournament ONGOING with part of a round; T 623-625 rebuilds a partial round only when
the tournament can be started again, and from ONGOING there is no way back.

## 6. Not modelled

* **Organizers** (invited, answered, revoked) and the access guards decide who may
  call a route. The models take a request that has passed them; what they would
  check is a table of roles.
* **Statistics over several matches**: deleting a tournament reverses those of
  every match by the rule for ordinary results. `MatchScoring` follows one
  match, `TournamentLifecycle` one bye, `Guests` the lifetime of one name.
* **Structural placements of double elimination, other orders of tiebreakers, the global
  board** (L), **the third-place match**, **presets and overrides** of formats: functions of
  data, without states.
* **Two users working on backups at once**, each with a restore or a reset of their own;
  `Backup` has one besides the nightly run. **Clocks that go back**: names of backups are of
  the server's local time and would repeat with it.
* **Users, games, store, home page, images**: rows edited one at a time.
* **Notifications, realtime, mail, audit**: outgoing effects no modelled decision reads.
* **Search, dashboard, analytics, health**: queries.
* **Development data, first-run setup, deployment scripts**: outside the running system.

## 7. Plan

1. *Ledger*: statistics over several matches, with byes, walkovers, resets and the
   reversal in `deleteTournament`.
2. *Refinement*: an abstract "one champion, chosen once, from those not yet
   eliminated" implemented by `Elimination` between requests.
3. *Codes under concurrency*: the checks of one code row by two requests.
4. *Organizers* with the routes they open and close.
