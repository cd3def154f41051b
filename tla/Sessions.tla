------------------------------ MODULE Sessions ------------------------------
(***************************************************************************)
(* Sessions of one account: tokens that carry the second they were issued  *)
(* in, a stamp in the account before which they are void, and the guard's  *)
(* cached reading of that stamp (JwtAuthGuard, AccountService).            *)
(*                                                                         *)
(* The clock counts half seconds, so that two things may happen in one     *)
(* second; a token knows the whole second only.                            *)
(***************************************************************************)
EXTENDS FiniteSets, Integers

CONSTANTS
    Guard,        \* requests being checked at the same time
    Span,         \* REVOCATION_CACHE_MS
    MaxTime,      \* bounds the clock
    MaxFailures,  \* bounds the moments at which the database fails to answer
    Never         \* no stamp, or no cache entry

VARIABLES
    now,
    tokens,       \* the seconds session tokens were issued in
    validFrom,    \* User.sessionsValidFrom
    cache,        \* JwtAuthGuard.revokedAt: the stamp and its last moment
    forgetting,   \* the stamp is written, its cached reading still to be dropped
    guard,        \* what each guard is doing
    voided,       \* the tokens the stamp voids, and since when it does
    failures      \* when the requests began whose reading of the stamp failed

vars == <<now, tokens, validFrom, cache, forgetting, guard, voided, failures>>

Second(t) == t - (t % 2)

Idle == [step |-> "idle"]

Init ==
    /\ now = 0
    /\ tokens = {}
    /\ validFrom = Never
    /\ cache = Never
    /\ forgetting = FALSE
    /\ guard = [g \in Guard |-> Idle]
    /\ voided = {} /\ failures = {}

Tick ==
    /\ now < MaxTime
    /\ now' = now + 1
    /\ UNCHANGED <<tokens, validFrom, cache, forgetting, guard, voided, failures>>

(* The tokens a stamp voids, and since when.  A stamp may lie before the   *)
(* one it replaces: then some are no longer void.                          *)
Void(stamp, issued) ==
    voided' = {v \in voided : v.token < stamp} \union
              {[token |-> t, at |-> now] :
                  t \in {u \in issued : u < stamp /\ \A v \in voided : v.token # u}}

(* completeSignIn mints a session token.                                   *)
SignIn ==
    LET issued == tokens \union {Second(now)} IN
    /\ tokens' = issued
    /\ IF validFrom = Never THEN UNCHANGED voided ELSE Void(validFrom, issued)
    /\ UNCHANGED <<now, validFrom, cache, forgetting, guard, failures>>

(* A change writes the stamp, and then drops the cached reading; the       *)
(* changes of an account come one at a time.                               *)
Stamp(stamp, issued) ==
    /\ ~forgetting
    /\ validFrom' = stamp
    /\ tokens' = issued
    /\ Void(stamp, issued)
    /\ forgetting' = TRUE
    /\ UNCHANGED <<now, cache, guard, failures>>

(* signOutEverywhere: nothing issued up to this second survives.           *)
SignOutEverywhere == Stamp(Second(now) + 2, tokens)

(* changePassword: everything issued before this second is void; the       *)
(* browser gets a token of this second (reissueSession).                   *)
ChangePassword == Stamp(Second(now), tokens \union {Second(now)})

(* JwtAuthGuard.forget.                                                    *)
Forget ==
    /\ forgetting
    /\ forgetting' = FALSE
    /\ cache' = Never
    /\ UNCHANGED <<now, tokens, validFrom, guard, voided, failures>>

(* The stamp a guard finds good: the cached one, unless it is too old.     *)
Cached == cache # Never /\ cache.until >= now

Voids(stamp, t) == stamp # Never /\ t < stamp

(* isRevoked with a fresh entry answers at once; otherwise it notes the    *)
(* time and asks the database.                                             *)
Check(g, t) ==
    /\ guard[g] = Idle
    /\ guard' = [guard EXCEPT ![g] =
                    IF Cached
                       THEN [step |-> "answer", token |-> t,
                             passes |-> ~Voids(cache.at, t), at |-> now]
                       ELSE [step |-> "read", token |-> t, began |-> now]]
    /\ UNCHANGED <<now, tokens, validFrom, cache, forgetting, voided, failures>>

Learn(g, stamp) ==
    /\ guard[g].step = "read"
    /\ guard' = [guard EXCEPT ![g] = [step |-> "keep", token |-> @.token,
                                      began |-> @.began, stamp |-> stamp]]
    /\ UNCHANGED <<now, tokens, validFrom, cache, forgetting, voided>>

(* The database answers, or fails to: a failure is taken for no stamp.     *)
Read(g) ==
    \/ Learn(g, validFrom) /\ UNCHANGED failures
    \/ /\ Learn(g, Never)
       /\ failures' = failures \union {guard[g].began}
       /\ Cardinality(failures') <= MaxFailures

(* Mutant of Until: the span counts from when the reading is kept.         *)
UntilKept(began) == now + Span

(* The moment an entry read by a request that began then is last used.     *)
Until(began) == began + Span

(* The reading is kept and used.                                           *)
Keep(g) ==
    LET me == guard[g] IN
    /\ me.step = "keep"
    /\ cache' = [at |-> me.stamp, until |-> Until(me.began)]
    /\ guard' = [guard EXCEPT ![g] = [step |-> "answer", token |-> me.token,
                                      passes |-> ~Voids(me.stamp, me.token),
                                      at |-> me.began]]
    /\ UNCHANGED <<now, tokens, validFrom, forgetting, voided, failures>>

(* The request goes on or is refused.                                      *)
Answer(g) ==
    /\ guard[g].step = "answer"
    /\ guard' = [guard EXCEPT ![g] = Idle]
    /\ UNCHANGED <<now, tokens, validFrom, cache, forgetting, voided, failures>>

Next ==
    \/ Tick \/ SignIn \/ SignOutEverywhere \/ ChangePassword \/ Forget
    \/ \E g \in Guard :
          \/ \E t \in tokens : Check(g, t)
          \/ Read(g) \/ Keep(g) \/ Answer(g)

Spec == Init /\ [][Next]_vars

(* Whatever requests are in the middle of reading the stamp when it is     *)
(* written, a request that begins more than Span after its token was       *)
(* voided passes only within Span of a request whose reading of the stamp  *)
(* failed: no reading, failed or overtaken by a change, outlives the span  *)
(* (isRevoked keeps every reading for REVOCATION_CACHE_MS from when the    *)
(* request began).                                                         *)
VoidedSessionsEndInTime ==
    \A g \in Guard : \A v \in voided :
        guard[g].step = "answer" /\ guard[g].token = v.token /\ guard[g].passes =>
            \/ guard[g].at <= v.at + Span
            \/ \E f \in failures : f <= guard[g].at /\ guard[g].at <= f + Span

(* What the guard's comment says ("A revocation takes effect within this   *)
(* window"); a failed reading breaks it.                                   *)
RevokedWithinWindow ==
    \A g \in Guard : \A v \in voided :
        guard[g].step = "answer" /\ guard[g].token = v.token /\ guard[g].passes =>
            guard[g].at <= v.at + Span

=============================================================================
