--------------------------- MODULE SessionsProofs ---------------------------
(***************************************************************************)
(* A voided session ends in time, for any number of requests that read the *)
(* stamp at once, every caching span, however often the stamp moves and    *)
(* reading it fails.                                                       *)
(***************************************************************************)
EXTENDS Sessions, TLAPS

(* The span is a number, and the absent stamp is none.                     *)
Sane == Span \in Nat /\ Never \notin Int

Stamps == Int \union {Never}

Entries == [at : Stamps, until : Int]

Checks ==
    [step : {"idle"}] \union
    [step : {"answer"}, token : Int, passes : BOOLEAN, at : Int] \union
    [step : {"read"}, token : Int, began : Int] \union
    [step : {"keep"}, token : Int, began : Int, stamp : Stamps]

TypeOK ==
    /\ now \in Nat
    /\ tokens \subseteq Int
    /\ validFrom \in Stamps
    /\ cache \in Entries \union {Never}
    /\ forgetting \in BOOLEAN
    /\ guard \in [Guard -> Checks]
    /\ voided \subseteq [token : Int, at : Int]
    /\ failures \subseteq Int

(* Exactly what the stamp voids is voided; it was not later than now.      *)
VoidedByStamp ==
    \A v \in voided : v.at <= now /\ validFrom # Never /\ v.token < validFrom

(* What the cache and the guards hold is not from the future ...           *)
HeldInThePast ==
    /\ cache # Never => cache.until <= now + Span
    /\ \A g \in Guard :
          /\ guard[g].step \in {"read", "keep"} => guard[g].began <= now
          /\ guard[g].step = "answer" => guard[g].at <= now

(* ... and where it lets a voided token pass, was read before the voiding  *)
(* or could not be read.                                                   *)
LeniencyIsOld ==
    \A v \in voided :
        /\ cache # Never /\ ~Voids(cache.at, v.token) =>
              cache.until <= v.at + Span \/ (\E f \in failures : cache.until = f + Span)
        /\ \A g \in Guard :
              guard[g].step = "keep" /\ ~Voids(guard[g].stamp, v.token) =>
                  guard[g].began <= v.at \/ guard[g].began \in failures

FailuresArePast == \A f \in failures : f <= now

(* The moments at which a voided token may pass.                           *)
Excused(at, v) ==
    \/ at <= v.at + Span
    \/ \E f \in failures : f <= at /\ at <= f + Span

IInv ==
    /\ TypeOK /\ VoidedByStamp /\ HeldInThePast /\ LeniencyIsOld
    /\ FailuresArePast /\ VoidedSessionsEndInTime

LEMMA SecondIsInt == \A t \in Nat : Second(t) \in Int
  BY DEF Second

(* What a guard remembers, by its step.                                    *)
LEMMA ChecksByStep ==
    ASSUME NEW c \in Checks
    PROVE  /\ c.step = "answer" => c.token \in Int /\ c.passes \in BOOLEAN /\ c.at \in Int
           /\ c.step = "read" => c.token \in Int /\ c.began \in Int
           /\ c.step = "keep" => c.token \in Int /\ c.began \in Int /\ c.stamp \in Stamps
  BY DEF Checks

(* Moving the stamp, or a token issued under it, voids as of now.          *)
LEMMA VoidKeeps ==
    ASSUME Sane, IInv, NEW stamp \in Int, NEW issued, issued \subseteq Int,
           Void(stamp, issued), validFrom' = stamp, tokens' = issued,
           forgetting' \in BOOLEAN, UNCHANGED <<now, cache, guard, failures>>
    PROVE  IInv'
  <1>1. \A v \in voided' :
           /\ v \in [token : Int, at : Int]
           /\ v.token < stamp
           /\ v \in voided \/ v.at = now
    BY DEF Void, IInv, TypeOK
  <1>2. TypeOK'
    BY <1>1 DEF IInv, TypeOK, Stamps
  <1>3. VoidedByStamp'
    BY <1>1 DEF IInv, TypeOK, VoidedByStamp, Sane
  <1>4. HeldInThePast' /\ FailuresArePast'
    BY DEF IInv, HeldInThePast, FailuresArePast
  <1>5. LeniencyIsOld'
    BY <1>1 DEF IInv, LeniencyIsOld, HeldInThePast, Voids
  <1>6. VoidedSessionsEndInTime'
    <2> SUFFICES ASSUME NEW g \in Guard, NEW v \in voided',
                        guard[g].step = "answer", guard[g].token = v.token, guard[g].passes
                 PROVE  Excused(guard[g].at, v)
      BY DEF VoidedSessionsEndInTime, Excused
    <2>1. CASE v \in voided
      BY <2>1 DEF IInv, VoidedSessionsEndInTime, Excused
    <2>2. CASE v.at = now
      <3>1. guard[g].at \in Int /\ guard[g].at <= now
        BY ChecksByStep DEF IInv, TypeOK, HeldInThePast
      <3> QED  BY <2>2, <3>1 DEF IInv, TypeOK, Sane, Excused
    <2> QED  BY <1>1, <2>1, <2>2
  <1> QED  BY <1>2, <1>3, <1>4, <1>5, <1>6 DEF IInv

LEMMA TickKeeps ==
    ASSUME Sane, IInv, Tick
    PROVE  IInv'
  <1>1. now' = now + 1 /\ now \in Nat
    BY DEF Tick, IInv, TypeOK
  <1>2. TypeOK'
    BY <1>1 DEF Tick, IInv, TypeOK
  <1>3. VoidedByStamp'
    BY <1>1 DEF Tick, IInv, TypeOK, VoidedByStamp
  <1>4. HeldInThePast'
    <2>1. cache # Never => cache.until \in Int
      BY DEF IInv, TypeOK, Entries
    <2>2. \A g \in Guard :
             /\ guard[g].step \in {"read", "keep"} => guard[g].began \in Int
             /\ guard[g].step = "answer" => guard[g].at \in Int
      BY ChecksByStep DEF IInv, TypeOK
    <2> QED  BY <1>1, <2>1, <2>2 DEF Tick, IInv, HeldInThePast, Sane
  <1>5. LeniencyIsOld' /\ VoidedSessionsEndInTime'
    BY DEF Tick, IInv, LeniencyIsOld, VoidedSessionsEndInTime
  <1>6. FailuresArePast'
    BY <1>1 DEF Tick, IInv, TypeOK, FailuresArePast
  <1> QED  BY <1>2, <1>3, <1>4, <1>5, <1>6 DEF IInv

LEMMA ForgetKeeps ==
    ASSUME Sane, IInv, Forget
    PROVE  IInv'
  <1>1. TypeOK'
    BY DEF Forget, IInv, TypeOK
  <1> QED  BY <1>1 DEF Forget, IInv, VoidedByStamp, HeldInThePast, LeniencyIsOld,
                       FailuresArePast, VoidedSessionsEndInTime

(* A guard's next memory is enough to know: it is not from the future, an  *)
(* answer is in time, and a lenient reading is older than the voiding or   *)
(* failed.                                                                 *)
LEMMA GuardKeeps ==
    ASSUME Sane, IInv, NEW g \in Guard, NEW c \in Checks,
           guard' = [guard EXCEPT ![g] = c],
           c.step \in {"read", "keep"} => c.began <= now,
           c.step = "answer" => c.at <= now,
           \A v \in voided :
              /\ c.step = "keep" /\ ~Voids(c.stamp, v.token) =>
                    c.began <= v.at \/ c.began \in failures'
              /\ c.step = "answer" /\ c.token = v.token /\ c.passes => Excused(c.at, v),
           failures \subseteq failures',
           UNCHANGED <<now, tokens, validFrom, forgetting, voided>>
    PROVE  /\ guard' \in [Guard -> Checks]
           /\ \A h \in Guard :
                 /\ guard'[h].step \in {"read", "keep"} => guard'[h].began <= now
                 /\ guard'[h].step = "answer" => guard'[h].at <= now
           /\ \A v \in voided, h \in Guard :
                 guard'[h].step = "keep" /\ ~Voids(guard'[h].stamp, v.token) =>
                     guard'[h].began <= v.at \/ guard'[h].began \in failures'
           /\ VoidedSessionsEndInTime'
  <1>1. guard' \in [Guard -> Checks]
    BY DEF IInv, TypeOK
  <1>2. \A h \in Guard : guard'[h] = IF h = g THEN c ELSE guard[h]
    BY DEF IInv, TypeOK
  <1>3. \A h \in Guard :
           /\ guard'[h].step \in {"read", "keep"} => guard'[h].began <= now
           /\ guard'[h].step = "answer" => guard'[h].at <= now
    BY <1>2 DEF IInv, HeldInThePast
  <1>4. \A v \in voided, h \in Guard :
           guard'[h].step = "keep" /\ ~Voids(guard'[h].stamp, v.token) =>
               guard'[h].began <= v.at \/ guard'[h].began \in failures'
    BY <1>2 DEF IInv, LeniencyIsOld
  <1>5. VoidedSessionsEndInTime'
    BY <1>2 DEF IInv, VoidedSessionsEndInTime, Excused
  <1> QED  BY <1>1, <1>3, <1>4, <1>5

(* The cache and what has failed are as they were, or a reading failed     *)
(* that a guard has begun.                                                 *)
LEMMA OneGuardKeeps ==
    ASSUME Sane, IInv, NEW g \in Guard, NEW c \in Checks,
           guard' = [guard EXCEPT ![g] = c],
           c.step \in {"read", "keep"} => c.began <= now,
           c.step = "answer" => c.at <= now,
           \A v \in voided :
              /\ c.step = "keep" /\ ~Voids(c.stamp, v.token) =>
                    c.began <= v.at \/ c.began \in failures'
              /\ c.step = "answer" /\ c.token = v.token /\ c.passes => Excused(c.at, v),
           failures \subseteq failures',
           \A f \in failures' \ failures : f \in Int /\ f <= now,
           UNCHANGED <<now, tokens, validFrom, cache, forgetting, voided>>
    PROVE  IInv'
  <1>1. /\ guard' \in [Guard -> Checks]
        /\ \A h \in Guard :
              /\ guard'[h].step \in {"read", "keep"} => guard'[h].began <= now
              /\ guard'[h].step = "answer" => guard'[h].at <= now
        /\ \A v \in voided, h \in Guard :
              guard'[h].step = "keep" /\ ~Voids(guard'[h].stamp, v.token) =>
                  guard'[h].began <= v.at \/ guard'[h].began \in failures'
        /\ VoidedSessionsEndInTime'
    BY GuardKeeps
  <1>2. TypeOK' /\ FailuresArePast'
    BY <1>1 DEF IInv, TypeOK, FailuresArePast
  <1>3. VoidedByStamp'
    BY DEF IInv, VoidedByStamp
  <1>4. HeldInThePast'
    BY <1>1 DEF IInv, HeldInThePast
  <1>5. LeniencyIsOld'
    BY <1>1 DEF IInv, LeniencyIsOld
  <1> QED  BY <1>1, <1>2, <1>3, <1>4, <1>5 DEF IInv

(* A cached reading is used within its span; without one the time is noted.*)
LEMMA CheckKeeps ==
    ASSUME Sane, IInv, NEW g \in Guard, NEW t \in tokens, Check(g, t)
    PROVE  IInv'
  <1>1. t \in Int /\ now \in Int
    BY DEF IInv, TypeOK
  <1>2. CASE Cached
    <2> DEFINE c == [step |-> "answer", token |-> t, passes |-> ~Voids(cache.at, t), at |-> now]
    <2>1. c \in Checks
      BY <1>1 DEF Checks, Voids
    <2>2. \A v \in voided : t = v.token /\ ~Voids(cache.at, t) => Excused(now, v)
      <3> SUFFICES ASSUME NEW v \in voided, t = v.token, ~Voids(cache.at, t)
                   PROVE  Excused(now, v)
        OBVIOUS
      <3>1. /\ cache.until <= v.at + Span \/ \E f \in failures : cache.until = f + Span
            /\ now <= cache.until
        BY <1>2 DEF IInv, LeniencyIsOld, Cached
      <3>2. cache.until \in Int /\ v.at \in Int
        BY <1>2 DEF IInv, TypeOK, Entries, Cached
      <3>3. CASE cache.until <= v.at + Span
        BY <1>1, <3>1, <3>2, <3>3 DEF Sane, Excused
      <3>4. ASSUME NEW f \in failures, cache.until = f + Span
            PROVE  Excused(now, v)
        BY <1>1, <3>1, <3>4 DEF Excused, IInv, FailuresArePast
      <3> QED  BY <3>1, <3>3, <3>4
    <2>3. guard' = [guard EXCEPT ![g] = c]
      BY <1>2 DEF Check
    <2>4. UNCHANGED <<now, tokens, validFrom, cache, forgetting, voided, failures>>
      BY DEF Check
    <2>5. c.step = "answer" /\ c.token = t /\ c.at = now
      OBVIOUS
    <2>6. \A v \in voided : c.token = v.token /\ c.passes => Excused(c.at, v)
      BY <2>2
    <2> HIDE DEF c
    <2>7. /\ c.step \in {"read", "keep"} => c.began <= now
          /\ c.step = "answer" => c.at <= now
          /\ \A v \in voided :
                /\ c.step = "keep" /\ ~Voids(c.stamp, v.token) =>
                      c.began <= v.at \/ c.began \in failures'
                /\ c.step = "answer" /\ c.token = v.token /\ c.passes => Excused(c.at, v)
      BY <1>1, <2>5, <2>6
    <2> QED  BY <2>1, <2>3, <2>4, <2>7, OneGuardKeeps
  <1>3. CASE ~Cached
    <2> DEFINE c == [step |-> "read", token |-> t, began |-> now]
    <2>1. c \in Checks
      BY <1>1 DEF Checks
    <2>2. guard' = [guard EXCEPT ![g] = c]
      BY <1>3 DEF Check
    <2>3. c.step = "read" /\ c.began = now
      OBVIOUS
    <2>4. UNCHANGED <<now, tokens, validFrom, cache, forgetting, voided, failures>>
      BY DEF Check
    <2> HIDE DEF c
    <2>5. /\ c.step \in {"read", "keep"} => c.began <= now
          /\ c.step = "answer" => c.at <= now
          /\ \A v \in voided :
                /\ c.step = "keep" /\ ~Voids(c.stamp, v.token) =>
                      c.began <= v.at \/ c.began \in failures'
                /\ c.step = "answer" /\ c.token = v.token /\ c.passes => Excused(c.at, v)
      BY <1>1, <2>3
    <2> QED  BY <2>1, <2>2, <2>4, <2>5, OneGuardKeeps
  <1> QED  BY <1>2, <1>3

(* What is read now voids every token that is void now; a reading that     *)
(* fails is noted.                                                         *)
LEMMA ReadKeeps ==
    ASSUME Sane, IInv, NEW g \in Guard, Read(g)
    PROVE  IInv'
  <1> DEFINE me == guard[g]
  <1>1. me.step = "read"
    BY DEF Read, Learn
  <1>2. me.token \in Int /\ me.began \in Int /\ me.began <= now
    BY <1>1, ChecksByStep DEF IInv, TypeOK, HeldInThePast
  <1>3. PICK stamp \in Stamps :
           /\ Learn(g, stamp)
           /\ \/ stamp = validFrom /\ failures' = failures
              \/ stamp = Never /\ failures' = failures \union {me.began}
    BY DEF Read, IInv, TypeOK, Stamps
  <1> DEFINE c == [step |-> "keep", token |-> me.token, began |-> me.began, stamp |-> stamp]
  <1>4. c \in Checks
    BY <1>2 DEF Checks
  <1>5. \A v \in voided : Voids(stamp, v.token) \/ me.began \in failures'
    BY <1>3 DEF IInv, VoidedByStamp, Voids
  <1>6. /\ guard' = [guard EXCEPT ![g] = c]
        /\ UNCHANGED <<now, tokens, validFrom, cache, forgetting, voided>>
    BY <1>3 DEF Learn, IInv, TypeOK
  <1>7. c.step = "keep" /\ c.began = me.began /\ c.stamp = stamp
    OBVIOUS
  <1>8. failures \subseteq failures' /\ \A f \in failures' \ failures : f \in Int /\ f <= now
    BY <1>2, <1>3
  <1> HIDE DEF c
  <1> QED  BY <1>2, <1>4, <1>5, <1>6, <1>7, <1>8, OneGuardKeeps

LEMMA AnswerKeeps ==
    ASSUME Sane, IInv, NEW g \in Guard, Answer(g)
    PROVE  IInv'
  <1>1. Idle \in Checks /\ Idle.step = "idle"
    BY DEF Idle, Checks
  <1> QED  BY <1>1, OneGuardKeeps DEF Answer

(* A kept reading lasts from when it began, not from when it is kept.      *)
LEMMA KeepKeeps ==
    ASSUME Sane, IInv, NEW g \in Guard, Keep(g)
    PROVE  IInv'
  <1> DEFINE me == guard[g]
             c == [step |-> "answer", token |-> me.token,
                   passes |-> ~Voids(me.stamp, me.token), at |-> me.began]
  <1>1. /\ me.token \in Int /\ me.began \in Int /\ me.stamp \in Stamps
        /\ me.began <= now
    BY ChecksByStep DEF IInv, TypeOK, HeldInThePast, Keep
  <1>2. c \in Checks
    BY <1>1 DEF Checks, Voids
  <1>3. \A v \in voided : v.at \in Int /\ (~Voids(me.stamp, v.token) =>
            me.began <= v.at \/ me.began \in failures)
    BY DEF IInv, TypeOK, LeniencyIsOld, Keep
  <1>4. guard' = [guard EXCEPT ![g] = c]
    BY DEF Keep
  <1>5. /\ c.step = "answer" /\ c.token = me.token /\ c.at = me.began
        /\ c.passes = ~Voids(me.stamp, me.token)
    OBVIOUS
  <1>6. /\ cache' = [at |-> me.stamp, until |-> me.began + Span]
        /\ cache'.until = me.began + Span /\ cache'.at = me.stamp
    BY DEF Keep, Until
  <1>7. UNCHANGED <<now, tokens, validFrom, forgetting, voided, failures>>
    BY DEF Keep
  <1>8. \A v \in voided : ~Voids(me.stamp, v.token) => Excused(me.began, v)
    BY <1>1, <1>3 DEF Sane, Excused
  <1> HIDE DEF c
  <1>9. /\ guard' \in [Guard -> Checks]
        /\ \A h \in Guard :
              /\ guard'[h].step \in {"read", "keep"} => guard'[h].began <= now
              /\ guard'[h].step = "answer" => guard'[h].at <= now
        /\ \A v \in voided, h \in Guard :
              guard'[h].step = "keep" /\ ~Voids(guard'[h].stamp, v.token) =>
                  guard'[h].began <= v.at \/ guard'[h].began \in failures'
        /\ VoidedSessionsEndInTime'
    <2>1. failures \subseteq failures' /\ UNCHANGED <<now, tokens, validFrom, forgetting, voided>>
      BY <1>7
    <2>2. /\ c.step \in {"read", "keep"} => c.began <= now
          /\ c.step = "answer" => c.at <= now
          /\ \A v \in voided :
                /\ c.step = "keep" /\ ~Voids(c.stamp, v.token) =>
                      c.began <= v.at \/ c.began \in failures'
                /\ c.step = "answer" /\ c.token = v.token /\ c.passes => Excused(c.at, v)
      BY <1>1, <1>5, <1>8
    <2>3. \A v \in voided, h \in Guard :
             guard'[h].step = "keep" /\ ~Voids(guard'[h].stamp, v.token) =>
                 guard'[h].began <= v.at \/ guard'[h].began \in failures'
      BY <2>1, <2>2, <1>2, <1>4, GuardKeeps
    <2> QED  BY <2>1, <2>2, <2>3, <1>2, <1>4, GuardKeeps
  <1>10. TypeOK'
    BY <1>1, <1>6, <1>7, <1>9 DEF IInv, TypeOK, Entries, Sane
  <1>11. VoidedByStamp' /\ FailuresArePast'
    BY <1>7 DEF IInv, VoidedByStamp, FailuresArePast
  <1>12. HeldInThePast'
    BY <1>1, <1>6, <1>7, <1>9 DEF IInv, TypeOK, HeldInThePast, Sane
  <1>13. LeniencyIsOld'
    BY <1>1, <1>3, <1>6, <1>7, <1>9 DEF LeniencyIsOld, Sane
  <1> QED  BY <1>9, <1>10, <1>11, <1>12, <1>13 DEF IInv

LEMMA Inductive == ASSUME Sane, IInv, [Next]_vars PROVE IInv'
  <1>1. CASE UNCHANGED vars
    BY <1>1 DEF vars, IInv, TypeOK, VoidedByStamp, HeldInThePast, LeniencyIsOld,
                FailuresArePast, VoidedSessionsEndInTime
  <1>2. CASE SignIn
    <2> DEFINE issued == tokens \union {Second(now)}
    <2>1. issued \subseteq Int
      BY SecondIsInt DEF IInv, TypeOK
    <2>2. CASE validFrom = Never
      <3>1. voided = {}
        BY <2>2 DEF IInv, VoidedByStamp
      <3>2. /\ tokens' = issued
            /\ UNCHANGED <<now, validFrom, cache, forgetting, guard, voided, failures>>
        BY <1>2, <2>2 DEF SignIn
      <3>3. TypeOK'
        BY <2>1, <3>2 DEF IInv, TypeOK
      <3> QED  BY <3>2, <3>3 DEF IInv, VoidedByStamp, HeldInThePast, LeniencyIsOld,
                                 FailuresArePast, VoidedSessionsEndInTime
    <2>3. CASE validFrom # Never
      <3>1. validFrom \in Int
        BY <2>3 DEF IInv, TypeOK, Stamps
      <3>2. /\ Void(validFrom, issued) /\ tokens' = issued /\ forgetting' \in BOOLEAN
            /\ UNCHANGED <<now, validFrom, cache, guard, failures>>
        BY <1>2, <2>3 DEF SignIn, IInv, TypeOK
      <3> QED  BY <2>1, <3>1, <3>2, VoidKeeps
    <2> QED  BY <2>2, <2>3
  <1>3. CASE SignOutEverywhere
    <2>1. Second(now) + 2 \in Int /\ tokens \subseteq Int
      BY SecondIsInt DEF IInv, TypeOK
    <2> QED  BY <1>3, <2>1, VoidKeeps DEF SignOutEverywhere, Stamp
  <1>4. CASE ChangePassword
    <2>1. Second(now) \in Int /\ tokens \union {Second(now)} \subseteq Int
      BY SecondIsInt DEF IInv, TypeOK
    <2> QED  BY <1>4, <2>1, VoidKeeps DEF ChangePassword, Stamp
  <1>5. CASE Tick \/ Forget
    BY <1>5, TickKeeps, ForgetKeeps
  <1>6. ASSUME NEW g \in Guard,
               (\E t \in tokens : Check(g, t)) \/ Read(g) \/ Keep(g) \/ Answer(g)
        PROVE  IInv'
    BY <1>6, CheckKeeps, ReadKeeps, KeepKeeps, AnswerKeeps
  <1> QED  BY <1>1, <1>2, <1>3, <1>4, <1>5, <1>6 DEF Next

(* A request that begins more than Span after its token was voided passes  *)
(* only within Span of a failed reading, however many requests read and    *)
(* however often that fails (JwtAuthGuard.isRevoked,                       *)
(* AccountService.signOutEverywhere).                                      *)
THEOREM VoidedEndInTime == ASSUME Sane PROVE Spec => []VoidedSessionsEndInTime
  <1>1. Init => IInv
    <2> SUFFICES ASSUME Init PROVE IInv
      OBVIOUS
    <2>1. Idle \in Checks /\ Idle.step = "idle"
      BY DEF Idle, Checks
    <2>2. TypeOK
      BY <2>1 DEF Init, TypeOK, Stamps
    <2>3. voided = {} /\ failures = {} /\ cache = Never /\ \A g \in Guard : guard[g].step = "idle"
      BY <2>1 DEF Init
    <2> QED  BY <2>2, <2>3 DEF IInv, VoidedByStamp, HeldInThePast, LeniencyIsOld,
                               FailuresArePast, VoidedSessionsEndInTime
  <1>2. IInv /\ [Next]_vars => IInv'
    BY Inductive
  <1>3. IInv => VoidedSessionsEndInTime
    BY DEF IInv
  <1> QED  BY <1>1, <1>2, <1>3, PTL DEF Spec

=============================================================================
