------------------------------- MODULE SignIn -------------------------------
(***************************************************************************)
(* Getting into one account: registration, passwords, e-mailed codes,      *)
(* recovery codes, remembered devices and Google (AuthService,             *)
(* TwoFactorService, AccountService, GoogleAuthService).                   *)
(*                                                                         *)
(* A request is one step here.  What requests that overlap do to one code  *)
(* row is told in the README; what revoking sessions does is in Sessions.  *)
(* Tokens that prove one step passed are known by their step: whoever has  *)
(* one may use it any number of times, until it runs out, which is when    *)
(* nobody uses it any more.                                                *)
(***************************************************************************)
EXTENDS FiniteSets, Naturals, Sequences

CONSTANTS
    Address,      \* e-mail addresses that receive mail
    Void,         \* the address of the seeded account, which receives none
    SignInLife,   \* SIGNIN_CODE_TTL_MS
    VerifyLife,   \* VERIFY_CODE_TTL_MS
    Throttle,     \* RESEND_THROTTLE_MS
    Tries,        \* MAX_ATTEMPTS on a code
    PasswordTries, PasswordWindow,
    MaxTime,      \* bounds the clock
    MaxRight,     \* bounds the codes entered correctly
    Scenes        \* the sites explored: what TWO_FACTOR_ENFORCEMENT asks of this
                  \* account (asks: "none", that its "address" is proved, or a
                  \* "code" as well), whether mail is delivered, how the account
                  \* is born, whether Google is offered, whether an admin edits it

VARIABLES
    scene, now,
    account,      \* the User row
    code,         \* the latest TwoFactorCode row: older ones are all consumed
    held,         \* the steps somebody holds a token for, "session" being the last
    trusted,      \* some browser is a trusted device
    misses,       \* passwordMisses: the times of wrong current passwords
    guesses,      \* wrong codes compared with a live one so far
    rights,       \* codes entered correctly so far
    proved        \* addresses a code from their inbox was entered for, or vouched for

vars == <<scene, now, account, code, held, trusted, misses, guesses, rights, proved>>

Steps == {"verify", "signin", "reset"}

Init ==
    /\ scene \in Scenes
    /\ now = 0
    /\ account = [made |-> FALSE, email |-> Void, verified |-> FALSE, password |-> FALSE,
                  forced |-> FALSE, google |-> FALSE, recovery |-> 0]
    /\ code = [state |-> "none", at |-> 0, life |-> 0, attempts |-> 0, to |-> Void]
    /\ held = {}
    /\ trusted = FALSE
    /\ misses = <<>>
    /\ guesses = 0 /\ rights = 0
    /\ proved = {}

Tick ==
    /\ now < MaxTime
    /\ now' = now + 1
    /\ UNCHANGED <<scene, account, code, held, trusted, misses, guesses, rights, proved>>

(***************************************************************************)
(* Codes                                                                   *)
(***************************************************************************)

(* Mutant of Throttled: only a code that still lives holds a new one back. *)
ThrottledWhileLive == code.state = "live" /\ now - code.at < Throttle

Throttled == code.state \notin {"none", "right"} /\ now - code.at < Throttle

Life(step) == IF step = "signin" THEN SignInLife ELSE VerifyLife

(* issueCode: the new row leaves no other live.                            *)
Issued(step, to) ==
    IF Throttled THEN code
    ELSE [state |-> "live", at |-> now, life |-> Life(step), attempts |-> 0, to |-> to]

Stale == now > code.at + code.life \/ code.attempts >= Tries

(* Mutant of Spent: the code that was accepted stays.                      *)
SpentLater == [code EXCEPT !.attempts = 0]

Spent == [code EXCEPT !.state = "right"]

(* checkCode finds the code right: it reached an inbox somebody reads.     *)
Right ==
    /\ code.state = "live" /\ ~Stale
    /\ scene.mail /\ code.to # Void
    /\ rights < MaxRight
    /\ rights' = rights + 1
    /\ code' = Spent

(* Somebody is asked for a code: at a step, or for a change to the account *)
(* (proofMethod "code").                                                   *)
Asked == held \intersect Steps # {} \/ ("session" \in held /\ scene.mail)

(* checkCode with a wrong code; a stale one is consumed whatever is sent.  *)
WrongCode ==
    /\ Asked /\ code.state = "live"
    /\ IF Stale THEN /\ code' = [code EXCEPT !.state = "used"]
                     /\ UNCHANGED guesses
       ELSE /\ guesses' = guesses + 1
            /\ code' = [code EXCEPT !.attempts = @ + 1,
                                    !.state = IF code.attempts + 1 >= Tries THEN "used" ELSE @]
    /\ UNCHANGED <<scene, now, account, held, trusted, misses, rights, proved>>

NoCode == UNCHANGED <<code, rights>>

(* A new code is sent and its step may be taken: the same answer is given  *)
(* when it is throttled.                                                   *)
Challenge(step) ==
    /\ code' = Issued(step, account.email)
    /\ held' = held \union {step}
    /\ UNCHANGED <<rights, trusted, proved>>

(* completeSignIn: a password somebody else chose has to be replaced first.*)
Complete(forced) == held' = held \union {IF forced THEN "change" ELSE "session"}

(* useRecoveryCode.                                                        *)
Recovery == account.recovery > 0 /\ NoCode

Rest == UNCHANGED <<scene, now, misses, guesses>>

(***************************************************************************)
(* Registration and sign-in                                                *)
(***************************************************************************)

EmailRequired == scene.asks # "none"

New(verified, password, forced, google, email) ==
    account' = [account EXCEPT !.made = TRUE, !.verified = verified, !.password = password,
                               !.forced = forced, !.google = google, !.email = email]

SignUp ==
    /\ scene.born = "signup" /\ ~account.made
    /\ \E a \in Address :
          /\ New(FALSE, TRUE, FALSE, FALSE, a)
          /\ IF EmailRequired
                THEN code' = Issued("verify", a) /\ held' = held \union {"verify"}
                ELSE UNCHANGED <<code, held>>
    /\ UNCHANGED <<trusted, rights, proved>> /\ Rest

(* adminCreateUser, and the admin the database is seeded with.             *)
AdminCreate ==
    /\ ~account.made
    /\ \/ scene.born = "admin" /\ \E a \in Address : New(FALSE, TRUE, TRUE, FALSE, a)
       \/ scene.born = "seed" /\ New(FALSE, TRUE, TRUE, FALSE, Void)
    /\ UNCHANGED <<code, held, trusted, rights, proved>> /\ Rest

(* The right password, in a trusted browser or another.                    *)
PasswordSignIn(inTrusted) ==
    /\ account.made /\ account.password
    /\ inTrusted => trusted
    /\ UNCHANGED account
    /\ IF ~account.verified /\ EmailRequired THEN Challenge("verify")
       ELSE IF scene.asks = "code" /\ ~inTrusted THEN Challenge("signin")
       ELSE Complete(account.forced) /\ NoCode /\ UNCHANGED <<trusted, proved>>
    /\ Rest

(* submitCode: a token of any step will do.                                *)
SubmitCode(step, remember) ==
    /\ account.made /\ step \in held
    /\ Right
    /\ IF step = "verify" \/ ~account.verified
          THEN account' = [account EXCEPT !.verified = TRUE, !.recovery = 1]
          ELSE UNCHANGED account
    /\ proved' = proved \union {code.to}
    /\ trusted' = (trusted \/ remember)
    /\ Complete(account.forced) /\ Rest

(* submitRecoveryCode: it stands for an inbox nobody can read.             *)
SubmitRecoveryCode ==
    /\ account.made /\ held \intersect Steps # {}
    /\ Recovery
    /\ account' = [account EXCEPT !.recovery = @ - 1, !.verified = TRUE]
    /\ proved' = proved \union {account.email}
    /\ Complete(account.forced) /\ UNCHANGED trusted /\ Rest

ResendCode(step) ==
    /\ account.made /\ step \in held
    /\ Challenge(step) /\ UNCHANGED account /\ Rest

(***************************************************************************)
(* Passwords lost, given and changed                                       *)
(***************************************************************************)

RequestReset ==
    /\ account.made
    /\ Challenge("reset") /\ UNCHANGED account /\ Rest

(* applyNewPassword, after a code or a recovery code.                      *)
ResetPassword ==
    /\ account.made
    /\ \/ /\ "reset" \in held /\ Right
          /\ account' = [account EXCEPT !.password = TRUE, !.forced = FALSE]
       \/ /\ Recovery
          /\ account' = [account EXCEPT !.password = TRUE, !.forced = FALSE,
                                        !.recovery = @ - 1]
    /\ trusted' = FALSE
    /\ Complete(FALSE) /\ UNCHANGED proved /\ Rest

(* changeForcedPassword; an address that receives nothing is replaced.     *)
ChangeForcedPassword ==
    /\ account.made /\ "change" \in held
    /\ IF account.email = Void
          THEN \E a \in Address :
                  account' = [account EXCEPT !.forced = FALSE, !.password = TRUE,
                                             !.email = a, !.verified = FALSE]
          ELSE account' = [account EXCEPT !.forced = FALSE, !.password = TRUE]
    /\ Complete(FALSE) /\ NoCode /\ UNCHANGED <<trusted, proved>> /\ Rest

(***************************************************************************)
(* Changes by the person signed in                                         *)
(***************************************************************************)

SignedIn == account.made /\ "session" \in held

SendCode ==
    /\ SignedIn /\ scene.mail
    /\ code' = Issued("change", account.email)
    /\ UNCHANGED <<account, held, trusted, rights, proved>> /\ Rest

Recent == SelectSeq(misses, LAMBDA t : now - t < PasswordWindow)

WrongPassword ==
    /\ SignedIn /\ ~scene.mail /\ account.password
    /\ Len(Recent) < PasswordTries
    /\ misses' = Append(Recent, now)
    /\ UNCHANGED <<scene, now, account, code, held, trusted, guesses, rights, proved>>

(* assertProof: Google again if it is linked, or else the code where mail  *)
(* goes out and the current password where it does not.                    *)
Proof ==
    /\ SignedIn
    /\ \/ scene.google /\ account.google /\ NoCode /\ UNCHANGED misses
       \/ scene.mail /\ Right /\ UNCHANGED misses
       \/ /\ ~scene.mail /\ account.password /\ Len(Recent) < PasswordTries
          /\ misses' = <<>>
          /\ NoCode
    /\ UNCHANGED <<scene, now, held, guesses, proved>>

(* The browser that makes the change may stay a trusted one.               *)
ChangePassword ==
    /\ Proof
    /\ account' = [account EXCEPT !.password = TRUE, !.forced = FALSE]
    /\ trusted' \in {FALSE, trusted}

ChangeEmail ==
    /\ Proof
    /\ \E a \in Address \ {account.email} :
          account' = [account EXCEPT !.email = a, !.verified = FALSE]
    /\ UNCHANGED trusted

NewRecoveryCodes ==
    /\ Proof
    /\ account' = [account EXCEPT !.recovery = 1]
    /\ UNCHANGED trusted

(* signOutEverywhere; forgetDevice and revokeDevices of the last device.   *)
SignOutEverywhere ==
    /\ SignedIn
    /\ \/ held' = held \ {"session"} \/ UNCHANGED held
    /\ trusted' = FALSE
    /\ UNCHANGED <<account, code, rights, proved>> /\ Rest

(***************************************************************************)
(* Google and the admin                                                    *)
(***************************************************************************)

(* GoogleAuthService.signIn: an account it knows, or a new one.  One found *)
(* by its address has a password, and is refused.                          *)
GoogleSignIn ==
    /\ scene.google
    /\ \/ /\ account.made /\ account.google
          /\ Complete(account.forced)
          /\ UNCHANGED <<account, proved>>
       \/ /\ scene.born = "google" /\ ~account.made
          /\ \E a \in Address : New(TRUE, FALSE, FALSE, TRUE, a) /\ proved' = proved \union {a}
          /\ Complete(FALSE)
    /\ NoCode /\ UNCHANGED trusted /\ Rest

GoogleLink ==
    /\ scene.google /\ SignedIn
    /\ \/ account' = [account EXCEPT !.google = TRUE]
       \/ account.password /\ account' = [account EXCEPT !.google = FALSE]
    /\ UNCHANGED <<code, held, trusted, rights, proved>> /\ Rest

(* updateProfile: a password handed over, or another address.              *)
UpdateProfile ==
    /\ scene.admin /\ account.made
    /\ \/ account' = [account EXCEPT !.password = TRUE, !.forced = TRUE]
       \/ \E a \in Address : account' = [account EXCEPT !.email = a]
    /\ UNCHANGED <<code, held, trusted, rights, proved>> /\ Rest

Next ==
    \/ Tick \/ WrongCode \/ WrongPassword \/ SignUp \/ AdminCreate
    \/ \E inTrusted \in BOOLEAN : PasswordSignIn(inTrusted)
    \/ \E step \in Steps : ResendCode(step) \/ \E remember \in BOOLEAN : SubmitCode(step, remember)
    \/ SubmitRecoveryCode \/ RequestReset \/ ResetPassword \/ ChangeForcedPassword
    \/ SendCode \/ ChangePassword \/ ChangeEmail \/ NewRecoveryCodes \/ SignOutEverywhere
    \/ GoogleSignIn \/ GoogleLink \/ UpdateProfile

Spec == Init /\ [][Next]_vars

(***************************************************************************)
(* Properties                                                              *)
(***************************************************************************)

(* Failing a code on purpose and asking for another buys no more guesses   *)
(* than one code's worth each Throttle, and one more for each code that    *)
(* was read from the inbox ("burn-and-retry", issueCode).                  *)
GuessingIsSlow == guesses <= Tries * (1 + (now \div Throttle) + rights)

(* Where only passwords and codes confirm a change, an account's address   *)
(* is verified only if a code sent to that very address was entered, or a  *)
(* recovery code while the account had it: a code sent to the address      *)
(* before does not do ("The new address is proved at the next sign-in that *)
(* needs a code", changeEmail).                                            *)
VerifiedAddressIsProved ==
    account.verified /\ ~scene.google /\ ~scene.admin => account.email \in proved

=============================================================================
