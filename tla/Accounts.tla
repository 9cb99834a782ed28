------------------------------ MODULE Accounts ------------------------------
(***************************************************************************)
(* One user account (apps/accounts): registration, the one-time code that  *)
(* verifies its e-mail address, the token that resets its password, the    *)
(* profile, and the JWT session.                                           *)
(*                                                                         *)
(* The row is in the database, codes, tokens and the counter of wrong      *)
(* codes are Redis keys (apps/common/services/redis_service.py), each read *)
(* and written by commands of its own.  A call is a web request; its steps *)
(* are the statements and commands that other calls can come between.      *)
(* Codes and tokens are numbered, and no two are taken to be equal.        *)
(***************************************************************************)
EXTENDS Integers, FiniteSets

CONSTANTS AccountCalls,    \* the requests under way
          MaxCodes,        \* codes that are made
          MaxTokens,       \* reset tokens that are made
          NoUser

ASSUME AccountsAssumption == /\ MaxCodes \in Nat /\ MaxTokens \in Nat
                             /\ IsFiniteSet(AccountCalls)

VARIABLES user,         \* the row, or NoUser
          otp,          \* the key otp:<email>: a code, or 0
          attempts,     \* the key otp_attempts:<email>; 0 if there is none
          resetToken,   \* the key reset_token:<email>: a token, or 0
          session,      \* the refresh token: "none", "open" or "blacklisted"
          call,         \* call[c]: where request c is
          codes, tokens,    \* how many have been made
          guesses,      \* history: wrong codes that were compared with otp
          lost,         \* history: codes that were refused for the counter since
                        \* the last wrong one
          uses,         \* history: uses[t]: resets that have used token t
          clash         \* history: two requests have been under way at a time

accountVars == <<user, otp, attempts, resetToken, session, call, codes, tokens,
                 guesses, lost, uses, clash>>

\* password: the number of the reset it was set by, 0 at registration.
UserRow == [verified : BOOLEAN, password : Nat, name : {"first", "changed"}]
ASSUME NoUserAssumption == NoUser \notin UserRow

Resting == [step |-> "idle"]
CallSteps == {"idle", "insert", "code", "checkToken", "profile", "read", "compare", "count",
              "counted", "accept", "clear", "cleared", "password", "forget"}

AccountInit ==
    /\ user = NoUser
    /\ otp = 0 /\ attempts = 0 /\ resetToken = 0
    /\ session = "none"
    /\ call = [c \in AccountCalls |-> Resting]
    /\ codes = 0 /\ tokens = 0
    /\ guesses = 0 /\ lost = 0
    /\ uses = [t \in 1 .. MaxTokens |-> 0]
    /\ clash = FALSE

-----------------------------------------------------------------------------
redis == <<otp, attempts, resetToken>>
history == <<guesses, lost, uses, clash>>

Begin(c, next) ==
    /\ call[c] = Resting
    /\ call' = [call EXCEPT ![c] = next]
    /\ clash' = (clash \/ \E d \in AccountCalls : call[d] # Resting)

Continue(c, from, next) ==
    /\ call[c].step = from
    /\ call' = [call EXCEPT ![c] = next]
    /\ UNCHANGED clash

-----------------------------------------------------------------------------
(* register_user and resend_verification_otp.                               *)

\* The requests that are to make a code.
MakingCode == {d \in AccountCalls : call[d].step \in {"insert", "code"}}

MayMakeCode == codes + Cardinality(MakingCode) < MaxCodes

\* exists_by_email finds nobody.
Register(c) ==
    /\ user = NoUser /\ MayMakeCode
    /\ Begin(c, [step |-> "insert"])
    /\ UNCHANGED <<user, redis, session, codes, tokens, guesses, lost, uses>>

\* The address is unique: the second of two overlapping registrations fails.
InsertUser(c) ==
    /\ Continue(c, "insert", IF user = NoUser THEN [step |-> "code"] ELSE Resting)
    /\ user' = IF user = NoUser
               THEN [verified |-> FALSE, password |-> 0, name |-> "first"] ELSE user
    /\ UNCHANGED <<redis, session, codes, tokens, guesses, lost, uses>>

ResendCode(c) ==
    /\ user # NoUser /\ ~user.verified /\ MayMakeCode
    /\ Begin(c, [step |-> "code"])
    /\ UNCHANGED <<user, redis, session, codes, tokens, guesses, lost, uses>>

\* RedisService.set_otp with a new code; the counter is left as it is.
StoreCode(c) ==
    /\ Continue(c, "code", Resting)
    /\ codes' = codes + 1
    /\ otp' = codes'
    /\ guesses' = 0
    /\ UNCHANGED <<user, attempts, resetToken, session, tokens, lost, uses>>

-----------------------------------------------------------------------------
(* verify_email_otp.  answer: the code of the request, 0 for a guess.       *)
VerifyEmail(c, answer) ==
    /\ user # NoUser /\ ~user.verified
    /\ Begin(c, [step |-> "read", answer |-> answer])
    /\ UNCHANGED <<user, redis, session, codes, tokens, guesses, lost, uses>>

\* Nobody has registered, or the address is verified: the call returns.
NothingToVerify ==
    /\ user # NoUser => user.verified
    /\ UNCHANGED accountVars

ReadCode(c) ==
    /\ Continue(c, "read", [step |-> "compare", answer |-> call[c].answer, stored |-> otp])
    /\ UNCHANGED <<user, redis, session, codes, tokens, guesses, lost, uses>>

Right(c) == call[c].stored # 0 /\ call[c].stored = call[c].answer

\* Variant: a fourth wrong code is looked at.
LimitOffByOne == attempts > 3

\* OTP_LIMIT_EXCEEDED.
LimitReached == attempts >= 3

\* The counter is read; the code that was read before it is compared.
CompareCode(c) ==
    /\ Continue(c, "compare",
                CASE LimitReached -> [step |-> "clear"]
                  [] ~LimitReached /\ ~Right(c) -> [step |-> "count"]
                  [] ~LimitReached /\ Right(c) -> [step |-> "accept"])
    /\ guesses' = IF ~LimitReached /\ ~Right(c) /\ call[c].stored = otp /\ otp # 0
                  THEN guesses + 1 ELSE guesses
    /\ lost' = IF LimitReached THEN lost + (IF otp # 0 THEN 1 ELSE 0)
               ELSE IF Right(c) THEN lost ELSE 0
    /\ UNCHANGED <<user, redis, session, codes, tokens, uses>>

\* increment_otp_attempts reads the counter (past the limit, all counts are alike),
CountWrongCode(c) ==
    /\ Continue(c, "count", [step |-> "counted",
                             attempts |-> IF attempts < 4 THEN attempts + 1 ELSE 4])
    /\ UNCHANGED <<user, redis, session, codes, tokens, guesses, lost, uses>>

\* and sets it.
SetAttempts(c) ==
    /\ Continue(c, "counted", Resting)
    /\ attempts' = call[c].attempts
    /\ UNCHANGED <<user, otp, resetToken, session, codes, tokens, guesses, lost, uses>>

\* set_email_verified writes one column.
AcceptCode(c) ==
    /\ Continue(c, "accept", [step |-> "clear"])
    /\ user' = [user EXCEPT !.verified = TRUE]
    /\ UNCHANGED <<redis, session, codes, tokens, guesses, lost, uses>>

\* Variant: the counter is kept.
KeepAttempts(c) ==
    /\ Continue(c, "clear", [step |-> "cleared"])
    /\ UNCHANGED <<user, redis, session, codes, tokens, guesses, lost, uses>>

\* delete_otp deletes the counter,
ClearAttempts(c) ==
    /\ Continue(c, "clear", [step |-> "cleared"])
    /\ attempts' = 0
    /\ UNCHANGED <<user, otp, resetToken, session, codes, tokens, guesses, lost, uses>>

\* and the code.
ClearCode(c) ==
    /\ Continue(c, "cleared", Resting)
    /\ otp' = 0
    /\ UNCHANGED <<user, attempts, resetToken, session, codes, tokens, guesses, lost, uses>>

-----------------------------------------------------------------------------
(* request_password_reset, reset_password, and the profile.                 *)
RequestReset ==
    /\ user # NoUser /\ tokens < MaxTokens
    /\ tokens' = tokens + 1
    /\ resetToken' = tokens'
    /\ UNCHANGED <<user, otp, attempts, session, call, codes, history>>

ResetPassword(c, token) ==
    /\ user # NoUser
    /\ Begin(c, [step |-> "checkToken", token |-> token])
    /\ UNCHANGED <<user, redis, session, codes, tokens, guesses, lost, uses>>

CheckToken(c) ==
    /\ Continue(c, "checkToken",
                IF resetToken # 0 /\ resetToken = call[c].token
                THEN [step |-> "password", token |-> resetToken] ELSE Resting)
    /\ UNCHANGED <<user, redis, session, codes, tokens, guesses, lost, uses>>

\* set_password writes one column.
SetPassword(c) ==
    /\ Continue(c, "password", [step |-> "forget"])
    /\ user' = [user EXCEPT !.password = call[c].token]
    /\ uses' = [uses EXCEPT ![call[c].token] = @ + 1]
    /\ UNCHANGED <<redis, session, codes, tokens, guesses, lost>>

\* Variant: the token is left to expire.
KeepToken(c) ==
    /\ Continue(c, "forget", Resting)
    /\ UNCHANGED <<user, redis, session, codes, tokens, guesses, lost, uses>>

DeleteToken(c) ==
    /\ Continue(c, "forget", Resting)
    /\ resetToken' = 0
    /\ UNCHANGED <<user, otp, attempts, session, codes, tokens, guesses, lost, uses>>

\* Authentication reads the row of the user,
PatchProfile(c) ==
    /\ user # NoUser /\ session = "open"
    /\ Begin(c, [step |-> "profile", row |-> user])
    /\ UNCHANGED <<user, redis, session, codes, tokens, guesses, lost, uses>>

\* and update_user saves all of it.
SaveProfile(c) ==
    /\ Continue(c, "profile", Resting)
    /\ user' = [call[c].row EXCEPT !.name = "changed"]
    /\ UNCHANGED <<redis, session, codes, tokens, guesses, lost, uses>>

-----------------------------------------------------------------------------
(* Sessions, and keys that expire.                                          *)

\* password: what the request holds.  Nothing asks for a verified address.
Login(password) ==
    /\ user # NoUser /\ user.password = password
    /\ session' = "open"
    /\ UNCHANGED <<user, redis, call, codes, tokens, history>>

\* refresh_tokens refuses a blacklisted token, and hands out an access token for
\* any other: the refresh token itself is not rotated.
Refresh == session = "open" /\ UNCHANGED accountVars

Logout ==
    /\ session = "open"
    /\ session' = "blacklisted"
    /\ UNCHANGED <<user, redis, call, codes, tokens, history>>

\* 300 seconds after set_otp.
CodeExpires ==
    /\ otp # 0 /\ otp' = 0
    /\ UNCHANGED <<user, attempts, resetToken, session, call, codes, tokens, history>>

\* 900 seconds after the last wrong code: never while a code is stored that
\* a wrong one has been compared with, because that lives for 300 seconds.
AttemptsExpire ==
    /\ attempts # 0 /\ (otp = 0 \/ guesses = 0) /\ attempts' = 0
    /\ UNCHANGED <<user, otp, resetToken, session, call, codes, tokens, history>>

TokenExpires ==
    /\ resetToken # 0 /\ resetToken' = 0
    /\ UNCHANGED <<user, otp, attempts, session, call, codes, tokens, history>>

-----------------------------------------------------------------------------
CallStep(c) == \/ InsertUser(c) \/ StoreCode(c) \/ ReadCode(c) \/ CompareCode(c)
               \/ CountWrongCode(c) \/ SetAttempts(c) \/ AcceptCode(c) \/ ClearAttempts(c)
               \/ ClearCode(c) \/ CheckToken(c) \/ SetPassword(c) \/ DeleteToken(c)
               \/ SaveProfile(c)

AccountNext ==
    \/ \E c \in AccountCalls :
          \/ Register(c) \/ ResendCode(c) \/ PatchProfile(c) \/ CallStep(c)
          \/ \E answer \in 0 .. MaxCodes : VerifyEmail(c, answer)
          \/ \E token \in 0 .. MaxTokens : ResetPassword(c, token)
    \/ NothingToVerify \/ RequestReset \/ Refresh \/ Logout
    \/ CodeExpires \/ AttemptsExpire \/ TokenExpires
    \/ \E password \in 0 .. MaxTokens : Login(password)

AccountSpec == AccountInit /\ [][AccountNext]_accountVars

-----------------------------------------------------------------------------
(* Properties.                                                              *)

\* Every variable has its type.
AccountTypeOK ==
    /\ user \in UserRow \cup {NoUser}
    /\ otp \in 0 .. MaxCodes /\ attempts \in 0 .. 4 /\ resetToken \in 0 .. MaxTokens
    /\ session \in {"none", "open", "blacklisted"}
    /\ \A c \in AccountCalls : call[c].step \in CallSteps
    /\ codes \in 0 .. MaxCodes /\ tokens \in 0 .. MaxTokens
    /\ guesses \in Nat /\ lost \in Nat /\ uses \in [1 .. MaxTokens -> Nat] /\ clash \in BOOLEAN

\* A code is compared with at most three wrong ones, if no two requests are
\* under way at a time, and with at most twelve if two are (of two that count at
\* a time, one overwrites what the other has counted).
GuessesAreBounded == guesses <= IF clash THEN 12 ELSE 3

\* The counter, which a new code does not reset, costs a user who makes no
\* more mistakes at most one code: then it is gone.
NotLockedOut == ~clash => lost <= 1

\* A one-time code cannot be guessed at will, and its owner is not locked out.
CodesAreGuarded == GuessesAreBounded /\ NotLockedOut

\* In every step: as long as no two requests are under way at a time, an
\* address stays verified, whatever update_user saves, a token resets the
\* password once, and only a reset changes the password.
AccountIsKept ==
    ~clash' /\ user # NoUser =>
        /\ user.verified => user'.verified
        /\ user.password # user'.password => uses' # uses
        /\ \A t \in 1 .. MaxTokens : uses'[t] <= 1
=============================================================================
