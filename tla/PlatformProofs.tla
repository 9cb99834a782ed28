--------------------------- MODULE PlatformProofs ---------------------------
(***************************************************************************)
(* Theorems about accounts, merchants, customers and requests, and about   *)
(* all the parts around the payment core at once (Platform), for any number *)
(* of requests and rows.                                                   *)
(*                                                                         *)
(* Nearly everything here is read in one step and written in another, so   *)
(* each part's invariant has two halves: what holds whoever overlaps, and  *)
(* what holds as long as nobody does (clash, crossed and tangled are       *)
(* FALSE), when the copy that a request holds is still the row.            *)
(*                                                                         *)
(* GuessInv is of two requests that do overlap: a table says how many more *)
(* wrong codes they can compare from each pair of places they may be at.   *)
(***************************************************************************)
EXTENDS Platform, WebhookProofs, CheckoutProofs, SequenceTheorems, FiniteSetTheorems, TLAPS

-----------------------------------------------------------------------------
(* Accounts.  AloneInv says that until two requests overlap one that has     *)
(* begun is the only one; CodeInv follows the counter through its three     *)
(* commands; KeptInv says that the row to be saved and the token to be used *)
(* are still those that were read.  Keys expire between any two commands.   *)

\* What requests hold has its type, whoever overlaps.
CallInv(c) ==
    /\ call[c].step \in {"code", "read", "compare", "accept"} => user # NoUser
    /\ call[c].step \in {"checkToken", "password", "profile"} => user # NoUser
    /\ call[c].step = "profile" => call[c].row \in UserRow
    /\ call[c].step = "password" => call[c].token \in 1 .. tokens
    /\ call[c].step = "counted" => call[c].attempts \in 0 .. 4

AccountTypes ==
    /\ call = [c \in AccountCalls |-> call[c]]
    /\ clash \in BOOLEAN
    /\ codes \in Nat /\ guesses \in Nat /\ lost \in Nat
    /\ attempts \in 0 .. 4
    /\ tokens \in 0 .. MaxTokens
    /\ resetToken \in 0 .. tokens
    /\ uses \in [1 .. MaxTokens -> Nat]
    /\ user \in UserRow \cup {NoUser}
    /\ \A c \in AccountCalls : CallInv(c)

AloneInv ==
    \A c, d \in AccountCalls : call[c] # Resting /\ call[d] # Resting => c = d

Somewhere(steps) == \E c \in AccountCalls : call[c].step \in steps

\* A wrong code that was compared is about to be counted or has been; a code
\* is refused only by a counter that the same request deletes.
CodeInv ==
    /\ guesses <= 3 /\ lost <= 1
    /\ otp # 0 /\ ~Somewhere({"count", "counted", "cleared"}) => guesses <= attempts
    /\ lost # 0 => attempts = 0 \/ Somewhere({"clear"})
    /\ \A c \in AccountCalls :
          /\ call[c].step = "count" =>
                attempts < 3 /\ lost = 0 /\ (otp # 0 => guesses <= attempts + 1)
          /\ call[c].step = "counted" =>
                /\ call[c].attempts \in 1 .. 3 /\ lost = 0
                /\ otp # 0 => guesses <= call[c].attempts

\* A token that can still be used has not been, nor has one that was accepted
\* and is about to be; and the row of update_user is the row.
KeptInv ==
    /\ \A t \in 1 .. MaxTokens : uses[t] <= 1 /\ (t > tokens => uses[t] = 0)
    /\ resetToken # 0 /\ ~Somewhere({"forget"}) => uses[resetToken] = 0
    /\ \A c \in AccountCalls :
          /\ call[c].step = "password" => uses[call[c].token] = 0
          /\ call[c].step = "profile" => call[c].row = user

AccountInv == AccountTypes /\ (~clash => AloneInv /\ CodeInv /\ KeptInv)

-----------------------------------------------------------------------------
LEMMA AccountsBegin == AccountInit => AccountInv
<1> SUFFICES ASSUME AccountInit PROVE AccountInv
  OBVIOUS
<1>1. \A c \in AccountCalls : call[c] = Resting
  BY DEF AccountInit
<1>2. AccountTypes
  <2>1. call = [c \in AccountCalls |-> call[c]]
    BY DEF AccountInit
  <2>2. \A c \in AccountCalls : CallInv(c)
    BY <1>1 DEF CallInv, Resting
  <2>3. /\ codes \in Nat /\ guesses \in Nat /\ lost \in Nat
        /\ attempts \in 0 .. 4
        /\ tokens \in 0 .. MaxTokens /\ resetToken \in 0 .. tokens
    BY AccountsAssumption DEF AccountInit
  <2>4. clash \in BOOLEAN /\ user \in UserRow \cup {NoUser}
    BY DEF AccountInit
  <2>5. uses \in [1 .. MaxTokens -> Nat]
    BY DEF AccountInit
  <2>6. QED
    BY <2>1, <2>2, <2>3, <2>4, <2>5 DEF AccountTypes
<1>3. AloneInv
  BY <1>1 DEF AloneInv
<1>4. CodeInv
  BY <1>1 DEF AccountInit, CodeInv, Somewhere, Resting
<1>5. KeptInv
  BY <1>1, AccountsAssumption DEF AccountInit, KeptInv, Somewhere, Resting
<1>6. QED
  BY <1>2, <1>3, <1>4, <1>5 DEF AccountInv

\* How a request moves.
LEMMA BeginMoves ==
    ASSUME AccountTypes, NEW c \in AccountCalls, NEW STATE next, Begin(c, next)
    PROVE  /\ call[c] = Resting
           /\ call'[c] = next
           /\ \A d \in AccountCalls : d # c => call'[d] = call[d]
           /\ call' = [d \in AccountCalls |-> call'[d]]
           /\ clash' \in BOOLEAN
           /\ ~clash' => ~clash /\ \A d \in AccountCalls : call[d] = Resting
BY DEF AccountTypes, Begin

LEMMA ContinueMoves ==
    ASSUME AccountTypes, NEW c \in AccountCalls, NEW from, NEW STATE next, from # "idle",
           Continue(c, from, next)
    PROVE  /\ call[c].step = from
           /\ call'[c] = next
           /\ \A d \in AccountCalls : d # c => call'[d] = call[d]
           /\ call' = [d \in AccountCalls |-> call'[d]]
           /\ clash' = clash
           /\ AloneInv => \A d \in AccountCalls : d # c => call[d] = Resting
BY DEF AccountTypes, Continue, AloneInv, Resting

-----------------------------------------------------------------------------
(* A request begins.                                                        *)

Beginning(c) == \/ Register(c) \/ ResendCode(c) \/ PatchProfile(c)
                \/ \E answer \in 0 .. MaxCodes : VerifyEmail(c, answer)
                \/ \E token \in 0 .. MaxTokens : ResetPassword(c, token)

LEMMA BeginningStep ==
    ASSUME AccountInv, NEW c \in AccountCalls, Beginning(c)
    PROVE  AccountInv'
<1>1. PICK next : /\ Begin(c, next)
                  /\ next.step \in {"insert", "code", "profile", "read", "checkToken"}
                  /\ next.step # "insert" => user # NoUser
                  /\ next.step = "profile" => next.row = user
  <2>1. CASE Register(c)
    BY <2>1 DEF Register
  <2>2. CASE ResendCode(c)
    BY <2>2 DEF ResendCode
  <2>3. CASE PatchProfile(c)
    BY <2>3 DEF PatchProfile
  <2>4. CASE \E answer \in 0 .. MaxCodes : VerifyEmail(c, answer)
    BY <2>4 DEF VerifyEmail
  <2>5. CASE \E token \in 0 .. MaxTokens : ResetPassword(c, token)
    BY <2>5 DEF ResetPassword
  <2>6. QED
    BY <2>1, <2>2, <2>3, <2>4, <2>5 DEF Beginning
<1>2. /\ user' = user /\ otp' = otp /\ attempts' = attempts /\ resetToken' = resetToken
      /\ codes' = codes /\ tokens' = tokens
      /\ guesses' = guesses /\ lost' = lost /\ uses' = uses
  BY DEF Beginning, Register, ResendCode, PatchProfile, VerifyEmail, ResetPassword, redis
<1>3. AccountTypes
  BY DEF AccountInv
<1>4. /\ call[c] = Resting
      /\ call'[c] = next
      /\ \A d \in AccountCalls : d # c => call'[d] = call[d]
      /\ call' = [d \in AccountCalls |-> call'[d]]
      /\ clash' \in BOOLEAN
      /\ ~clash' => ~clash /\ \A d \in AccountCalls : call[d] = Resting
  BY <1>1, <1>3, BeginMoves
<1>5. AccountTypes'
  <2>1. ASSUME NEW d \in AccountCalls PROVE CallInv(d)'
    <3>1. CASE d = c
      BY <1>1, <1>2, <1>3, <1>4, <3>1 DEF AccountTypes, CallInv
    <3>2. CASE d # c
      BY <1>2, <1>3, <1>4, <3>2 DEF AccountTypes, CallInv
    <3>3. QED
      BY <3>1, <3>2
  <2>2. QED
    BY <1>2, <1>3, <1>4, <2>1 DEF AccountTypes
<1>6. ASSUME ~clash' PROVE (AloneInv /\ CodeInv /\ KeptInv)'
  <2>1. /\ AloneInv /\ CodeInv /\ KeptInv
        /\ \A d \in AccountCalls : call[d] = Resting
        /\ \A d \in AccountCalls : d # c => call'[d] = Resting
    BY <1>4, <1>6 DEF AccountInv
  <2>2. AloneInv'
    BY <2>1 DEF AloneInv
  <2>3. CodeInv'
    BY <1>1, <1>3, <1>2, <1>4, <2>1 DEF CodeInv, Somewhere, Resting
  <2>4. KeptInv'
    BY <1>1, <1>2, <1>4, <2>1 DEF KeptInv, Somewhere, Resting
  <2>5. QED
    BY <2>2, <2>3, <2>4
<1>7. QED
  BY <1>5, <1>6 DEF AccountInv

-----------------------------------------------------------------------------
(* A request goes on.                                                       *)

\* Request c goes on from one step to the next, and is alone until two clash.
Moves(c, from, next) ==
    /\ call[c].step = from
    /\ call'[c] = next
    /\ \A d \in AccountCalls : d # c => call'[d] = call[d]
    /\ call' = [d \in AccountCalls |-> call'[d]]
    /\ clash' = clash
    /\ ~clash' => /\ CodeInv /\ KeptInv /\ AloneInv'
                  /\ \A d \in AccountCalls :
                        d # c => call[d].step = "idle" /\ call'[d].step = "idle"

LEMMA Moved ==
    ASSUME AccountInv, NEW c \in AccountCalls, NEW from, NEW STATE next, from # "idle",
           Continue(c, from, next)
    PROVE  AccountTypes /\ Moves(c, from, next)
<1>1. AccountTypes
  BY DEF AccountInv
<1>2. /\ call[c].step = from
      /\ call'[c] = next
      /\ \A d \in AccountCalls : d # c => call'[d] = call[d]
      /\ call' = [d \in AccountCalls |-> call'[d]]
      /\ clash' = clash
      /\ AloneInv => \A d \in AccountCalls : d # c => call[d] = Resting
  BY <1>1, ContinueMoves
<1>3. ASSUME ~clash'
      PROVE  /\ CodeInv /\ KeptInv /\ AloneInv'
             /\ \A d \in AccountCalls :
                   d # c => call[d].step = "idle" /\ call'[d].step = "idle"
  <2>1. CodeInv /\ KeptInv /\ AloneInv
    BY <1>2, <1>3 DEF AccountInv
  <2>2. \A d \in AccountCalls : d # c => call[d] = Resting /\ call'[d] = Resting
    BY <1>2, <2>1
  <2>3. AloneInv'
    BY <2>2 DEF AloneInv
  <2>4. QED
    BY <2>1, <2>2, <2>3 DEF Resting
<1>4. QED
  BY <1>1, <1>2, <1>3 DEF Moves

\* What is left to show of its step: its own types, and the other two parts.
LEMMA MovedInv ==
    ASSUME AccountTypes, NEW c \in AccountCalls, NEW from, NEW STATE next,
           Moves(c, from, next),
           /\ CallInv(c)'
           /\ user # NoUser => user' # NoUser
           /\ user' \in UserRow \cup {NoUser} /\ uses' \in [1 .. MaxTokens -> Nat],
           /\ codes' \in Nat /\ guesses' \in Nat /\ lost' \in Nat
           /\ attempts' \in 0 .. 4
           /\ tokens' = tokens /\ resetToken' \in 0 .. tokens,
           ~clash' => CodeInv' /\ KeptInv'
    PROVE  AccountInv'
<1>1. \A d \in AccountCalls : CallInv(d)'
  BY DEF AccountTypes, CallInv, Moves
<1>2. AccountTypes'
  BY <1>1 DEF AccountTypes, Moves
<1>3. QED
  BY <1>2 DEF AccountInv, Moves

LEMMA InsertUserStep ==
    ASSUME AccountInv, NEW c \in AccountCalls, InsertUser(c)
    PROVE  AccountInv'
<1> DEFINE next == IF user = NoUser THEN [step |-> "code"] ELSE Resting
<1>1. /\ Continue(c, "insert", next)
      /\ otp' = otp /\ attempts' = attempts /\ resetToken' = resetToken /\ codes' = codes /\ tokens' = tokens
      /\ guesses' = guesses /\ lost' = lost /\ uses' = uses
      /\ user' = IF user = NoUser THEN [verified |-> FALSE, password |-> 0, name |-> "first"] ELSE user
  BY DEF InsertUser, redis
<1>2. AccountTypes /\ Moves(c, "insert", next)
  BY <1>1, Moved
<1>3. user # NoUser => user' # NoUser
  BY <1>1, <1>2, NoUserAssumption DEF AccountTypes, Moves, CallInv, UserRow
<1>4. CallInv(c)'
  <2>1. user' # NoUser
    <3>1. [verified |-> FALSE, password |-> 0, name |-> "first"] \in UserRow
      BY DEF UserRow
    <3>2. QED
      BY <1>1, <3>1, NoUserAssumption
  <2>2. call'[c] \in {[step |-> "code"], Resting}
    BY <1>2 DEF Moves
  <2>3. QED
    BY <2>1, <2>2 DEF CallInv, Resting
<1>5. user' \in UserRow \cup {NoUser} /\ uses' \in [1 .. MaxTokens -> Nat]
  BY <1>1, <1>2 DEF AccountTypes, Moves, CallInv, UserRow
<1>6. /\ codes' \in Nat /\ guesses' \in Nat /\ lost' \in Nat
      /\ attempts' \in 0 .. 4
      /\ tokens' = tokens /\ resetToken' \in 0 .. tokens
  BY <1>1, <1>2 DEF AccountTypes, Moves, CallInv
<1>7. ~clash' => CodeInv'
  BY <1>1, <1>2 DEF AccountTypes, Moves, CodeInv, Somewhere, Resting
<1>8. ~clash' => KeptInv'
  BY <1>1, <1>2 DEF AccountTypes, Moves, CallInv, KeptInv, Somewhere, Resting
<1> HIDE DEF next
<1>9. QED
  BY <1>2, <1>3, <1>4, <1>5, <1>6, <1>7, <1>8, MovedInv

LEMMA StoreCodeStep ==
    ASSUME AccountInv, NEW c \in AccountCalls, StoreCode(c)
    PROVE  AccountInv'
<1> DEFINE next == Resting
<1>1. /\ Continue(c, "code", next)
      /\ user' = user /\ attempts' = attempts /\ resetToken' = resetToken /\ tokens' = tokens /\ lost' = lost
      /\ uses' = uses
      /\ codes' = codes + 1
      /\ otp' = codes + 1
      /\ guesses' = 0
  BY DEF StoreCode, redis
<1>2. AccountTypes /\ Moves(c, "code", next)
  BY <1>1, Moved
<1>3. user # NoUser => user' # NoUser
  BY <1>1, <1>2, NoUserAssumption DEF AccountTypes, Moves, CallInv, UserRow
<1>4. CallInv(c)'
  BY <1>1, <1>2, <1>3 DEF AccountTypes, Moves, CallInv, Resting
<1>5. user' \in UserRow \cup {NoUser} /\ uses' \in [1 .. MaxTokens -> Nat]
  BY <1>1, <1>2 DEF AccountTypes, Moves, CallInv, UserRow
<1>6. /\ codes' \in Nat /\ guesses' \in Nat /\ lost' \in Nat
      /\ attempts' \in 0 .. 4
      /\ tokens' = tokens /\ resetToken' \in 0 .. tokens
  BY <1>1, <1>2 DEF AccountTypes, Moves, CallInv
<1>7. ~clash' => CodeInv'
  BY <1>1, <1>2 DEF AccountTypes, Moves, CodeInv, Somewhere, Resting
<1>8. ~clash' => KeptInv'
  BY <1>1, <1>2 DEF AccountTypes, Moves, CallInv, KeptInv, Somewhere, Resting
<1> HIDE DEF next
<1>9. QED
  BY <1>2, <1>3, <1>4, <1>5, <1>6, <1>7, <1>8, MovedInv

LEMMA ReadCodeStep ==
    ASSUME AccountInv, NEW c \in AccountCalls, ReadCode(c)
    PROVE  AccountInv'
<1> DEFINE next == [step |-> "compare", answer |-> call[c].answer, stored |-> otp]
<1>1. /\ Continue(c, "read", next)
      /\ user' = user /\ otp' = otp /\ attempts' = attempts /\ resetToken' = resetToken /\ codes' = codes
      /\ tokens' = tokens /\ guesses' = guesses /\ lost' = lost /\ uses' = uses
  BY DEF ReadCode, redis
<1>2. AccountTypes /\ Moves(c, "read", next)
  BY <1>1, Moved
<1>3. user # NoUser => user' # NoUser
  BY <1>1, <1>2, NoUserAssumption DEF AccountTypes, Moves, CallInv, UserRow
<1>4. CallInv(c)'
  BY <1>1, <1>2, <1>3 DEF AccountTypes, Moves, CallInv, Resting
<1>5. user' \in UserRow \cup {NoUser} /\ uses' \in [1 .. MaxTokens -> Nat]
  BY <1>1, <1>2 DEF AccountTypes, Moves, CallInv, UserRow
<1>6. /\ codes' \in Nat /\ guesses' \in Nat /\ lost' \in Nat
      /\ attempts' \in 0 .. 4
      /\ tokens' = tokens /\ resetToken' \in 0 .. tokens
  BY <1>1, <1>2 DEF AccountTypes, Moves, CallInv
<1>7. ~clash' => CodeInv'
  BY <1>1, <1>2 DEF AccountTypes, Moves, CodeInv, Somewhere, Resting
<1>8. ~clash' => KeptInv'
  BY <1>1, <1>2 DEF AccountTypes, Moves, CallInv, KeptInv, Somewhere, Resting
<1> HIDE DEF next
<1>9. QED
  BY <1>2, <1>3, <1>4, <1>5, <1>6, <1>7, <1>8, MovedInv

LEMMA CountWrongCodeStep ==
    ASSUME AccountInv, NEW c \in AccountCalls, CountWrongCode(c)
    PROVE  AccountInv'
<1> DEFINE next == [step |-> "counted",
                attempts |-> IF attempts < 4 THEN attempts + 1 ELSE 4]
<1>1. /\ Continue(c, "count", next)
      /\ user' = user /\ otp' = otp /\ attempts' = attempts /\ resetToken' = resetToken /\ codes' = codes
      /\ tokens' = tokens /\ guesses' = guesses /\ lost' = lost /\ uses' = uses
  BY DEF CountWrongCode, redis
<1>2. AccountTypes /\ Moves(c, "count", next)
  BY <1>1, Moved
<1>3. user # NoUser => user' # NoUser
  BY <1>1, <1>2, NoUserAssumption DEF AccountTypes, Moves, CallInv, UserRow
<1>4. CallInv(c)'
  BY <1>1, <1>2, <1>3 DEF AccountTypes, Moves, CallInv, Resting
<1>5. user' \in UserRow \cup {NoUser} /\ uses' \in [1 .. MaxTokens -> Nat]
  BY <1>1, <1>2 DEF AccountTypes, Moves, CallInv, UserRow
<1>6. /\ codes' \in Nat /\ guesses' \in Nat /\ lost' \in Nat
      /\ attempts' \in 0 .. 4
      /\ tokens' = tokens /\ resetToken' \in 0 .. tokens
  BY <1>1, <1>2 DEF AccountTypes, Moves, CallInv
<1>7. ~clash' => CodeInv'
  BY <1>1, <1>2 DEF AccountTypes, Moves, CodeInv, Somewhere, Resting
<1>8. ~clash' => KeptInv'
  BY <1>1, <1>2 DEF AccountTypes, Moves, CallInv, KeptInv, Somewhere, Resting
<1> HIDE DEF next
<1>9. QED
  BY <1>2, <1>3, <1>4, <1>5, <1>6, <1>7, <1>8, MovedInv

LEMMA SetAttemptsStep ==
    ASSUME AccountInv, NEW c \in AccountCalls, SetAttempts(c)
    PROVE  AccountInv'
<1> DEFINE next == Resting
<1>1. /\ Continue(c, "counted", next)
      /\ user' = user /\ otp' = otp /\ resetToken' = resetToken /\ codes' = codes /\ tokens' = tokens
      /\ guesses' = guesses /\ lost' = lost /\ uses' = uses
      /\ attempts' = call[c].attempts
  BY DEF SetAttempts, redis
<1>2. AccountTypes /\ Moves(c, "counted", next)
  BY <1>1, Moved
<1>3. user # NoUser => user' # NoUser
  BY <1>1, <1>2, NoUserAssumption DEF AccountTypes, Moves, CallInv, UserRow
<1>4. CallInv(c)'
  BY <1>1, <1>2, <1>3 DEF AccountTypes, Moves, CallInv, Resting
<1>5. user' \in UserRow \cup {NoUser} /\ uses' \in [1 .. MaxTokens -> Nat]
  BY <1>1, <1>2 DEF AccountTypes, Moves, CallInv, UserRow
<1>6. /\ codes' \in Nat /\ guesses' \in Nat /\ lost' \in Nat
      /\ attempts' \in 0 .. 4
      /\ tokens' = tokens /\ resetToken' \in 0 .. tokens
  BY <1>1, <1>2 DEF AccountTypes, Moves, CallInv
<1>7. ~clash' => CodeInv'
  BY <1>1, <1>2 DEF AccountTypes, Moves, CodeInv, Somewhere, Resting
<1>8. ~clash' => KeptInv'
  BY <1>1, <1>2 DEF AccountTypes, Moves, CallInv, KeptInv, Somewhere, Resting
<1> HIDE DEF next
<1>9. QED
  BY <1>2, <1>3, <1>4, <1>5, <1>6, <1>7, <1>8, MovedInv

LEMMA AcceptCodeStep ==
    ASSUME AccountInv, NEW c \in AccountCalls, AcceptCode(c)
    PROVE  AccountInv'
<1> DEFINE next == [step |-> "clear"]
<1>1. /\ Continue(c, "accept", next)
      /\ otp' = otp /\ attempts' = attempts /\ resetToken' = resetToken /\ codes' = codes /\ tokens' = tokens
      /\ guesses' = guesses /\ lost' = lost /\ uses' = uses
      /\ user' = [user EXCEPT !.verified = TRUE]
  BY DEF AcceptCode, redis
<1>2. AccountTypes /\ Moves(c, "accept", next)
  BY <1>1, Moved
<1>3. user # NoUser => user' # NoUser
  BY <1>1, <1>2, NoUserAssumption DEF AccountTypes, Moves, CallInv, UserRow
<1>4. CallInv(c)'
  BY <1>1, <1>2, <1>3 DEF AccountTypes, Moves, CallInv, Resting
<1>5. user' \in UserRow \cup {NoUser} /\ uses' \in [1 .. MaxTokens -> Nat]
  BY <1>1, <1>2 DEF AccountTypes, Moves, CallInv, UserRow
<1>6. /\ codes' \in Nat /\ guesses' \in Nat /\ lost' \in Nat
      /\ attempts' \in 0 .. 4
      /\ tokens' = tokens /\ resetToken' \in 0 .. tokens
  BY <1>1, <1>2 DEF AccountTypes, Moves, CallInv
<1>7. ~clash' => CodeInv'
  BY <1>1, <1>2 DEF AccountTypes, Moves, CodeInv, Somewhere, Resting
<1>8. ~clash' => KeptInv'
  BY <1>1, <1>2 DEF AccountTypes, Moves, CallInv, KeptInv, Somewhere, Resting
<1> HIDE DEF next
<1>9. QED
  BY <1>2, <1>3, <1>4, <1>5, <1>6, <1>7, <1>8, MovedInv

LEMMA ClearAttemptsStep ==
    ASSUME AccountInv, NEW c \in AccountCalls, ClearAttempts(c)
    PROVE  AccountInv'
<1> DEFINE next == [step |-> "cleared"]
<1>1. /\ Continue(c, "clear", next)
      /\ user' = user /\ otp' = otp /\ resetToken' = resetToken /\ codes' = codes /\ tokens' = tokens
      /\ guesses' = guesses /\ lost' = lost /\ uses' = uses
      /\ attempts' = 0
  BY DEF ClearAttempts, redis
<1>2. AccountTypes /\ Moves(c, "clear", next)
  BY <1>1, Moved
<1>3. user # NoUser => user' # NoUser
  BY <1>1, <1>2, NoUserAssumption DEF AccountTypes, Moves, CallInv, UserRow
<1>4. CallInv(c)'
  BY <1>1, <1>2, <1>3 DEF AccountTypes, Moves, CallInv, Resting
<1>5. user' \in UserRow \cup {NoUser} /\ uses' \in [1 .. MaxTokens -> Nat]
  BY <1>1, <1>2 DEF AccountTypes, Moves, CallInv, UserRow
<1>6. /\ codes' \in Nat /\ guesses' \in Nat /\ lost' \in Nat
      /\ attempts' \in 0 .. 4
      /\ tokens' = tokens /\ resetToken' \in 0 .. tokens
  BY <1>1, <1>2 DEF AccountTypes, Moves, CallInv
<1>7. ~clash' => CodeInv'
  BY <1>1, <1>2 DEF AccountTypes, Moves, CodeInv, Somewhere, Resting
<1>8. ~clash' => KeptInv'
  BY <1>1, <1>2 DEF AccountTypes, Moves, CallInv, KeptInv, Somewhere, Resting
<1> HIDE DEF next
<1>9. QED
  BY <1>2, <1>3, <1>4, <1>5, <1>6, <1>7, <1>8, MovedInv

LEMMA ClearCodeStep ==
    ASSUME AccountInv, NEW c \in AccountCalls, ClearCode(c)
    PROVE  AccountInv'
<1> DEFINE next == Resting
<1>1. /\ Continue(c, "cleared", next)
      /\ user' = user /\ attempts' = attempts /\ resetToken' = resetToken /\ codes' = codes /\ tokens' = tokens
      /\ guesses' = guesses /\ lost' = lost /\ uses' = uses
      /\ otp' = 0
  BY DEF ClearCode, redis
<1>2. AccountTypes /\ Moves(c, "cleared", next)
  BY <1>1, Moved
<1>3. user # NoUser => user' # NoUser
  BY <1>1, <1>2, NoUserAssumption DEF AccountTypes, Moves, CallInv, UserRow
<1>4. CallInv(c)'
  BY <1>1, <1>2, <1>3 DEF AccountTypes, Moves, CallInv, Resting
<1>5. user' \in UserRow \cup {NoUser} /\ uses' \in [1 .. MaxTokens -> Nat]
  BY <1>1, <1>2 DEF AccountTypes, Moves, CallInv, UserRow
<1>6. /\ codes' \in Nat /\ guesses' \in Nat /\ lost' \in Nat
      /\ attempts' \in 0 .. 4
      /\ tokens' = tokens /\ resetToken' \in 0 .. tokens
  BY <1>1, <1>2 DEF AccountTypes, Moves, CallInv
<1>7. ~clash' => CodeInv'
  BY <1>1, <1>2 DEF AccountTypes, Moves, CodeInv, Somewhere, Resting
<1>8. ~clash' => KeptInv'
  BY <1>1, <1>2 DEF AccountTypes, Moves, CallInv, KeptInv, Somewhere, Resting
<1> HIDE DEF next
<1>9. QED
  BY <1>2, <1>3, <1>4, <1>5, <1>6, <1>7, <1>8, MovedInv

LEMMA CheckTokenStep ==
    ASSUME AccountInv, NEW c \in AccountCalls, CheckToken(c)
    PROVE  AccountInv'
<1> DEFINE next == IF resetToken # 0 /\ resetToken = call[c].token
                 THEN [step |-> "password", token |-> resetToken] ELSE Resting
<1>1. /\ Continue(c, "checkToken", next)
      /\ user' = user /\ otp' = otp /\ attempts' = attempts /\ resetToken' = resetToken /\ codes' = codes
      /\ tokens' = tokens /\ guesses' = guesses /\ lost' = lost /\ uses' = uses
  BY DEF CheckToken, redis
<1>2. AccountTypes /\ Moves(c, "checkToken", next)
  BY <1>1, Moved
<1>3. user # NoUser => user' # NoUser
  BY <1>1, <1>2, NoUserAssumption DEF AccountTypes, Moves, CallInv, UserRow
<1>4. CallInv(c)'
  <2>1. call'[c] = next /\ tokens' = tokens /\ resetToken \in 0 .. tokens
    BY <1>1, <1>2 DEF AccountTypes, Moves
  <2>2. CASE resetToken # 0 /\ resetToken = call[c].token
    <3>1. resetToken \in 1 .. tokens' /\ user # NoUser
      BY <1>1, <1>2, <2>1, <2>2 DEF AccountTypes, Moves, CallInv
    <3>2. QED
      BY <1>1, <2>1, <2>2, <3>1 DEF CallInv
  <2>3. CASE ~(resetToken # 0 /\ resetToken = call[c].token)
    BY <2>1, <2>3 DEF CallInv, Resting
  <2>4. QED
    BY <2>2, <2>3
<1>5. user' \in UserRow \cup {NoUser} /\ uses' \in [1 .. MaxTokens -> Nat]
  BY <1>1, <1>2 DEF AccountTypes, Moves, CallInv, UserRow
<1>6. /\ codes' \in Nat /\ guesses' \in Nat /\ lost' \in Nat
      /\ attempts' \in 0 .. 4
      /\ tokens' = tokens /\ resetToken' \in 0 .. tokens
  BY <1>1, <1>2 DEF AccountTypes, Moves, CallInv
<1>7. ~clash' => CodeInv'
  BY <1>1, <1>2 DEF AccountTypes, Moves, CodeInv, Somewhere, Resting
<1>8. ~clash' => KeptInv'
  BY <1>1, <1>2 DEF AccountTypes, Moves, CallInv, KeptInv, Somewhere, Resting
<1> HIDE DEF next
<1>9. QED
  BY <1>2, <1>3, <1>4, <1>5, <1>6, <1>7, <1>8, MovedInv

LEMMA SetPasswordStep ==
    ASSUME AccountInv, NEW c \in AccountCalls, SetPassword(c)
    PROVE  AccountInv'
<1> DEFINE next == [step |-> "forget"]
<1>1. /\ Continue(c, "password", next)
      /\ otp' = otp /\ attempts' = attempts /\ resetToken' = resetToken /\ codes' = codes /\ tokens' = tokens
      /\ guesses' = guesses /\ lost' = lost
      /\ user' = [user EXCEPT !.password = call[c].token]
      /\ uses' = [uses EXCEPT ![call[c].token] = @ + 1]
  BY DEF SetPassword, redis
<1>2. AccountTypes /\ Moves(c, "password", next)
  BY <1>1, Moved
<1>3. user # NoUser => user' # NoUser
  BY <1>1, <1>2, NoUserAssumption DEF AccountTypes, Moves, CallInv, UserRow
<1>4. CallInv(c)'
  BY <1>1, <1>2, <1>3 DEF AccountTypes, Moves, CallInv, Resting
<1>5. user' \in UserRow \cup {NoUser} /\ uses' \in [1 .. MaxTokens -> Nat]
  <2>1. call[c].token \in 1 .. tokens /\ tokens \in 0 .. MaxTokens /\ user \in UserRow
    BY <1>2 DEF AccountTypes, Moves, CallInv
  <2>2. call[c].token \in 1 .. MaxTokens /\ call[c].token \in Nat
    BY <2>1, AccountsAssumption
  <2>3. user' \in UserRow
    BY <1>1, <2>1, <2>2 DEF UserRow
  <2>4. uses' \in [1 .. MaxTokens -> Nat]
    BY <1>1, <1>2, <2>2 DEF AccountTypes
  <2>5. QED
    BY <2>3, <2>4
<1>6. /\ codes' \in Nat /\ guesses' \in Nat /\ lost' \in Nat
      /\ attempts' \in 0 .. 4
      /\ tokens' = tokens /\ resetToken' \in 0 .. tokens
  BY <1>1, <1>2 DEF AccountTypes, Moves, CallInv
<1>7. ~clash' => CodeInv'
  BY <1>1, <1>2 DEF AccountTypes, Moves, CodeInv, Somewhere, Resting
<1>8. ~clash' => KeptInv'
  BY <1>1, <1>2 DEF AccountTypes, Moves, CallInv, KeptInv, Somewhere, Resting
<1> HIDE DEF next
<1>9. QED
  BY <1>2, <1>3, <1>4, <1>5, <1>6, <1>7, <1>8, MovedInv

LEMMA DeleteTokenStep ==
    ASSUME AccountInv, NEW c \in AccountCalls, DeleteToken(c)
    PROVE  AccountInv'
<1> DEFINE next == Resting
<1>1. /\ Continue(c, "forget", next)
      /\ user' = user /\ otp' = otp /\ attempts' = attempts /\ codes' = codes /\ tokens' = tokens
      /\ guesses' = guesses /\ lost' = lost /\ uses' = uses
      /\ resetToken' = 0
  BY DEF DeleteToken, redis
<1>2. AccountTypes /\ Moves(c, "forget", next)
  BY <1>1, Moved
<1>3. user # NoUser => user' # NoUser
  BY <1>1, <1>2, NoUserAssumption DEF AccountTypes, Moves, CallInv, UserRow
<1>4. CallInv(c)'
  BY <1>1, <1>2, <1>3 DEF AccountTypes, Moves, CallInv, Resting
<1>5. user' \in UserRow \cup {NoUser} /\ uses' \in [1 .. MaxTokens -> Nat]
  BY <1>1, <1>2 DEF AccountTypes, Moves, CallInv, UserRow
<1>6. /\ codes' \in Nat /\ guesses' \in Nat /\ lost' \in Nat
      /\ attempts' \in 0 .. 4
      /\ tokens' = tokens /\ resetToken' \in 0 .. tokens
  BY <1>1, <1>2 DEF AccountTypes, Moves, CallInv
<1>7. ~clash' => CodeInv'
  BY <1>1, <1>2 DEF AccountTypes, Moves, CodeInv, Somewhere, Resting
<1>8. ~clash' => KeptInv'
  BY <1>1, <1>2 DEF AccountTypes, Moves, CallInv, KeptInv, Somewhere, Resting
<1> HIDE DEF next
<1>9. QED
  BY <1>2, <1>3, <1>4, <1>5, <1>6, <1>7, <1>8, MovedInv

LEMMA SaveProfileStep ==
    ASSUME AccountInv, NEW c \in AccountCalls, SaveProfile(c)
    PROVE  AccountInv'
<1> DEFINE next == Resting
<1>1. /\ Continue(c, "profile", next)
      /\ otp' = otp /\ attempts' = attempts /\ resetToken' = resetToken /\ codes' = codes /\ tokens' = tokens
      /\ guesses' = guesses /\ lost' = lost /\ uses' = uses
      /\ user' = [call[c].row EXCEPT !.name = "changed"]
  BY DEF SaveProfile, redis
<1>2. AccountTypes /\ Moves(c, "profile", next)
  BY <1>1, Moved
<1>3. user # NoUser => user' # NoUser
  BY <1>1, <1>2, NoUserAssumption DEF AccountTypes, Moves, CallInv, UserRow
<1>4. CallInv(c)'
  BY <1>1, <1>2, <1>3 DEF AccountTypes, Moves, CallInv, Resting
<1>5. user' \in UserRow \cup {NoUser} /\ uses' \in [1 .. MaxTokens -> Nat]
  BY <1>1, <1>2 DEF AccountTypes, Moves, CallInv, UserRow
<1>6. /\ codes' \in Nat /\ guesses' \in Nat /\ lost' \in Nat
      /\ attempts' \in 0 .. 4
      /\ tokens' = tokens /\ resetToken' \in 0 .. tokens
  BY <1>1, <1>2 DEF AccountTypes, Moves, CallInv
<1>7. ~clash' => CodeInv'
  BY <1>1, <1>2 DEF AccountTypes, Moves, CodeInv, Somewhere, Resting
<1>8. ~clash' => KeptInv'
  BY <1>1, <1>2 DEF AccountTypes, Moves, CallInv, KeptInv, Somewhere, Resting
<1> HIDE DEF next
<1>9. QED
  BY <1>2, <1>3, <1>4, <1>5, <1>6, <1>7, <1>8, MovedInv

LEMMA CompareCodeStep ==
    ASSUME AccountInv, NEW c \in AccountCalls, CompareCode(c)
    PROVE  AccountInv'
<1> DEFINE next == CASE LimitReached -> [step |-> "clear"]
                     [] ~LimitReached /\ ~Right(c) -> [step |-> "count"]
                     [] ~LimitReached /\ Right(c) -> [step |-> "accept"]
<1> DEFINE wrong == ~LimitReached /\ ~Right(c) /\ call[c].stored = otp /\ otp # 0
<1>1. /\ Continue(c, "compare", next)
      /\ user' = user /\ otp' = otp /\ attempts' = attempts /\ resetToken' = resetToken
      /\ codes' = codes /\ tokens' = tokens /\ uses' = uses
      /\ guesses' = IF wrong THEN guesses + 1 ELSE guesses
      /\ lost' = IF LimitReached THEN lost + (IF otp # 0 THEN 1 ELSE 0)
                 ELSE IF Right(c) THEN lost ELSE 0
  BY DEF CompareCode, redis
<1>2. AccountTypes /\ Moves(c, "compare", next)
  BY <1>1, Moved
<1>3. /\ LimitReached => next = [step |-> "clear"]
      /\ ~LimitReached /\ ~Right(c) => next = [step |-> "count"]
      /\ ~LimitReached /\ Right(c) => next = [step |-> "accept"]
  OBVIOUS
<1>4. next.step \in {"clear", "count", "accept"} /\ user # NoUser
  BY <1>2, <1>3 DEF AccountTypes, Moves, CallInv
<1>5. CallInv(c)'
  BY <1>1, <1>2, <1>4 DEF Moves, CallInv
<1>6. user' \in UserRow \cup {NoUser} /\ uses' \in [1 .. MaxTokens -> Nat]
  BY <1>1, <1>2 DEF AccountTypes
<1>7. /\ codes' \in Nat /\ guesses' \in Nat /\ lost' \in Nat
      /\ attempts' \in 0 .. 4
      /\ tokens' = tokens /\ resetToken' \in 0 .. tokens
  BY <1>1, <1>2 DEF AccountTypes
<1> HIDE DEF next
<1>8. ASSUME ~clash' PROVE CodeInv'
  <2>1. /\ CodeInv /\ call[c].step = "compare" /\ call'[c] = next
        /\ \A d \in AccountCalls :
              d # c => call[d].step = "idle" /\ call'[d].step = "idle"
    BY <1>2, <1>8 DEF Moves
  <2>2. /\ guesses \in Nat /\ lost \in Nat /\ attempts \in Nat
        /\ guesses <= 3 /\ lost <= 1
        /\ otp # 0 => guesses <= attempts
        /\ lost # 0 => attempts = 0
    BY <1>2, <2>1 DEF AccountTypes, CodeInv, Somewhere
  <2>3. CASE LimitReached
    BY <1>1, <1>3, <2>1, <2>2, <2>3 DEF CodeInv, Somewhere, LimitReached
  <2>4. CASE ~LimitReached /\ ~Right(c)
    BY <1>1, <1>3, <2>1, <2>2, <2>4 DEF CodeInv, Somewhere, LimitReached
  <2>5. CASE ~LimitReached /\ Right(c)
    BY <1>1, <1>3, <2>1, <2>2, <2>5 DEF CodeInv, Somewhere, LimitReached
  <2>6. QED
    BY <2>3, <2>4, <2>5
<1>9. ~clash' => KeptInv'
  BY <1>1, <1>2, <1>4 DEF Moves, KeptInv, Somewhere
<1>10. QED
  BY <1>1, <1>2, <1>4, <1>5, <1>6, <1>7, <1>8, <1>9, MovedInv

-----------------------------------------------------------------------------
(* No request moves.                                                        *)

Elsewhere == \/ NothingToVerify \/ RequestReset \/ Refresh \/ Logout
             \/ CodeExpires \/ AttemptsExpire \/ TokenExpires
             \/ \E password \in 0 .. MaxTokens : Login(password)

LEMMA ElsewhereStep ==
    ASSUME AccountInv, Elsewhere \/ UNCHANGED accountVars
    PROVE  AccountInv'
<1>1. /\ user' = user /\ call' = call /\ codes' = codes /\ clash' = clash
      /\ guesses' = guesses /\ lost' = lost /\ uses' = uses
      /\ \/ /\ resetToken' = resetToken /\ tokens' = tokens
            /\ \/ otp' = otp /\ attempts' = attempts
               \/ otp' = 0 /\ attempts' = attempts
               \/ otp' = otp /\ attempts' = 0 /\ (otp = 0 \/ guesses = 0)
         \/ /\ otp' = otp /\ attempts' = attempts
            /\ \/ resetToken' = 0 /\ tokens' = tokens
               \/ tokens < MaxTokens /\ tokens' = tokens + 1 /\ resetToken' = tokens'
  <2>1. CASE UNCHANGED accountVars
    BY <2>1 DEF accountVars
  <2>2. CASE NothingToVerify
    BY <2>2 DEF NothingToVerify, accountVars
  <2>3. CASE Refresh
    BY <2>3 DEF Refresh, accountVars
  <2>4. CASE RequestReset
    BY <2>4 DEF RequestReset, history
  <2>5. CASE Logout
    BY <2>5 DEF Logout, redis, history
  <2>6. CASE CodeExpires
    BY <2>6 DEF CodeExpires, history
  <2>7. CASE AttemptsExpire
    BY <2>7 DEF AttemptsExpire, history
  <2>8. CASE TokenExpires
    BY <2>8 DEF TokenExpires, history
  <2>9. CASE \E password \in 0 .. MaxTokens : Login(password)
    BY <2>9 DEF Login, redis, history
  <2>10. QED
    BY <2>1, <2>2, <2>3, <2>4, <2>5, <2>6, <2>7, <2>8, <2>9 DEF Elsewhere
<1>2. AccountTypes
  BY DEF AccountInv
<1>3. /\ attempts' \in 0 .. 4
      /\ tokens' \in 0 .. MaxTokens /\ resetToken' \in 0 .. tokens' /\ tokens <= tokens'
  BY <1>1, <1>2, AccountsAssumption DEF AccountTypes
<1>4. \A c \in AccountCalls : CallInv(c)'
  BY <1>1, <1>2, <1>3 DEF AccountTypes, CallInv
<1>5. AccountTypes'
  BY <1>1, <1>2, <1>3, <1>4 DEF AccountTypes
<1>6. ASSUME ~clash PROVE AloneInv' /\ CodeInv' /\ KeptInv'
  <2>1. AloneInv /\ CodeInv /\ KeptInv
    BY <1>6 DEF AccountInv
  <2>2. AloneInv'
    BY <1>1, <2>1 DEF AloneInv
  <2>3. CodeInv'
    BY <1>1, <1>2, <2>1 DEF AccountTypes, CodeInv, Somewhere
  <2>4. KeptInv'
    BY <1>1, <1>2, <2>1, AccountsAssumption DEF AccountTypes, KeptInv, Somewhere
  <2>5. QED
    BY <2>2, <2>3, <2>4
<1>7. QED
  BY <1>1, <1>5, <1>6 DEF AccountInv

LEMMA AccountStep == AccountInv /\ [AccountNext]_accountVars => AccountInv'
<1> SUFFICES ASSUME AccountInv, [AccountNext]_accountVars PROVE AccountInv'
  OBVIOUS
<1>1. ASSUME NEW c \in AccountCalls, CallStep(c) PROVE AccountInv'
  BY <1>1, InsertUserStep, StoreCodeStep, ReadCodeStep, CompareCodeStep, CountWrongCodeStep,
     SetAttemptsStep, AcceptCodeStep, ClearAttemptsStep, ClearCodeStep, CheckTokenStep,
     SetPasswordStep, DeleteTokenStep, SaveProfileStep DEF CallStep
<1>2. \/ Elsewhere \/ UNCHANGED accountVars
      \/ \E c \in AccountCalls : Beginning(c) \/ CallStep(c)
  BY DEF AccountNext, Elsewhere, Beginning
<1>3. QED
  BY <1>1, <1>2, BeginningStep, ElsewhereStep

LEMMA AccountInvariant == AccountSpec => []AccountInv
BY AccountsBegin, AccountStep, PTL DEF AccountSpec

-----------------------------------------------------------------------------
(* Theorems.                                                                *)

\* For any number of requests: as long as no two are under way at a time, a code
\* is compared with at most three wrong ones, whenever the keys expire, and its
\* owner loses at most one to the counter that resending does not reset.
THEOREM AloneCodesAreGuarded ==
    AccountSpec => [](NotLockedOut /\ (~clash => GuessesAreBounded))
<1>1. AccountInv => NotLockedOut /\ (~clash => GuessesAreBounded)
  BY DEF AccountInv, CodeInv, NotLockedOut, GuessesAreBounded
<1>2. QED
  BY <1>1, AccountInvariant, PTL

LEMMA AccountKept ==
    ASSUME AccountInv, AccountInv', [AccountNext]_accountVars
    PROVE  AccountIsKept
<1> SUFFICES ASSUME ~clash', user # NoUser
             PROVE  /\ user.verified => user'.verified
                    /\ user.password # user'.password => uses' # uses
                    /\ \A t \in 1 .. MaxTokens : uses'[t] <= 1
  BY DEF AccountIsKept
<1>1. \A t \in 1 .. MaxTokens : uses'[t] <= 1
  BY DEF AccountInv, KeptInv
<1>2. CASE user' = user
  BY <1>1, <1>2
<1>3. CASE user' # user
  <2>1. user \in UserRow /\ AccountTypes
    BY DEF AccountInv, AccountTypes
  <2>2. PICK c \in AccountCalls : AcceptCode(c) \/ SetPassword(c) \/ SaveProfile(c)
    BY <1>3 DEF AccountNext, CallStep, accountVars, Register, ResendCode, PatchProfile,
       InsertUser, StoreCode, ReadCode, CompareCode, CountWrongCode, SetAttempts,
       ClearAttempts, ClearCode, CheckToken, DeleteToken, VerifyEmail, ResetPassword,
       NothingToVerify, RequestReset, Refresh, Logout, CodeExpires, AttemptsExpire,
       TokenExpires, Login
  <2>3. CASE AcceptCode(c)
    BY <1>1, <2>1, <2>3 DEF AcceptCode, UserRow
  <2>4. CASE SetPassword(c)
    <3>1. call[c].token \in 1 .. MaxTokens /\ uses \in [1 .. MaxTokens -> Nat]
      BY <2>1, <2>4, AccountsAssumption DEF SetPassword, Continue, AccountTypes, CallInv
    <3>2. uses' # uses
      BY <2>4, <3>1 DEF SetPassword
    <3>3. user'.verified = user.verified
      BY <2>1, <2>4 DEF SetPassword, UserRow
    <3>4. QED
      BY <1>1, <3>2, <3>3
  <2>5. CASE SaveProfile(c)
    <3>1. call[c].row = user
      BY <2>5 DEF SaveProfile, Continue, AccountInv, KeptInv
    <3>2. QED
      BY <1>1, <2>1, <2>5, <3>1 DEF SaveProfile, UserRow
  <2>6. QED
    BY <2>2, <2>3, <2>4, <2>5
<1>4. QED
  BY <1>2, <1>3

\* What reset_password, verify_email_otp and update_user write stays written: an
\* address stays verified, a token resets the password once, and nothing else
\* changes it, until two requests are under way at a time.
THEOREM AccountStays == AccountSpec => [][AccountIsKept]_accountVars
<1>1. AccountInv /\ AccountInv' /\ [AccountNext]_accountVars => [AccountIsKept]_accountVars
  BY AccountKept
<1>2. QED
  BY <1>1, AccountInvariant, PTL DEF AccountSpec

-----------------------------------------------------------------------------
(* The types of accounts: codes are counted, with those still to be made.   *)

CodesAreCounted ==
    /\ codes \in Nat /\ otp \in 0 .. codes /\ session \in {"none", "open", "blacklisted"}
    /\ \A c \in AccountCalls : call[c].step \in CallSteps
    /\ codes + Cardinality(MakingCode) <= MaxCodes

\* What a request may do to the count.
Counting(c, next) ==
    \/ next.step \notin {"insert", "code"} /\ codes' = codes
    \/ call[c].step = "insert" /\ codes' = codes
    \/ MayMakeCode /\ codes' = codes
    \/ call[c].step = "code" /\ next.step = "idle" /\ codes' = codes + 1

LEMMA CountMoves ==
    ASSUME CodesAreCounted, AccountTypes, NEW c \in AccountCalls, NEW next,
           call' = [call EXCEPT ![c] = next], Counting(c, next), next.step \in CallSteps,
           session' = session, otp' \in {otp, 0, codes'}
    PROVE  CodesAreCounted'
<1>1. call'[c] = next /\ \A d \in AccountCalls : d # c => call'[d] = call[d]
  BY DEF AccountTypes
<1>2. IsFiniteSet(MakingCode) /\ Cardinality(MakingCode) \in Nat
  <2>1. MakingCode \in SUBSET AccountCalls
    BY DEF MakingCode
  <2>2. QED
    BY <2>1, AccountsAssumption, FS_Subset, FS_CardinalityType
<1>3. PICK made, making, left :
         made = MakingCode /\ making = MakingCode \cup {c} /\ left = MakingCode \ {c}
  OBVIOUS
<1>4. /\ Cardinality(making) = IF c \in made THEN Cardinality(made) ELSE Cardinality(made) + 1
      /\ Cardinality(left) = IF c \in made THEN Cardinality(made) - 1 ELSE Cardinality(made)
  BY <1>2, <1>3, FS_AddElement, FS_RemoveElement
<1>5. MakingCode' = IF next.step \in {"insert", "code"} THEN making ELSE left
  BY <1>1, <1>3 DEF MakingCode
<1>6. c \in made <=> call[c].step \in {"insert", "code"}
  BY <1>3 DEF MakingCode
<1>7. codes' \in Nat /\ codes <= codes' /\ codes' + Cardinality(MakingCode') <= MaxCodes
  BY <1>2, <1>3, <1>4, <1>5, <1>6, AccountsAssumption DEF Counting, CodesAreCounted, MayMakeCode
<1>8. \A d \in AccountCalls : call'[d].step \in CallSteps
  BY <1>1 DEF CodesAreCounted
<1>9. otp' \in 0 .. codes'
  BY <1>7 DEF CodesAreCounted
<1>10. QED
  BY <1>7, <1>8, <1>9 DEF CodesAreCounted

LEMMA NextCount ==
    CodesAreCounted /\ AccountTypes /\ [AccountNext]_accountVars => CodesAreCounted'
<1>1. SUFFICES ASSUME CodesAreCounted, AccountTypes, [AccountNext]_accountVars
               PROVE  CodesAreCounted'
  OBVIOUS
<1>2. ASSUME UNCHANGED <<call, codes, session>>, otp' \in {otp, 0} PROVE CodesAreCounted'
  BY <1>1, <1>2 DEF CodesAreCounted, MakingCode
<1>3. ASSUME NEW c \in AccountCalls, NEW next, call' = [call EXCEPT ![c] = next],
             Counting(c, next), next.step \in CallSteps, session' = session,
             otp' \in {otp, 0, codes'}
      PROVE  CodesAreCounted'
  BY <1>1, <1>3, CountMoves
<1>4. CASE \/ NothingToVerify \/ RequestReset \/ Refresh
           \/ CodeExpires \/ AttemptsExpire \/ TokenExpires \/ UNCHANGED accountVars
  BY <1>2, <1>4 DEF NothingToVerify, RequestReset, Refresh, CodeExpires, AttemptsExpire,
                    TokenExpires, accountVars
<1>5. CASE Logout \/ \E password \in 0 .. MaxTokens : Login(password)
  <2>1. UNCHANGED <<call, codes, otp>> /\ session' \in {"none", "open", "blacklisted"}
    BY <1>5 DEF Logout, Login, redis
  <2>2. QED
    BY <1>1, <2>1 DEF CodesAreCounted, MakingCode
<1>6. ASSUME NEW c \in AccountCalls, Beginning(c) PROVE CodesAreCounted'
  <2>1. PICK next : /\ Begin(c, next) /\ UNCHANGED <<codes, session, otp>>
                    /\ \/ MayMakeCode /\ next.step \in {"insert", "code"}
                       \/ next.step \in {"profile", "read", "checkToken"}
    <3>1. CASE Register(c)
      BY <3>1 DEF Register, redis
    <3>2. CASE ResendCode(c)
      BY <3>2 DEF ResendCode, redis
    <3>3. CASE PatchProfile(c)
      <4>1. PICK next : next = [step |-> "profile", row |-> user]
        OBVIOUS
      <4>2. next.step = "profile"
        BY <4>1
      <4>3. QED
        BY <3>3, <4>1, <4>2 DEF PatchProfile, redis
    <3>4. ASSUME NEW answer \in 0 .. MaxCodes, VerifyEmail(c, answer)
          PROVE  \E next : /\ Begin(c, next) /\ UNCHANGED <<codes, session, otp>>
                           /\ next.step = "read"
      <4>1. PICK next : next = [step |-> "read", answer |-> answer]
        OBVIOUS
      <4>2. next.step = "read"
        BY <4>1
      <4>3. QED
        BY <3>4, <4>1, <4>2 DEF VerifyEmail, redis
    <3>5. ASSUME NEW token \in 0 .. MaxTokens, ResetPassword(c, token)
          PROVE  \E next : /\ Begin(c, next) /\ UNCHANGED <<codes, session, otp>>
                           /\ next.step = "checkToken"
      <4>1. PICK next : next = [step |-> "checkToken", token |-> token]
        OBVIOUS
      <4>2. next.step = "checkToken"
        BY <4>1
      <4>3. QED
        BY <3>5, <4>1, <4>2 DEF ResetPassword, redis
    <3>6. QED
      BY <1>6, <3>1, <3>2, <3>3, <3>4, <3>5 DEF Beginning
  <2>2. call' = [call EXCEPT ![c] = next] /\ Counting(c, next) /\ next.step \in CallSteps
    BY <2>1 DEF Begin, Counting, CallSteps
  <2>3. QED
    BY <1>3, <2>1, <2>2
<1>7. ASSUME NEW c \in AccountCalls, CallStep(c) PROVE CodesAreCounted'
  <2>1. PICK next : /\ call' = [call EXCEPT ![c] = next]
                    /\ Counting(c, next) /\ next.step \in CallSteps
                    /\ session' = session /\ otp' \in {otp, 0, codes'}
    <3>1. CASE InsertUser(c)
      BY <3>1 DEF InsertUser, Continue, redis, Counting, CallSteps, Resting
    <3>2. CASE StoreCode(c)
      BY <3>2 DEF StoreCode, Continue, Counting, CallSteps, Resting
    <3>3. CASE ReadCode(c)
      <4>1. PICK next : next = [step |-> "compare", answer |-> call[c].answer, stored |-> otp]
        OBVIOUS
      <4>2. next.step = "compare"
        BY <4>1
      <4>3. QED
        BY <3>3, <4>1, <4>2 DEF ReadCode, Continue, redis, Counting, CallSteps
    <3>4. CASE CompareCode(c)
      BY <3>4 DEF CompareCode, Continue, redis, Counting, CallSteps
    <3>5. CASE CountWrongCode(c)
      <4>1. PICK next : next = [step |-> "counted",
                                attempts |-> IF attempts < 4 THEN attempts + 1 ELSE 4]
        OBVIOUS
      <4>2. next.step = "counted"
        BY <4>1
      <4>3. QED
        BY <3>5, <4>1, <4>2 DEF CountWrongCode, Continue, redis, Counting, CallSteps
    <3>6. CASE \/ SetAttempts(c) \/ AcceptCode(c) \/ ClearAttempts(c) \/ ClearCode(c)
               \/ SetPassword(c) \/ DeleteToken(c) \/ SaveProfile(c)
      BY <3>6 DEF SetAttempts, AcceptCode, ClearAttempts, ClearCode, SetPassword, DeleteToken,
                  SaveProfile, Continue, redis, Counting, CallSteps, Resting
    <3>7. CASE CheckToken(c)
      <4>1. PICK next : next = IF resetToken # 0 /\ resetToken = call[c].token
                               THEN [step |-> "password", token |-> resetToken] ELSE Resting
        OBVIOUS
      <4>2. next.step \in {"password", "idle"}
        BY <4>1 DEF Resting
      <4>3. QED
        BY <3>7, <4>1, <4>2 DEF CheckToken, Continue, redis, Counting, CallSteps
    <3>8. QED
      BY <1>7, <3>1, <3>2, <3>3, <3>4, <3>5, <3>6, <3>7 DEF CallStep
  <2>2. QED
    BY <1>3, <2>1
<1>8. QED
  BY <1>1, <1>4, <1>5, <1>6, <1>7 DEF AccountNext, Beginning

\* apps/accounts: every variable has its type, and no more codes are made than
\* MaxCodes, however requests overlap.
THEOREM AccountTypesStay == AccountSpec => []AccountTypeOK
<1>1. AccountInit => CodesAreCounted
  <2>1. SUFFICES ASSUME AccountInit PROVE CodesAreCounted
    OBVIOUS
  <2>2. MakingCode = {}
    BY <2>1 DEF AccountInit, MakingCode, Resting
  <2>3. Cardinality(MakingCode) = 0
    BY <2>2, FS_EmptySet
  <2>4. QED
    BY <2>1, <2>3, AccountsAssumption DEF AccountInit, CodesAreCounted, Resting, CallSteps
<1>2. AccountInv => AccountTypes
  BY DEF AccountInv
<1>3. CodesAreCounted /\ AccountTypes => AccountTypeOK
  <2>1. SUFFICES ASSUME CodesAreCounted, AccountTypes PROVE AccountTypeOK
    OBVIOUS
  <2>2. MakingCode \in SUBSET AccountCalls
    BY DEF MakingCode
  <2>3. Cardinality(MakingCode) \in Nat
    BY <2>2, AccountsAssumption, FS_Subset, FS_CardinalityType
  <2>4. QED
    BY <2>1, <2>3, AccountsAssumption DEF CodesAreCounted, AccountTypes, AccountTypeOK
<1>4. QED
  BY <1>1, <1>2, <1>3, NextCount, AccountInvariant, PTL DEF AccountSpec

-----------------------------------------------------------------------------
(* Two requests at a time: how many more wrong codes they can compare.      *)

Verifying == {"count", "counted", "clear", "cleared"}

\* The count that a request is about to set: of a wrong code that it has yet to
\* compare, or has compared; 4 if it is about to delete the counter, and 5 if
\* then only the code.
Level(w, a) ==
    IF w.step = "counted" THEN IF w.attempts < 3 THEN w.attempts ELSE 3
    ELSE IF w.step = "clear" THEN 4
    ELSE IF w.step = "cleared" THEN 5
    ELSE IF a < 2 THEN a + 1 ELSE 3

\* The wrong code that a request may compare at once.
Chance(w, a) == IF w.step \in Verifying \/ a >= 3 THEN 0 ELSE 1

\* The wrong codes that two requests can compare after that.
Waste == <<<<10, 9, 8, 5, 2>>, <<9, 6, 5, 4, 1>>, <<8, 5, 3, 3, 0>>,
           <<5, 4, 3, 0, 0>>, <<2, 1, 0, 0, 0>>>>

StillWrong(v, w, a) == Chance(v, a) + Chance(w, a) + Waste[Level(v, a)][Level(w, a)]

\* A request that has counted holds what it will set.
Holds(w) == w.step = "counted" => w.attempts \in 1 .. 4

LEMMA WasteFacts ==
    /\ \A k, l \in 1 .. 5 : Waste[k][l] = Waste[l][k] /\ Waste[k][l] \in 0 .. 10
    /\ \A l \in 1 .. 5 : Waste[4][l] <= Waste[3][l] /\ Waste[3][l] <= Waste[2][l]
                         /\ Waste[2][l] <= Waste[1][l]
BY DEF Waste

LEMMA LevelFacts ==
    ASSUME NEW w, Holds(w), NEW a \in 0 .. 4
    PROVE  Level(w, a) \in 1 .. 5 /\ Chance(w, a) \in 0 .. 1
BY DEF Level, Chance, Holds, Verifying

LEMMA StillFacts ==
    ASSUME NEW v, NEW w, Holds(v), Holds(w), NEW a \in 0 .. 4
    PROVE  StillWrong(v, w, a) \in 0 .. 12 /\ StillWrong(v, w, a) = StillWrong(w, v, a)
<1>1. PICK k, l : k = Level(v, a) /\ l = Level(w, a)
  OBVIOUS
<1>2. k \in 1 .. 5 /\ l \in 1 .. 5 /\ Chance(v, a) \in 0 .. 1 /\ Chance(w, a) \in 0 .. 1
  BY <1>1, LevelFacts
<1>3. Waste[k][l] = Waste[l][k] /\ Waste[k][l] \in 0 .. 10
  BY <1>2, WasteFacts
<1>4. QED
  BY <1>1, <1>2, <1>3 DEF StillWrong

\* How a request moves the counter from a to b, and the guesses from g to h.
Goes(v, next, a, b, g, h) ==
    \/ v.step \notin Verifying /\ next.step \notin Verifying /\ b = a /\ h = g
    \/ v.step \notin Verifying /\ next.step = "count" /\ b = a /\ a < 3 /\ h \in {g, g + 1}
    \/ v.step \notin Verifying /\ next.step = "clear" /\ b = a /\ h = g
    \/ /\ v.step = "count" /\ next.step = "counted" /\ b = a /\ h = g
       /\ next.attempts = IF a < 4 THEN a + 1 ELSE 4
    \/ v.step = "counted" /\ next.step \notin Verifying /\ b = v.attempts /\ h = g
    \/ v.step = "clear" /\ next.step = "cleared" /\ b = 0 /\ h = g

LEMMA FewerLeft ==
    ASSUME NEW v, NEW w, NEW next, Holds(v), Holds(w), NEW a \in 0 .. 4, NEW b \in 0 .. 4,
           NEW g \in Nat, NEW h \in Nat, Goes(v, next, a, b, g, h)
    PROVE  Holds(next) /\ h + StillWrong(next, w, b) <= g + StillWrong(v, w, a)
<1>1. Holds(next)
  BY DEF Goes, Holds, Verifying
<1>2. PICK k, l, m, n, i, j, y, z :
         /\ k = Level(v, a) /\ l = Level(w, a) /\ m = Level(next, b) /\ n = Level(w, b)
         /\ i = Chance(v, a) /\ j = Chance(w, a) /\ y = Chance(next, b) /\ z = Chance(w, b)
  OBVIOUS
<1>3. /\ k \in 1 .. 5 /\ l \in 1 .. 5 /\ m \in 1 .. 5 /\ n \in 1 .. 5
      /\ i \in 0 .. 1 /\ j \in 0 .. 1 /\ y \in 0 .. 1 /\ z \in 0 .. 1
  BY <1>1, <1>2, LevelFacts
<1> DEFINE Falls == h + y + z + Waste[m][n] <= g + i + j + Waste[k][l]
<1>4. ASSUME v.step = "counted", next.step \notin Verifying, b = v.attempts, h = g PROVE Falls
  <2>1. b \in 1 .. 4 /\ i = 0 /\ k = IF b < 3 THEN b ELSE 3
    BY <1>2, <1>4 DEF Level, Chance, Verifying, Holds
  <2>2. m = (IF b < 2 THEN b + 1 ELSE 3) /\ y = IF b < 3 THEN 1 ELSE 0
    BY <1>2, <1>4 DEF Level, Chance, Verifying
  <2>3. CASE w.step \in {"counted", "clear", "cleared"}
    <3>1. n = l /\ z = j
      BY <1>2, <2>3 DEF Level, Chance, Verifying
    <3>2. y + Waste[m][l] <= Waste[k][l] /\ Waste[m][l] \in 0 .. 10 /\ Waste[k][l] \in 0 .. 10
      BY <1>3, <2>1, <2>2 DEF Waste
    <3>3. QED
      BY <1>3, <1>4, <2>1, <3>1, <3>2
  <2>4. CASE w.step \notin {"counted", "clear", "cleared"}
    <3>1. /\ l = (IF a < 2 THEN a + 1 ELSE 3) /\ n = (IF b < 2 THEN b + 1 ELSE 3)
          /\ \/ j = 0 /\ z = 0
             \/ j = (IF a < 3 THEN 1 ELSE 0) /\ z = (IF b < 3 THEN 1 ELSE 0)
      BY <1>2, <2>4 DEF Level, Chance, Verifying
    <3>2. /\ y + z + Waste[m][n] <= j + Waste[k][l]
          /\ Waste[m][n] \in 0 .. 10 /\ Waste[k][l] \in 0 .. 10
      <4>1. CASE b = 1
        BY <2>1, <2>2, <3>1, <4>1 DEF Waste
      <4>2. CASE b = 2
        BY <2>1, <2>2, <3>1, <4>2 DEF Waste
      <4>3. CASE b \in 3 .. 4
        BY <2>1, <2>2, <3>1, <4>3 DEF Waste
      <4>4. QED
        BY <2>1, <4>1, <4>2, <4>3
    <3>3. QED
      BY <1>3, <1>4, <2>1, <3>2
  <2>5. QED
    BY <2>3, <2>4
<1>5. ASSUME v.step = "clear", next.step = "cleared", b = 0, h = g PROVE Falls
  <2>1. k = 4 /\ i = 0 /\ m = 5 /\ y = 0
    BY <1>2, <1>5 DEF Level, Chance, Verifying
  <2>2. CASE w.step \in {"counted", "clear", "cleared"}
    <3>1. n = l /\ z = j
      BY <1>2, <2>2 DEF Level, Chance, Verifying
    <3>2. Waste[5][l] <= Waste[4][l] /\ Waste[5][l] \in 0 .. 10 /\ Waste[4][l] \in 0 .. 10
      BY <1>3 DEF Waste
    <3>3. QED
      BY <1>3, <1>5, <2>1, <3>1, <3>2
  <2>3. CASE w.step \notin {"counted", "clear", "cleared"}
    <3>1. l \in 1 .. 3 /\ n = 1
      BY <1>2, <1>5, <2>3 DEF Level, Chance, Verifying
    <3>2. z + Waste[5][1] <= Waste[4][l] /\ Waste[5][1] \in 0 .. 10 /\ Waste[4][l] \in 0 .. 10
      BY <1>3, <3>1 DEF Waste
    <3>3. QED
      BY <1>3, <1>5, <2>1, <3>1, <3>2
  <2>4. QED
    BY <2>2, <2>3
<1>6. ASSUME b = a PROVE Falls
  <2>1. l = n /\ j = z
    BY <1>2, <1>6
  <2>2. CASE v.step \notin Verifying /\ next.step \notin Verifying /\ h = g
    <3>1. k = m /\ i = y
      BY <1>2, <1>6, <2>2 DEF Level, Chance, Verifying
    <3>2. Waste[m][n] = Waste[k][l] /\ Waste[k][l] \in 0 .. 10
      BY <1>3, <2>1, <3>1, WasteFacts
    <3>3. QED
      BY <1>3, <2>1, <2>2, <3>1, <3>2
  <2>3. CASE v.step \notin Verifying /\ next.step = "count" /\ a < 3 /\ h \in {g, g + 1}
    <3>1. k = m /\ i = 1 /\ y = 0
      BY <1>2, <1>6, <2>3 DEF Level, Chance, Verifying
    <3>2. Waste[m][n] = Waste[k][l] /\ Waste[k][l] \in 0 .. 10
      BY <1>3, <2>1, <3>1, WasteFacts
    <3>3. QED
      BY <1>3, <2>1, <2>3, <3>1, <3>2
  <2>4. CASE v.step \notin Verifying /\ next.step = "clear" /\ h = g
    <3>1. k \in 1 .. 3 /\ m = 4 /\ y = 0
      BY <1>2, <1>6, <2>4 DEF Level, Chance, Verifying
    <3>2. Waste[4][l] <= Waste[k][l] /\ Waste[k][l] \in 0 .. 10 /\ Waste[4][l] \in 0 .. 10
      <4>1. /\ Waste[4][l] <= Waste[3][l] /\ Waste[3][l] <= Waste[2][l]
            /\ Waste[2][l] <= Waste[1][l]
            /\ \A o \in 1 .. 5 : Waste[o][l] \in 0 .. 10
        BY <1>3, WasteFacts
      <4>2. CASE k = 1
        BY <4>1, <4>2
      <4>3. CASE k = 2
        BY <4>1, <4>3
      <4>4. CASE k = 3
        BY <4>1, <4>4
      <4>5. QED
        BY <3>1, <4>2, <4>3, <4>4
    <3>3. QED
      BY <1>3, <2>1, <2>4, <3>1, <3>2
  <2>5. CASE /\ v.step = "count" /\ next.step = "counted" /\ h = g
             /\ next.attempts = IF a < 4 THEN a + 1 ELSE 4
    <3>1. k = m /\ i = y
      BY <1>2, <1>6, <2>5 DEF Level, Chance, Verifying
    <3>2. Waste[m][n] = Waste[k][l] /\ Waste[k][l] \in 0 .. 10
      BY <1>3, <2>1, <3>1, WasteFacts
    <3>3. QED
      BY <1>3, <2>1, <2>5, <3>1, <3>2
  <2>6. QED
    BY <1>4, <1>5, <1>6, <2>2, <2>3, <2>4, <2>5 DEF Goes
<1>7. Falls
  BY <1>4, <1>5, <1>6 DEF Goes
<1>8. Waste[m][n] \in 0 .. 10 /\ Waste[k][l] \in 0 .. 10
  BY <1>3, WasteFacts
<1>9. /\ StillWrong(next, w, b) = y + z + Waste[m][n]
      /\ StillWrong(v, w, a) = i + j + Waste[k][l]
  BY <1>2 DEF StillWrong
<1>10. QED
  BY <1>1, <1>3, <1>7, <1>8, <1>9

At(x) == IF x \in AccountCalls THEN call[x] ELSE Resting

\* Of the code that is stored, no more than twelve are wrong in the end.
GuessInv(c, d) ==
    /\ \A x \in AccountCalls : Holds(call[x])
    /\ guesses <= 12
    /\ otp # 0 => guesses + StillWrong(At(c), At(d), attempts) <= 12

LEMMA GuessMoves ==
    ASSUME NEW c, NEW d, c # d, AccountCalls \subseteq {c, d}, AccountTypes, AccountTypes',
           GuessInv(c, d), NEW x \in AccountCalls, NEW next, call' = [call EXCEPT ![x] = next],
           Holds(next),
           \/ guesses' = 0
           \/ otp' = 0 /\ guesses' = guesses
           \/ /\ Goes(call[x], next, attempts, attempts', guesses, guesses')
              /\ otp' = otp /\ (guesses' = guesses \/ otp # 0)
    PROVE  GuessInv(c, d)'
<1>1. PICK y : y \in {c, d} /\ y # x
  OBVIOUS
<1>2. PICK v, w, a, b, g, h : /\ v = call[x] /\ w = At(y) /\ a = attempts /\ b = attempts'
                              /\ g = guesses /\ h = guesses'
  OBVIOUS
<1>3. call'[x] = next /\ \A z \in AccountCalls : z # x => call'[z] = call[z]
  BY DEF AccountTypes
<1>4. At(x) = v /\ At(x)' = next /\ At(y)' = w
  BY <1>1, <1>2, <1>3 DEF At
<1>5. Holds(v) /\ Holds(w) /\ \A z \in AccountCalls : Holds(call'[z])
  BY <1>1, <1>2, <1>3 DEF GuessInv, At, Holds, Resting
<1>6. a \in 0 .. 4 /\ b \in 0 .. 4 /\ g \in Nat /\ h \in Nat
  BY <1>2 DEF AccountTypes
<1>7. /\ StillWrong(v, w, a) \in 0 .. 12 /\ StillWrong(v, w, a) = StillWrong(w, v, a)
      /\ StillWrong(next, w, b) \in 0 .. 12 /\ StillWrong(next, w, b) = StillWrong(w, next, b)
  BY <1>5, <1>6, StillFacts
<1>8. /\ StillWrong(At(c), At(d), attempts) = StillWrong(v, w, a)
      /\ StillWrong(At(c), At(d), attempts)' = StillWrong(next, w, b)
  <2>1. CASE x = c /\ y = d
    BY <1>2, <1>4, <2>1
  <2>2. CASE x = d /\ y = c
    BY <1>2, <1>4, <1>7, <2>2
  <2>3. QED
    BY <1>1, <2>1, <2>2
<1>9. g <= 12 /\ (otp # 0 => g + StillWrong(v, w, a) <= 12)
  BY <1>2, <1>8 DEF GuessInv
<1>10. h <= 12 /\ (otp' # 0 => h + StillWrong(next, w, b) <= 12)
  <2>1. CASE h = 0
    BY <1>7, <2>1
  <2>2. CASE otp' = 0 /\ h = g
    BY <1>9, <2>2
  <2>3. CASE Goes(v, next, a, b, g, h) /\ otp' = otp /\ (h = g \/ otp # 0)
    <3>1. h + StillWrong(next, w, b) <= g + StillWrong(v, w, a)
      BY <1>5, <1>6, <2>3, FewerLeft
    <3>2. QED
      BY <1>6, <1>7, <1>9, <2>3, <3>1
  <2>4. QED
    BY <1>2, <2>1, <2>2, <2>3
<1>11. QED
  BY <1>2, <1>5, <1>8, <1>10 DEF GuessInv

LEMMA NextGuess ==
    ASSUME NEW c, NEW d, c # d, AccountCalls \subseteq {c, d}, AccountTypes, AccountTypes',
           GuessInv(c, d), [AccountNext]_accountVars
    PROVE  GuessInv(c, d)'
<1>1. ASSUME UNCHANGED <<call, guesses, attempts>>, otp' \in {otp, 0} PROVE GuessInv(c, d)'
  BY <1>1 DEF GuessInv, At
<1>2. ASSUME NEW x \in AccountCalls, NEW next, call' = [call EXCEPT ![x] = next], Holds(next),
             \/ guesses' = 0
             \/ otp' = 0 /\ guesses' = guesses
             \/ /\ Goes(call[x], next, attempts, attempts', guesses, guesses')
                /\ otp' = otp /\ (guesses' = guesses \/ otp # 0)
      PROVE  GuessInv(c, d)'
  BY <1>2, GuessMoves
<1>3. CASE \/ NothingToVerify \/ RequestReset \/ Refresh \/ Logout
           \/ CodeExpires \/ TokenExpires \/ UNCHANGED accountVars
           \/ \E password \in 0 .. MaxTokens : Login(password)
  BY <1>1, <1>3 DEF NothingToVerify, RequestReset, Refresh, Logout, CodeExpires, TokenExpires,
                    Login, accountVars, redis, history
<1>4. CASE AttemptsExpire
  <2>1. UNCHANGED <<call, guesses, otp>> /\ (otp = 0 \/ guesses = 0)
    BY <1>4 DEF AttemptsExpire, history
  <2>2. Holds(At(c)) /\ Holds(At(d))
    BY DEF GuessInv, At, Holds, Resting
  <2>3. PICK v, w, a : v = At(c) /\ w = At(d) /\ a = attempts'
    OBVIOUS
  <2>4. StillWrong(v, w, a) \in 0 .. 12
    BY <2>2, <2>3, StillFacts DEF AccountTypes
  <2>5. StillWrong(At(c), At(d), attempts)' = StillWrong(v, w, a)
    BY <2>1, <2>3 DEF At
  <2>6. QED
    BY <2>1, <2>4, <2>5 DEF GuessInv
<1>5. ASSUME NEW x \in AccountCalls, Beginning(x) PROVE GuessInv(c, d)'
  <2>1. PICK next : /\ Begin(x, next) /\ UNCHANGED <<otp, attempts, guesses>>
                    /\ next.step \in {"insert", "code", "profile", "read", "checkToken"}
    <3>1. CASE Register(x)
      BY <3>1 DEF Register, redis
    <3>2. CASE ResendCode(x)
      BY <3>2 DEF ResendCode, redis
    <3>3. CASE PatchProfile(x)
      <4>1. PICK next : next = [step |-> "profile", row |-> user]
        OBVIOUS
      <4>2. next.step = "profile"
        BY <4>1
      <4>3. QED
        BY <3>3, <4>1, <4>2 DEF PatchProfile, redis
    <3>4. ASSUME NEW answer \in 0 .. MaxCodes, VerifyEmail(x, answer)
          PROVE  \E next : /\ Begin(x, next) /\ UNCHANGED <<otp, attempts, guesses>>
                           /\ next.step = "read"
      <4>1. PICK next : next = [step |-> "read", answer |-> answer]
        OBVIOUS
      <4>2. next.step = "read"
        BY <4>1
      <4>3. QED
        BY <3>4, <4>1, <4>2 DEF VerifyEmail, redis
    <3>5. ASSUME NEW token \in 0 .. MaxTokens, ResetPassword(x, token)
          PROVE  \E next : /\ Begin(x, next) /\ UNCHANGED <<otp, attempts, guesses>>
                           /\ next.step = "checkToken"
      <4>1. PICK next : next = [step |-> "checkToken", token |-> token]
        OBVIOUS
      <4>2. next.step = "checkToken"
        BY <4>1
      <4>3. QED
        BY <3>5, <4>1, <4>2 DEF ResetPassword, redis
    <3>6. QED
      BY <1>5, <3>1, <3>2, <3>3, <3>4, <3>5 DEF Beginning
  <2>2. call[x].step = "idle" /\ call' = [call EXCEPT ![x] = next]
    BY <2>1 DEF Begin, Resting
  <2>3. Holds(next) /\ Goes(call[x], next, attempts, attempts', guesses, guesses')
    BY <2>1, <2>2 DEF Holds, Goes, Verifying
  <2>4. QED
    BY <1>2, <2>1, <2>2, <2>3
<1>6. ASSUME NEW x \in AccountCalls, CallStep(x) PROVE GuessInv(c, d)'
  <2>1. CASE InsertUser(x)
    BY <1>2, <2>1 DEF InsertUser, Continue, redis, Holds, Goes, Verifying, Resting
  <2>2. CASE StoreCode(x)
    BY <1>2, <2>2 DEF StoreCode, Continue, Holds, Resting
  <2>3. CASE ReadCode(x)
    <3>1. PICK next : next = [step |-> "compare", answer |-> call[x].answer, stored |-> otp]
      OBVIOUS
    <3>2. next.step = "compare"
      BY <3>1
    <3>3. QED
      BY <1>2, <2>3, <3>1, <3>2 DEF ReadCode, Continue, redis, Holds, Goes, Verifying
  <2>4. CASE CompareCode(x)
    <3>1. PICK next : /\ call' = [call EXCEPT ![x] = next]
                      /\ \/ attempts >= 3 /\ next.step = "clear" /\ guesses' = guesses
                         \/ /\ ~(attempts >= 3) /\ next.step = "count"
                            /\ guesses' = guesses \/ (otp # 0 /\ guesses' = guesses + 1)
                         \/ next.step = "accept" /\ guesses' = guesses
      <4>1. PICK next : next = CASE LimitReached -> [step |-> "clear"]
                                 [] ~LimitReached /\ ~Right(x) -> [step |-> "count"]
                                 [] ~LimitReached /\ Right(x) -> [step |-> "accept"]
        OBVIOUS
      <4>2. call' = [call EXCEPT ![x] = next]
        BY <2>4, <4>1 DEF CompareCode, Continue
      <4>3. guesses' = IF ~LimitReached /\ ~Right(x) /\ call[x].stored = otp /\ otp # 0
                       THEN guesses + 1 ELSE guesses
        BY <2>4 DEF CompareCode
      <4>4. LimitReached => next = [step |-> "clear"]
        BY <4>1
      <4>5. ~LimitReached /\ ~Right(x) => next = [step |-> "count"]
        BY <4>1
      <4>6. ~LimitReached /\ Right(x) => next = [step |-> "accept"]
        BY <4>1
      <4>7. /\ LimitReached => next.step = "clear"
            /\ ~LimitReached /\ ~Right(x) => next.step = "count"
            /\ ~LimitReached /\ Right(x) => next.step = "accept"
        BY <4>4, <4>5, <4>6
      <4>8. QED
        BY <4>2, <4>3, <4>7 DEF LimitReached
    <3>2. UNCHANGED <<otp, attempts>> /\ call[x].step = "compare"
      BY <2>4 DEF CompareCode, Continue, redis
    <3>3. attempts \in 0 .. 4
      BY DEF AccountTypes
    <3>4. Holds(next) /\ Goes(call[x], next, attempts, attempts', guesses, guesses')
      BY <3>1, <3>2, <3>3 DEF Holds, Goes, Verifying
    <3>5. QED
      BY <1>2, <3>1, <3>2, <3>4
  <2>5. CASE CountWrongCode(x)
    <3>1. PICK k, next : /\ k = IF attempts < 4 THEN attempts + 1 ELSE 4
                         /\ next = [step |-> "counted", attempts |-> k]
      OBVIOUS
    <3>2. next.step = "counted" /\ next.attempts = k /\ k \in 1 .. 4
      BY <3>1 DEF AccountTypes
    <3>3. /\ call[x].step = "count" /\ UNCHANGED <<otp, attempts, guesses>>
          /\ call' = [call EXCEPT ![x] = next]
      BY <2>5, <3>1 DEF CountWrongCode, Continue, redis
    <3>4. Holds(next) /\ Goes(call[x], next, attempts, attempts', guesses, guesses')
      BY <3>1, <3>2, <3>3 DEF Holds, Goes, Verifying
    <3>5. QED
      BY <1>2, <3>3, <3>4
  <2>6. CASE SetAttempts(x)
    BY <1>2, <2>6 DEF SetAttempts, Continue, Holds, Goes, Verifying, Resting
  <2>7. CASE AcceptCode(x)
    BY <1>2, <2>7 DEF AcceptCode, Continue, redis, Holds, Goes, Verifying
  <2>8. CASE ClearAttempts(x)
    BY <1>2, <2>8 DEF ClearAttempts, Continue, Holds, Goes, Verifying
  <2>9. CASE ClearCode(x)
    BY <1>2, <2>9 DEF ClearCode, Continue, Holds, Resting
  <2>10. CASE CheckToken(x)
    <3>1. PICK next : next = IF resetToken # 0 /\ resetToken = call[x].token
                             THEN [step |-> "password", token |-> resetToken] ELSE Resting
      OBVIOUS
    <3>2. next.step \in {"password", "idle"}
      BY <3>1 DEF Resting
    <3>3. QED
      BY <1>2, <2>10, <3>1, <3>2 DEF CheckToken, Continue, redis, Holds, Goes, Verifying
  <2>11. CASE SetPassword(x) \/ DeleteToken(x) \/ SaveProfile(x)
    BY <1>2, <2>11 DEF SetPassword, DeleteToken, SaveProfile, Continue, redis, Holds, Goes,
                       Verifying, Resting
  <2>12. QED
    BY <1>6, <2>1, <2>2, <2>3, <2>4, <2>5, <2>6, <2>7, <2>8, <2>9, <2>10, <2>11 DEF CallStep
<1>7. QED
  BY <1>3, <1>4, <1>5, <1>6 DEF AccountNext, Beginning

\* For any number of codes and expiries, if two requests at most are under way at
\* a time: verify_email_otp compares no code with more than twelve wrong ones,
\* although increment_otp_attempts reads the counter and sets it in two commands;
\* and until two are, with three at most, and the owner loses one code at most.
THEOREM CodesStayGuarded ==
    ASSUME NEW c, NEW d, c # d, AccountCalls \subseteq {c, d}
    PROVE  AccountSpec => []CodesAreGuarded
<1>1. AccountInit => GuessInv(c, d)
  <2>1. SUFFICES ASSUME AccountInit PROVE GuessInv(c, d)
    OBVIOUS
  <2>2. otp = 0 /\ guesses = 0 /\ \A x \in AccountCalls : call[x] = Resting
    BY <2>1 DEF AccountInit
  <2>3. QED
    BY <2>2 DEF GuessInv, Holds, Resting
<1>2. AccountInv => AccountTypes
  BY DEF AccountInv
<1>3. AccountTypes /\ AccountTypes' /\ GuessInv(c, d) /\ [AccountNext]_accountVars
         => GuessInv(c, d)'
  BY NextGuess
<1>4. AccountInv /\ GuessInv(c, d) => CodesAreGuarded
  BY DEF AccountInv, CodeInv, GuessInv, CodesAreGuarded, GuessesAreBounded, NotLockedOut
<1>5. QED
  BY <1>1, <1>2, <1>3, <1>4, AccountInvariant, PTL DEF AccountSpec

-----------------------------------------------------------------------------
(* The records of merchants.                                                *)

ProfileTypes ==
    /\ profile \in [Users -> ProfileRow \cup {NoProfile}]
    /\ webhookSecret \in [Users -> 0 .. MaxSecrets] /\ handed \in [Users -> 0 .. MaxSecrets]
    /\ asked \in [Users -> ProfileRow] /\ crossed \in BOOLEAN

ListTypes == apiKey \in Seq(ApiKeyRow) /\ hook \in Seq(HookRow)

\* What request r holds: users are merchants, numbers those of rows.
Holding(r) ==
    /\ r.step \in {"idle", "touch", "profile", "insert", "act", "hand", "saveHook"}
    /\ r.step # "idle" => r.user \in MerchantUsers
    /\ r.step \in {"touch", "profile", "insert", "act"} /\ r.op.do = "patch" =>
          r.op.field \in ProfileFields
    /\ r.step = "touch" => r.id \in DOMAIN apiKey
    /\ r.step = "act" => r.row \in ProfileRow
    /\ r.step = "hand" => r.secret \in 0 .. MaxSecrets
    /\ r.step = "saveHook" => r.row \in HookRow /\ r.op.hook \in DOMAIN hook

RequestTypes == /\ request = [c \in MerchantCalls |-> request[c]]
                /\ \A c \in MerchantCalls : Holding(request[c])

\* Only merchants have anything.
OnlyMerchants ==
    /\ \A u \in Users \ MerchantUsers : profile[u] = NoProfile
    /\ \A k \in DOMAIN apiKey : apiKey[k].owner \in MerchantUsers

Shown(u) == IF profile[u] = NoProfile THEN NewProfile ELSE profile[u]

\* What is so when the only request under way holds r, or there is none.
StepTells(r) ==
    /\ r.step # "hand" => webhookSecret = handed
    /\ r.step = "hand" => webhookSecret = [handed EXCEPT ![r.user] = r.secret]
    /\ r.step = "act" => r.row = profile[r.user]
    /\ r.step = "saveHook" => ~hook[r.op.hook].deleted

Undisturbed ==
    /\ \A c, d \in MerchantCalls : request[c].step # "idle" /\ request[d].step # "idle" => c = d
    /\ \A u \in Users : asked[u] = Shown(u)
    /\ (\A c \in MerchantCalls : request[c].step = "idle") => webhookSecret = handed
    /\ \A c \in MerchantCalls : request[c].step # "idle" => StepTells(request[c])

MerchantInv == /\ ProfileTypes /\ ListTypes /\ RequestTypes /\ OnlyMerchants
               /\ ~crossed => Undisturbed

LEMMA MerchantsBegin == MerchantInit => MerchantInv
<1>1. NewProfile \in ProfileRow
  BY DEF NewProfile, ProfileRow
<1>2. SUFFICES ASSUME MerchantInit PROVE MerchantInv
  OBVIOUS
<1>3. \A c \in MerchantCalls : request[c].step = "idle"
  BY <1>2 DEF MerchantInit, NoRequest
<1>4. RequestTypes
  BY <1>2, <1>3 DEF MerchantInit, RequestTypes, Holding
<1>5. ProfileTypes
  <2>1. 0 \in 0 .. MaxSecrets
    BY MerchantsAssumption
  <2>2. webhookSecret \in [Users -> 0 .. MaxSecrets] /\ handed \in [Users -> 0 .. MaxSecrets]
    BY <1>2, <2>1 DEF MerchantInit
  <2>3. profile \in [Users -> ProfileRow \cup {NoProfile}] /\ asked \in [Users -> ProfileRow]
    BY <1>1, <1>2 DEF MerchantInit
  <2>4. QED
    BY <1>2, <2>2, <2>3 DEF MerchantInit, ProfileTypes
<1>6. ListTypes
  <2>1. apiKey = <<>> /\ hook = <<>>
    BY <1>2 DEF MerchantInit
  <2>2. QED
    BY <2>1, EmptySeq DEF ListTypes
<1>7. OnlyMerchants
  BY <1>2 DEF MerchantInit, OnlyMerchants
<1>8. Undisturbed
  BY <1>2, <1>3 DEF MerchantInit, Undisturbed, Shown
<1>9. QED
  BY <1>4, <1>5, <1>6, <1>7, <1>8 DEF MerchantInv

\* A request moves on; no row goes.
RequestMoves(c, to) ==
    /\ request' = [request EXCEPT ![c] = to]
    /\ DOMAIN apiKey \subseteq DOMAIN apiKey' /\ DOMAIN hook \subseteq DOMAIN hook'
    /\ (Holding(to))'

LEMMA RequestsHold ==
    ASSUME RequestTypes, NEW c \in MerchantCalls, NEW to, RequestMoves(c, to)
    PROVE  /\ RequestTypes' /\ request'[c] = to
           /\ \A d \in MerchantCalls : d # c => request'[d] = request[d]
<1>1. /\ request' = [d \in MerchantCalls |-> request'[d]]
      /\ request'[c] = to
      /\ \A d \in MerchantCalls : d # c => request'[d] = request[d]
  BY DEF RequestTypes, RequestMoves
<1>2. ASSUME NEW d \in MerchantCalls PROVE (Holding(request[d]))'
  <2>1. PICK r : r = request'[d]
    OBVIOUS
  <2>2. (Holding(r))'
    <3>1. CASE d = c
      BY <1>1, <2>1, <3>1 DEF RequestMoves
    <3>2. CASE d # c
      <4>1. Holding(r)
        BY <1>1, <2>1, <3>2 DEF RequestTypes
      <4>2. QED
        BY <4>1 DEF RequestMoves, Holding
    <3>3. QED
      BY <3>1, <3>2
  <2>3. QED
    BY <2>1, <2>2 DEF Holding
<1>3. QED
  BY <1>1, <1>2 DEF RequestTypes

\* What a step of a request that is under way leaves.
LEMMA RequestGoes ==
    ASSUME MerchantInv, NEW c \in MerchantCalls, NEW to, request[c].step # "idle",
           RequestMoves(c, to), ProfileTypes', ListTypes', OnlyMerchants',
           ~crossed' => ~crossed,
           ~crossed' /\ Undisturbed /\ StepTells(request[c]) =>
              (StepTells(to))' /\ \A u \in Users : asked'[u] = Shown(u)'
    PROVE  MerchantInv'
<1>1. /\ RequestTypes' /\ request'[c] = to
      /\ \A d \in MerchantCalls : d # c => request'[d] = request[d]
  BY RequestsHold DEF MerchantInv
<1>2. ASSUME ~crossed' PROVE Undisturbed'
  <2>1. Undisturbed /\ StepTells(request[c])
    BY <1>2 DEF MerchantInv, Undisturbed
  <2>2. (StepTells(to))' /\ \A u \in Users : asked'[u] = Shown(u)'
    BY <1>2, <2>1
  <2>3. \A d \in MerchantCalls : d # c => request'[d].step = "idle"
    BY <1>1, <2>1 DEF Undisturbed
  <2>4. \A d \in MerchantCalls : request'[d].step # "idle" => (StepTells(request[d]))'
    BY <1>1, <2>2, <2>3 DEF StepTells
  <2>5. (\A d \in MerchantCalls : request'[d].step = "idle") => webhookSecret' = handed'
    BY <1>1, <2>2 DEF StepTells
  <2>6. QED
    BY <2>2, <2>3, <2>4, <2>5 DEF Undisturbed
<1>3. QED
  BY <1>1, <1>2 DEF MerchantInv

LEMMA NextArrival ==
    ASSUME MerchantInv, NEW c \in MerchantCalls, NEW op \in MerchantRequests,
           (\E u \in Users : RequestByUser(c, u, op)) \/ (\E k \in DOMAIN apiKey : RequestByKey(c, k, op))
    PROVE  MerchantInv'
<1>1. PICK to : /\ Arrives(c, to) /\ to.step \in {"profile", "touch"} /\ to.op = op
                /\ to.user \in MerchantUsers
                /\ to.step = "touch" => to.id \in DOMAIN apiKey
  <2>1. CASE \E u \in Users : RequestByUser(c, u, op)
    <3>1. PICK u \in MerchantUsers : Arrives(c, [step |-> "profile", user |-> u, op |-> op])
      BY <2>1 DEF RequestByUser, IsMerchant
    <3>2. QED
      BY <3>1
  <2>2. CASE \E k \in DOMAIN apiKey : RequestByKey(c, k, op)
    <3>1. PICK k \in DOMAIN apiKey :
             Arrives(c, [step |-> "touch", user |-> apiKey[k].owner, op |-> op, key |-> apiKey[k],
                         id |-> k])
      BY <2>2 DEF RequestByKey
    <3>2. apiKey[k].owner \in MerchantUsers
      BY DEF MerchantInv, OnlyMerchants
    <3>3. QED
      BY <3>1, <3>2
  <2>3. QED
    BY <2>1, <2>2
<1>2. /\ request[c].step = "idle" /\ request' = [request EXCEPT ![c] = to]
      /\ crossed' = (crossed \/ \E d \in MerchantCalls : request[d].step # "idle")
      /\ profile' = profile /\ apiKey' = apiKey /\ webhookSecret' = webhookSecret
      /\ hook' = hook /\ asked' = asked /\ handed' = handed
  BY <1>1 DEF Arrives, RequestAt
<1>3. op.do = "patch" => op.field \in ProfileFields
  BY DEF MerchantRequests, ProfileRequests, KeyRequests, RevokeRequests, SecretRequests,
     NewHookRequests, HookRequests
<1>4. RequestMoves(c, to)
  BY <1>1, <1>2, <1>3 DEF Holding, RequestMoves
<1>5. /\ RequestTypes' /\ request'[c] = to
      /\ \A d \in MerchantCalls : d # c => request'[d] = request[d]
  BY <1>4, RequestsHold DEF MerchantInv
<1>6. ProfileTypes' /\ ListTypes' /\ OnlyMerchants'
  BY <1>2 DEF MerchantInv, ProfileTypes, ListTypes, OnlyMerchants
<1>7. ASSUME ~crossed' PROVE Undisturbed'
  <2>1. Undisturbed /\ \A d \in MerchantCalls : request[d].step = "idle"
    BY <1>2, <1>7 DEF MerchantInv
  <2>2. webhookSecret = handed
    BY <2>1 DEF Undisturbed
  <2>3. \A d \in MerchantCalls : d # c => request'[d].step = "idle"
    BY <1>5, <2>1
  <2>4. \A d \in MerchantCalls : request'[d].step # "idle" => (StepTells(request[d]))'
    BY <1>1, <1>2, <1>5, <2>2, <2>3 DEF StepTells
  <2>5. \A u \in Users : asked'[u] = Shown(u)'
    BY <1>2, <2>1 DEF Undisturbed, Shown
  <2>6. QED
    BY <1>2, <2>2, <2>3, <2>4, <2>5 DEF Undisturbed
<1>8. QED
  BY <1>5, <1>6, <1>7 DEF MerchantInv

LEMMA RequestFacts ==
    ASSUME MerchantInv, NEW c \in MerchantCalls, request[c].step # "idle"
    PROVE  Holding(request[c]) /\ U(c) \in MerchantUsers /\ U(c) \in Users
<1>1. Holding(request[c])
  BY DEF MerchantInv, RequestTypes
<1>2. QED
  BY <1>1, MerchantsAssumption DEF Holding, U

\* A request that goes on, or ends, without a word about the profile or the
\* secret; of the lists it only adds rows, or uses, revokes, edits or deletes one.
LEMMA NextListStep ==
    ASSUME MerchantInv, NEW c \in MerchantCalls,
           \/ TouchKey(c) \/ ReadProfile(c) \/ GenerateKey(c) \/ RevokeKey(c)
           \/ CreateHook(c) \/ DeleteHook(c) \/ SaveHook(c) \/ RequestDies(c)
    PROVE  MerchantInv'
<1>1. request[c].step # "idle"
  BY DEF TouchKey, ReadProfile, GenerateKey, RevokeKey, CreateHook, DeleteHook, SaveHook,
     RequestDies, Acts, RequestAt
<1>2. Holding(request[c]) /\ U(c) \in MerchantUsers /\ U(c) \in Users
  BY <1>1, RequestFacts
<1>3. PICK to :
         /\ request' = [request EXCEPT ![c] = to]
         /\ to.step \in {"idle", "profile"}
         /\ to.step = "profile" =>
               to.user = U(c) /\ (to.op.do = "patch" => to.op.field \in ProfileFields)
  <2>1. CASE TouchKey(c)
    <3>1. request[c].step = "touch"
      BY <2>1 DEF TouchKey, RequestAt
    <3>2. request[c].op.do = "patch" => request[c].op.field \in ProfileFields
      BY <1>2, <3>1 DEF Holding
    <3>3. PICK r : r = [step |-> "profile", user |-> request[c].user, op |-> request[c].op]
      OBVIOUS
    <3>4. r.step = "profile" /\ r.user = U(c) /\ r.op = request[c].op
      BY <3>3 DEF U
    <3>5. request' = [request EXCEPT ![c] = r]
      BY <2>1, <3>3 DEF TouchKey, RequestAt
    <3>6. QED
      BY <3>2, <3>4, <3>5
  <2>2. CASE \/ ReadProfile(c) \/ GenerateKey(c) \/ RevokeKey(c)
             \/ CreateHook(c) \/ DeleteHook(c) \/ SaveHook(c) \/ RequestDies(c)
    <3>1. PICK r : r = NoRequest
      OBVIOUS
    <3>2. r.step = "idle"
      BY <3>1 DEF NoRequest
    <3>3. request' = [request EXCEPT ![c] = r]
      BY <3>1, <2>2 DEF ReadProfile, GenerateKey, RevokeKey, CreateHook, DeleteHook, SaveHook,
         RequestDies, RequestAt
    <3>4. QED
      BY <3>2, <3>3
  <2>3. QED
    BY <2>1, <2>2
<1>4. /\ profile' = profile /\ webhookSecret' = webhookSecret
      /\ asked' = asked /\ handed' = handed /\ (crossed' = crossed \/ crossed' = TRUE)
  BY DEF TouchKey, ReadProfile, GenerateKey, RevokeKey, CreateHook, DeleteHook, SaveHook,
     RequestDies, Acts
<1>5. /\ apiKey' \in Seq(ApiKeyRow) /\ DOMAIN apiKey \subseteq DOMAIN apiKey'
      /\ \A k \in DOMAIN apiKey' : apiKey'[k].owner \in MerchantUsers
  <2>1. apiKey \in Seq(ApiKeyRow) /\ \A k \in DOMAIN apiKey : apiKey[k].owner \in MerchantUsers
    BY DEF MerchantInv, ListTypes, OnlyMerchants
  <2>2. \A k \in DOMAIN apiKey : apiKey[k] \in ApiKeyRow
    BY <2>1
  <2>3. CASE apiKey' = apiKey
    BY <2>1, <2>3
  <2>4. CASE TouchKey(c)
    <3>1. request[c].id \in DOMAIN apiKey
      BY <1>2, <2>4 DEF TouchKey, RequestAt, Holding
    <3>2. PICK k \in DOMAIN apiKey : k = request[c].id
      BY <3>1
    <3>3. PICK r : r = [apiKey[k] EXCEPT !.used = TRUE]
      OBVIOUS
    <3>4. r \in ApiKeyRow /\ r.owner = apiKey[k].owner
      BY <2>2, <3>3 DEF ApiKeyRow
    <3>5. apiKey' = [apiKey EXCEPT ![k] = r]
      BY <2>4, <3>2, <3>3 DEF TouchKey
    <3>6. apiKey' \in Seq(ApiKeyRow) /\ DOMAIN apiKey' = DOMAIN apiKey
      BY <2>1, <3>4, <3>5
    <3>7. \A i \in DOMAIN apiKey : apiKey'[i].owner = apiKey[i].owner
      BY <3>4, <3>5
    <3>8. QED
      BY <2>1, <3>6, <3>7
  <2>5. CASE GenerateKey(c)
    <3>1. apiKey' = Append(apiKey, NewApiKey(U(c)))
      BY <2>5 DEF GenerateKey
    <3>2. NewApiKey(U(c)) \in ApiKeyRow /\ NewApiKey(U(c)).owner \in MerchantUsers
      BY <1>2 DEF NewApiKey, ApiKeyRow
    <3>3. PICK r \in ApiKeyRow : r = NewApiKey(U(c)) /\ r.owner \in MerchantUsers
      BY <3>2
    <3>4. apiKey' = Append(apiKey, r)
      BY <3>1, <3>3
    <3>5. QED
      BY <2>1, <3>3, <3>4
  <2>6. CASE RevokeKey(c)
    <3>1. DOMAIN apiKey' = DOMAIN apiKey
          /\ \A k \in DOMAIN apiKey : \/ apiKey'[k] = apiKey[k]
                                      \/ apiKey'[k] = [apiKey[k] EXCEPT !.active = FALSE]
      BY <2>6 DEF RevokeKey
    <3>2. \A k \in DOMAIN apiKey : apiKey'[k] \in ApiKeyRow /\ apiKey'[k].owner = apiKey[k].owner
      BY <2>2, <3>1 DEF ApiKeyRow
    <3>3. apiKey' = [k \in 1 .. Len(apiKey) |-> apiKey'[k]]
      BY <2>1, <2>6 DEF RevokeKey
    <3>4. apiKey' \in Seq(ApiKeyRow)
      <4>1. Len(apiKey) \in Nat /\ \A k \in 1 .. Len(apiKey) : apiKey'[k] \in ApiKeyRow
        BY <2>1, <3>2
      <4>2. apiKey' \in [1 .. Len(apiKey) -> ApiKeyRow]
        BY <3>3, <4>1
      <4>3. QED
        BY <4>1, <4>2, SeqDef
    <3>5. QED
      BY <2>1, <3>1, <3>2, <3>4
  <2>7. QED
    BY <2>3, <2>4, <2>5, <2>6 DEF ReadProfile, CreateHook, DeleteHook, SaveHook, RequestDies
<1>6. hook' \in Seq(HookRow) /\ DOMAIN hook \subseteq DOMAIN hook'
  <2>1. hook \in Seq(HookRow) /\ \A h \in DOMAIN hook : hook[h] \in HookRow
    BY DEF MerchantInv, ListTypes
  <2>2. CASE hook' = hook
    BY <2>1, <2>2
  <2>3. CASE CreateHook(c)
    <3>1. PICK r : r = NewHook(U(c))
      OBVIOUS
    <3>2. r \in HookRow /\ hook' = Append(hook, r)
      BY <1>2, <2>3, <3>1 DEF CreateHook, NewHook, HookRow
    <3>3. QED
      BY <2>1, <3>2
  <2>4. CASE DeleteHook(c)
    <3>1. DOMAIN hook' = DOMAIN hook
          /\ \A h \in DOMAIN hook : \/ hook'[h] = hook[h]
                                    \/ hook'[h] = [hook[h] EXCEPT !.deleted = TRUE]
      BY <2>4 DEF DeleteHook
    <3>2. \A h \in DOMAIN hook : hook'[h] \in HookRow
      BY <2>1, <3>1 DEF HookRow
    <3>3. hook' = [h \in 1 .. Len(hook) |-> hook'[h]]
      BY <2>1, <2>4 DEF DeleteHook
    <3>4. Len(hook) \in Nat /\ \A h \in 1 .. Len(hook) : hook'[h] \in HookRow
      BY <2>1, <3>2
    <3>5. hook' \in [1 .. Len(hook) -> HookRow]
      BY <3>3, <3>4
    <3>6. QED
      BY <3>1, <3>4, <3>5, SeqDef
  <2>5. CASE SaveHook(c)
    <3>1. request[c].row \in HookRow /\ Op(c).hook \in DOMAIN hook
      BY <1>2, <2>5 DEF SaveHook, RequestAt, Holding, Op
    <3>2. PICK r : r = [request[c].row EXCEPT !.edited = TRUE]
      OBVIOUS
    <3>3. r \in HookRow /\ hook' = [hook EXCEPT ![Op(c).hook] = r]
      BY <2>5, <3>1, <3>2 DEF SaveHook, HookRow
    <3>4. QED
      BY <2>1, <3>1, <3>3
  <2>6. QED
    BY <2>2, <2>3, <2>4, <2>5 DEF TouchKey, ReadProfile, GenerateKey, RevokeKey, RequestDies
<1>7. RequestMoves(c, to)
  BY <1>2, <1>3, <1>5, <1>6 DEF RequestMoves, Holding
<1>8. ProfileTypes' /\ ListTypes' /\ OnlyMerchants'
  BY <1>4, <1>5, <1>6 DEF MerchantInv, ProfileTypes, ListTypes, OnlyMerchants
<1>9. request[c].step # "hand" \/ crossed'
  BY DEF TouchKey, ReadProfile, GenerateKey, RevokeKey, CreateHook, DeleteHook, SaveHook,
     RequestDies, Acts, RequestAt
<1>10. ASSUME ~crossed', Undisturbed, StepTells(request[c])
       PROVE  (StepTells(to))' /\ \A u \in Users : asked'[u] = Shown(u)'
  <2>1. webhookSecret' = handed'
    BY <1>4, <1>9, <1>10 DEF StepTells
  <2>2. QED
    BY <1>3, <1>4, <1>10, <2>1 DEF StepTells, Undisturbed, Shown
<1>11. QED
  BY <1>1, <1>4, <1>7, <1>8, <1>10, RequestGoes

\* The profile is read, or made; the request has it in hand.
LEMMA NextProfile ==
    ASSUME MerchantInv, NEW c \in MerchantCalls, GetProfile(c) \/ CreateProfile(c)
    PROVE  MerchantInv'
<1>1. request[c].step \in {"profile", "insert"}
  BY DEF GetProfile, CreateProfile, RequestAt
<1>2. /\ Holding(request[c]) /\ U(c) \in MerchantUsers /\ U(c) \in Users
      /\ Op(c).do = "patch" => Op(c).field \in ProfileFields
  BY <1>1, RequestFacts DEF Holding, Op
<1>3. NewProfile \in ProfileRow /\ profile \in [Users -> ProfileRow \cup {NoProfile}]
  BY DEF NewProfile, ProfileRow, MerchantInv, ProfileTypes
<1>4. PICK to :
         /\ request' = [request EXCEPT ![c] = to]
         /\ \/ to.step = "idle"
            \/ to.step \in {"insert", "act"} /\ to.user = U(c) /\ to.op = Op(c)
         /\ to.step = "act" => to.row \in ProfileRow /\ to.row = profile'[U(c)]
  <2>1. CASE GetProfile(c) /\ profile[U(c)] = NoProfile
    <3>1. PICK r : r = [step |-> "insert", user |-> U(c), op |-> Op(c)]
      OBVIOUS
    <3>2. request' = [request EXCEPT ![c] = r]
      BY <2>1, <3>1 DEF GetProfile, RequestAt
    <3>3. r.step = "insert" /\ r.user = U(c) /\ r.op = Op(c)
      BY <3>1
    <3>4. QED
      BY <3>2, <3>3
  <2>2. CASE GetProfile(c) /\ profile[U(c)] # NoProfile
    <3>1. PICK r : r = WithProfile(c, profile[U(c)])
      OBVIOUS
    <3>2. request' = [request EXCEPT ![c] = r] /\ profile' = profile
      BY <2>2, <3>1 DEF GetProfile, RequestAt
    <3>3. r.step = "act" /\ r.user = U(c) /\ r.op = Op(c) /\ r.row = profile[U(c)]
      BY <3>1 DEF WithProfile
    <3>4. QED
      BY <1>2, <1>3, <2>2, <3>2, <3>3
  <2>3. CASE CreateProfile(c) /\ profile[U(c)] = NoProfile
    <3>1. PICK r : r = WithProfile(c, NewProfile)
      OBVIOUS
    <3>2. request' = [request EXCEPT ![c] = r] /\ profile' = [profile EXCEPT ![U(c)] = NewProfile]
      BY <2>3, <3>1 DEF CreateProfile, RequestAt
    <3>3. r.step = "act" /\ r.user = U(c) /\ r.op = Op(c) /\ r.row = NewProfile
      BY <3>1 DEF WithProfile
    <3>4. QED
      BY <1>2, <1>3, <3>2, <3>3
  <2>4. CASE CreateProfile(c) /\ profile[U(c)] # NoProfile
    <3>1. PICK r : r = NoRequest
      OBVIOUS
    <3>2. request' = [request EXCEPT ![c] = r] /\ r.step = "idle"
      BY <2>4, <3>1 DEF CreateProfile, RequestAt, NoRequest
    <3>3. QED
      BY <3>2
  <2>5. QED
    BY <2>1, <2>2, <2>3, <2>4
<1>5. /\ profile' = profile \/ (profile[U(c)] = NoProfile
                                /\ profile' = [profile EXCEPT ![U(c)] = NewProfile])
      /\ apiKey' = apiKey /\ hook' = hook /\ webhookSecret' = webhookSecret
      /\ asked' = asked /\ handed' = handed /\ crossed' = crossed
  <2>1. CASE GetProfile(c)
    BY <2>1 DEF GetProfile
  <2>2. CASE CreateProfile(c)
    <3>1. CASE profile[U(c)] = NoProfile
      BY <2>2, <3>1 DEF CreateProfile
    <3>2. CASE profile[U(c)] # NoProfile
      <4>1. profile' = [profile EXCEPT ![U(c)] = profile[U(c)]]
        BY <2>2, <3>2 DEF CreateProfile
      <4>2. profile' = profile
        BY <1>3, <4>1
      <4>3. QED
        BY <2>2, <4>2 DEF CreateProfile
    <3>3. QED
      BY <3>1, <3>2
  <2>3. QED
    BY <2>1, <2>2
<1>6. RequestMoves(c, to)
  BY <1>2, <1>4, <1>5 DEF RequestMoves, Holding
<1>7. ProfileTypes' /\ ListTypes'
  BY <1>3, <1>5 DEF MerchantInv, ProfileTypes, ListTypes
<1>8. OnlyMerchants'
  BY <1>2, <1>5 DEF MerchantInv, OnlyMerchants, ProfileTypes
<1>9. \A u \in Users : Shown(u)' = Shown(u)
  BY <1>2, <1>3, <1>5, NoProfileAssumption DEF Shown
<1>10. ASSUME Undisturbed, StepTells(request[c])
       PROVE  (StepTells(to))' /\ \A u \in Users : asked'[u] = Shown(u)'
  <2>1. webhookSecret' = handed'
    BY <1>1, <1>5, <1>10 DEF StepTells
  <2>2. (StepTells(to))'
    BY <1>4, <2>1 DEF StepTells
  <2>3. QED
    BY <1>5, <1>9, <1>10, <2>2 DEF Undisturbed
<1>11. request[c].step # "idle"
  BY <1>1
<1>12. QED
  BY <1>5, <1>6, <1>7, <1>8, <1>10, <1>11, RequestGoes

\* The row that was read is saved, with the change.
LEMMA NextUpdateProfile ==
    ASSUME MerchantInv, NEW c \in MerchantCalls, UpdateProfile(c)
    PROVE  MerchantInv'
<1>1. PICK to : to = NoRequest
  OBVIOUS
<1>2. PICK u : u = U(c)
  OBVIOUS
<1>3. PICK f : f = Op(c).field
  OBVIOUS
<1>4. PICK r : r = [request[c].row EXCEPT ![f] = "changed"]
  OBVIOUS
<1>5. /\ request[c].step = "act" /\ request' = [request EXCEPT ![c] = to] /\ to.step = "idle"
      /\ profile' = [profile EXCEPT ![u] = r]
      /\ asked' = [asked EXCEPT ![u][f] = "changed"]
      /\ apiKey' = apiKey /\ hook' = hook /\ webhookSecret' = webhookSecret
      /\ handed' = handed /\ crossed' = crossed /\ Op(c).do = "patch"
  BY <1>1, <1>2, <1>3, <1>4 DEF UpdateProfile, Acts, RequestAt, NoRequest
<1>6. u \in MerchantUsers /\ u \in Users /\ f \in ProfileFields /\ request[c].row \in ProfileRow
  BY <1>2, <1>3, <1>5, RequestFacts DEF Holding, Op
<1>7. r \in ProfileRow
  BY <1>4, <1>6 DEF ProfileRow
<1>8. profile \in [Users -> ProfileRow \cup {NoProfile}] /\ asked \in [Users -> ProfileRow]
  BY DEF MerchantInv, ProfileTypes
<1>9. asked' \in [Users -> ProfileRow]
  BY <1>5, <1>6, <1>8 DEF ProfileRow
<1>10. RequestMoves(c, to)
  BY <1>5 DEF RequestMoves, Holding
<1>11. ProfileTypes' /\ ListTypes' /\ OnlyMerchants'
  BY <1>5, <1>6, <1>7, <1>8, <1>9 DEF MerchantInv, ProfileTypes, ListTypes, OnlyMerchants
<1>12. ASSUME Undisturbed, StepTells(request[c])
       PROVE  (StepTells(to))' /\ \A v \in Users : asked'[v] = Shown(v)'
  <2>1. (StepTells(to))'
    BY <1>5, <1>12 DEF StepTells
  <2>2. asked[u] = request[c].row
    <3>1. request[c].row = profile[u]
      BY <1>2, <1>5, <1>12 DEF StepTells, U
    <3>2. QED
      BY <1>6, <1>12, <3>1, NoProfileAssumption DEF Undisturbed, Shown
  <2>3. asked'[u] = r
    BY <1>4, <1>5, <1>6, <1>8, <2>2
  <2>4. asked'[u] = Shown(u)'
    BY <1>5, <1>6, <1>7, <1>8, <2>3, NoProfileAssumption DEF Shown
  <2>5. ASSUME NEW v \in Users, v # u PROVE asked'[v] = Shown(v)'
    BY <1>5, <1>8, <1>12, <2>5 DEF Undisturbed, Shown
  <2>6. QED
    BY <2>1, <2>4, <2>5
<1>13. QED
  BY <1>5, <1>10, <1>11, <1>12, RequestGoes

\* The webhook secret is stored before it is handed out.
LEMMA NextRotate ==
    ASSUME MerchantInv, NEW c \in MerchantCalls, RotateWebhookSecret(c)
    PROVE  MerchantInv'
<1>1. PICK u : u = U(c)
  OBVIOUS
<1>2. PICK s \in 1 .. MaxSecrets :
         /\ RequestAt(c, "act", [step |-> "hand", user |-> u, secret |-> s])
         /\ webhookSecret' = [webhookSecret EXCEPT ![u] = s]
  BY <1>1 DEF RotateWebhookSecret
<1>3. PICK to : to = [step |-> "hand", user |-> u, secret |-> s]
  OBVIOUS
<1>4. to.step = "hand" /\ to.user = u /\ to.secret = s
  BY <1>3
<1>5. /\ request[c].step = "act" /\ request' = [request EXCEPT ![c] = to]
      /\ profile' = profile /\ apiKey' = apiKey /\ hook' = hook /\ asked' = asked
      /\ handed' = handed /\ crossed' = crossed
  BY <1>2, <1>3 DEF RotateWebhookSecret, Acts, RequestAt
<1>6. u \in MerchantUsers /\ u \in Users
  BY <1>1, <1>5, RequestFacts
<1>7. s \in 0 .. MaxSecrets
  BY MerchantsAssumption
<1>8. RequestMoves(c, to)
  BY <1>4, <1>5, <1>6, <1>7 DEF RequestMoves, Holding
<1>9. ProfileTypes' /\ ListTypes' /\ OnlyMerchants'
  BY <1>2, <1>5, <1>6, <1>7 DEF MerchantInv, ProfileTypes, ListTypes, OnlyMerchants
<1>10. ASSUME Undisturbed, StepTells(request[c])
       PROVE  (StepTells(to))' /\ \A v \in Users : asked'[v] = Shown(v)'
  <2>1. webhookSecret = handed
    BY <1>5, <1>10 DEF StepTells
  <2>2. (StepTells(to))'
    BY <1>2, <1>4, <1>5, <2>1 DEF StepTells
  <2>3. QED
    BY <1>5, <1>10, <2>2 DEF Undisturbed, Shown
<1>11. QED
  BY <1>5, <1>8, <1>9, <1>10, RequestGoes

LEMMA NextHand ==
    ASSUME MerchantInv, NEW c \in MerchantCalls, HandSecret(c)
    PROVE  MerchantInv'
<1>1. PICK u : u = U(c)
  OBVIOUS
<1>2. PICK to : to = NoRequest
  OBVIOUS
<1>3. /\ request[c].step = "hand" /\ request' = [request EXCEPT ![c] = to] /\ to.step = "idle"
      /\ handed' = [handed EXCEPT ![u] = request[c].secret]
      /\ profile' = profile /\ apiKey' = apiKey /\ hook' = hook /\ asked' = asked
      /\ webhookSecret' = webhookSecret /\ crossed' = crossed
  BY <1>1, <1>2 DEF HandSecret, RequestAt, NoRequest
<1>4. u \in Users /\ request[c].secret \in 0 .. MaxSecrets
  BY <1>1, <1>3, RequestFacts DEF Holding
<1>5. RequestMoves(c, to)
  BY <1>3 DEF RequestMoves, Holding
<1>6. ProfileTypes' /\ ListTypes' /\ OnlyMerchants'
  BY <1>3, <1>4 DEF MerchantInv, ProfileTypes, ListTypes, OnlyMerchants
<1>7. ASSUME Undisturbed, StepTells(request[c])
      PROVE  (StepTells(to))' /\ \A v \in Users : asked'[v] = Shown(v)'
  BY <1>1, <1>3, <1>7 DEF StepTells, Undisturbed, Shown, U
<1>8. QED
  BY <1>3, <1>5, <1>6, <1>7, RequestGoes

LEMMA NextReadHook ==
    ASSUME MerchantInv, NEW c \in MerchantCalls, ReadHook(c)
    PROVE  MerchantInv'
<1>1. PICK h : h = Op(c).hook
  OBVIOUS
<1>2. PICK found : found = [step |-> "saveHook", op |-> Op(c), user |-> U(c), row |-> hook[h]]
  OBVIOUS
<1>3. PICK to : to = IF h \in OwnHooks(U(c)) THEN found ELSE NoRequest
  OBVIOUS
<1>4. /\ request[c].step = "act" /\ request' = [request EXCEPT ![c] = to]
      /\ profile' = profile /\ apiKey' = apiKey /\ hook' = hook /\ asked' = asked
      /\ webhookSecret' = webhookSecret /\ handed' = handed /\ crossed' = crossed
  BY <1>1, <1>2, <1>3 DEF ReadHook, Acts, RequestAt
<1>5. /\ found.step = "saveHook" /\ found.user = U(c) /\ found.row = hook[h]
      /\ found.op.hook = h /\ NoRequest.step = "idle"
  BY <1>1, <1>2 DEF NoRequest
<1>6. U(c) \in MerchantUsers /\ (h \in OwnHooks(U(c)) => hook[h] \in HookRow)
  BY <1>4, RequestFacts DEF MerchantInv, ListTypes, OwnHooks
<1>7. RequestMoves(c, to)
  BY <1>3, <1>4, <1>5, <1>6 DEF RequestMoves, Holding, OwnHooks
<1>8. ProfileTypes' /\ ListTypes' /\ OnlyMerchants'
  BY <1>4 DEF MerchantInv, ProfileTypes, ListTypes, OnlyMerchants
<1>9. ASSUME Undisturbed, StepTells(request[c])
      PROVE  (StepTells(to))' /\ \A v \in Users : asked'[v] = Shown(v)'
  BY <1>3, <1>4, <1>5, <1>9 DEF StepTells, Undisturbed, Shown, OwnHooks
<1>10. QED
  BY <1>4, <1>7, <1>8, <1>9, RequestGoes

LEMMA NextMerchant == MerchantInv /\ [MerchantNext]_merchantVars => MerchantInv'
<1>1. SUFFICES ASSUME MerchantInv, [MerchantNext]_merchantVars PROVE MerchantInv'
  OBVIOUS
<1>2. CASE UNCHANGED merchantVars
  BY <1>1, <1>2 DEF merchantVars, MerchantInv, ProfileTypes, ListTypes, RequestTypes, Holding,
     OnlyMerchants, Undisturbed, StepTells, Shown
<1>3. CASE MerchantNext
  BY <1>1, <1>3, NextArrival, NextListStep, NextProfile, NextUpdateProfile, NextRotate, NextHand,
     NextReadHook DEF MerchantNext
<1>4. QED
  BY <1>1, <1>2, <1>3

\* What a step does to the keys, the profiles and the deleted hooks.
LEMMA KeysStay ==
    ASSUME MerchantInv, MerchantInv', [MerchantNext]_merchantVars
    PROVE  KeysAreKept /\ MerchantIsServed
<1>1. \A k \in DOMAIN apiKey :
         /\ ~apiKey[k].active => ~apiKey'[k].active
         /\ apiKey[k].active /\ ~apiKey'[k].active
               => \E c \in MerchantCalls : request[c].step = "act" /\ U(c) = apiKey[k].owner
  <2>1. SUFFICES ASSUME NEW k \in DOMAIN apiKey, apiKey'[k].active # apiKey[k].active
                 PROVE  /\ apiKey[k].active
                        /\ \E c \in MerchantCalls : request[c].step = "act"
                                                    /\ U(c) = apiKey[k].owner
    OBVIOUS
  <2>2. apiKey \in Seq(ApiKeyRow) /\ apiKey[k] \in ApiKeyRow
    BY DEF MerchantInv, ListTypes
  <2>3. ~(apiKey' = apiKey)
    BY <2>1
  <2>4. PICK c \in MerchantCalls : TouchKey(c) \/ GenerateKey(c) \/ RevokeKey(c)
    BY <2>3 DEF MerchantNext, merchantVars, RequestByUser, RequestByKey, Arrives, GetProfile,
       CreateProfile, ReadProfile, UpdateProfile, RotateWebhookSecret, HandSecret, CreateHook,
       ReadHook, SaveHook, DeleteHook, RequestDies
  <2>5. CASE TouchKey(c)
    <3>1. apiKey' = [apiKey EXCEPT ![request[c].id].used = TRUE]
      BY <2>5 DEF TouchKey
    <3>2. apiKey'[k].active = apiKey[k].active
      BY <2>2, <3>1 DEF ApiKeyRow
    <3>3. QED
      BY <2>1, <3>2
  <2>6. CASE GenerateKey(c)
    <3>1. PICK r : r = NewApiKey(U(c))
      OBVIOUS
    <3>2. apiKey' = Append(apiKey, r)
      BY <2>6, <3>1 DEF GenerateKey
    <3>3. apiKey'[k] = apiKey[k]
      BY <2>2, <3>2
    <3>4. QED
      BY <2>1, <3>3
  <2>7. CASE RevokeKey(c)
    <3>1. /\ request[c].step = "act"
          /\ apiKey'[k] = IF k = Op(c).key /\ k \in OwnKeys(U(c))
                          THEN [apiKey[k] EXCEPT !.active = FALSE] ELSE apiKey[k]
      BY <2>7 DEF RevokeKey, Acts
    <3>2. k \in OwnKeys(U(c)) /\ apiKey'[k] = [apiKey[k] EXCEPT !.active = FALSE]
      BY <2>1, <3>1
    <3>3. apiKey'[k].active = FALSE /\ (apiKey[k].active = TRUE \/ apiKey[k].active = FALSE)
      BY <2>2, <3>2 DEF ApiKeyRow
    <3>4. apiKey[k].active = TRUE
      BY <2>1, <3>3, Zenon
    <3>5. U(c) = apiKey[k].owner
      BY <3>2 DEF OwnKeys
    <3>6. QED
      BY <3>1, <3>4, <3>5
  <2>8. QED
    BY <2>4, <2>5, <2>6, <2>7
<1>2. KeysAreKept
  BY <1>1 DEF KeysAreKept, MerchantInv, OnlyMerchants
<1>3. ASSUME ~crossed', NEW h \in DOMAIN hook, hook[h].deleted
      PROVE  hook'[h].deleted
  <2>1. hook \in Seq(HookRow) /\ hook[h] \in HookRow
    BY DEF MerchantInv, ListTypes
  <2>2. CASE hook' = hook
    BY <1>3, <2>2
  <2>3. CASE hook' # hook
    <3>1. PICK c \in MerchantCalls : CreateHook(c) \/ SaveHook(c) \/ DeleteHook(c)
      BY <2>3 DEF MerchantNext, merchantVars, RequestByUser, RequestByKey, Arrives, GetProfile,
         CreateProfile, ReadProfile, UpdateProfile, RotateWebhookSecret, HandSecret, TouchKey,
         GenerateKey, RevokeKey, ReadHook, RequestDies
    <3>2. CASE CreateHook(c)
      <4>1. PICK r : r = NewHook(U(c))
        OBVIOUS
      <4>2. hook' = Append(hook, r)
        BY <3>2, <4>1 DEF CreateHook
      <4>3. hook'[h] = hook[h]
        BY <2>1, <4>2
      <4>4. QED
        BY <1>3, <4>3
    <3>3. CASE DeleteHook(c)
      <4>1. hook'[h] = hook[h] \/ hook'[h] = [hook[h] EXCEPT !.deleted = TRUE]
        BY <3>3 DEF DeleteHook
      <4>2. QED
        BY <1>3, <2>1, <4>1 DEF HookRow
    <3>4. CASE SaveHook(c)
      <4>1. PICK r : r = [request[c].row EXCEPT !.edited = TRUE]
        OBVIOUS
      <4>2. /\ request[c].step = "saveHook" /\ hook' = [hook EXCEPT ![Op(c).hook] = r]
            /\ crossed' = crossed
        BY <3>4, <4>1 DEF SaveHook, RequestAt
      <4>3. StepTells(request[c])
        BY <1>3, <4>2 DEF MerchantInv, Undisturbed
      <4>4. ~hook[Op(c).hook].deleted
        BY <4>2, <4>3 DEF StepTells, Op
      <4>5. hook'[h] = hook[h]
        BY <1>3, <4>2, <4>4
      <4>6. QED
        BY <1>3, <4>5
    <3>5. QED
      BY <3>1, <3>2, <3>3, <3>4
  <2>4. QED
    BY <2>2, <2>3
<1>4. ~crossed' => ~crossed
  BY DEF MerchantNext, merchantVars, RequestByUser, RequestByKey, Arrives, GetProfile,
     CreateProfile, ReadProfile, UpdateProfile, RotateWebhookSecret, HandSecret, TouchKey,
     GenerateKey, RevokeKey, CreateHook, ReadHook, SaveHook, DeleteHook, RequestDies, Acts
<1>5. ~crossed => /\ \A u \in Users : asked[u] = Shown(u)
                  /\ (\A c \in MerchantCalls : request[c].step # "hand") => webhookSecret = handed
  BY DEF MerchantInv, Undisturbed, StepTells
<1>6. MerchantIsServed
  BY <1>3, <1>4, <1>5 DEF MerchantIsServed, Shown
<1>7. QED
  BY <1>2, <1>6

LEMMA MerchantInvariant == MerchantSpec => []MerchantInv
<1>1. QED
  BY MerchantsBegin, NextMerchant, PTL DEF MerchantSpec

\* A request that a key stands for, or that holds an older copy of a row,
\* neither brings a revoked key back nor revokes another merchant's, and only
\* merchants get a profile or a key; and as long as requests come one at a time,
\* the profile holds what was asked, the secret in use is the one handed out,
\* and what was deleted stays deleted.
THEOREM MerchantRecordsStay ==
    MerchantSpec => [][KeysAreKept /\ MerchantIsServed]_merchantVars
<1>1. MerchantInv /\ MerchantInv' /\ [MerchantNext]_merchantVars =>
         [KeysAreKept /\ MerchantIsServed]_merchantVars
  BY KeysStay
<1>2. QED
  BY <1>1, MerchantInvariant, PTL DEF MerchantSpec

\* And the records of merchants keep their types.
THEOREM MerchantTypesStay == MerchantSpec => []MerchantTypeOK
<1>1. MerchantInv => MerchantTypeOK
  BY DEF MerchantInv, ProfileTypes, ListTypes, RequestTypes, Holding, MerchantTypeOK
<1>2. QED
  BY <1>1, MerchantInvariant, PTL
-----------------------------------------------------------------------------
(* The customers.                                                           *)

\* What call r holds.
CallHolds(r) ==
    \/ r = NoCall
    \/ r.step = "insert" /\ r.mailbox \in Mailboxes
    \/ r.step = "update" /\ r.id \in DOMAIN customer /\ r.row \in CustomerRow
    \/ r.step = "delete" /\ r.id \in DOMAIN customer
    \/ r = [step |-> "clear", id |-> r.id, default |-> TRUE] /\ r.id \in DOMAIN customer
    \/ r.step = "add" /\ r.id \in DOMAIN customer /\ r.default \in BOOLEAN

CustomerTypes ==
    /\ customer \in Seq(CustomerRow) /\ Len(customer) <= MaxCustomers
    /\ method \in Seq(PaymentMethodRow)
    /\ readdressed \in BOOLEAN /\ tangled \in BOOLEAN

CallTypes == /\ cust = [c \in CustomerCalls |-> cust[c]]
             /\ \A c \in CustomerCalls : CallHolds(cust[c])

\* No update has set an address: those of the rows differ, and a row that is
\* saved late is saved with the address it has.
Addressed ==
    /\ \A i \in DOMAIN customer : customer[i].email.lower = TRUE
    /\ \A i, j \in DOMAIN customer :
          customer[i].email.mailbox = customer[j].email.mailbox => i = j
    /\ \A c \in CustomerCalls :
          cust[c].step = "update" => cust[c].row.email = customer[cust[c].id].email

\* A call that is alone holds the row as it is, and adds a default method when
\* no other is left.
CallTells(r) ==
    /\ r.step = "update" => r.row = customer[r.id]
    /\ r.step = "add" /\ r.default => Defaults(r.id) = {}

OneByOne ==
    /\ \A c, d \in CustomerCalls : cust[c] # NoCall /\ cust[d] # NoCall => c = d
    /\ \A m, n \in DOMAIN method :
          method[m].default /\ method[n].default /\ method[m].customer = method[n].customer => m = n
    /\ \A c \in CustomerCalls : CallTells(cust[c])

CustomerInv ==
    CustomerTypes /\ CallTypes /\ (~readdressed => Addressed) /\ (~tangled => OneByOne)

LEMMA CustomersBegin == CustomerInit => CustomerInv
<1>1. SUFFICES ASSUME CustomerInit PROVE CustomerInv
  OBVIOUS
<1>2. customer = <<>> /\ method = <<>> /\ \A c \in CustomerCalls : cust[c] = NoCall
  BY <1>1 DEF CustomerInit
<1>3. CustomerTypes
  <2>1. Len(<<>>) = 0 /\ 0 <= MaxCustomers
    BY CustomersAssumption
  <2>2. customer \in Seq(CustomerRow) /\ method \in Seq(PaymentMethodRow)
    BY <1>2, EmptySeq
  <2>3. QED
    BY <1>1, <1>2, <2>1, <2>2 DEF CustomerInit, CustomerTypes
<1>4. CallTypes
  BY <1>1, <1>2 DEF CustomerInit, CallTypes, CallHolds
<1>5. Addressed /\ OneByOne
  BY <1>2 DEF Addressed, OneByOne, CallTells, NoCall
<1>6. QED
  BY <1>3, <1>4, <1>5 DEF CustomerInv

\* A call moves on; no row goes.
CallMoves(c, to) ==
    /\ cust' = [cust EXCEPT ![c] = to]
    /\ DOMAIN customer \subseteq DOMAIN customer'
    /\ (CallHolds(to))'

LEMMA CallsHold ==
    ASSUME CallTypes, NEW c \in CustomerCalls, NEW to, CallMoves(c, to)
    PROVE  /\ CallTypes' /\ cust'[c] = to
           /\ \A d \in CustomerCalls : d # c => cust'[d] = cust[d]
<1>1. /\ cust' = [d \in CustomerCalls |-> cust'[d]]
      /\ cust'[c] = to
      /\ \A d \in CustomerCalls : d # c => cust'[d] = cust[d]
  BY DEF CallTypes, CallMoves
<1>2. ASSUME NEW d \in CustomerCalls PROVE (CallHolds(cust[d]))'
  <2>1. PICK r : r = cust'[d]
    OBVIOUS
  <2>2. (CallHolds(r))'
    <3>1. CASE d = c
      BY <1>1, <2>1, <3>1 DEF CallMoves
    <3>2. CASE d # c
      <4>1. CallHolds(r)
        BY <1>1, <2>1, <3>2 DEF CallTypes
      <4>2. QED
        BY <4>1 DEF CallMoves, CallHolds
    <3>3. QED
      BY <3>1, <3>2
  <2>3. QED
    BY <2>1, <2>2 DEF CallHolds
<1>3. QED
  BY <1>1, <1>2 DEF CallTypes

\* What a step of a call leaves: one that begins, goes on or ends.
LEMMA CallGoes ==
    ASSUME CustomerInv, NEW c \in CustomerCalls, NEW to, CallMoves(c, to), CustomerTypes',
           ~tangled' => ~tangled /\ \A d \in CustomerCalls : d # c => cust[d] = NoCall,
           ~readdressed' => ~readdressed,
           ~readdressed' /\ Addressed =>
              /\ \A i \in DOMAIN customer : customer'[i].email = customer[i].email
              /\ \A i \in DOMAIN customer' \ DOMAIN customer :
                    /\ customer'[i].email.lower = TRUE
                    /\ \A j \in DOMAIN customer' :
                          customer'[i].email.mailbox = customer'[j].email.mailbox => i = j
              /\ to.step = "update" =>
                    to.id \in DOMAIN customer /\ to.row.email = customer[to.id].email,
           ~tangled' /\ OneByOne /\ CallTells(cust[c]) =>
              /\ (CallTells(to))'
              /\ \A m, n \in DOMAIN method' :
                    method'[m].default /\ method'[n].default
                    /\ method'[m].customer = method'[n].customer => m = n
    PROVE  CustomerInv'
<1>1. /\ CallTypes' /\ cust'[c] = to
      /\ \A d \in CustomerCalls : d # c => cust'[d] = cust[d]
  BY CallsHold DEF CustomerInv
<1>2. ASSUME ~readdressed' PROVE Addressed'
  <2>1. Addressed
    BY <1>2 DEF CustomerInv
  <2>2. /\ \A i \in DOMAIN customer : customer'[i].email = customer[i].email
        /\ \A i \in DOMAIN customer' \ DOMAIN customer :
              /\ customer'[i].email.lower = TRUE
              /\ \A j \in DOMAIN customer' :
                    customer'[i].email.mailbox = customer'[j].email.mailbox => i = j
        /\ to.step = "update" =>
              to.id \in DOMAIN customer /\ to.row.email = customer[to.id].email
    BY <1>2, <2>1
  <2>3. ASSUME NEW d \in CustomerCalls, cust'[d].step = "update"
        PROVE  cust'[d].row.email = customer'[cust'[d].id].email
    <3>1. CASE d = c
      BY <1>1, <2>2, <2>3, <3>1
    <3>2. CASE d # c
      <4>1. cust'[d] = cust[d] /\ CallHolds(cust[d])
        BY <1>1, <3>2 DEF CustomerInv, CallTypes
      <4>2. cust[d].id \in DOMAIN customer
        BY <2>3, <4>1 DEF CallHolds, NoCall
      <4>3. QED
        BY <2>1, <2>2, <2>3, <4>1, <4>2 DEF Addressed
    <3>3. QED
      BY <3>1, <3>2
  <2>4. QED
    BY <2>1, <2>2, <2>3 DEF Addressed, CallMoves
<1>3. ASSUME ~tangled' PROVE OneByOne'
  <2>1. OneByOne /\ CallTells(cust[c])
    BY <1>3 DEF CustomerInv, OneByOne
  <2>2. \A d \in CustomerCalls : d # c => cust'[d] = NoCall
    BY <1>1, <1>3
  <2>3. \A d \in CustomerCalls : (CallTells(cust[d]))'
    BY <1>1, <1>3, <2>1, <2>2 DEF CallTells, NoCall
  <2>4. QED
    BY <1>3, <2>1, <2>2, <2>3 DEF OneByOne
<1>4. QED
  BY <1>1, <1>2, <1>3 DEF CustomerInv

LEMMA CallAlone ==
    ASSUME CustomerInv, NEW c \in CustomerCalls, NEW from, NEW to, GoesOn(c, from, to), from # "idle"
    PROVE  /\ cust[c].step = from /\ cust[c] # NoCall /\ CallHolds(cust[c])
           /\ cust' = [cust EXCEPT ![c] = to] /\ tangled' = tangled
           /\ ~tangled' => ~tangled /\ \A d \in CustomerCalls : d # c => cust[d] = NoCall
<1>1. /\ cust[c].step = from /\ cust[c] # NoCall /\ CallHolds(cust[c])
      /\ cust' = [cust EXCEPT ![c] = to] /\ tangled' = tangled
  BY DEF GoesOn, NoCall, CustomerInv, CallTypes
<1>2. QED
  BY <1>1 DEF CustomerInv, OneByOne

\* A call that begins, or dies, changes no row.
LEMMA NextStart ==
    ASSUME CustomerInv, NEW c \in CustomerCalls,
           \/ \E mailbox \in Mailboxes : CreateCustomer(c, mailbox)
           \/ \E i \in DOMAIN customer :
                 \/ ReadCustomer(c, i) \/ ReadToDelete(c, i)
                 \/ \E default \in BOOLEAN : AddMethod(c, i, default)
           \/ CallDies(c)
    PROVE  CustomerInv'
<1>1. PICK to :
         /\ cust' = [cust EXCEPT ![c] = to]
         /\ \/ cust[c] = NoCall
               /\ tangled' = (tangled \/ \E d \in CustomerCalls : cust[d] # NoCall)
            \/ tangled' = TRUE /\ to = NoCall
         /\ \/ to = NoCall
            \/ to.step = "insert" /\ to.mailbox \in Mailboxes
            \/ to.step = "update" /\ to.id \in DOMAIN customer /\ to.row = customer[to.id]
            \/ to.step = "delete" /\ to.id \in DOMAIN customer
            \/ to = [step |-> "clear", id |-> to.id, default |-> TRUE] /\ to.id \in DOMAIN customer
            \/ to.step = "add" /\ to.id \in DOMAIN customer /\ to.default = FALSE
  <2>1. ASSUME NEW mailbox \in Mailboxes, CreateCustomer(c, mailbox)
        PROVE  /\ cust[c] = NoCall
               /\ tangled' = (tangled \/ \E d \in CustomerCalls : cust[d] # NoCall)
               /\ \E r : /\ cust' = [cust EXCEPT ![c] = r]
                         /\ r = NoCall \/ (r.step = "insert" /\ r.mailbox \in Mailboxes)
    <3>1. PICK r : r = [step |-> "insert", mailbox |-> mailbox]
      OBVIOUS
    <3>2. r.step = "insert" /\ r.mailbox \in Mailboxes
      BY <3>1
    <3>3. QED
      BY <2>1, <3>1, <3>2 DEF CreateCustomer, Starts
  <2>2. ASSUME NEW i \in DOMAIN customer, ReadCustomer(c, i)
        PROVE  /\ cust[c] = NoCall
               /\ tangled' = (tangled \/ \E d \in CustomerCalls : cust[d] # NoCall)
               /\ \E r : /\ cust' = [cust EXCEPT ![c] = r]
                         /\ r.step = "update" /\ r.id \in DOMAIN customer /\ r.row = customer[r.id]
    <3>1. PICK r : r = [step |-> "update", id |-> i, row |-> customer[i]]
      OBVIOUS
    <3>2. r.step = "update" /\ r.id = i /\ r.row = customer[i]
      BY <3>1
    <3>3. QED
      BY <2>2, <3>1, <3>2 DEF ReadCustomer, Starts
  <2>3. ASSUME NEW i \in DOMAIN customer, ReadToDelete(c, i)
        PROVE  /\ cust[c] = NoCall
               /\ tangled' = (tangled \/ \E d \in CustomerCalls : cust[d] # NoCall)
               /\ \E r : /\ cust' = [cust EXCEPT ![c] = r]
                         /\ r.step = "delete" /\ r.id \in DOMAIN customer
    <3>1. PICK r : r = [step |-> "delete", id |-> i]
      OBVIOUS
    <3>2. r.step = "delete" /\ r.id = i
      BY <3>1
    <3>3. QED
      BY <2>3, <3>1, <3>2 DEF ReadToDelete, Starts
  <2>4. ASSUME NEW i \in DOMAIN customer, NEW default \in BOOLEAN, AddMethod(c, i, default)
        PROVE  /\ cust[c] = NoCall
               /\ tangled' = (tangled \/ \E d \in CustomerCalls : cust[d] # NoCall)
               /\ \E r : /\ cust' = [cust EXCEPT ![c] = r] /\ r.id \in DOMAIN customer
                         /\ \/ r = [step |-> "clear", id |-> r.id, default |-> TRUE]
                            \/ r.step = "add" /\ r.default = FALSE
    <3>1. PICK r : r = [step |-> IF default THEN "clear" ELSE "add", id |-> i, default |-> default]
      OBVIOUS
    <3>2. /\ r.id = i
          /\ \/ r = [step |-> "clear", id |-> r.id, default |-> TRUE]
             \/ r.step = "add" /\ r.default = FALSE
      BY <3>1
    <3>3. QED
      BY <2>4, <3>1, <3>2 DEF AddMethod, Starts
  <2>5. ASSUME CallDies(c)
        PROVE  tangled' = TRUE /\ cust' = [cust EXCEPT ![c] = NoCall]
    BY <2>5 DEF CallDies
  <2>6. QED
    BY <2>1, <2>2, <2>3, <2>4, <2>5
<1>2. customer' = customer /\ method' = method /\ readdressed' = readdressed
  BY DEF CreateCustomer, ReadCustomer, ReadToDelete, AddMethod, CallDies
<1>3. CustomerTypes'
  BY <1>1, <1>2 DEF CustomerInv, CustomerTypes
<1>4. \A i \in DOMAIN customer : customer[i] \in CustomerRow
  BY DEF CustomerInv, CustomerTypes
<1>5. CallMoves(c, to)
  BY <1>1, <1>2, <1>4 DEF CallMoves, CallHolds
<1>6. ~tangled' => ~tangled /\ \A d \in CustomerCalls : d # c => cust[d] = NoCall
  BY <1>1
<1>7. to.step = "update" => to.id \in DOMAIN customer /\ to.row = customer[to.id]
  BY <1>1 DEF NoCall
<1>8. (CallTells(to))'
  BY <1>1, <1>2, <1>7 DEF CallTells, NoCall
<1>9. QED
  BY <1>2, <1>3, <1>5, <1>6, <1>7, <1>8, CallGoes DEF OneByOne

\* The INSERT of a customer.
LEMMA NextInsertCustomer ==
    ASSUME CustomerInv, NEW c \in CustomerCalls, InsertCustomer(c)
    PROVE  CustomerInv'
<1>1. PICK email : email = [mailbox |-> cust[c].mailbox, lower |-> TRUE]
  OBVIOUS
<1>2. PICK row : row = [email |-> email, name |-> "first", deleted |-> FALSE]
  OBVIOUS
<1>3. /\ GoesOn(c, "insert", NoCall) /\ method' = method /\ readdressed' = readdressed
      /\ customer' = IF Unique(email, 0) /\ Len(customer) < MaxCustomers
                     THEN Append(customer, row) ELSE customer
  BY <1>1, <1>2 DEF InsertCustomer
<1>4. /\ cust[c].step = "insert" /\ cust[c] # NoCall /\ CallHolds(cust[c])
      /\ cust' = [cust EXCEPT ![c] = NoCall] /\ tangled' = tangled
      /\ ~tangled' => ~tangled /\ \A d \in CustomerCalls : d # c => cust[d] = NoCall
  BY <1>3, CallAlone
<1>5. email \in Emails /\ email.lower = TRUE /\ email.mailbox = cust[c].mailbox
  BY <1>1, <1>4 DEF CallHolds, Emails, NoCall
<1>6. row \in CustomerRow /\ row.email = email
  BY <1>2, <1>5 DEF CustomerRow
<1>7. customer \in Seq(CustomerRow) /\ \A i \in DOMAIN customer : customer[i] \in CustomerRow
  BY DEF CustomerInv, CustomerTypes
<1>8. /\ customer' \in Seq(CustomerRow) /\ Len(customer') <= MaxCustomers
      /\ \A i \in DOMAIN customer : i \in DOMAIN customer' /\ customer'[i] = customer[i]
      /\ \A i \in DOMAIN customer' \ DOMAIN customer : customer'[i] = row /\ Unique(email, 0)
      /\ \A i, j \in DOMAIN customer' \ DOMAIN customer : i = j
  <2>1. CASE Unique(email, 0) /\ Len(customer) < MaxCustomers
    <3>1. customer' = Append(customer, row)
      BY <1>3, <2>1
    <3>2. /\ Len(customer') = Len(customer) + 1 /\ Len(customer) \in Nat
          /\ DOMAIN customer' = 1 .. Len(customer) + 1 /\ DOMAIN customer = 1 .. Len(customer)
          /\ customer' \in Seq(CustomerRow) /\ customer'[Len(customer) + 1] = row
          /\ \A i \in 1 .. Len(customer) : customer'[i] = customer[i]
      BY <1>6, <1>7, <3>1, AppendProperties
    <3>3. \A i \in DOMAIN customer' \ DOMAIN customer : i = Len(customer) + 1
      BY <3>2
    <3>4. Len(customer') <= MaxCustomers
      BY <2>1, <3>2, CustomersAssumption
    <3>5. QED
      BY <2>1, <3>2, <3>3, <3>4
  <2>2. CASE ~(Unique(email, 0) /\ Len(customer) < MaxCustomers)
    <3>1. customer' = customer
      BY <1>3, <2>2
    <3>2. QED
      BY <1>7, <3>1 DEF CustomerInv, CustomerTypes
  <2>3. QED
    BY <2>1, <2>2
<1>9. CustomerTypes'
  BY <1>3, <1>4, <1>8 DEF CustomerInv, CustomerTypes
<1>10. CallMoves(c, NoCall)
  BY <1>4, <1>8 DEF CallMoves, CallHolds
<1>11. ASSUME Addressed, NEW i \in DOMAIN customer' \ DOMAIN customer, NEW j \in DOMAIN customer',
              customer'[i].email.mailbox = customer'[j].email.mailbox
       PROVE  i = j
  <2>1. CASE j \notin DOMAIN customer
    BY <1>8, <2>1
  <2>2. CASE j \in DOMAIN customer
    <3>1. customer[j].email \in Emails /\ customer[j].email.lower = TRUE
      BY <1>7, <1>11, <2>2 DEF CustomerRow, Addressed
    <3>2. customer[j].email.mailbox = email.mailbox
      BY <1>6, <1>8, <1>11, <2>2
    <3>3. customer[j].email = email
      BY <1>5, <3>1, <3>2 DEF Emails
    <3>4. j \in Nat /\ j # 0
      BY <1>7, <2>2
    <3>5. QED
      BY <1>8, <2>2, <3>3, <3>4 DEF Unique
  <2>3. QED
    BY <2>1, <2>2
<1>12. NoCall.step = "idle"
  BY DEF NoCall
<1>13. (CallTells(NoCall))'
  BY <1>12 DEF CallTells, NoCall
<1>14. QED
  BY <1>3, <1>4, <1>5, <1>6, <1>8, <1>9, <1>10, <1>11, <1>12, <1>13, CallGoes DEF OneByOne

\* A row is saved: by a call that ends, with the address it had until an update
\* sets one.
LEMMA RowSaved ==
    ASSUME CustomerInv, NEW c \in CustomerCalls, NEW from, GoesOn(c, from, NoCall), from # "idle",
           NEW k \in DOMAIN customer, NEW row \in CustomerRow,
           customer' = [customer EXCEPT ![k] = row], method' = method, readdressed' \in BOOLEAN,
           ~readdressed' => ~readdressed,
           ~readdressed' /\ Addressed => row.email = customer[k].email
    PROVE  CustomerInv'
<1>1. /\ cust' = [cust EXCEPT ![c] = NoCall] /\ tangled' = tangled
      /\ ~tangled' => ~tangled /\ \A d \in CustomerCalls : d # c => cust[d] = NoCall
  BY CallAlone
<1>2. customer \in Seq(CustomerRow) /\ DOMAIN customer = 1 .. Len(customer)
  BY DEF CustomerInv, CustomerTypes
<1>3. /\ customer' \in Seq(CustomerRow) /\ Len(customer') = Len(customer)
      /\ DOMAIN customer' = DOMAIN customer /\ customer'[k] = row
      /\ \A i \in DOMAIN customer : i # k => customer'[i] = customer[i]
  BY <1>2, ExceptSeq
<1>4. CustomerTypes'
  BY <1>1, <1>3 DEF CustomerInv, CustomerTypes
<1>5. CallMoves(c, NoCall)
  BY <1>1, <1>3 DEF CallMoves, CallHolds
<1>6. NoCall.step = "idle"
  BY DEF NoCall
<1>7. (CallTells(NoCall))'
  BY <1>6 DEF CallTells, NoCall
<1>8. ~readdressed' /\ Addressed => \A i \in DOMAIN customer : customer'[i].email = customer[i].email
  BY <1>3
<1>9. QED
  BY <1>1, <1>3, <1>4, <1>5, <1>6, <1>7, <1>8, CallGoes DEF OneByOne

LEMMA NextSaveCustomer ==
    ASSUME CustomerInv, NEW c \in CustomerCalls,
           \/ UpdateName(c) \/ DeleteCustomer(c)
           \/ \E email \in Emails : UpdateEmail(c, email)
    PROVE  CustomerInv'
<1>1. customer \in Seq(CustomerRow) /\ \A i \in DOMAIN customer : customer[i] \in CustomerRow
  BY DEF CustomerInv, CustomerTypes
<1>2. readdressed \in BOOLEAN
  BY DEF CustomerInv, CustomerTypes
<1>3. CASE UpdateName(c)
  <2>1. GoesOn(c, "update", NoCall) /\ method' = method /\ readdressed' = readdressed
    BY <1>3 DEF UpdateName
  <2>2. cust[c].step = "update" /\ CallHolds(cust[c])
    BY <2>1, CallAlone
  <2>3. cust[c].id \in DOMAIN customer /\ cust[c].row \in CustomerRow
    BY <2>2 DEF CallHolds, NoCall
  <2>4. PICK row : row = [cust[c].row EXCEPT !.name = "changed"]
    OBVIOUS
  <2>5. row \in CustomerRow /\ row.email = cust[c].row.email
    BY <2>3, <2>4 DEF CustomerRow
  <2>6. customer' = [customer EXCEPT ![cust[c].id] = row]
    BY <1>3, <2>4 DEF UpdateName
  <2>7. Addressed => row.email = customer[cust[c].id].email
    BY <2>2, <2>5 DEF Addressed
  <2>8. PICK k \in DOMAIN customer : k = cust[c].id
    BY <2>3
  <2>9. customer' = [customer EXCEPT ![k] = row] /\ (Addressed => row.email = customer[k].email)
    BY <2>6, <2>7, <2>8
  <2>10. QED
    BY <1>2, <2>1, <2>5, <2>9, RowSaved
<1>4. CASE DeleteCustomer(c)
  <2>1. GoesOn(c, "delete", NoCall) /\ method' = method /\ readdressed' = readdressed
    BY <1>4 DEF DeleteCustomer
  <2>2. cust[c].step = "delete" /\ CallHolds(cust[c])
    BY <2>1, CallAlone
  <2>3. PICK k \in DOMAIN customer : k = cust[c].id
    BY <2>2 DEF CallHolds, NoCall
  <2>4. PICK row : row = [customer[k] EXCEPT !.deleted = TRUE]
    OBVIOUS
  <2>5. row \in CustomerRow /\ row.email = customer[k].email
    BY <1>1, <2>4 DEF CustomerRow
  <2>6. customer' = [customer EXCEPT ![k] = row]
    BY <1>4, <2>3, <2>4 DEF DeleteCustomer
  <2>7. QED
    BY <1>2, <2>1, <2>5, <2>6, RowSaved
<1>5. ASSUME NEW email \in Emails, UpdateEmail(c, email)
      PROVE  CustomerInv'
  <2>1. GoesOn(c, "update", NoCall) /\ method' = method
    BY <1>5 DEF UpdateEmail
  <2>2. cust[c].step = "update" /\ CallHolds(cust[c])
    BY <2>1, CallAlone
  <2>3. PICK k \in DOMAIN customer : k = cust[c].id
    BY <2>2 DEF CallHolds, NoCall
  <2>4. cust[c].row \in CustomerRow
    BY <2>2 DEF CallHolds, NoCall
  <2>5. CASE Unique(email, cust[c].id)
    <3>1. PICK row : row = [cust[c].row EXCEPT !.email = email]
      OBVIOUS
    <3>2. row \in CustomerRow
      BY <2>4, <3>1 DEF CustomerRow
    <3>3. customer' = [customer EXCEPT ![k] = row] /\ readdressed' = TRUE
      BY <1>5, <2>3, <2>5, <3>1 DEF UpdateEmail
    <3>4. QED
      BY <2>1, <3>2, <3>3, RowSaved
  <2>6. CASE ~Unique(email, cust[c].id)
    <3>1. customer' = customer /\ readdressed' = readdressed
      BY <1>5, <2>6 DEF UpdateEmail
    <3>2. customer' = [customer EXCEPT ![k] = customer[k]]
      BY <1>1, <3>1
    <3>3. QED
      BY <1>1, <1>2, <2>1, <3>1, <3>2, RowSaved
  <2>7. QED
    BY <2>5, <2>6
<1>6. QED
  BY <1>3, <1>4, <1>5

\* The methods of the customer cease to be the default.
LEMMA NextClearDefault ==
    ASSUME CustomerInv, NEW c \in CustomerCalls, ClearDefault(c)
    PROVE  CustomerInv'
<1>1. PICK to : to = [cust[c] EXCEPT !.step = "add"]
  OBVIOUS
<1>2. GoesOn(c, "clear", to) /\ customer' = customer /\ readdressed' = readdressed
  BY <1>1 DEF ClearDefault
<1>3. /\ cust[c].step = "clear" /\ CallHolds(cust[c])
      /\ cust' = [cust EXCEPT ![c] = to] /\ tangled' = tangled
      /\ ~tangled' => ~tangled /\ \A d \in CustomerCalls : d # c => cust[d] = NoCall
  BY <1>2, CallAlone
<1>4. PICK k \in DOMAIN customer : k = cust[c].id
  BY <1>3 DEF CallHolds, NoCall
<1>5. to.step = "add" /\ to.id = k /\ to.default = TRUE
  <2>1. cust[c] = [step |-> "clear", id |-> k, default |-> TRUE]
    BY <1>3, <1>4 DEF CallHolds, NoCall
  <2>2. QED
    BY <1>1, <2>1
<1>6. method \in Seq(PaymentMethodRow) /\ DOMAIN method = 1 .. Len(method)
  BY DEF CustomerInv, CustomerTypes
<1>7. method' = [m \in DOMAIN method |-> IF method[m].customer = k
                                         THEN [method[m] EXCEPT !.default = FALSE] ELSE method[m]]
  BY <1>4 DEF ClearDefault
<1>8. \A m \in DOMAIN method : method[m] \in PaymentMethodRow
  BY <1>6
<1>9. /\ DOMAIN method' = DOMAIN method
      /\ \A m \in DOMAIN method :
            /\ method'[m] \in PaymentMethodRow /\ method'[m].customer = method[m].customer
            /\ method'[m].default => method[m].default
            /\ method[m].customer = k => ~method'[m].default
  <2>1. DOMAIN method' = DOMAIN method
    BY <1>7
  <2>2. ASSUME NEW m \in DOMAIN method
        PROVE  /\ method'[m] \in PaymentMethodRow /\ method'[m].customer = method[m].customer
               /\ method'[m].default => method[m].default
               /\ method[m].customer = k => ~method'[m].default
    <3>1. CASE method[m].customer = k
      <4>1. method'[m] = [method[m] EXCEPT !.default = FALSE]
        BY <1>7, <3>1
      <4>2. QED
        BY <1>8, <4>1 DEF PaymentMethodRow
    <3>2. CASE method[m].customer # k
      <4>1. method'[m] = method[m]
        BY <1>7, <3>2
      <4>2. QED
        BY <1>8, <3>2, <4>1
    <3>3. QED
      BY <3>1, <3>2
  <2>3. QED
    BY <2>1, <2>2
<1>10. method' \in Seq(PaymentMethodRow)
  <2>1. method' \in [1 .. Len(method) -> PaymentMethodRow]
    BY <1>6, <1>7, <1>9
  <2>2. QED
    BY <1>6, <2>1, SeqDef
<1>11. CustomerTypes'
  BY <1>2, <1>3, <1>10 DEF CustomerInv, CustomerTypes
<1>12. CallMoves(c, to)
  <2>1. \E b \in BOOLEAN : b = to.default
    BY <1>5
  <2>2. (CallHolds(to))'
    BY <1>2, <1>4, <1>5 DEF CallHolds
  <2>3. QED
    BY <1>2, <1>3, <2>2 DEF CallMoves
<1>13. Defaults(k)' = {}
  BY <1>9 DEF Defaults, Methods
<1>14. (CallTells(to))'
  BY <1>5, <1>13 DEF CallTells
<1>15. OneByOne => \A m, n \in DOMAIN method' :
                     method'[m].default /\ method'[n].default
                     /\ method'[m].customer = method'[n].customer => m = n
  BY <1>9 DEF OneByOne
<1>16. QED
  BY <1>2, <1>3, <1>5, <1>11, <1>12, <1>14, <1>15, CallGoes

\* The INSERT of a method: one that is to be the default finds no other.
LEMMA NextInsertMethod ==
    ASSUME CustomerInv, NEW c \in CustomerCalls, InsertMethod(c)
    PROVE  CustomerInv'
<1>1. PICK row : row = [customer |-> cust[c].id, default |-> cust[c].default]
  OBVIOUS
<1>2. /\ GoesOn(c, "add", NoCall) /\ customer' = customer /\ readdressed' = readdressed
      /\ method' = Append(method, row)
  BY <1>1 DEF InsertMethod
<1>3. /\ cust[c].step = "add" /\ CallHolds(cust[c])
      /\ cust' = [cust EXCEPT ![c] = NoCall] /\ tangled' = tangled
      /\ ~tangled' => ~tangled /\ \A d \in CustomerCalls : d # c => cust[d] = NoCall
  BY <1>2, CallAlone
<1>4. cust[c].id \in DOMAIN customer /\ cust[c].default \in BOOLEAN
  BY <1>3 DEF CallHolds, NoCall
<1>5. DOMAIN customer \subseteq 1 .. MaxCustomers
  BY CustomersAssumption DEF CustomerInv, CustomerTypes
<1>6. row \in PaymentMethodRow /\ row.customer = cust[c].id /\ row.default = cust[c].default
  BY <1>1, <1>4, <1>5 DEF PaymentMethodRow
<1>7. method \in Seq(PaymentMethodRow)
  BY DEF CustomerInv, CustomerTypes
<1>8. /\ method' \in Seq(PaymentMethodRow) /\ Len(method) \in Nat
      /\ DOMAIN method = 1 .. Len(method) /\ DOMAIN method' = 1 .. Len(method) + 1
      /\ method'[Len(method) + 1] = row
      /\ \A m \in DOMAIN method : method'[m] = method[m]
  BY <1>2, <1>6, <1>7, AppendProperties
<1>9. \A m \in DOMAIN method' : m \in DOMAIN method \/ m = Len(method) + 1
  BY <1>8
<1>10. CustomerTypes'
  BY <1>2, <1>3, <1>8 DEF CustomerInv, CustomerTypes
<1>11. CallMoves(c, NoCall)
  BY <1>2, <1>3 DEF CallMoves, CallHolds
<1>12. NoCall.step = "idle"
  BY DEF NoCall
<1>13. (CallTells(NoCall))'
  BY <1>12 DEF CallTells, NoCall
<1>14. ASSUME OneByOne, CallTells(cust[c]), NEW m \in DOMAIN method', NEW n \in DOMAIN method',
              method'[m].default, method'[n].default, method'[m].customer = method'[n].customer
       PROVE  m = n
  <2>1. row.default => \A l \in DOMAIN method : ~(method[l].default /\ method[l].customer = row.customer)
    BY <1>3, <1>6, <1>14 DEF CallTells, Defaults, Methods
  <2>2. m \in DOMAIN method /\ n \in DOMAIN method => m = n
    BY <1>8, <1>14 DEF OneByOne
  <2>3. QED
    BY <1>8, <1>9, <1>14, <2>1, <2>2
<1>15. QED
  BY <1>2, <1>3, <1>10, <1>11, <1>12, <1>13, <1>14, CallGoes

\* What is left to the customers in a step that takes no default method away.
LEMMA NothingTaken ==
    ASSUME DOMAIN method \subseteq DOMAIN method',
           \A m \in DOMAIN method : method'[m] = method[m],
           ~tangled' => \A i \in DOMAIN customer :
               /\ customer[i].deleted => customer'[i].deleted
               /\ customer[i].name = "changed" => customer'[i].name = "changed"
    PROVE  CustomersAreKept
<1>1. ASSUME NEW i, Defaults(i) # {} PROVE Defaults(i)' # {}
  <2>1. PICK m : m \in DOMAIN method /\ method[m].customer = i /\ method[m].default
    BY <1>1 DEF Defaults, Methods
  <2>2. m \in DOMAIN method' /\ method'[m].customer = i /\ method'[m].default
    BY <2>1
  <2>3. QED
    BY <2>2 DEF Defaults, Methods
<1>2. QED
  BY <1>1 DEF CustomersAreKept

LEMMA KeepsWhenAlone ==
    ASSUME CustomerInv, NEW c \in CustomerCalls,
           \/ UpdateName(c) \/ DeleteCustomer(c)
           \/ \E email \in Emails : UpdateEmail(c, email)
    PROVE  CustomersAreKept
<1>1. /\ customer \in Seq(CustomerRow) /\ \A i \in DOMAIN customer : customer[i] \in CustomerRow
  BY DEF CustomerInv, CustomerTypes
<1>2. method' = method
  BY DEF UpdateName, DeleteCustomer, UpdateEmail
<1>3. tangled' = tangled
  BY DEF UpdateName, DeleteCustomer, UpdateEmail, GoesOn
<1>4. ASSUME ~tangled', NEW i \in DOMAIN customer
      PROVE  /\ customer[i].deleted => customer'[i].deleted
             /\ customer[i].name = "changed" => customer'[i].name = "changed"
  <2>1. CallTells(cust[c]) /\ CallHolds(cust[c])
    BY <1>3, <1>4 DEF CustomerInv, OneByOne, CallTypes
  <2>2. CASE DeleteCustomer(c)
    <3>1. cust[c].step = "delete"
      BY <2>2 DEF DeleteCustomer, GoesOn
    <3>2. PICK k \in DOMAIN customer : k = cust[c].id
      BY <2>1, <3>1 DEF CallHolds, NoCall
    <3>3. PICK row : row = [customer[k] EXCEPT !.deleted = TRUE]
      OBVIOUS
    <3>4. customer' = [customer EXCEPT ![k] = row]
      BY <2>2, <3>2, <3>3 DEF DeleteCustomer
    <3>5. row.deleted = TRUE /\ row.name = customer[k].name
      BY <1>1, <3>3 DEF CustomerRow
    <3>6. customer'[i] = (IF i = k THEN row ELSE customer[i])
      BY <1>1, <3>4
    <3>7. QED
      BY <3>5, <3>6
  <2>3. ASSUME cust[c].step = "update" PROVE /\ cust[c].id \in DOMAIN customer
                                             /\ cust[c].row = customer[cust[c].id]
    BY <2>1, <2>3 DEF CallTells, CallHolds, NoCall
  <2>4. CASE UpdateName(c)
    <3>1. cust[c].step = "update"
      BY <2>4 DEF UpdateName, GoesOn
    <3>2. PICK k \in DOMAIN customer : k = cust[c].id /\ cust[c].row = customer[k]
      BY <2>3, <3>1
    <3>3. PICK row : row = [customer[k] EXCEPT !.name = "changed"]
      OBVIOUS
    <3>4. customer' = [customer EXCEPT ![k] = row]
      BY <2>4, <3>2, <3>3 DEF UpdateName
    <3>5. row.name = "changed" /\ row.deleted = customer[k].deleted
      BY <1>1, <3>3 DEF CustomerRow
    <3>6. customer'[i] = (IF i = k THEN row ELSE customer[i])
      BY <1>1, <3>4
    <3>7. QED
      BY <3>5, <3>6
  <2>5. ASSUME NEW email \in Emails, UpdateEmail(c, email)
        PROVE  /\ customer[i].deleted => customer'[i].deleted
               /\ customer[i].name = "changed" => customer'[i].name = "changed"
    <3>1. cust[c].step = "update"
      BY <2>5 DEF UpdateEmail, GoesOn
    <3>2. PICK k \in DOMAIN customer : k = cust[c].id /\ cust[c].row = customer[k]
      BY <2>3, <3>1
    <3>3. PICK row : row = [customer[k] EXCEPT !.email = email]
      OBVIOUS
    <3>4. customer' = [customer EXCEPT ![k] = row] \/ customer' = customer
      BY <2>5, <3>2, <3>3 DEF UpdateEmail
    <3>5. row.name = customer[k].name /\ row.deleted = customer[k].deleted
      BY <1>1, <3>3 DEF CustomerRow
    <3>6. customer'[i] = (IF i = k THEN row ELSE customer[i]) \/ customer'[i] = customer[i]
      BY <1>1, <3>4
    <3>7. QED
      BY <3>5, <3>6
  <2>6. QED
    BY <2>2, <2>4, <2>5
<1>5. QED
  BY <1>2, <1>4, NothingTaken

LEMMA KeepsOnClear ==
    ASSUME CustomerInv, NEW c \in CustomerCalls, ClearDefault(c)
    PROVE  CustomersAreKept
<1>1. PICK to : to = [cust[c] EXCEPT !.step = "add"]
  OBVIOUS
<1>2. GoesOn(c, "clear", to) /\ customer' = customer
  BY <1>1 DEF ClearDefault
<1>3. cust[c].step = "clear" /\ CallHolds(cust[c]) /\ cust' = [cust EXCEPT ![c] = to]
  BY <1>2, CallAlone
<1>4. PICK k \in DOMAIN customer : k = cust[c].id
  BY <1>3 DEF CallHolds, NoCall
<1>5. cust[c] = [step |-> "clear", id |-> k, default |-> TRUE]
  BY <1>3, <1>4 DEF CallHolds, NoCall
<1>6. to.step = "add" /\ to.id = k
  BY <1>1, <1>5
<1>7. cust'[c] = to
  BY <1>3 DEF CustomerInv, CallTypes
<1>8. DOMAIN method' = DOMAIN method
      /\ \A m \in DOMAIN method : method[m].customer # k => method'[m] = method[m]
  BY <1>4 DEF ClearDefault
<1>9. ASSUME NEW i, i # k, Defaults(i) # {} PROVE Defaults(i)' # {}
  <2>1. PICK m : m \in DOMAIN method /\ method[m].customer = i /\ method[m].default
    BY <1>9 DEF Defaults, Methods
  <2>2. m \in DOMAIN method' /\ method'[m].customer = i /\ method'[m].default
    BY <1>8, <1>9, <2>1
  <2>3. QED
    BY <2>2 DEF Defaults, Methods
<1>10. QED
  BY <1>2, <1>6, <1>7, <1>9 DEF CustomersAreKept

LEMMA CustomersStayKept == CustomerInv /\ [CustomerNext]_customerVars => CustomersAreKept
<1>1. SUFFICES ASSUME CustomerInv, [CustomerNext]_customerVars PROVE CustomersAreKept
  OBVIOUS
<1>2. CASE UNCHANGED customerVars
  BY <1>2, NothingTaken DEF customerVars
<1>3. ASSUME NEW c \in CustomerCalls,
             \/ \E mailbox \in Mailboxes : CreateCustomer(c, mailbox)
             \/ \E i \in DOMAIN customer :
                   \/ ReadCustomer(c, i) \/ ReadToDelete(c, i)
                   \/ \E default \in BOOLEAN : AddMethod(c, i, default)
             \/ CallDies(c)
      PROVE  CustomersAreKept
  <2>1. customer' = customer /\ method' = method
    BY <1>3 DEF CreateCustomer, ReadCustomer, ReadToDelete, AddMethod, CallDies
  <2>2. QED
    BY <2>1, NothingTaken
<1>4. ASSUME NEW c \in CustomerCalls, InsertCustomer(c) PROVE CustomersAreKept
  <2>1. customer \in Seq(CustomerRow) /\ DOMAIN customer = 1 .. Len(customer)
    BY <1>1 DEF CustomerInv, CustomerTypes
  <2>2. PICK row : row = [email |-> [mailbox |-> cust[c].mailbox, lower |-> TRUE],
                          name |-> "first", deleted |-> FALSE]
    OBVIOUS
  <2>3. method' = method /\ (customer' = Append(customer, row) \/ customer' = customer)
    BY <1>4, <2>2 DEF InsertCustomer
  <2>4. cust[c].step = "insert" /\ CallHolds(cust[c])
    BY <1>1, <1>4 DEF InsertCustomer, GoesOn, CustomerInv, CallTypes
  <2>5. cust[c].mailbox \in Mailboxes
    BY <2>4 DEF CallHolds, NoCall
  <2>6. row \in CustomerRow
    BY <2>2, <2>5 DEF CustomerRow, Emails
  <2>7. \A i \in DOMAIN customer : customer'[i] = customer[i]
    BY <2>1, <2>3, <2>6, AppendProperties
  <2>8. QED
    BY <2>3, <2>7, NothingTaken
<1>5. ASSUME NEW c \in CustomerCalls, InsertMethod(c) PROVE CustomersAreKept
  <2>1. method \in Seq(PaymentMethodRow) /\ DOMAIN method = 1 .. Len(method)
    BY <1>1 DEF CustomerInv, CustomerTypes
  <2>2. PICK row : row = [customer |-> cust[c].id, default |-> cust[c].default]
    OBVIOUS
  <2>3. customer' = customer /\ method' = Append(method, row)
    BY <1>5, <2>2 DEF InsertMethod
  <2>4. cust[c].step = "add" /\ CallHolds(cust[c])
    BY <1>1, <1>5 DEF InsertMethod, GoesOn, CustomerInv, CallTypes
  <2>5. cust[c].id \in DOMAIN customer /\ cust[c].default \in BOOLEAN
    BY <2>4 DEF CallHolds, NoCall
  <2>6. DOMAIN customer \subseteq 1 .. MaxCustomers
    BY <1>1, CustomersAssumption DEF CustomerInv, CustomerTypes
  <2>7. row \in PaymentMethodRow
    BY <2>2, <2>5, <2>6 DEF PaymentMethodRow
  <2>8. DOMAIN method \subseteq DOMAIN method' /\ \A m \in DOMAIN method : method'[m] = method[m]
    BY <2>1, <2>3, <2>7, AppendProperties
  <2>9. QED
    BY <2>3, <2>8, NothingTaken
<1>6. QED
  BY <1>1, <1>2, <1>3, <1>4, <1>5, KeepsWhenAlone, KeepsOnClear DEF CustomerNext

LEMMA CustomerInvariant == CustomerSpec => []CustomerInv
<1>1. CustomerInv /\ [CustomerNext]_customerVars => CustomerInv'
  <2>1. SUFFICES ASSUME CustomerInv, [CustomerNext]_customerVars PROVE CustomerInv'
    OBVIOUS
  <2>2. CASE UNCHANGED customerVars
    BY <2>1, <2>2 DEF customerVars, CustomerInv, CustomerTypes, CallTypes, Addressed, OneByOne,
                      CallHolds, CallTells, Defaults, Methods
  <2>3. CASE CustomerNext
    BY <2>1, <2>3, NextStart, NextInsertCustomer, NextSaveCustomer, NextClearDefault,
       NextInsertMethod DEF CustomerNext
  <2>4. QED
    BY <2>1, <2>2, <2>3
<1>2. QED
  BY <1>1, CustomersBegin, PTL DEF CustomerSpec

\* apps/customer: every variable has its type.
THEOREM CustomerTypesStay == CustomerSpec => []CustomerTypeOK
<1>1. CustomerInv => CustomerTypeOK
  <2>1. SUFFICES ASSUME CustomerInv PROVE CustomerTypeOK
    OBVIOUS
  <2>2. ASSUME NEW c \in CustomerCalls
        PROVE  cust[c].step \in {"idle", "insert", "update", "delete", "clear", "add"}
    <3>1. CallHolds(cust[c])
      BY <2>1 DEF CustomerInv, CallTypes
    <3>2. QED
      BY <3>1 DEF CallHolds, NoCall
  <2>3. QED
    BY <2>1, <2>2 DEF CustomerInv, CustomerTypes, CustomerTypeOK
<1>2. QED
  BY <1>1, CustomerInvariant, PTL

\* customer_service.create_customer, update_customer and add_mock_payment_method:
\* until an update sets an address, no two customers have the same one, however
\* the calls overlap or die; and as long as none do, a customer has at most one
\* default method.
THEOREM CustomersStayDistinct == CustomerSpec => []CustomersAreDistinct
<1>1. CustomerInv => CustomersAreDistinct
  <2>1. SUFFICES ASSUME CustomerInv PROVE CustomersAreDistinct
    OBVIOUS
  <2>2. ASSUME ~tangled, NEW i \in DOMAIN customer PROVE Cardinality(Defaults(i)) <= 1
    <3>1. \A m, n \in Defaults(i) : m = n
      BY <2>1, <2>2 DEF CustomerInv, OneByOne, Defaults, Methods
    <3>2. CASE Defaults(i) = {}
      BY <3>2, FS_EmptySet
    <3>3. CASE Defaults(i) # {}
      <4>1. PICK m : m \in Defaults(i)
        BY <3>3
      <4>2. Defaults(i) = {m}
        BY <3>1, <4>1
      <4>3. Cardinality({m}) = 1
        BY FS_Singleton
      <4>4. QED
        BY <4>2, <4>3
    <3>4. QED
      BY <3>2, <3>3
  <2>3. QED
    BY <2>1, <2>2 DEF CustomersAreDistinct, CustomerInv, Addressed
<1>2. QED
  BY <1>1, CustomerInvariant, PTL

\* delete_customer, update_customer and add_mock_payment_method: as long as calls
\* neither overlap nor die, no step brings a deleted customer back, undoes a
\* change of one, or leaves one who had a default method without.
THEOREM CustomersStayAsTheyAre == CustomerSpec => [][CustomersAreKept]_customerVars
<1>1. QED
  BY CustomersStayKept, CustomerInvariant, PTL DEF CustomerSpec
-----------------------------------------------------------------------------
(* The requests.                                                            *)

RequestIds == WebRequests \cup SentIds

\* The body that answers the request with ID id.
BodyOf(body, id) ==
    /\ body \in [success : BOOLEAN, status : {200, 400, 404, 409, 500, 502, 503}, id : {id}]
    /\ body.success = TRUE => body.status \in {200, 503}
    /\ body.success = FALSE => body.status # 200

WebHolds(x) ==
    \/ x = NewRequest
    \/ x.step \in {"away", "lost"}
    \/ x \in [step : {"view"}, thread : Threads, id : RequestIds, method : HttpMethods, path : Paths]
    \/ /\ x.step \in {"answered", "audited", "done"}
       /\ x = [step |-> x.step, thread |-> x.thread, id |-> x.id, method |-> x.method,
               path |-> x.path, body |-> x.body]
       /\ x.thread \in Threads /\ x.id \in RequestIds /\ x.method \in HttpMethods /\ x.path \in Paths
       /\ BodyOf(x.body, x.id)

WebTypes ==
    /\ correlation \in [Threads -> RequestIds \cup {Absent}]
    /\ web = [r \in WebRequests |-> web[r]] /\ \A r \in WebRequests : WebHolds(web[r])
    /\ auditRows = [b \in Backends |-> auditRows[b]]
    /\ refusedRows \in [Backends -> SUBSET WebRequests]
    /\ crashes \in 0 .. 1

\* A thread serves one request at a time, and holds its ID while it does.
ThreadsTell ==
    /\ \A q, r \in Served : web[q].thread = web[r].thread => q = r
    /\ \A r \in Served : correlation[web[r].thread] = web[r].id
    /\ \A t \in Threads : Free(t) => correlation[t] = Absent

\* What backend b has of request r.
RowsTell(r, b) ==
    /\ web[r].step \in {"new", "view", "answered"} =>
          r \notin refusedRows[b] /\ \A row \in auditRows[b] : row.request # r
    /\ web[r].step \in {"audited", "done"} =>
          {row \in auditRows[b] : row.request = r}
             = IF r \notin refusedRows[b] /\ IsAudited(r) THEN {AuditRow(r)} ELSE {}
    /\ \A x, y \in auditRows[b] : x.request = r /\ y.request = r => x = y

RequestInv ==
    WebTypes /\ ThreadsTell /\ \A r \in WebRequests, b \in Backends : RowsTell(r, b)

LEMMA RequestsBegin == RequestInit => RequestInv
<1>1. SUFFICES ASSUME RequestInit PROVE RequestInv
  OBVIOUS
<1>2. /\ correlation = [t \in Threads |-> Absent] /\ crashes = 0
      /\ \A r \in WebRequests : web[r] = NewRequest /\ web[r].step = "new"
      /\ \A b \in Backends : auditRows[b] = {} /\ refusedRows[b] = {}
  BY <1>1 DEF RequestInit, NewRequest
<1>3. WebTypes
  BY <1>1, <1>2 DEF RequestInit, WebTypes, WebHolds
<1>4. ThreadsTell
  BY <1>2 DEF ThreadsTell, Served, Free
<1>5. ASSUME NEW r \in WebRequests, NEW b \in Backends PROVE RowsTell(r, b)
  BY <1>2 DEF RowsTell
<1>6. QED
  BY <1>3, <1>4, <1>5 DEF RequestInv

\* Request r is at x, and goes to y.
LEMMA WebMoves ==
    ASSUME WebTypes, NEW r \in WebRequests, NEW y, WebHolds(y), web' = [web EXCEPT ![r] = y]
    PROVE  /\ web' = [q \in WebRequests |-> web'[q]] /\ web'[r] = y
           /\ \A q \in WebRequests : q # r => web'[q] = web[q]
           /\ \A q \in WebRequests : WebHolds(web'[q])
<1>1. /\ web' = [q \in WebRequests |-> web'[q]] /\ web'[r] = y
      /\ \A q \in WebRequests : q # r => web'[q] = web[q]
  BY DEF WebTypes
<1>2. QED
  BY <1>1 DEF WebTypes

\* A request that is served has a thread, an ID, a method and a path.
LEMMA ServedFacts ==
    ASSUME WebTypes, NEW r \in Served
    PROVE  /\ r \in WebRequests /\ web[r].step \in {"view", "answered", "audited"}
           /\ web[r].thread \in Threads /\ web[r].id \in RequestIds
           /\ web[r].method \in HttpMethods /\ web[r].path \in Paths
<1>1. WebHolds(web[r]) /\ r \in WebRequests /\ web[r].step \in {"view", "answered", "audited"}
  BY DEF Served, WebTypes
<1>2. QED
  BY <1>1 DEF WebHolds, NewRequest

\* The audit log is as it was.
LEMMA RowsRest ==
    ASSUME RequestInv, NEW r \in WebRequests, NEW y, WebHolds(y), web' = [web EXCEPT ![r] = y],
           auditRows' = auditRows, refusedRows' = refusedRows,
           y.step # "new" /\ y.step # "audited",
           y.step \in {"view", "answered"} => web[r].step \in {"new", "view"},
           y.step = "done" =>
              /\ web[r].step = "audited" /\ y.id = web[r].id /\ y.path = web[r].path
              /\ y.method = web[r].method /\ y.body = web[r].body
    PROVE  \A q \in WebRequests, b \in Backends : RowsTell(q, b)'
<1>1. web'[r] = y /\ \A q \in WebRequests : q # r => web'[q] = web[q]
  BY WebMoves DEF RequestInv
<1>2. ASSUME NEW q \in WebRequests, NEW b \in Backends PROVE RowsTell(q, b)'
  <2>1. RowsTell(q, b)
    BY DEF RequestInv
  <2>2. CASE q # r
    <3>1. web'[q] = web[q]
      BY <1>1, <2>2
    <3>2. (IsAudited(q) <=> IsAudited(q)') /\ AuditRow(q)' = AuditRow(q)
      BY <3>1 DEF IsAudited, AuditRow
    <3>3. QED
      BY <2>1, <3>1, <3>2 DEF RowsTell
  <2>3. CASE q = r
    <3>1. web'[q] = y
      BY <1>1, <2>3
    <3>2. CASE y.step = "done"
      <4>1. /\ web[q].step = "audited" /\ web'[q].step = "done"
            /\ web'[q].id = web[q].id /\ web'[q].path = web[q].path
            /\ web'[q].method = web[q].method /\ web'[q].body = web[q].body
        BY <2>3, <3>1, <3>2
      <4>2. (IsAudited(q) <=> IsAudited(q)') /\ AuditRow(q)' = AuditRow(q)
        BY <4>1 DEF IsAudited, AuditRow
      <4>3. QED
        BY <2>1, <4>1, <4>2 DEF RowsTell
    <3>3. CASE y.step # "done"
      <4>1. web'[q].step \notin {"new", "audited", "done"}
        BY <3>1, <3>3
      <4>2. web'[q].step \in {"view", "answered"} => web[q].step \in {"new", "view"}
        BY <2>3, <3>1
      <4>3. QED
        BY <2>1, <4>1, <4>2 DEF RowsTell
    <3>4. QED
      BY <3>2, <3>3
  <2>4. QED
    BY <2>2, <2>3
<1>3. QED
  BY <1>2

\* The request comes in.
LEMMA NextReceive ==
    ASSUME RequestInv, NEW r \in WebRequests, NEW t \in Threads, NEW sent \in SentIds \cup {Absent},
           NEW verb \in HttpMethods, NEW path \in Paths, Receive(r, t, sent, verb, path)
    PROVE  RequestInv'
<1>1. PICK id : id = IF sent = Absent THEN r ELSE sent
  OBVIOUS
<1>2. id \in RequestIds
  BY <1>1 DEF RequestIds
<1>3. PICK y : y = [step |-> "view", thread |-> t, id |-> id, method |-> verb, path |-> path]
  OBVIOUS
<1>4. /\ y.step = "view" /\ y.thread = t /\ y.id = id /\ WebHolds(y)
  <2>1. y \in [step : {"view"}, thread : Threads, id : RequestIds, method : HttpMethods, path : Paths]
    BY <1>2, <1>3
  <2>2. QED
    BY <1>3, <2>1 DEF WebHolds
<1>5. /\ web[r].step = "new" /\ Free(t) /\ web' = [web EXCEPT ![r] = y]
      /\ correlation' = [correlation EXCEPT ![t] = id]
      /\ auditRows' = auditRows /\ refusedRows' = refusedRows /\ crashes' = crashes
  BY <1>1, <1>3 DEF Receive, WebAt
<1>6. /\ web' = [q \in WebRequests |-> web'[q]] /\ web'[r] = y
      /\ \A q \in WebRequests : q # r => web'[q] = web[q]
      /\ \A q \in WebRequests : WebHolds(web'[q])
  BY <1>4, <1>5, WebMoves DEF RequestInv
<1>7. /\ correlation' \in [Threads -> RequestIds \cup {Absent}] /\ correlation'[t] = id
      /\ \A s \in Threads : s # t => correlation'[s] = correlation[s]
  BY <1>2, <1>5 DEF RequestInv, WebTypes
<1>8. WebTypes'
  BY <1>5, <1>6, <1>7 DEF RequestInv, WebTypes
<1>9. Served' = Served \cup {r} /\ r \notin Served
  BY <1>4, <1>5, <1>6 DEF Served
<1>10. ThreadsTell'
  <2>1. \A q \in Served : web'[q] = web[q] /\ web[q].thread # t /\ web[q].thread \in Threads
    BY <1>5, <1>6, <1>9, ServedFacts DEF Free, RequestInv, Served
  <2>2. \A p, q \in Served' : web'[p].thread = web'[q].thread => p = q
    BY <1>4, <1>6, <1>9, <2>1 DEF RequestInv, ThreadsTell
  <2>3. \A q \in Served' : correlation'[web'[q].thread] = web'[q].id
    BY <1>4, <1>6, <1>7, <1>9, <2>1 DEF RequestInv, ThreadsTell
  <2>4. ASSUME NEW s \in Threads, \A q \in Served' : web'[q].thread # s
        PROVE  correlation'[s] = Absent
    <3>1. s # t
      BY <1>4, <1>6, <1>9, <2>4
    <3>2. Free(s)
      BY <1>9, <2>1, <2>4 DEF Free
    <3>3. QED
      BY <1>7, <3>1, <3>2 DEF RequestInv, ThreadsTell
  <2>5. QED
    BY <2>2, <2>3, <2>4 DEF ThreadsTell, Free
<1>11. \A q \in WebRequests, b \in Backends : RowsTell(q, b)'
  BY <1>4, <1>5, RowsRest
<1>12. QED
  BY <1>8, <1>10, <1>11 DEF RequestInv

\* A step in which no thread changes hands.
LEMMA ThreadsRest ==
    ASSUME RequestInv, correlation' = correlation, Served' = Served,
           \A q \in Served : web'[q].thread = web[q].thread /\ web'[q].id = web[q].id
    PROVE  ThreadsTell'
BY DEF RequestInv, ThreadsTell, Free

LEMMA NextTurnAway ==
    ASSUME RequestInv, NEW r \in WebRequests, TurnAway(r)
    PROVE  RequestInv'
<1>1. PICK y : y = [step |-> "away"]
  OBVIOUS
<1>2. y.step = "away" /\ WebHolds(y)
  BY <1>1 DEF WebHolds
<1>3. /\ web[r].step = "new" /\ web' = [web EXCEPT ![r] = y] /\ correlation' = correlation
      /\ auditRows' = auditRows /\ refusedRows' = refusedRows /\ crashes' = crashes
  BY <1>1 DEF TurnAway, WebAt
<1>4. /\ web' = [q \in WebRequests |-> web'[q]] /\ web'[r] = y
      /\ \A q \in WebRequests : q # r => web'[q] = web[q]
      /\ \A q \in WebRequests : WebHolds(web'[q])
  BY <1>2, <1>3, WebMoves DEF RequestInv
<1>5. WebTypes'
  BY <1>3, <1>4 DEF RequestInv, WebTypes
<1>6. Served' = Served /\ r \notin Served
  BY <1>2, <1>3, <1>4 DEF Served
<1>7. \A q \in Served : web'[q] = web[q]
  BY <1>4, <1>6 DEF Served
<1>8. ThreadsTell'
  BY <1>3, <1>6, <1>7, ThreadsRest
<1>9. \A q \in WebRequests, b \in Backends : RowsTell(q, b)'
  BY <1>2, <1>3, RowsRest
<1>10. QED
  BY <1>5, <1>8, <1>9 DEF RequestInv

\* A view, the exception handler or a health check answers, with the ID of the
\* thread.
LEMMA NextBody ==
    ASSUME RequestInv, NEW r \in WebRequests, NEW body, web[r].step = "view",
           web' = [web EXCEPT ![r] = Answered(r, body)],
           BodyOf(body, correlation[web[r].thread]),
           UNCHANGED <<correlation, auditRows, refusedRows, crashes>>
    PROVE  RequestInv'
<1>1. r \in Served
  BY DEF Served
<1>2. /\ web[r].thread \in Threads /\ web[r].id \in RequestIds
      /\ web[r].method \in HttpMethods /\ web[r].path \in Paths
      /\ correlation[web[r].thread] = web[r].id
  BY <1>1, ServedFacts DEF RequestInv, ThreadsTell
<1>3. PICK y : y = Answered(r, body)
  OBVIOUS
<1>4. /\ y = [step |-> "answered", thread |-> web[r].thread, id |-> web[r].id,
              method |-> web[r].method, path |-> web[r].path, body |-> body]
      /\ y.step = "answered" /\ y.thread = web[r].thread /\ y.id = web[r].id
      /\ y.method = web[r].method /\ y.path = web[r].path /\ y.body = body
  BY <1>3 DEF Answered
<1>5. WebHolds(y)
  <2>1. BodyOf(y.body, y.id)
    BY <1>2, <1>4
  <2>2. y = [step |-> y.step, thread |-> y.thread, id |-> y.id, method |-> y.method,
             path |-> y.path, body |-> y.body]
    BY <1>4
  <2>3. QED
    BY <1>2, <1>4, <2>1, <2>2 DEF WebHolds
<1>6. web' = [web EXCEPT ![r] = y]
  BY <1>3
<1>7. /\ web' = [q \in WebRequests |-> web'[q]] /\ web'[r] = y
      /\ \A q \in WebRequests : q # r => web'[q] = web[q]
      /\ \A q \in WebRequests : WebHolds(web'[q])
  BY <1>5, <1>6, WebMoves DEF RequestInv
<1>8. WebTypes'
  BY <1>7 DEF RequestInv, WebTypes
<1>9. Served' = Served
  BY <1>1, <1>4, <1>7 DEF Served
<1>10. \A q \in Served : web'[q].thread = web[q].thread /\ web'[q].id = web[q].id
  BY <1>4, <1>7, ServedFacts DEF RequestInv
<1>11. ThreadsTell'
  BY <1>9, <1>10, ThreadsRest
<1>12. \A q \in WebRequests, b \in Backends : RowsTell(q, b)'
  BY <1>4, <1>5, <1>6, RowsRest
<1>13. QED
  BY <1>8, <1>11, <1>12 DEF RequestInv

LEMMA NextAnswer ==
    ASSUME RequestInv, NEW r \in WebRequests,
           \/ \E outcome \in Outcomes : Answer(r, outcome)
           \/ \E database, memory, readiness \in BOOLEAN : AnswerHealth(r, database, memory, readiness)
    PROVE  RequestInv'
<1>1. PICK id : id = correlation[web[r].thread]
  OBVIOUS
<1>2. ASSUME NEW outcome \in Outcomes, Answer(r, outcome) PROVE RequestInv'
  <2>1. PICK body : body = IF outcome = "ok" THEN Success(id) ELSE Failure(outcome, id)
    OBVIOUS
  <2>2. BodyOf(body, id)
    <3>1. CASE outcome = "ok"
      <4>1. body = [success |-> TRUE, status |-> 200, id |-> id]
        BY <2>1, <3>1 DEF Success
      <4>2. QED
        BY <4>1 DEF BodyOf
    <3>2. CASE outcome # "ok"
      <4>1. PICK status : status = StatusOf(outcome)
        OBVIOUS
      <4>2. status \in {400, 404, 409, 502, 500}
        BY <3>2, <4>1 DEF Outcomes, StatusOf
      <4>3. body = [success |-> FALSE, status |-> status, id |-> id]
        BY <2>1, <3>2, <4>1 DEF Failure
      <4>4. QED
        BY <4>2, <4>3 DEF BodyOf
    <3>3. QED
      BY <3>1, <3>2
  <2>3. /\ web[r].step = "view" /\ web' = [web EXCEPT ![r] = Answered(r, body)]
        /\ UNCHANGED <<correlation, auditRows, refusedRows, crashes>>
    BY <1>1, <1>2, <2>1 DEF Answer, WebAt
  <2>4. QED
    BY <1>1, <2>2, <2>3, NextBody
<1>3. ASSUME NEW database \in BOOLEAN, NEW memory \in BOOLEAN, NEW readiness \in BOOLEAN,
             AnswerHealth(r, database, memory, readiness)
      PROVE  RequestInv'
  <2>1. PICK body : body = IF readiness THEN Readiness(database, memory, id)
                           ELSE Health(database, memory, id)
    OBVIOUS
  <2>2. PICK up : up = (database /\ memory)
    OBVIOUS
  <2>3. BodyOf(body, id)
    <3>1. CASE readiness /\ ~up
      <4>1. body = [success |-> FALSE, status |-> 503, id |-> id]
        BY <2>1, <2>2, <3>1 DEF Readiness
      <4>2. QED
        BY <4>1 DEF BodyOf
    <3>2. CASE ~readiness /\ ~up
      <4>1. body = [success |-> TRUE, status |-> 503, id |-> id]
        BY <2>1, <2>2, <3>2 DEF Health
      <4>2. QED
        BY <4>1 DEF BodyOf
    <3>3. CASE up
      <4>1. body = [success |-> TRUE, status |-> 200, id |-> id]
        BY <2>1, <2>2, <3>3 DEF Readiness, Health, Success
      <4>2. QED
        BY <4>1 DEF BodyOf
    <3>4. QED
      BY <3>1, <3>2, <3>3
  <2>4. /\ web[r].step = "view" /\ web' = [web EXCEPT ![r] = Answered(r, body)]
        /\ UNCHANGED <<correlation, auditRows, refusedRows, crashes>>
    BY <1>1, <1>3, <2>1 DEF AnswerHealth, WebAt
  <2>5. QED
    BY <1>1, <2>3, <2>4, NextBody
<1>4. QED
  BY <1>2, <1>3

\* The audit log records the request, or a backend refuses to.
LEMMA NextAudit ==
    ASSUME RequestInv, NEW r \in WebRequests, NEW failing \in SUBSET Backends, Audit(r, failing)
    PROVE  RequestInv'
<1>1. PICK y : y = [web[r] EXCEPT !.step = "audited"]
  OBVIOUS
<1>2. /\ web[r].step = "answered" /\ web' = [web EXCEPT ![r] = y] /\ correlation' = correlation
      /\ crashes' = crashes
      /\ auditRows' = [b \in Backends |-> IF IsAudited(r) /\ b \notin failing
                                          THEN auditRows[b] \cup {AuditRow(r)} ELSE auditRows[b]]
      /\ refusedRows' = [b \in Backends |-> IF b \in failing THEN refusedRows[b] \cup {r}
                                            ELSE refusedRows[b]]
  BY <1>1 DEF Audit, WebAt
<1>3. WebHolds(web[r])
  BY DEF RequestInv, WebTypes
<1>4. /\ web[r] = [step |-> web[r].step, thread |-> web[r].thread, id |-> web[r].id,
                   method |-> web[r].method, path |-> web[r].path, body |-> web[r].body]
      /\ web[r].thread \in Threads /\ web[r].id \in RequestIds
      /\ web[r].method \in HttpMethods /\ web[r].path \in Paths
      /\ BodyOf(web[r].body, web[r].id)
  BY <1>2, <1>3 DEF WebHolds, NewRequest
<1>5. /\ y = [step |-> "audited", thread |-> web[r].thread, id |-> web[r].id,
              method |-> web[r].method, path |-> web[r].path, body |-> web[r].body]
  BY <1>1, <1>4
<1>6. /\ y.step = "audited" /\ y.thread = web[r].thread /\ y.id = web[r].id
      /\ y.method = web[r].method /\ y.path = web[r].path /\ y.body = web[r].body
  BY <1>5
<1>7. WebHolds(y)
  <2>1. y = [step |-> y.step, thread |-> y.thread, id |-> y.id, method |-> y.method,
             path |-> y.path, body |-> y.body]
    BY <1>5, <1>6
  <2>2. BodyOf(y.body, y.id)
    BY <1>4, <1>6
  <2>3. QED
    BY <1>4, <1>6, <2>1, <2>2 DEF WebHolds
<1>8. /\ web' = [q \in WebRequests |-> web'[q]] /\ web'[r] = y
      /\ \A q \in WebRequests : q # r => web'[q] = web[q]
      /\ \A q \in WebRequests : WebHolds(web'[q])
  BY <1>2, <1>7, WebMoves DEF RequestInv
<1>9. /\ auditRows' = [b \in Backends |-> auditRows'[b]]
      /\ refusedRows' \in [Backends -> SUBSET WebRequests]
      /\ \A b \in Backends :
            /\ auditRows'[b] = IF IsAudited(r) /\ b \notin failing
                               THEN auditRows[b] \cup {AuditRow(r)} ELSE auditRows[b]
            /\ refusedRows'[b] = IF b \in failing THEN refusedRows[b] \cup {r} ELSE refusedRows[b]
  BY <1>2 DEF RequestInv, WebTypes
<1>10. WebTypes'
  BY <1>2, <1>8, <1>9 DEF RequestInv, WebTypes
<1>11. Served' = Served
  BY <1>2, <1>6, <1>8 DEF Served
<1>12. \A q \in Served : web'[q].thread = web[q].thread /\ web'[q].id = web[q].id
  BY <1>6, <1>8, ServedFacts DEF RequestInv
<1>13. ThreadsTell'
  BY <1>2, <1>11, <1>12, ThreadsRest
<1>14. PICK row : row = AuditRow(r)
  OBVIOUS
<1>15. row.request = r /\ row = AuditRow(r)'
  BY <1>6, <1>8, <1>14 DEF AuditRow
<1>16. IsAudited(r) <=> IsAudited(r)'
  BY <1>6, <1>8 DEF IsAudited
<1>17. ASSUME NEW q \in WebRequests, NEW b \in Backends PROVE RowsTell(q, b)'
  <2>1. RowsTell(q, b) /\ RowsTell(r, b)
    BY DEF RequestInv
  <2>2. /\ auditRows'[b] = IF IsAudited(r) /\ b \notin failing
                           THEN auditRows[b] \cup {row} ELSE auditRows[b]
        /\ refusedRows'[b] = IF b \in failing THEN refusedRows[b] \cup {r} ELSE refusedRows[b]
    BY <1>9, <1>14
  <2>3. CASE q # r
    <3>1. /\ web'[q] = web[q]
          /\ {x \in auditRows'[b] : x.request = q} = {x \in auditRows[b] : x.request = q}
          /\ q \in refusedRows'[b] <=> q \in refusedRows[b]
          /\ \A x \in auditRows'[b] : x.request = q => x \in auditRows[b]
      BY <1>8, <1>15, <2>2, <2>3
    <3>2. (IsAudited(q) <=> IsAudited(q)') /\ AuditRow(q)' = AuditRow(q)
      BY <3>1 DEF IsAudited, AuditRow
    <3>3. QED
      BY <2>1, <3>1, <3>2 DEF RowsTell
  <2>4. CASE q = r
    <3>1. web'[q].step = "audited"
      BY <1>6, <1>8, <2>4
    <3>2. r \notin refusedRows[b] /\ \A x \in auditRows[b] : x.request # r
      BY <1>2, <2>1 DEF RowsTell
    <3>3. {x \in auditRows'[b] : x.request = r}
             = IF r \notin refusedRows'[b] /\ IsAudited(r) THEN {row} ELSE {}
      BY <1>15, <2>2, <3>2
    <3>4. \A x, z \in auditRows'[b] : x.request = r /\ z.request = r => x = z
      BY <2>2, <3>2
    <3>5. QED
      BY <1>15, <1>16, <2>4, <3>1, <3>3, <3>4 DEF RowsTell
  <2>5. QED
    BY <2>3, <2>4
<1>18. QED
  BY <1>10, <1>13, <1>17 DEF RequestInv

\* The answer goes out, and the thread forgets the ID.
LEMMA NextRespond ==
    ASSUME RequestInv, NEW r \in WebRequests, Respond(r)
    PROVE  RequestInv'
<1>1. PICK y : y = [web[r] EXCEPT !.step = "done"]
  OBVIOUS
<1>2. /\ web[r].step = "audited" /\ web' = [web EXCEPT ![r] = y]
      /\ correlation' = [correlation EXCEPT ![web[r].thread] = Absent]
      /\ auditRows' = auditRows /\ refusedRows' = refusedRows /\ crashes' = crashes
  BY <1>1 DEF Respond, WebAt
<1>3. WebHolds(web[r]) /\ r \in Served
  BY <1>2 DEF RequestInv, WebTypes, Served
<1>4. /\ web[r] = [step |-> web[r].step, thread |-> web[r].thread, id |-> web[r].id,
                   method |-> web[r].method, path |-> web[r].path, body |-> web[r].body]
      /\ web[r].thread \in Threads /\ web[r].id \in RequestIds
      /\ web[r].method \in HttpMethods /\ web[r].path \in Paths
      /\ BodyOf(web[r].body, web[r].id)
  BY <1>2, <1>3 DEF WebHolds, NewRequest
<1>5. /\ y = [step |-> "done", thread |-> web[r].thread, id |-> web[r].id,
              method |-> web[r].method, path |-> web[r].path, body |-> web[r].body]
  BY <1>1, <1>4
<1>6. /\ y.step = "done" /\ y.thread = web[r].thread /\ y.id = web[r].id
      /\ y.method = web[r].method /\ y.path = web[r].path /\ y.body = web[r].body
  BY <1>5
<1>7. WebHolds(y)
  <2>1. y = [step |-> y.step, thread |-> y.thread, id |-> y.id, method |-> y.method,
             path |-> y.path, body |-> y.body]
    BY <1>5, <1>6
  <2>2. BodyOf(y.body, y.id)
    BY <1>4, <1>6
  <2>3. QED
    BY <1>4, <1>6, <2>1, <2>2 DEF WebHolds
<1>8. /\ web' = [q \in WebRequests |-> web'[q]] /\ web'[r] = y
      /\ \A q \in WebRequests : q # r => web'[q] = web[q]
      /\ \A q \in WebRequests : WebHolds(web'[q])
  BY <1>2, <1>7, WebMoves DEF RequestInv
<1>9. PICK t \in Threads : t = web[r].thread
  BY <1>4
<1>10. /\ correlation' \in [Threads -> RequestIds \cup {Absent}] /\ correlation'[t] = Absent
       /\ \A s \in Threads : s # t => correlation'[s] = correlation[s]
  BY <1>2, <1>9 DEF RequestInv, WebTypes
<1>11. WebTypes'
  BY <1>2, <1>8, <1>10 DEF RequestInv, WebTypes
<1>12. Served' = Served \ {r}
  BY <1>6, <1>8 DEF Served
<1>13. \A q \in Served' : /\ q \in Served /\ web'[q] = web[q] /\ web[q].thread # t
                          /\ web[q].thread \in Threads
  BY <1>3, <1>8, <1>9, <1>12, ServedFacts DEF RequestInv, ThreadsTell
<1>14. ThreadsTell'
  <2>1. \A p, q \in Served' : web'[p].thread = web'[q].thread => p = q
    BY <1>13 DEF RequestInv, ThreadsTell
  <2>2. \A q \in Served' : correlation'[web'[q].thread] = web'[q].id
    BY <1>10, <1>13 DEF RequestInv, ThreadsTell
  <2>3. ASSUME NEW s \in Threads, \A q \in Served' : web'[q].thread # s
        PROVE  correlation'[s] = Absent
    <3>1. CASE s = t
      BY <1>10, <3>1
    <3>2. CASE s # t
      <4>1. Free(s)
        BY <1>9, <1>12, <1>13, <2>3, <3>2 DEF Free
      <4>2. QED
        BY <1>10, <3>2, <4>1 DEF RequestInv, ThreadsTell
    <3>3. QED
      BY <3>1, <3>2
  <2>4. QED
    BY <2>1, <2>2, <2>3 DEF ThreadsTell, Free
<1>15. \A q \in WebRequests, b \in Backends : RowsTell(q, b)'
  BY <1>2, <1>6, <1>7, RowsRest
<1>16. QED
  BY <1>11, <1>14, <1>15 DEF RequestInv

\* The process is killed: no thread serves, and what is recorded stays.
LEMMA NextCrash ==
    ASSUME RequestInv, Crash
    PROVE  RequestInv'
<1>1. PICK gone : gone = [step |-> "lost"]
  OBVIOUS
<1>2. gone.step = "lost"
  BY <1>1
<1>3. /\ correlation' = [t \in Threads |-> Absent] /\ crashes' = 1
      /\ web' = [r \in WebRequests |-> IF r \in Served THEN gone ELSE web[r]]
      /\ auditRows' = auditRows /\ refusedRows' = refusedRows
  BY <1>1 DEF Crash
<1>4. WebTypes'
  BY <1>2, <1>3 DEF RequestInv, WebTypes, WebHolds
<1>5. Served' = {}
  BY <1>2, <1>3 DEF Served
<1>6. ThreadsTell'
  BY <1>3, <1>5 DEF ThreadsTell, Free
<1>7. ASSUME NEW q \in WebRequests, NEW b \in Backends PROVE RowsTell(q, b)'
  <2>1. RowsTell(q, b)
    BY DEF RequestInv
  <2>2. CASE q \in Served
    <3>1. web'[q].step = "lost"
      BY <1>2, <1>3, <2>2
    <3>2. QED
      BY <1>3, <2>1, <3>1 DEF RowsTell
  <2>3. CASE q \notin Served
    <3>1. web'[q] = web[q]
      BY <1>3, <2>3
    <3>2. (IsAudited(q) <=> IsAudited(q)') /\ AuditRow(q)' = AuditRow(q)
      BY <3>1 DEF IsAudited, AuditRow
    <3>3. QED
      BY <1>3, <2>1, <3>1, <3>2 DEF RowsTell
  <2>4. QED
    BY <2>2, <2>3
<1>8. QED
  BY <1>4, <1>6, <1>7 DEF RequestInv

LEMMA RequestInvariant == RequestSpec => []RequestInv
<1>1. RequestInv /\ [RequestNext]_requestVars => RequestInv'
  <2>1. SUFFICES ASSUME RequestInv, [RequestNext]_requestVars PROVE RequestInv'
    OBVIOUS
  <2>2. CASE UNCHANGED requestVars
    BY <2>1, <2>2 DEF requestVars, RequestInv, WebTypes, ThreadsTell, RowsTell, Served, Free,
                      IsAudited, AuditRow
  <2>3. CASE RequestNext
    <3>1. CASE RequestsDone
      BY <2>2, <3>1 DEF RequestsDone
    <3>2. CASE ~RequestsDone
      BY <2>1, <2>3, <3>2, NextReceive, NextTurnAway, NextAnswer, NextAudit, NextRespond, NextCrash
         DEF RequestNext
    <3>3. QED
      BY <3>1, <3>2
  <2>4. QED
    BY <2>1, <2>2, <2>3
<1>2. QED
  BY <1>1, RequestsBegin, PTL DEF RequestSpec

\* apps/common and apps/audit_logs: every variable has its type.
THEOREM RequestTypesStay == RequestSpec => []RequestTypeOK
<1>1. RequestInv => RequestTypeOK
  <2>1. SUFFICES ASSUME RequestInv PROVE RequestTypeOK
    OBVIOUS
  <2>2. ASSUME NEW r \in WebRequests
        PROVE  web[r].step \in {"new", "view", "answered", "audited", "done", "away", "lost"}
    <3>1. WebHolds(web[r])
      BY <2>1 DEF RequestInv, WebTypes
    <3>2. QED
      BY <3>1 DEF WebHolds, NewRequest
  <2>3. DOMAIN auditRows = Backends
    BY <2>1 DEF RequestInv, WebTypes
  <2>4. QED
    BY <2>1, <2>2, <2>3 DEF RequestInv, WebTypes, RequestTypeOK, RequestIds
<1>2. QED
  BY <1>1, RequestInvariant, PTL

\* CorrelationIDMiddleware, custom_exception_handler and AuditLoggingMiddleware:
\* however requests overlap, a thread carries the ID of the request it serves, or
\* none; bodies and audit rows carry their own request's; and every change and
\* error that is answered is in every backend that could record it, once.
THEOREM RequestsStayTraced == RequestSpec => []RequestsAreTraced
<1>1. RequestInv => RequestsAreTraced
  <2>1. SUFFICES ASSUME RequestInv PROVE RequestsAreTraced
    OBVIOUS
  <2>2. ASSUME NEW t \in Threads
        PROVE  IF Free(t) THEN correlation[t] = Absent
               ELSE \A r \in Served : web[r].thread = t => correlation[t] = web[r].id
    BY <2>1 DEF RequestInv, ThreadsTell
  <2>3. ASSUME NEW r \in WebRequests, web[r].step \in {"answered", "audited", "done"}
        PROVE  /\ BodyOf(web[r].body, web[r].id) /\ web[r].method \in HttpMethods
               /\ web[r].body.id = web[r].id
    <3>1. WebHolds(web[r])
      BY <2>1 DEF RequestInv, WebTypes
    <3>2. BodyOf(web[r].body, web[r].id) /\ web[r].method \in HttpMethods
      BY <2>3, <3>1 DEF WebHolds, NewRequest
    <3>3. QED
      BY <3>2 DEF BodyOf
  <2>4. ASSUME NEW r \in WebRequests, NEW b \in Backends, web[r].step \in {"audited", "done"}
        PROVE  {row \in auditRows[b] : row.request = r}
                  = IF r \notin refusedRows[b] /\ web[r].path = "audited"
                       /\ (web[r].method = "POST" \/ ~web[r].body.success
                           \/ web[r].body.status = 503)
                    THEN {[request |-> r, id |-> web[r].id, status |-> web[r].body.status]}
                    ELSE {}
    <3>1. PICK body : body = web[r].body
      OBVIOUS
    <3>2. /\ body.status \in {200, 400, 404, 409, 500, 502, 503} /\ body.success \in BOOLEAN
          /\ body.success = TRUE => body.status \in {200, 503}
          /\ body.success = FALSE => body.status # 200
      <4>1. web[r].step \in {"answered", "audited", "done"}
        BY <2>4
      <4>2. BodyOf(body, web[r].id)
        BY <2>3, <3>1, <4>1
      <4>3. QED
        BY <4>2 DEF BodyOf
    <3>3. body.status >= 400 <=> body.success = FALSE \/ body.status = 503
      <4>1. body.success = TRUE \/ body.success = FALSE
        BY <3>2
      <4>2. QED
        BY <3>2, <4>1
    <3>4. IsAudited(r) <=> /\ web[r].path = "audited"
                           /\ web[r].method = "POST" \/ body.success = FALSE \/ body.status = 503
      BY <2>3, <2>4, <3>1, <3>3 DEF IsAudited, HttpMethods
    <3>5. /\ RowsTell(r, b)
          /\ AuditRow(r) = [request |-> r, id |-> web[r].id, status |-> web[r].body.status]
      BY <2>1 DEF RequestInv, AuditRow
    <3>6. body.success = FALSE <=> ~web[r].body.success
      BY <3>1, <3>2
    <3>7. QED
      BY <2>4, <3>1, <3>4, <3>5, <3>6 DEF RowsTell
  <2>5. ASSUME NEW r \in WebRequests, NEW b \in Backends
        PROVE  Cardinality({row \in auditRows[b] : row.request = r}) <= 1
    <3>1. PICK rows : rows = {row \in auditRows[b] : row.request = r}
      OBVIOUS
    <3>2. \A x, y \in rows : x = y
      BY <2>1, <3>1 DEF RequestInv, RowsTell
    <3>3. CASE rows = {}
      BY <3>1, <3>3, FS_EmptySet
    <3>4. CASE rows # {}
      <4>1. PICK x : x \in rows
        BY <3>4
      <4>2. rows = {x}
        BY <3>2, <4>1
      <4>3. Cardinality({x}) = 1
        BY FS_Singleton
      <4>4. QED
        BY <3>1, <4>2, <4>3
    <3>5. QED
      BY <3>3, <3>4
  <2>6. QED
    BY <2>2, <2>3, <2>4, <2>5 DEF RequestsAreTraced
<1>2. QED
  BY <1>1, RequestInvariant, PTL

-----------------------------------------------------------------------------
(* All the parts at once.                                                   *)

\* Deliveries, events and notifications have the status they have earned, for
\* any number of tasks, endpoints, rows, deaths and retries: deliver_webhook_task,
\* process_outbox_events_task and send_email_task save rows that they read
\* earlier, but none that another task has changed meanwhile.
THEOREM StatusesTell == PlatformSpec => []StatusTells
<1>1. WebhookSpec => []StatusIsEarned
  BY StatusStaysEarned
<1>2. NotificationSpec => [](StatusTellsMail /\ NoticeNotDropped)
  BY MailStatusIsEarned
<1>3. QED
  BY <1>1, <1>2, PTL DEF PlatformSpec, StatusTells

\* What dashboards, reports, the request log and the customer list answer is
\* true of the rows they are about, whatever is stored while they are read.
THEOREM AnswersStayTrue == PlatformSpec => []AnswersAreTrue
<1>1. BooksSpec => []ReportsTell
  BY ReportsStayTrue
<1>2. RequestSpec => []RequestsAreTraced
  BY RequestsStayTraced
<1>3. CustomerSpec => []CustomersAreDistinct
  BY CustomersStayDistinct
<1>4. QED
  BY <1>1, <1>2, <1>3, PTL DEF PlatformSpec, AnswersAreTrue

\* No request undoes, with an older copy of a row in hand, what another has
\* stored in accounts, keys, profiles, endpoints and customers, each under the
\* condition that the property of its part names.
THEOREM RecordsStayKept == PlatformSpec => RecordsAreKept
<1>1. AccountSpec => []AccountInv
  BY AccountInvariant
<1>2. MerchantSpec => []MerchantInv
  BY MerchantInvariant
<1>3. WebhookInv /\ [WebhookNext]_webhookVars => EndpointNeverReverts
  BY RowsGrow DEF Grow, EndpointNeverReverts
<1>4. AccountInv /\ AccountInv' /\ [AccountNext]_accountVars => AccountIsKept
  BY AccountKept
<1>5. MerchantInv /\ MerchantInv' /\ [MerchantNext]_merchantVars => KeysAreKept /\ MerchantIsServed
  BY KeysStay
<1>6. CustomerInv /\ [CustomerNext]_customerVars => CustomersAreKept
  BY CustomersStayKept
<1>7. /\ AccountInv /\ AccountInv' /\ [AccountNext]_accountVars
      /\ MerchantInv /\ MerchantInv' /\ [MerchantNext]_merchantVars
      /\ WebhookInv /\ [WebhookNext]_webhookVars
      /\ CustomerInv /\ [CustomerNext]_customerVars
      => [AccountIsKept /\ KeysAreKept /\ MerchantIsServed /\ EndpointNeverReverts
          /\ CustomersAreKept]_platformVars
  BY <1>3, <1>4, <1>5, <1>6
<1>8. WebhookSpec => []WebhookInv
  BY Types
<1>9. CustomerSpec => []CustomerInv
  BY CustomerInvariant
<1>10. QED
  BY <1>1, <1>2, <1>7, <1>8, <1>9, PTL
     DEF PlatformSpec, RecordsAreKept, AccountSpec, MerchantSpec, WebhookSpec, CustomerSpec

\* And every variable of every part has its type.
THEOREM PlatformTypesStay == PlatformSpec => []PlatformTypeOK
<1>1. WebhookSpec => []WebhookTypeOK
  BY WebhookTypes
<1>2. NotificationSpec => []NotificationTypeOK
  BY MailTypesStay
<1>3. AccountSpec => []AccountTypeOK
  BY AccountTypesStay
<1>4. CouponSpec => []CouponTypeOK
  BY CouponTypes
<1>5. MerchantSpec => []MerchantTypeOK
  BY MerchantTypesStay
<1>6. CustomerSpec => []CustomerTypeOK
  BY CustomerTypesStay
<1>7. RequestSpec => []RequestTypeOK
  BY RequestTypesStay
<1>8. BooksSpec => []CheckoutTypeOK
  BY CheckoutTypesStay
<1>9. BooksSpec => []ReportTypeOK
  BY ReportTypesStay
<1>10. QED
  BY <1>1, <1>2, <1>3, <1>4, <1>5, <1>6, <1>7, <1>8, <1>9, PTL DEF PlatformSpec, PlatformTypeOK
=============================================================================
