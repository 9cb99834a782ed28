------------------------------- MODULE Wallet -------------------------------
(***************************************************************************)
(* The digital wallet engine (apps/wallet).  Each call of a WalletService  *)
(* method runs in its own thread on its own database connection.           *)
(*                                                                         *)
(* credit_wallet and debit_wallet are one database transaction each: they  *)
(* take the row lock with SELECT ... FOR UPDATE, test the row they read,   *)
(* UPDATE the balance, INSERT the WalletTransaction and commit.  A         *)
(* transaction's writes are seen by nobody before its commit, so they are  *)
(* applied in Commit.  freeze_wallet and unfreeze_wallet read the row      *)
(* without a lock and UPDATE its status column afterwards; an UPDATE       *)
(* waits for the lock of another transaction on the row.                   *)
(*                                                                         *)
(* Amounts are in the smallest unit the numeric(12,2) columns hold.        *)
(***************************************************************************)
EXTENDS Integers, Sequences

CONSTANTS Wallets,      \* the (customer, merchant, currency) triples
          Requests,     \* calls of the service, each made at most once
          Amounts,      \* the amounts asked for
          MaxBalance,   \* the largest value the balance column holds
          NoRequest     \* "the row is not locked"

ASSUME WalletAssumption == /\ Amounts \subseteq Nat
                           /\ MaxBalance \in Nat
                           /\ NoRequest \notin Requests

VARIABLES row,          \* row[w]: the committed status and balance
          ledger,       \* ledger[w]: the committed WalletTransaction rows
          lockedBy,     \* lockedBy[w]: the transaction holding the row lock
          ask,          \* ask[r]: the method and arguments of call r
          pc,           \* pc[r]: where the thread of call r is
          seen          \* seen[r]: the row as call r read it

vars == <<row, ledger, lockedBy, ask, pc, seen>>

Movements == {"credit", "debit"}
Switches == {"freeze", "unfreeze"}
Ask == [op : Movements, wallet : Wallets, amount : Amounts]
         \cup [op : Switches \cup {"open"}, wallet : Wallets, amount : {0}]

Row == [status : {"NONE", "ACTIVE", "FROZEN"}, balance : 0 .. MaxBalance]
Absent == [status |-> "NONE", balance |-> 0]    \* get() finds no row
Entry == [before : 0 .. MaxBalance, after : 0 .. MaxBalance]

Exists(w) == row[w].status # "NONE"
At(r, step, ops) == pc[r] = step /\ ask[r].op \in ops
Goto(r, step) == pc' = [pc EXCEPT ![r] = step]
Return(r) == Goto(r, "done")
InTransaction(r) == pc[r] \in {"locked", "written"}

\* balance_after, from the row the transaction read under the lock.
BalanceAfter(r) == IF ask[r].op = "credit" THEN seen[r].balance + ask[r].amount
                                           ELSE seen[r].balance - ask[r].amount

\* Variant: the balance test of debit_wallet is missing.
AcceptedOverdrawn(r) == /\ seen[r].status = "ACTIVE"
                        /\ BalanceAfter(r) <= MaxBalance

\* The tests credit_wallet and debit_wallet make on the locked row, and the
\* limit of the column itself: numeric(12,2) refuses a larger balance.
Accepted(r) == /\ seen[r].status = "ACTIVE"
               /\ ask[r].op = "debit" => ask[r].amount <= seen[r].balance
               /\ BalanceAfter(r) <= MaxBalance

-----------------------------------------------------------------------------
Init == /\ row = [w \in Wallets |-> Absent]
        /\ ledger = [w \in Wallets |-> << >>]
        /\ lockedBy = [w \in Wallets |-> NoRequest]
        /\ ask \in [Requests -> Ask]
        /\ pc = [r \in Requests |-> "begin"]
        /\ seen = [r \in Requests |-> Absent]

-----------------------------------------------------------------------------
(* get_or_create: a SELECT, and an INSERT when it finds no row.  The unique *)
(* key refuses the INSERT of a second thread, which then reads the row.     *)
Get(r) ==
    /\ At(r, "begin", {"open"})
    /\ Goto(r, IF Exists(ask[r].wallet) THEN "done" ELSE "missing")
    /\ UNCHANGED <<row, ledger, lockedBy, ask, seen>>

CreateRow(r) ==
    /\ At(r, "missing", {"open"})
    /\ row' = IF Exists(ask[r].wallet) THEN row
              ELSE [row EXCEPT ![ask[r].wallet] = [status |-> "ACTIVE", balance |-> 0]]
    /\ Return(r)
    /\ UNCHANGED <<ledger, lockedBy, ask, seen>>

-----------------------------------------------------------------------------
(* credit_wallet and debit_wallet.                                          *)

\* INVALID_AMOUNT before the transaction; "Wallet not found" inside it.
Refuse(r) ==
    /\ At(r, "begin", Movements)
    /\ ask[r].amount = 0 \/ ~Exists(ask[r].wallet)
    /\ Return(r)
    /\ UNCHANGED <<row, ledger, lockedBy, ask, seen>>

\* Variant: get_by_id in place of get_wallet_with_lock.
LockRowWithoutLock(r) ==
    /\ At(r, "begin", Movements)
    /\ ask[r].amount > 0 /\ Exists(ask[r].wallet)
    /\ seen' = [seen EXCEPT ![r] = row[ask[r].wallet]]
    /\ Goto(r, "locked")
    /\ UNCHANGED <<row, ledger, lockedBy, ask>>

\* SELECT ... FOR UPDATE: waits for the row lock, then returns the row as
\* last committed.
LockRow(r) ==
    /\ At(r, "begin", Movements)
    /\ ask[r].amount > 0 /\ Exists(ask[r].wallet)
    /\ lockedBy[ask[r].wallet] = NoRequest
    /\ lockedBy' = [lockedBy EXCEPT ![ask[r].wallet] = r]
    /\ seen' = [seen EXCEPT ![r] = row[ask[r].wallet]]
    /\ Goto(r, "locked")
    /\ UNCHANGED <<row, ledger, ask>>

\* wallet.save(update_fields=["balance", ...]), not yet committed.
SaveBalance(r) ==
    /\ pc[r] = "locked" /\ Accepted(r)
    /\ Goto(r, "written")
    /\ UNCHANGED <<row, ledger, lockedBy, ask, seen>>

\* WalletTransaction INSERT and COMMIT: balance, entry and lock at once.
Commit(r) ==
    /\ pc[r] = "written"
    /\ row' = [row EXCEPT ![ask[r].wallet].balance = BalanceAfter(r)]
    /\ ledger' = [ledger EXCEPT ![ask[r].wallet] =
                    Append(@, [before |-> seen[r].balance, after |-> BalanceAfter(r)])]
    /\ lockedBy' = [lockedBy EXCEPT ![ask[r].wallet] = NoRequest]
    /\ Return(r)
    /\ UNCHANGED <<ask, seen>>

\* Variant: the failed transaction is left open and keeps its lock.
RollbackLeftOpen(r) ==
    /\ InTransaction(r)
    /\ Return(r)
    /\ UNCHANGED <<row, ledger, lockedBy, ask, seen>>

\* An exception leaves transaction.atomic(), or the connection is lost:
\* the database undoes the transaction and frees the row.
Rollback(r) ==
    /\ InTransaction(r)
    /\ lockedBy' = [lockedBy EXCEPT ![ask[r].wallet] = NoRequest]
    /\ Return(r)
    /\ UNCHANGED <<row, ledger, ask, seen>>

-----------------------------------------------------------------------------
(* freeze_wallet and unfreeze_wallet.                                       *)
Select(r) ==
    /\ At(r, "begin", Switches)
    /\ seen' = [seen EXCEPT ![r] = row[ask[r].wallet]]
    /\ Goto(r, IF Exists(ask[r].wallet) THEN "selected" ELSE "done")
    /\ UNCHANGED <<row, ledger, lockedBy, ask>>

\* Variant: wallet.save() without update_fields writes the whole stale row.
SaveStatusWholeRow(r) ==
    /\ pc[r] = "selected"
    /\ lockedBy[ask[r].wallet] = NoRequest
    /\ row' = [row EXCEPT ![ask[r].wallet] =
                 [seen[r] EXCEPT !.status = IF ask[r].op = "freeze" THEN "FROZEN" ELSE "ACTIVE"]]
    /\ Return(r)
    /\ UNCHANGED <<ledger, lockedBy, ask, seen>>

\* wallet.save(update_fields=["status", ...]).
SaveStatus(r) ==
    /\ pc[r] = "selected"
    /\ lockedBy[ask[r].wallet] = NoRequest
    /\ row' = [row EXCEPT ![ask[r].wallet].status =
                 IF ask[r].op = "freeze" THEN "FROZEN" ELSE "ACTIVE"]
    /\ Return(r)
    /\ UNCHANGED <<ledger, lockedBy, ask, seen>>

-----------------------------------------------------------------------------
Step(r) == \/ Get(r) \/ CreateRow(r)
           \/ Refuse(r) \/ LockRow(r) \/ SaveBalance(r) \/ Commit(r) \/ Rollback(r)
           \/ Select(r) \/ SaveStatus(r)

\* Every call has returned.
Terminated == (\A r \in Requests : pc[r] = "done") /\ UNCHANGED vars

Next == (\E r \in Requests : Step(r)) \/ Terminated

Spec == Init /\ [][Next]_vars

\* A thread keeps running; PostgreSQL hands a free row lock to a waiter.
FairSpec == Spec /\ \A r \in Requests : WF_vars(Step(r))

-----------------------------------------------------------------------------
(* Properties.                                                              *)

\* Every variable has its type.  Row makes this more than a formality: a
\* wallet is never overdrawn and never exceeds its column, however many
\* debit_wallet calls race for the same balance.
TypeOK == /\ row \in [Wallets -> Row]
          /\ ledger \in [Wallets -> Seq(Entry)]
          /\ lockedBy \in [Wallets -> Requests \cup {NoRequest}]
          /\ ask \in [Requests -> Ask]
          /\ pc \in [Requests -> {"begin", "missing", "locked", "written",
                                  "selected", "done"}]
          /\ seen \in [Requests -> Row]

\* The row lock at work: the transactions between LockRow and Commit are the
\* lock holders, one per wallet, and each still has before it the row as it
\* read it, so the balance it computed in memory is the one to write.
LockProtectsRow ==
    /\ \A r \in Requests : InTransaction(r) =>
          /\ lockedBy[ask[r].wallet] = r
          /\ seen[r] = row[ask[r].wallet]
          /\ ask[r].op \in Movements
    /\ \A w \in Wallets, r \in Requests :
          lockedBy[w] = r => InTransaction(r) /\ ask[r].wallet = w

\* L is a history of movements that ends at balance b.
Explains(L, b) ==
    /\ \A i \in 1 .. Len(L) : L[i].before = IF i = 1 THEN 0 ELSE L[i - 1].after
    /\ b = IF Len(L) = 0 THEN 0 ELSE L[Len(L)].after

\* The wallet_transactions rows account for every change of a balance: each
\* starts where the one before it ended, and the last one ends at the balance.
\* A lost update (two debits from one reading, a stale save) breaks the chain.
LedgerExplainsBalance == \A w \in Wallets : Explains(ledger[w], row[w].balance)

\* freeze_wallet takes effect at once: from the UPDATE of the status on, not
\* even a debit or credit that had already passed its ACTIVE test moves money.
OnlyActiveWalletMoves ==
    [][\A w \in Wallets : row'[w].balance # row[w].balance => row[w].status = "ACTIVE"]_vars

\* The engine implements the atomic account: a credit or debit, spread over
\* lock, test, UPDATE, INSERT and COMMIT, looks to everyone like one step.
Account == INSTANCE WalletAccount
AtomicAccount == Account!Spec

\* No call waits for a row lock for ever: every call returns.
EveryCallReturns == \A r \in Requests : <>(pc[r] = "done")
=============================================================================
