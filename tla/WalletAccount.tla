--------------------------- MODULE WalletAccount ---------------------------
(***************************************************************************)
(* What the wallet engine promises its callers: every credit and every     *)
(* debit happens at one instant, on the wallet as it is at that instant,   *)
(* together with the ledger entry that records it.  Nothing here knows of  *)
(* threads, row locks or transactions; Wallet.tla implements it.           *)
(***************************************************************************)
EXTENDS Integers, Sequences

CONSTANTS Wallets,      \* the (customer, merchant, currency) triples
          MaxBalance    \* the largest value the balance column holds

VARIABLES row,          \* row[w]: the wallet's status and balance
          ledger        \* ledger[w]: its WalletTransaction rows, oldest first

Absent == [status |-> "NONE", balance |-> 0]

Init == /\ row = [w \in Wallets |-> Absent]
        /\ ledger = [w \in Wallets |-> << >>]

Open(w) ==
    /\ row[w].status = "NONE"
    /\ row' = [row EXCEPT ![w] = [status |-> "ACTIVE", balance |-> 0]]
    /\ UNCHANGED ledger

SetStatus(w, s) ==
    /\ row[w].status # "NONE"
    /\ row' = [row EXCEPT ![w].status = s]
    /\ UNCHANGED ledger

Move(w, after) ==
    /\ row[w].status = "ACTIVE"
    /\ row' = [row EXCEPT ![w].balance = after]
    /\ ledger' = [ledger EXCEPT
                    ![w] = Append(@, [before |-> row[w].balance, after |-> after])]

Next == \E w \in Wallets :
            \/ Open(w)
            \/ \E s \in {"ACTIVE", "FROZEN"} : SetStatus(w, s)
            \/ \E after \in 0 .. MaxBalance : Move(w, after)

Spec == Init /\ [][Next]_<<row, ledger>>
=============================================================================
