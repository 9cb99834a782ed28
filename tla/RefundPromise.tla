--------------------------- MODULE RefundPromise ---------------------------
(***************************************************************************)
(* What the refund engine promises about one captured payment: a refund is *)
(* accepted only if what is promised or paid already leaves room for it,   *)
(* it is then settled once, and settling it as paid is the same step that  *)
(* returns the money.  Refunds.tla implements it, under the conditions its *)
(* runs state.                                                             *)
(***************************************************************************)
EXTENDS Integers, FiniteSetsExt

CONSTANTS Refunds, PaymentAmount, Amounts

VARIABLES amount,       \* amount[r]: what refund r asks for
          state,        \* state[r]: "none", "open", "paid" or "failed"
          credits       \* credits[r]: how often its money has been returned

Reserved == MapThenSumSet(LAMBDA r : amount[r],
                          {r \in Refunds : state[r] \in {"open", "paid"}})

Init == /\ amount \in [Refunds -> Amounts]
        /\ state = [r \in Refunds |-> "none"]
        /\ credits = [r \in Refunds |-> 0]

Accept(r) ==
    /\ state[r] = "none"
    /\ amount[r] > 0 /\ Reserved + amount[r] <= PaymentAmount
    /\ state' = [state EXCEPT ![r] = "open"]
    /\ UNCHANGED <<amount, credits>>

Pay(r) ==
    /\ state[r] = "open"
    /\ state' = [state EXCEPT ![r] = "paid"]
    /\ credits' = [credits EXCEPT ![r] = @ + 1]
    /\ UNCHANGED amount

Fail(r) ==
    /\ state[r] = "open"
    /\ state' = [state EXCEPT ![r] = "failed"]
    /\ UNCHANGED <<amount, credits>>

Next == \E r \in Refunds : Accept(r) \/ Pay(r) \/ Fail(r)

Spec == Init /\ [][Next]_<<amount, state, credits>>
=============================================================================
