------------------------------ MODULE Coupons -------------------------------
(***************************************************************************)
(* A discount coupon (apps/analytics/services/coupon_service.py): the      *)
(* calls that apply it, and the merchant's calls that change it.           *)
(*                                                                         *)
(* apply_coupon reads the row twice and writes used_count; update_coupon   *)
(* reads the row and writes all of it.  No row is locked, so the calls     *)
(* interleave between their statements.  Amounts are in cents, percentages *)
(* in hundredths of a percent (both have two decimals).                    *)
(***************************************************************************)
EXTENDS Integers

CONSTANTS Shoppers,        \* calls of apply_coupon
          Editors,         \* calls of update_coupon
          CouponTerms,     \* the terms a merchant may ask for
          CouponChanges,   \* the changes a merchant may ask for: new values
                           \* of some of the fields
          OrderAmounts,    \* the amounts of the orders
          NoCap, NoCoupon

ASSUME CouponsAssumption ==
    /\ CouponTerms \subseteq [type : {"PERCENTAGE", "FIXED"}, value : Int,
                              cap : Nat \cup {NoCap}, minimum : Int, limit : Int]
    /\ \A change \in CouponChanges : \A field \in DOMAIN change :
          \/ field \in {"value", "minimum", "limit"} /\ change[field] \in Int
          \/ field = "cap" /\ change[field] \in Nat \cup {NoCap}
          \/ field = "status" /\ change[field] \in {"ACTIVE", "EXPIRED", "DISABLED"}
    /\ OrderAmounts \subseteq Nat
    /\ Shoppers \cap Editors = {}
    /\ NoCap \notin Int

VARIABLES coupon,       \* the row of the coupon, or NoCoupon
          shopper,      \* shopper[c]: the call of apply_coupon
          editor,       \* editor[u]: the call of update_coupon
          granted,      \* history: the calls of apply_coupon that have succeeded
          mingled       \* history: two calls have been under way at a time

couponVars == <<coupon, shopper, editor, granted, mingled>>

CouponStatus == {"ACTIVE", "EXPIRED", "DISABLED"}

CouponRow == [type : {"PERCENTAGE", "FIXED"}, value : Int, cap : Nat \cup {NoCap},
              minimum : Int, limit : Int, used : Nat, status : CouponStatus]

ASSUME NoCouponAssumption == NoCoupon \notin CouponRow

CouponInit ==
    /\ coupon = NoCoupon
    /\ shopper = [c \in Shoppers |-> [step |-> "idle"]]
    /\ editor = [u \in Editors |-> [step |-> "idle"]]
    /\ granted = 0
    /\ mingled = FALSE

-----------------------------------------------------------------------------
(* The discount.                                                            *)

\* Variant: the quotient is rounded up.
RoundUp(n, d) == (n + d - 1) \div d

\* ROUND_HALF_UP: to the nearest whole, a half away from zero.
HalfUp(n, d) == IF n >= 0 THEN (2 * n + d) \div (2 * d) ELSE - ((d - 2 * n) \div (2 * d))

\* A cap of zero is falsy, so it does not cap.
Capped(terms, discount) ==
    IF terms.cap \notin {NoCap, 0} /\ discount > terms.cap THEN terms.cap ELSE discount

AtMost(amount, discount) == IF discount > amount THEN amount ELSE discount

Discount(terms, amount) ==
    AtMost(amount, IF terms.type = "PERCENTAGE"
                   THEN Capped(terms, HalfUp(amount * terms.value, 10000))
                   ELSE terms.value)

-----------------------------------------------------------------------------
(* create_coupon, delete_coupon and update_coupon.                          *)
Busy == {c \in Shoppers : shopper[c].step \in {"reread", "save"}}
        \cup {u \in Editors : editor[u].step = "save"}

\* The code is unique: a second coupon of the code is refused.  A cap of zero
\* is stored as no cap.
CreateCoupon(terms) ==
    /\ coupon = NoCoupon
    /\ coupon' = [type |-> terms.type, value |-> terms.value,
                  cap |-> IF terms.cap = 0 THEN NoCap ELSE terms.cap,
                  minimum |-> terms.minimum, limit |-> terms.limit,
                  used |-> 0, status |-> "ACTIVE"]
    /\ UNCHANGED <<shopper, editor, granted, mingled>>

DeleteCoupon ==
    /\ coupon # NoCoupon
    /\ coupon' = [coupon EXCEPT !.status = "DISABLED"]
    /\ mingled' = (mingled \/ Busy # {})
    /\ UNCHANGED <<shopper, editor, granted>>

ReadToUpdate(u) ==
    /\ editor[u].step = "idle" /\ coupon # NoCoupon
    /\ editor' = [editor EXCEPT ![u] = [step |-> "save", row |-> coupon]]
    /\ mingled' = (mingled \/ Busy # {})
    /\ UNCHANGED <<coupon, shopper, granted>>

\* The fields of the request, taken as they are.
Changed(row, change) ==
    [field \in DOMAIN row |-> IF field \in DOMAIN change THEN change[field] ELSE row[field]]

\* save() writes every column of the row that was read.
SaveUpdate(u, change) ==
    /\ editor[u].step = "save"
    /\ coupon' = Changed(editor[u].row, change)
    /\ editor' = [editor EXCEPT ![u] = [step |-> "done"]]
    /\ UNCHANGED <<shopper, granted, mingled>>

-----------------------------------------------------------------------------
(* apply_coupon.                                                            *)

\* Variant: one use too many.
ValidPastLimit(amount, own) ==
    /\ coupon # NoCoupon
    /\ coupon.status = "ACTIVE" /\ own
    /\ coupon.used <= coupon.limit
    /\ amount >= coupon.minimum

\* Variant: the status is not looked at.
ValidUnlessUsedUp(amount, own) ==
    /\ coupon # NoCoupon /\ own
    /\ coupon.used < coupon.limit
    /\ amount >= coupon.minimum

\* validate_coupon finds nothing to refuse.  own: the request names the
\* merchant of the coupon, or no merchant.
Valid(amount, own) ==
    /\ coupon # NoCoupon
    /\ coupon.status = "ACTIVE" /\ own
    /\ coupon.used < coupon.limit
    /\ amount >= coupon.minimum

RefuseCoupon(c, amount, own) ==
    /\ shopper[c].step = "idle" /\ ~Valid(amount, own)
    /\ shopper' = [shopper EXCEPT ![c] = [step |-> "refused"]]
    /\ mingled' = (mingled \/ Busy # {})
    /\ UNCHANGED <<coupon, editor, granted>>

\* The first read: the answer of the call is settled here.
ValidateCoupon(c, amount, own) ==
    /\ shopper[c].step = "idle" /\ Valid(amount, own)
    /\ shopper' = [shopper EXCEPT ![c] = [step |-> "reread", amount |-> amount,
                                          terms |-> coupon,
                                          discount |-> Discount(coupon, amount)]]
    /\ mingled' = (mingled \/ Busy # {})
    /\ UNCHANGED <<coupon, editor, granted>>

\* The second.
RereadCoupon(c) ==
    /\ shopper[c].step = "reread"
    /\ shopper' = [shopper EXCEPT ![c] = [step |-> "save", amount |-> @.amount,
                                          terms |-> @.terms, discount |-> @.discount,
                                          used |-> coupon.used + 1]]
    /\ UNCHANGED <<coupon, editor, granted, mingled>>

\* Variant: used_count is what it was.
SaveNothing(c) ==
    /\ shopper[c].step = "save"
    /\ granted' = granted + 1
    /\ shopper' = [shopper EXCEPT ![c] = [step |-> "done", amount |-> @.amount,
                                          terms |-> @.terms, discount |-> @.discount]]
    /\ UNCHANGED <<coupon, editor, mingled>>

\* save(update_fields=["used_count"]).
SaveUse(c) ==
    /\ shopper[c].step = "save"
    /\ coupon' = [coupon EXCEPT !.used = shopper[c].used]
    /\ granted' = granted + 1
    /\ shopper' = [shopper EXCEPT ![c] = [step |-> "done", amount |-> @.amount,
                                          terms |-> @.terms, discount |-> @.discount]]
    /\ UNCHANGED <<editor, mingled>>

-----------------------------------------------------------------------------
CouponsDone == /\ Busy = {} /\ \A c \in Shoppers : shopper[c].step # "idle"
               /\ UNCHANGED couponVars

CouponNext ==
    \/ \E terms \in CouponTerms : CreateCoupon(terms)
    \/ DeleteCoupon
    \/ \E u \in Editors : \/ ReadToUpdate(u)
                          \/ \E change \in CouponChanges : SaveUpdate(u, change)
    \/ \E c \in Shoppers :
          \/ \E amount \in OrderAmounts, own \in BOOLEAN :
                ValidateCoupon(c, amount, own) \/ RefuseCoupon(c, amount, own)
          \/ RereadCoupon(c) \/ SaveUse(c)
    \/ CouponsDone

CouponSpec == CouponInit /\ [][CouponNext]_couponVars

-----------------------------------------------------------------------------
(* Properties.                                                              *)

\* Every variable has its type.
CouponTypeOK ==
    /\ coupon \in CouponRow \cup {NoCoupon}
    /\ \A c \in Shoppers :
          /\ shopper[c].step \in {"idle", "reread", "save", "done", "refused"}
          /\ shopper[c].step = "save" => shopper[c].used \in Nat
    /\ \A u \in Editors : \/ editor[u].step \in {"idle", "done"}
                          \/ editor[u].step = "save" /\ editor[u].row \in CouponRow
    /\ granted \in Nat /\ mingled \in BOOLEAN

\* used_count is never more than the uses granted, and is exact as long as no
\* two calls have been under way at a time (if they have, one overwrites what
\* the other has counted).
UsesAreCounted ==
    /\ coupon = NoCoupon => granted = 0
    /\ coupon # NoCoupon => /\ coupon.used <= granted
                            /\ ~mingled => coupon.used = granted

\* A percentage that is one.
IsShare(terms) == terms.type = "PERCENTAGE" /\ terms.value >= 0 /\ terms.value <= 10000

Within(x, y, distance) == x <= y + distance /\ y <= x + distance

\* What a call is told: a discount of at most the amount and at most the cap,
\* if that is not zero, and, unless the merchant has asked for a negative one,
\* at least nothing and within half a cent of the percentage.
DiscountIsDue ==
    \A c \in Shoppers : shopper[c].step \in {"reread", "save", "done"} =>
        LET s == shopper[c]
            exact == s.amount * s.terms.value
        IN /\ s.discount <= s.amount
           /\ s.terms.type = "PERCENTAGE" /\ s.terms.cap \notin {NoCap, 0}
                => s.discount <= s.terms.cap
           /\ s.terms.value >= 0 => s.discount >= 0
           /\ IsShare(s.terms) /\ s.terms.cap = NoCap
                => Within(2 * 10000 * s.discount, 2 * exact, 10000)

\* Both.
CouponPromise == UsesAreCounted /\ DiscountIsDue

\* As long as no two calls have been under way at a time, a use is granted only
\* of an ACTIVE coupon that is not used up.
GrantIsDue ==
    [][granted' # granted /\ ~mingled =>
            coupon.status = "ACTIVE" /\ granted' <= coupon.limit]_couponVars
=============================================================================
