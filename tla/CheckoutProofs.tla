--------------------------- MODULE CheckoutProofs ---------------------------
(***************************************************************************)
(* Theorems about what a customer pays: Coupons, for any calls, terms,     *)
(* changes and amounts, and Checkout, for any orders, prices, sales and    *)
(* refunds.                                                                *)
(*                                                                         *)
(* A call of Coupons that is between two of its statements holds a copy of *)
(* used_count.  UsesInv bounds every copy by the uses granted, so a stale  *)
(* one can only lower the count; UsesAloneInv says that as long as calls   *)
(* have come one after another there is one copy at most, and it is not    *)
(* stale.  DiscountInv ties the answer of a call to the terms it has read, *)
(* and what is left of DiscountIsDue is arithmetic.                        *)
(*                                                                         *)
(* The balance of Checkout is an equation between sums over sets, so the   *)
(* proof is about which sets and amounts a step changes, and SumProofs     *)
(* says what that does to a sum.  RowInv and ReturnInv give what the       *)
(* equation needs to know: a payment repeats the order, the gateway and    *)
(* the failure of its call, and only captured payments are refunded, so    *)
(* that no step changes the gateway of a payment that has refunds.         *)
(*                                                                         *)
(* A reader of Reports puts its answer together from several queries, and  *)
(* the books move between them.  PaidInv says when an order of the books   *)
(* is PAID and when a payment has been refunded, LedgerInv what one row    *)
(* says of another, and ReadersInv what the queries a reader has already   *)
(* made still say of books that have grown since.                          *)
(***************************************************************************)
EXTENDS Coupons, Reports, SumProofs, SequenceTheorems

-----------------------------------------------------------------------------
(* Coupons.                                                                 *)

ShopperSteps == {"idle", "reread", "save", "done", "refused"}

\* The calls are functions, and the rows they hold are rows.
CouponTypeInv ==
    /\ CouponTypeOK
    /\ shopper = [c \in Shoppers |-> shopper[c]]
    /\ editor = [u \in Editors |-> editor[u]]

\* A call that has validated its coupon answers with what was due then.
DiscountInv ==
    \A c \in Shoppers : shopper[c].step \in {"reread", "save", "done"} =>
        /\ shopper[c].amount \in OrderAmounts
        /\ shopper[c].terms \in CouponRow
        /\ shopper[c].discount = Discount(shopper[c].terms, shopper[c].amount)

\* No copy of used_count is ahead of the uses granted.
UsesInv ==
    /\ coupon = NoCoupon => granted = 0 /\ Busy = {}
    /\ coupon # NoCoupon => coupon.used <= granted
    /\ \A c \in Shoppers : shopper[c].step = "save" => shopper[c].used <= granted + 1
    /\ \A u \in Editors : editor[u].step = "save" => editor[u].row.used <= granted

\* As long as calls come one after another, the only copy is exact, and what
\* validate_coupon has found still holds.
UsesAloneInv == ~mingled =>
    /\ \A x, y \in Busy : x = y
    /\ coupon # NoCoupon => coupon.used = granted
    /\ \A c \in Shoppers :
          /\ shopper[c].step \in {"reread", "save"} =>
                coupon # NoCoupon /\ coupon.status = "ACTIVE" /\ coupon.used < coupon.limit
          /\ shopper[c].step = "save" => shopper[c].used = coupon.used + 1
    /\ \A u \in Editors : editor[u].step = "save" =>
          coupon # NoCoupon /\ editor[u].row.used = coupon.used

CouponInv == CouponTypeInv /\ DiscountInv /\ UsesInv /\ UsesAloneInv

-----------------------------------------------------------------------------
(* Arithmetic.                                                              *)

\* ROUND_HALF_UP is at most half a unit away.
LEMMA HalfUpIsNear ==
    ASSUME NEW n \in Nat
    PROVE  /\ HalfUp(n, 10000) \in Nat
           /\ Within(2 * 10000 * HalfUp(n, 10000), 2 * n, 10000)
<1> DEFINE q == (2 * n + 10000) \div 20000
<1>1. q \in Int /\ 20000 * q <= 2 * n + 10000 /\ 2 * n + 10000 < 20000 * q + 20000
  OBVIOUS
<1>2. q >= 0
  BY <1>1
<1>3. HalfUp(n, 10000) = q
  BY DEF HalfUp
<1> HIDE DEF q
<1>4. Within(2 * 10000 * q, 2 * n, 10000)
  BY <1>1 DEF Within
<1>5. QED
  BY <1>1, <1>2, <1>3, <1>4

LEMMA HalfUpIsInt ==
    ASSUME NEW n \in Int
    PROVE  HalfUp(n, 10000) \in Int
<1>1. (2 * n + 10000) \div 20000 \in Int /\ (10000 - 2 * n) \div 20000 \in Int
  OBVIOUS
<1>2. HalfUp(n, 10000) = IF n >= 0 THEN (2 * n + 10000) \div 20000
                                   ELSE - ((10000 - 2 * n) \div 20000)
  BY DEF HalfUp
<1>3. QED
  BY <1>1, <1>2

\* A percentage of an amount is at most the amount, and not negative if the
\* percentage is not.
LEMMA Product ==
    ASSUME NEW amount \in Nat, NEW value \in Int
    PROVE  /\ amount * value \in Int
           /\ value >= 0 => amount * value >= 0
           /\ value <= 10000 => amount * value <= 10000 * amount
<1>1. amount * value \in Int
  OBVIOUS
<1>2. value >= 0 => amount * value >= 0
  OBVIOUS
<1>3. ASSUME value <= 10000 PROVE amount * value <= 10000 * amount
  <2>1. amount * (10000 - value) >= 0
    BY <1>3
  <2>2. amount * (10000 - value) = 10000 * amount - amount * value
    OBVIOUS
  <2>3. QED
    BY <1>1, <2>1, <2>2
<1>4. QED
  BY <1>1, <1>2, <1>3

\* What _calculate_discount answers for the terms of a coupon.
LEMMA DiscountDue ==
    ASSUME NEW terms \in CouponRow, NEW amount \in Nat
    PROVE  LET discount == Discount(terms, amount)
               exact == amount * terms.value
           IN /\ discount <= amount
              /\ terms.type = "PERCENTAGE" /\ terms.cap \notin {NoCap, 0}
                   => discount <= terms.cap
              /\ terms.value >= 0 => discount >= 0
              /\ IsShare(terms) /\ terms.cap = NoCap
                   => Within(2 * 10000 * discount, 2 * exact, 10000)
<1> DEFINE n == amount * terms.value
           h == HalfUp(n, 10000)
           discount == Discount(terms, amount)
<1> SUFFICES /\ discount <= amount
             /\ terms.type = "PERCENTAGE" /\ terms.cap \notin {NoCap, 0}
                  => discount <= terms.cap
             /\ terms.value >= 0 => discount >= 0
             /\ IsShare(terms) /\ terms.cap = NoCap
                  => Within(2 * 10000 * discount, 2 * n, 10000)
  OBVIOUS
<1>1. terms.value \in Int /\ (terms.cap \in Nat \/ terms.cap = NoCap)
      /\ terms.type \in {"PERCENTAGE", "FIXED"}
  BY DEF CouponRow
<1>2. NoCap \notin Int
  BY CouponsAssumption
<1>3. /\ n \in Int
      /\ terms.value >= 0 => n >= 0
      /\ terms.value <= 10000 => n <= 10000 * amount
  BY <1>1, Product
<1> HIDE DEF n
<1>4. h \in Int
  BY <1>3, HalfUpIsInt
<1>5. terms.value >= 0 => h >= 0 /\ Within(2 * 10000 * h, 2 * n, 10000)
  <2> SUFFICES ASSUME terms.value >= 0
               PROVE  h >= 0 /\ Within(2 * 10000 * h, 2 * n, 10000)
    OBVIOUS
  <2>1. n \in Nat
    BY <1>1, <1>3
  <2>2. QED
    BY <2>1, HalfUpIsNear
<1>6. /\ terms.type = "FIXED" => discount = AtMost(amount, terms.value)
      /\ terms.type = "PERCENTAGE" => discount = AtMost(amount, Capped(terms, h))
  BY DEF Discount, n
<1> HIDE DEF h, discount
<1>7. CASE terms.type = "FIXED"
  <2>1. discount = IF terms.value > amount THEN amount ELSE terms.value
    BY <1>6, <1>7 DEF AtMost
  <2>2. discount <= amount /\ (terms.value >= 0 => discount >= 0)
    BY <1>1, <2>1
  <2>3. QED
    BY <1>7, <2>2 DEF IsShare
<1>8. CASE terms.type = "PERCENTAGE"
  <2> DEFINE capped == IF terms.cap \notin {NoCap, 0} /\ h > terms.cap THEN terms.cap ELSE h
  <2>1. discount = IF capped > amount THEN amount ELSE capped
    BY <1>6, <1>8 DEF AtMost, Capped
  <2>2. capped \in Int /\ (terms.value >= 0 => capped >= 0)
    BY <1>1, <1>2, <1>4, <1>5
  <2>3. terms.cap \notin {NoCap, 0} => capped <= terms.cap
    BY <1>1, <1>2, <1>4
  <2> HIDE DEF capped
  <2>4. discount <= amount /\ (terms.value >= 0 => discount >= 0)
    BY <2>1, <2>2
  <2>5. terms.cap \notin {NoCap, 0} => discount <= terms.cap
    BY <1>1, <2>1, <2>2, <2>3
  <2>6. ASSUME IsShare(terms), terms.cap = NoCap
        PROVE  Within(2 * 10000 * discount, 2 * n, 10000)
    <3>1. capped = h
      BY <2>6 DEF capped
    <3>2. discount = IF h > amount THEN amount ELSE h
      BY <2>1, <3>1
    <3>3. n \in Int /\ n <= 10000 * amount /\ Within(2 * 10000 * h, 2 * n, 10000)
      BY <1>3, <1>5, <2>6 DEF IsShare
    <3>4. CASE h > amount
      <4>1. discount = amount
        BY <3>2, <3>4
      <4>2. Within(2 * 10000 * amount, 2 * n, 10000)
        BY <1>4, <3>3, <3>4 DEF Within
      <4>3. QED
        BY <4>1, <4>2
    <3>5. CASE ~(h > amount)
      BY <3>2, <3>3, <3>5
    <3>6. QED
      BY <3>4, <3>5
  <2>7. QED
    BY <2>4, <2>5, <2>6
<1>9. QED
  BY <1>1, <1>7, <1>8

-----------------------------------------------------------------------------
(* Types.                                                                   *)

\* update_coupon keeps the row a row, and does not touch used_count.
LEMMA ChangedRow ==
    ASSUME NEW row \in CouponRow, NEW change \in CouponChanges
    PROVE  Changed(row, change) \in CouponRow /\ Changed(row, change).used = row.used
<1> DEFINE new == Changed(row, change)
<1>1. DOMAIN row = {"type", "value", "cap", "minimum", "limit", "used", "status"}
  BY DEF CouponRow
<1>2. \A field \in DOMAIN change :
          \/ field \in {"value", "minimum", "limit"} /\ change[field] \in Int
          \/ field = "cap" /\ change[field] \in Nat \cup {NoCap}
          \/ field = "status" /\ change[field] \in CouponStatus
  BY CouponsAssumption DEF CouponStatus
<1>3. new = [type |-> row.type, value |-> new.value, cap |-> new.cap, minimum |-> new.minimum,
             limit |-> new.limit, used |-> row.used, status |-> new.status]
  BY <1>1, <1>2 DEF Changed
<1>4. /\ new.value \in Int /\ new.minimum \in Int /\ new.limit \in Int
      /\ new.cap \in Nat \cup {NoCap} /\ new.status \in CouponStatus
  BY <1>1, <1>2 DEF Changed, CouponRow
<1>5. row.type \in {"PERCENTAGE", "FIXED"} /\ row.used \in Nat
  BY DEF CouponRow
<1>6. QED
  BY <1>3, <1>4, <1>5 DEF CouponRow

LEMMA CouponsBegin == CouponInit => CouponInv
<1> SUFFICES ASSUME CouponInit PROVE CouponInv
  OBVIOUS
<1>1. /\ \A c \in Shoppers : shopper[c].step = "idle"
      /\ \A u \in Editors : editor[u].step = "idle"
  BY DEF CouponInit
<1>2. CouponTypeInv
  BY <1>1 DEF CouponInit, CouponTypeInv, CouponTypeOK
<1>3. Busy = {}
  BY <1>1 DEF Busy
<1>4. DiscountInv /\ UsesInv /\ UsesAloneInv
  BY <1>1, <1>3 DEF CouponInit, DiscountInv, UsesInv, UsesAloneInv
<1>5. QED
  BY <1>2, <1>4 DEF CouponInv
-----------------------------------------------------------------------------
(* What each statement changes, pointwise.                                  *)

\* A statement of call c of apply_coupon.
LEMMA ShopperStep ==
    ASSUME CouponTypeInv, NEW c \in Shoppers, NEW to, shopper' = [shopper EXCEPT ![c] = to]
    PROVE  /\ shopper' = [d \in Shoppers |-> shopper'[d]]
           /\ shopper'[c] = to
           /\ \A d \in Shoppers \ {c} : shopper'[d] = shopper[d]
BY DEF CouponTypeInv

\* A statement of call u of update_coupon.
LEMMA EditorStep ==
    ASSUME CouponTypeInv, NEW u \in Editors, NEW to, editor' = [editor EXCEPT ![u] = to]
    PROVE  /\ editor' = [v \in Editors |-> editor'[v]]
           /\ editor'[u] = to
           /\ \A v \in Editors \ {u} : editor'[v] = editor[v]
BY DEF CouponTypeInv

\* A new coupon is a row.
LEMMA NewCoupon ==
    ASSUME NEW terms \in CouponTerms, CreateCoupon(terms)
    PROVE  coupon' \in CouponRow /\ coupon'.used = 0 /\ coupon' # NoCoupon
<1>1. terms \in [type : {"PERCENTAGE", "FIXED"}, value : Int, cap : Nat \cup {NoCap},
                 minimum : Int, limit : Int]
  BY CouponsAssumption
<1>2. QED
  BY <1>1, NoCouponAssumption DEF CreateCoupon, CouponRow, CouponStatus

\* DISABLED is a status, and a count is a count.
LEMMA RowUpdates ==
    ASSUME NEW row \in CouponRow, NEW used \in Nat
    PROVE  /\ [row EXCEPT !.status = "DISABLED"] \in CouponRow
           /\ [row EXCEPT !.status = "DISABLED"].used = row.used
           /\ [row EXCEPT !.used = used] \in CouponRow
           /\ [row EXCEPT !.used = used].used = used
           /\ [row EXCEPT !.used = used].status = row.status
           /\ [row EXCEPT !.used = used].limit = row.limit
BY DEF CouponRow, CouponStatus

\* The statements.
LEMMA Statements ==
    ASSUME [CouponNext]_couponVars
    PROVE  \/ \E terms \in CouponTerms : CreateCoupon(terms)
           \/ DeleteCoupon
           \/ \E u \in Editors : ReadToUpdate(u)
           \/ \E u \in Editors, change \in CouponChanges : SaveUpdate(u, change)
           \/ \E c \in Shoppers, amount \in OrderAmounts, own \in BOOLEAN : RefuseCoupon(c, amount, own)
           \/ \E c \in Shoppers, amount \in OrderAmounts, own \in BOOLEAN : ValidateCoupon(c, amount, own)
           \/ \E c \in Shoppers : RereadCoupon(c)
           \/ \E c \in Shoppers : SaveUse(c)
           \/ UNCHANGED couponVars
BY DEF CouponNext, CouponsDone

\* A call that is under way has found the coupon.
LEMMA UnderWay ==
    ASSUME CouponTypeInv, UsesInv
    PROVE  /\ \A c \in Shoppers : shopper[c].step \in {"reread", "save"} =>
                  c \in Busy /\ coupon \in CouponRow /\ coupon # NoCoupon
           /\ \A u \in Editors : editor[u].step = "save" =>
                  u \in Busy /\ coupon \in CouponRow /\ coupon # NoCoupon
<1>1. coupon \in CouponRow \cup {NoCoupon}
  BY DEF CouponTypeInv, CouponTypeOK
<1>2. coupon = NoCoupon => Busy = {}
  BY DEF UsesInv
<1>3. \A c \in Shoppers : shopper[c].step \in {"reread", "save"} => c \in Busy
  BY DEF Busy
<1>4. \A u \in Editors : editor[u].step = "save" => u \in Busy
  BY DEF Busy
<1>5. QED
  BY <1>1, <1>2, <1>3, <1>4

LEMMA NextCouponTypes == CouponTypeInv /\ UsesInv /\ [CouponNext]_couponVars => CouponTypeInv'
<1> SUFFICES ASSUME CouponTypeInv /\ UsesInv, [CouponNext]_couponVars PROVE CouponTypeInv'
  OBVIOUS
<1>1. ASSUME NEW terms \in CouponTerms,
             CreateCoupon(terms)
      PROVE  CouponTypeInv'
  BY <1>1, NewCoupon DEF CouponTypeInv, CouponTypeOK, CreateCoupon
<1>2. CASE DeleteCoupon
  BY <1>2, RowUpdates DEF CouponTypeInv, CouponTypeOK, DeleteCoupon
<1>3. ASSUME NEW u \in Editors,
             ReadToUpdate(u)
      PROVE  CouponTypeInv'
  BY <1>3, EditorStep DEF CouponTypeInv, CouponTypeOK, ReadToUpdate
<1>4. ASSUME NEW u \in Editors, NEW change \in CouponChanges,
             SaveUpdate(u, change)
      PROVE  CouponTypeInv'
  BY <1>4, EditorStep, ChangedRow DEF CouponTypeInv, CouponTypeOK, SaveUpdate
<1>5. ASSUME NEW c \in Shoppers, NEW amount \in OrderAmounts, NEW own \in BOOLEAN,
             RefuseCoupon(c, amount, own)
      PROVE  CouponTypeInv'
  BY <1>5, ShopperStep DEF CouponTypeInv, CouponTypeOK, RefuseCoupon
<1>6. ASSUME NEW c \in Shoppers, NEW amount \in OrderAmounts, NEW own \in BOOLEAN,
             ValidateCoupon(c, amount, own)
      PROVE  CouponTypeInv'
  BY <1>6, ShopperStep DEF CouponTypeInv, CouponTypeOK, ValidateCoupon
<1>7. ASSUME NEW c \in Shoppers,
             RereadCoupon(c)
      PROVE  CouponTypeInv'
  <2> DEFINE to == [step |-> "save", amount |-> shopper[c].amount, terms |-> shopper[c].terms,
                    discount |-> shopper[c].discount, used |-> coupon.used + 1]
  <2>1. coupon \in CouponRow
    BY <1>7, UnderWay DEF RereadCoupon
  <2>2. coupon.used + 1 \in Nat
    BY <2>1 DEF CouponRow
  <2>3. to.step = "save" /\ to.used \in Nat
    BY <2>2
  <2>4. shopper' = [shopper EXCEPT ![c] = to]
    BY <1>7 DEF RereadCoupon, CouponTypeInv
  <2> HIDE DEF to
  <2>5. QED
    BY <1>7, <2>3, <2>4, ShopperStep DEF CouponTypeInv, CouponTypeOK, RereadCoupon
<1>8. ASSUME NEW c \in Shoppers,
             SaveUse(c)
      PROVE  CouponTypeInv'
  <2> DEFINE to == [step |-> "done", amount |-> shopper[c].amount, terms |-> shopper[c].terms,
                    discount |-> shopper[c].discount]
  <2>1. coupon \in CouponRow /\ shopper[c].used \in Nat
    BY <1>8, UnderWay DEF SaveUse, CouponTypeInv, CouponTypeOK
  <2>2. coupon' \in CouponRow
    BY <1>8, <2>1, RowUpdates DEF SaveUse
  <2>3. to.step = "done"
    OBVIOUS
  <2>4. shopper' = [shopper EXCEPT ![c] = to]
    BY <1>8 DEF SaveUse, CouponTypeInv
  <2> HIDE DEF to
  <2>5. granted' \in Nat
    BY <1>8 DEF SaveUse, CouponTypeInv, CouponTypeOK
  <2>6. QED
    BY <1>8, <2>2, <2>3, <2>4, <2>5, ShopperStep DEF CouponTypeInv, CouponTypeOK, SaveUse
<1>9. CASE UNCHANGED couponVars
  BY <1>9 DEF CouponTypeInv, CouponTypeOK, couponVars
<1>10. QED
  BY <1>1, <1>2, <1>3, <1>4, <1>5, <1>6, <1>7, <1>8, <1>9, Statements

\* The answers of calls that are under way.
LEMMA NextDiscounts == CouponTypeInv /\ UsesInv /\ DiscountInv /\ [CouponNext]_couponVars => DiscountInv'
<1> SUFFICES ASSUME CouponTypeInv /\ UsesInv /\ DiscountInv, [CouponNext]_couponVars PROVE DiscountInv'
  OBVIOUS
<1>1. ASSUME NEW terms \in CouponTerms,
             CreateCoupon(terms)
      PROVE  DiscountInv'
  BY <1>1 DEF DiscountInv, CreateCoupon
<1>2. CASE DeleteCoupon
  BY <1>2 DEF DiscountInv, DeleteCoupon
<1>3. ASSUME NEW u \in Editors,
             ReadToUpdate(u)
      PROVE  DiscountInv'
  BY <1>3 DEF DiscountInv, ReadToUpdate
<1>4. ASSUME NEW u \in Editors, NEW change \in CouponChanges,
             SaveUpdate(u, change)
      PROVE  DiscountInv'
  BY <1>4 DEF DiscountInv, SaveUpdate
<1>5. ASSUME NEW c \in Shoppers, NEW amount \in OrderAmounts, NEW own \in BOOLEAN,
             RefuseCoupon(c, amount, own)
      PROVE  DiscountInv'
  <2>1. shopper'[c].step = "refused" /\ \A d \in Shoppers \ {c} : shopper'[d] = shopper[d]
    BY <1>5, ShopperStep DEF RefuseCoupon
  <2>2. QED
    BY <2>1 DEF DiscountInv
<1>6. ASSUME NEW c \in Shoppers, NEW amount \in OrderAmounts, NEW own \in BOOLEAN,
             ValidateCoupon(c, amount, own)
      PROVE  DiscountInv'
  <2>1. coupon \in CouponRow
    BY <1>6 DEF ValidateCoupon, Valid, CouponTypeInv, CouponTypeOK
  <2>2. /\ shopper'[c] = [step |-> "reread", amount |-> amount, terms |-> coupon,
                          discount |-> Discount(coupon, amount)]
        /\ \A d \in Shoppers \ {c} : shopper'[d] = shopper[d]
    BY <1>6, ShopperStep DEF ValidateCoupon
  <2>3. QED
    BY <2>1, <2>2 DEF DiscountInv
<1>7. ASSUME NEW c \in Shoppers,
             RereadCoupon(c)
      PROVE  DiscountInv'
  <2>1. /\ shopper'[c] = [step |-> "save", amount |-> shopper[c].amount,
                          terms |-> shopper[c].terms, discount |-> shopper[c].discount,
                          used |-> coupon.used + 1]
        /\ \A d \in Shoppers \ {c} : shopper'[d] = shopper[d]
    BY <1>7, ShopperStep DEF RereadCoupon, CouponTypeInv
  <2>2. shopper[c].step \in {"reread", "save", "done"}
    BY <1>7 DEF RereadCoupon
  <2>3. QED
    BY <2>1, <2>2 DEF DiscountInv
<1>8. ASSUME NEW c \in Shoppers,
             SaveUse(c)
      PROVE  DiscountInv'
  <2>1. /\ shopper'[c] = [step |-> "done", amount |-> shopper[c].amount,
                          terms |-> shopper[c].terms, discount |-> shopper[c].discount]
        /\ \A d \in Shoppers \ {c} : shopper'[d] = shopper[d]
    BY <1>8, ShopperStep DEF SaveUse, CouponTypeInv
  <2>2. shopper[c].step \in {"reread", "save", "done"}
    BY <1>8 DEF SaveUse
  <2>3. QED
    BY <2>1, <2>2 DEF DiscountInv
<1>9. CASE UNCHANGED couponVars
  BY <1>9 DEF DiscountInv, couponVars
<1>10. QED
  BY <1>1, <1>2, <1>3, <1>4, <1>5, <1>6, <1>7, <1>8, <1>9, Statements

\* The copies of used_count.
LEMMA NextUses == CouponTypeInv /\ UsesInv /\ [CouponNext]_couponVars => UsesInv'
<1> SUFFICES ASSUME CouponTypeInv /\ UsesInv, [CouponNext]_couponVars PROVE UsesInv'
  OBVIOUS
<1>a. /\ coupon \in CouponRow \cup {NoCoupon} /\ granted \in Nat
      /\ \A row \in CouponRow : row.used \in Nat /\ row # NoCoupon
      /\ \A c \in Shoppers : shopper[c].step = "save" => shopper[c].used \in Nat
      /\ \A u \in Editors : editor[u].step = "save" => editor[u].row \in CouponRow
  BY NoCouponAssumption DEF CouponTypeInv, CouponTypeOK, CouponRow
<1>1. ASSUME NEW terms \in CouponTerms,
             CreateCoupon(terms)
      PROVE  UsesInv'
  <2>1. coupon'.used = 0 /\ coupon' # NoCoupon /\ granted = 0 /\ Busy = {}
    BY <1>1, NewCoupon DEF CreateCoupon, UsesInv
  <2>2. QED
    BY <1>1, <2>1 DEF CreateCoupon, UsesInv
<1>2. CASE DeleteCoupon
  <2>1. coupon \in CouponRow
    BY <1>2, <1>a DEF DeleteCoupon
  <2>2. coupon' \in CouponRow /\ coupon'.used = coupon.used
    BY <1>2, <2>1, RowUpdates DEF DeleteCoupon
  <2>3. QED
    BY <1>2, <1>a, <2>1, <2>2 DEF DeleteCoupon, UsesInv
<1>3. ASSUME NEW u \in Editors,
             ReadToUpdate(u)
      PROVE  UsesInv'
  <2>1. coupon \in CouponRow /\ coupon # NoCoupon /\ coupon.used <= granted
    BY <1>3, <1>a DEF ReadToUpdate, UsesInv
  <2>2. /\ editor'[u] = [step |-> "save", row |-> coupon]
        /\ \A v \in Editors \ {u} : editor'[v] = editor[v]
    BY <1>3, EditorStep DEF ReadToUpdate
  <2>3. QED
    BY <1>3, <2>1, <2>2 DEF ReadToUpdate, UsesInv
<1>4. ASSUME NEW u \in Editors, NEW change \in CouponChanges,
             SaveUpdate(u, change)
      PROVE  UsesInv'
  <2>1. editor[u].row \in CouponRow /\ editor[u].row.used <= granted
    BY <1>4, <1>a DEF SaveUpdate, UsesInv
  <2>2. coupon' \in CouponRow /\ coupon'.used = editor[u].row.used /\ coupon' # NoCoupon
    BY <1>4, <1>a, <2>1, ChangedRow DEF SaveUpdate
  <2>3. /\ editor'[u] = [step |-> "done"]
        /\ \A v \in Editors \ {u} : editor'[v] = editor[v]
    BY <1>4, EditorStep DEF SaveUpdate
  <2>4. QED
    BY <1>4, <2>1, <2>2, <2>3 DEF SaveUpdate, UsesInv
<1>5. ASSUME NEW c \in Shoppers, NEW amount \in OrderAmounts, NEW own \in BOOLEAN,
             RefuseCoupon(c, amount, own)
      PROVE  UsesInv'
  <2>1. /\ shopper'[c] = [step |-> "refused"]
        /\ \A d \in Shoppers \ {c} : shopper'[d] = shopper[d]
    BY <1>5, ShopperStep DEF RefuseCoupon
  <2>2. Busy' \subseteq Busy
    BY <1>5, <2>1 DEF RefuseCoupon, Busy
  <2>3. QED
    BY <1>5, <2>1, <2>2 DEF RefuseCoupon, UsesInv
<1>6. ASSUME NEW c \in Shoppers, NEW amount \in OrderAmounts, NEW own \in BOOLEAN,
             ValidateCoupon(c, amount, own)
      PROVE  UsesInv'
  <2>1. /\ shopper'[c].step = "reread"
        /\ \A d \in Shoppers \ {c} : shopper'[d] = shopper[d]
    BY <1>6, ShopperStep DEF ValidateCoupon
  <2>2. coupon # NoCoupon
    BY <1>6 DEF ValidateCoupon, Valid
  <2>3. QED
    BY <1>6, <2>1, <2>2 DEF ValidateCoupon, UsesInv
<1>7. ASSUME NEW c \in Shoppers,
             RereadCoupon(c)
      PROVE  UsesInv'
  <2>1. coupon \in CouponRow /\ coupon # NoCoupon /\ coupon.used <= granted
    BY <1>7, UnderWay DEF RereadCoupon, UsesInv
  <2>2. /\ shopper'[c].step = "save" /\ shopper'[c].used = coupon.used + 1
        /\ \A d \in Shoppers \ {c} : shopper'[d] = shopper[d]
    BY <1>7, ShopperStep DEF RereadCoupon, CouponTypeInv
  <2>3. coupon.used + 1 <= granted + 1
    BY <1>a, <2>1
  <2>4. QED
    BY <1>7, <2>1, <2>2, <2>3 DEF RereadCoupon, UsesInv
<1>8. ASSUME NEW c \in Shoppers,
             SaveUse(c)
      PROVE  UsesInv'
  <2>1. coupon \in CouponRow /\ shopper[c].used \in Nat /\ shopper[c].used <= granted + 1
    BY <1>8, <1>a, UnderWay DEF SaveUse, UsesInv
  <2>2. coupon' \in CouponRow /\ coupon'.used = shopper[c].used /\ coupon' # NoCoupon
    BY <1>8, <1>a, <2>1, RowUpdates DEF SaveUse
  <2>3. shopper'[c].step = "done" /\ \A d \in Shoppers \ {c} : shopper'[d] = shopper[d]
    BY <1>8, ShopperStep DEF SaveUse, CouponTypeInv
  <2>4. granted' = granted + 1 /\ editor' = editor
    BY <1>8 DEF SaveUse
  <2>5. \A d \in Shoppers : shopper'[d].step = "save" => shopper'[d].used <= granted' + 1
    <3> SUFFICES ASSUME NEW d \in Shoppers, shopper'[d].step = "save"
                 PROVE  shopper'[d].used <= granted' + 1
      OBVIOUS
    <3>1. shopper'[d] = shopper[d]
      BY <2>3
    <3>2. shopper[d].used \in Nat /\ shopper[d].used <= granted + 1
      BY <1>a, <3>1 DEF UsesInv
    <3>3. QED
      BY <1>a, <2>4, <3>1, <3>2
  <2>6. \A u \in Editors : editor[u].step = "save" => editor[u].row.used <= granted'
    <3> SUFFICES ASSUME NEW u \in Editors, editor[u].step = "save"
                 PROVE  editor[u].row.used <= granted'
      OBVIOUS
    <3>1. editor[u].row.used \in Nat /\ editor[u].row.used <= granted
      BY <1>a DEF UsesInv
    <3>2. QED
      BY <1>a, <2>4, <3>1
  <2>7. QED
    BY <2>1, <2>2, <2>4, <2>5, <2>6 DEF UsesInv
<1>9. CASE UNCHANGED couponVars
  BY <1>9 DEF UsesInv, Busy, couponVars
<1>10. QED
  BY <1>1, <1>2, <1>3, <1>4, <1>5, <1>6, <1>7, <1>8, <1>9, Statements

\* Who is under way, read off Busy.
LEMMA BusyCalls ==
    /\ \A c \in Shoppers : c \in Busy <=> shopper[c].step \in {"reread", "save"}
    /\ \A u \in Editors : u \in Busy <=> editor[u].step = "save"
    /\ \A x \in Busy : x \in Shoppers \/ x \in Editors
BY CouponsAssumption DEF Busy

\* A call that begins or ends alone leaves the row's count exact.
LEMMA NextUsesAlone == CouponTypeInv /\ UsesInv /\ UsesAloneInv /\ [CouponNext]_couponVars => UsesAloneInv'
<1> SUFFICES ASSUME CouponTypeInv /\ UsesInv /\ UsesAloneInv, [CouponNext]_couponVars PROVE UsesAloneInv'
  OBVIOUS
<1>a. /\ coupon \in CouponRow \cup {NoCoupon} /\ granted \in Nat /\ mingled \in BOOLEAN
      /\ \A row \in CouponRow : row.used \in Nat /\ row # NoCoupon
  BY NoCouponAssumption DEF CouponTypeInv, CouponTypeOK, CouponRow
<1>b. Shoppers \cap Editors = {}
  BY CouponsAssumption
<1>1. ASSUME NEW terms \in CouponTerms,
             CreateCoupon(terms)
      PROVE  UsesAloneInv'
  <2>1. coupon'.used = 0 /\ coupon' # NoCoupon /\ granted = 0 /\ Busy = {}
    BY <1>1, NewCoupon DEF CreateCoupon, UsesInv
  <2>2. Busy' = Busy
    BY <1>1 DEF CreateCoupon, Busy
  <2>3. /\ \A d \in Shoppers : shopper[d].step \notin {"reread", "save"}
        /\ \A v \in Editors : editor[v].step # "save"
    BY <2>1, BusyCalls
  <2>4. QED
    BY <1>1, <2>1, <2>2, <2>3 DEF CreateCoupon, UsesAloneInv
<1>2. CASE DeleteCoupon
  <2> SUFFICES ASSUME ~mingled' PROVE UsesAloneInv'
    BY DEF UsesAloneInv
  <2>1. ~mingled /\ Busy = {}
    BY <1>2, <1>a DEF DeleteCoupon
  <2>2. Busy' = Busy
    BY <1>2 DEF DeleteCoupon, Busy
  <2>3. /\ \A d \in Shoppers : shopper[d].step \notin {"reread", "save"}
        /\ \A v \in Editors : editor[v].step # "save"
    BY <2>1, BusyCalls
  <2>4. coupon \in CouponRow /\ coupon.used = granted
    BY <1>2, <1>a, <2>1 DEF DeleteCoupon, UsesAloneInv
  <2>5. coupon'.used = coupon.used
    BY <1>2, <2>4, RowUpdates DEF DeleteCoupon
  <2>6. QED
    BY <1>2, <2>1, <2>2, <2>3, <2>4, <2>5 DEF DeleteCoupon, UsesAloneInv
<1>3. ASSUME NEW u \in Editors,
             ReadToUpdate(u)
      PROVE  UsesAloneInv'
  <2> SUFFICES ASSUME ~mingled' PROVE UsesAloneInv'
    BY DEF UsesAloneInv
  <2>1. ~mingled /\ Busy = {}
    BY <1>3, <1>a DEF ReadToUpdate
  <2>2. /\ \A d \in Shoppers : shopper[d].step \notin {"reread", "save"}
        /\ \A v \in Editors : editor[v].step # "save"
    BY <2>1, BusyCalls
  <2>3. coupon # NoCoupon /\ coupon.used = granted
    BY <1>3, <2>1 DEF ReadToUpdate, UsesAloneInv
  <2>4. /\ editor'[u] = [step |-> "save", row |-> coupon]
        /\ \A v \in Editors \ {u} : editor'[v] = editor[v]
    BY <1>3, EditorStep DEF ReadToUpdate
  <2>5. shopper' = shopper /\ coupon' = coupon /\ granted' = granted
    BY <1>3 DEF ReadToUpdate
  <2>6. Busy' \subseteq {u}
    BY <2>2, <2>4, <2>5 DEF Busy
  <2>7. QED
    BY <2>2, <2>3, <2>4, <2>5, <2>6 DEF UsesAloneInv
<1>4. ASSUME NEW u \in Editors, NEW change \in CouponChanges,
             SaveUpdate(u, change)
      PROVE  UsesAloneInv'
  <2> SUFFICES ASSUME ~mingled PROVE UsesAloneInv'
    BY <1>4 DEF SaveUpdate, UsesAloneInv
  <2>1. u \in Busy /\ \A x \in Busy : x = u
    BY <1>4, BusyCalls DEF SaveUpdate, UsesAloneInv
  <2>2. \A d \in Shoppers : shopper[d].step \notin {"reread", "save"}
    BY <1>b, <2>1, BusyCalls
  <2>3. \A v \in Editors \ {u} : editor[v].step # "save"
    BY <2>1, BusyCalls
  <2>4. coupon # NoCoupon /\ coupon.used = granted /\ editor[u].row.used = coupon.used
    BY <1>4 DEF SaveUpdate, UsesAloneInv
  <2>5. editor[u].row \in CouponRow
    BY <1>4 DEF SaveUpdate, CouponTypeInv, CouponTypeOK
  <2>6. coupon' \in CouponRow /\ coupon'.used = granted
    BY <1>4, <2>4, <2>5, ChangedRow DEF SaveUpdate
  <2>7. /\ editor'[u] = [step |-> "done"]
        /\ \A v \in Editors \ {u} : editor'[v] = editor[v]
    BY <1>4, EditorStep DEF SaveUpdate
  <2>8. shopper' = shopper /\ granted' = granted
    BY <1>4 DEF SaveUpdate
  <2>9. Busy' = {}
    BY <2>2, <2>3, <2>7, <2>8 DEF Busy
  <2>10. QED
    BY <2>2, <2>3, <2>6, <2>7, <2>8, <2>9 DEF UsesAloneInv
<1>5. ASSUME NEW c \in Shoppers, NEW amount \in OrderAmounts, NEW own \in BOOLEAN,
             RefuseCoupon(c, amount, own)
      PROVE  UsesAloneInv'
  <2> SUFFICES ASSUME ~mingled' PROVE UsesAloneInv'
    BY DEF UsesAloneInv
  <2>1. ~mingled /\ Busy = {}
    BY <1>5, <1>a DEF RefuseCoupon
  <2>2. /\ \A d \in Shoppers : shopper[d].step \notin {"reread", "save"}
        /\ \A v \in Editors : editor[v].step # "save"
    BY <2>1, BusyCalls
  <2>3. /\ shopper'[c] = [step |-> "refused"]
        /\ \A d \in Shoppers \ {c} : shopper'[d] = shopper[d]
    BY <1>5, ShopperStep DEF RefuseCoupon
  <2>4. editor' = editor /\ coupon' = coupon /\ granted' = granted
    BY <1>5 DEF RefuseCoupon
  <2>5. \A d \in Shoppers : shopper'[d].step \notin {"reread", "save"}
    BY <2>2, <2>3
  <2>6. Busy' = {}
    BY <2>2, <2>4, <2>5 DEF Busy
  <2>7. QED
    BY <2>1, <2>2, <2>4, <2>5, <2>6 DEF UsesAloneInv
<1>6. ASSUME NEW c \in Shoppers, NEW amount \in OrderAmounts, NEW own \in BOOLEAN,
             ValidateCoupon(c, amount, own)
      PROVE  UsesAloneInv'
  <2> SUFFICES ASSUME ~mingled' PROVE UsesAloneInv'
    BY DEF UsesAloneInv
  <2>1. ~mingled /\ Busy = {}
    BY <1>6, <1>a DEF ValidateCoupon
  <2>2. /\ \A d \in Shoppers : shopper[d].step \notin {"reread", "save"}
        /\ \A v \in Editors : editor[v].step # "save"
    BY <2>1, BusyCalls
  <2>3. /\ coupon # NoCoupon /\ coupon.status = "ACTIVE" /\ coupon.used < coupon.limit
        /\ coupon.used = granted
    BY <1>6, <2>1 DEF ValidateCoupon, Valid, UsesAloneInv
  <2>4. shopper'[c].step = "reread" /\ \A d \in Shoppers \ {c} : shopper'[d] = shopper[d]
    BY <1>6, ShopperStep DEF ValidateCoupon
  <2>5. editor' = editor /\ coupon' = coupon /\ granted' = granted
    BY <1>6 DEF ValidateCoupon
  <2>6. Busy' \subseteq {c}
    BY <2>2, <2>4, <2>5 DEF Busy
  <2>7. QED
    BY <2>2, <2>3, <2>4, <2>5, <2>6 DEF UsesAloneInv
<1>7. ASSUME NEW c \in Shoppers,
             RereadCoupon(c)
      PROVE  UsesAloneInv'
  <2> SUFFICES ASSUME ~mingled PROVE UsesAloneInv'
    BY <1>7 DEF RereadCoupon, UsesAloneInv
  <2>1. c \in Busy /\ \A x \in Busy : x = c
    BY <1>7, BusyCalls DEF RereadCoupon, UsesAloneInv
  <2>2. \A v \in Editors : editor[v].step # "save"
    BY <1>b, <2>1, BusyCalls
  <2>3. \A d \in Shoppers \ {c} : shopper[d].step \notin {"reread", "save"}
    BY <2>1, BusyCalls
  <2>4. /\ coupon # NoCoupon /\ coupon.status = "ACTIVE" /\ coupon.used < coupon.limit
        /\ coupon.used = granted
    BY <1>7 DEF RereadCoupon, UsesAloneInv
  <2>5. /\ shopper'[c].step = "save" /\ shopper'[c].used = coupon.used + 1
        /\ \A d \in Shoppers \ {c} : shopper'[d] = shopper[d]
    BY <1>7, ShopperStep DEF RereadCoupon, CouponTypeInv
  <2>6. editor' = editor /\ coupon' = coupon /\ granted' = granted
    BY <1>7 DEF RereadCoupon
  <2>7. Busy' \subseteq {c}
    BY <2>2, <2>3, <2>5, <2>6 DEF Busy
  <2>8. QED
    BY <2>2, <2>3, <2>4, <2>5, <2>6, <2>7 DEF UsesAloneInv
<1>8. ASSUME NEW c \in Shoppers,
             SaveUse(c)
      PROVE  UsesAloneInv'
  <2> SUFFICES ASSUME ~mingled PROVE UsesAloneInv'
    BY <1>8 DEF SaveUse, UsesAloneInv
  <2>1. c \in Busy /\ \A x \in Busy : x = c
    BY <1>8, BusyCalls DEF SaveUse, UsesAloneInv
  <2>2. \A v \in Editors : editor[v].step # "save"
    BY <1>b, <2>1, BusyCalls
  <2>3. \A d \in Shoppers \ {c} : shopper[d].step \notin {"reread", "save"}
    BY <2>1, BusyCalls
  <2>4. /\ coupon # NoCoupon /\ coupon.used = granted
        /\ shopper[c].used = granted + 1
    BY <1>8 DEF SaveUse, UsesAloneInv
  <2>5. coupon \in CouponRow /\ shopper[c].used \in Nat
    BY <1>8, <1>a, <2>4 DEF SaveUse, CouponTypeInv, CouponTypeOK
  <2>6. coupon'.used = granted + 1
    BY <1>8, <2>4, <2>5, RowUpdates DEF SaveUse
  <2>7. shopper'[c].step = "done" /\ \A d \in Shoppers \ {c} : shopper'[d] = shopper[d]
    BY <1>8, ShopperStep DEF SaveUse, CouponTypeInv
  <2>8. editor' = editor /\ granted' = granted + 1
    BY <1>8 DEF SaveUse
  <2>9. \A d \in Shoppers : shopper'[d].step \notin {"reread", "save"}
    BY <2>3, <2>7
  <2>10. Busy' = {}
    BY <2>2, <2>8, <2>9 DEF Busy
  <2>11. QED
    BY <2>2, <2>6, <2>8, <2>9, <2>10 DEF UsesAloneInv
<1>9. CASE UNCHANGED couponVars
  BY <1>9 DEF UsesAloneInv, Busy, couponVars
<1>10. QED
  BY <1>1, <1>2, <1>3, <1>4, <1>5, <1>6, <1>7, <1>8, <1>9, Statements

LEMMA CouponInvariant == CouponSpec => []CouponInv
<1>1. CouponInit => CouponInv
  BY CouponsBegin
<1>2. CouponInv /\ [CouponNext]_couponVars => CouponInv'
  BY NextCouponTypes, NextDiscounts, NextUses, NextUsesAlone DEF CouponInv
<1>3. QED
  BY <1>1, <1>2, PTL DEF CouponSpec

-----------------------------------------------------------------------------
(* Theorems.                                                                *)

\* Whatever the calls do to each other, the row stays a row.
THEOREM CouponTypes == CouponSpec => []CouponTypeOK
<1>1. CouponInv => CouponTypeOK
  BY DEF CouponInv, CouponTypeInv
<1>2. QED
  BY <1>1, CouponInvariant, PTL

\* used_count is never ahead of the uses granted, and exact until two calls
\* have been under way at a time; and every call is told the discount that the
\* terms it has read give, within half a cent.
THEOREM PromiseIsKept == CouponSpec => []CouponPromise
<1>1. CouponInv => UsesAreCounted
  BY DEF CouponInv, UsesInv, UsesAloneInv, UsesAreCounted
<1>2. CouponInv => DiscountIsDue
  <2> SUFFICES ASSUME CouponInv, NEW c \in Shoppers, shopper[c].step \in {"reread", "save", "done"}
               PROVE  LET s == shopper[c]
                          exact == s.amount * s.terms.value
                      IN /\ s.discount <= s.amount
                         /\ s.terms.type = "PERCENTAGE" /\ s.terms.cap \notin {NoCap, 0}
                              => s.discount <= s.terms.cap
                         /\ s.terms.value >= 0 => s.discount >= 0
                         /\ IsShare(s.terms) /\ s.terms.cap = NoCap
                              => Within(2 * 10000 * s.discount, 2 * exact, 10000)
    BY DEF DiscountIsDue
  <2>1. /\ shopper[c].amount \in Nat /\ shopper[c].terms \in CouponRow
        /\ shopper[c].discount = Discount(shopper[c].terms, shopper[c].amount)
    BY CouponsAssumption DEF CouponInv, DiscountInv
  <2>2. QED
    BY <2>1, DiscountDue
<1>3. QED
  BY <1>1, <1>2, CouponInvariant, PTL DEF CouponPromise

\* Until two calls have been under way at a time, a use is granted only of an
\* ACTIVE coupon that is not used up: what validate_coupon has found still
\* holds when apply_coupon counts the use.
THEOREM OnlyDueGrants == CouponSpec => GrantIsDue
<1>1. ASSUME CouponInv, [CouponNext]_couponVars, granted' # granted, ~mingled
      PROVE  coupon.status = "ACTIVE" /\ granted' <= coupon.limit
  <2>1. PICK c \in Shoppers : SaveUse(c)
    BY <1>1, Statements DEF CreateCoupon, DeleteCoupon, ReadToUpdate, SaveUpdate,
       RefuseCoupon, ValidateCoupon, RereadCoupon, couponVars
  <2>2. /\ coupon # NoCoupon /\ coupon.status = "ACTIVE"
        /\ coupon.used < coupon.limit /\ coupon.used = granted
    BY <1>1, <2>1 DEF CouponInv, UsesAloneInv, SaveUse
  <2>3. coupon.limit \in Int /\ granted \in Nat /\ granted' = granted + 1
    BY <1>1, <2>1, <2>2 DEF CouponInv, CouponTypeInv, CouponTypeOK, CouponRow, SaveUse
  <2>4. QED
    BY <2>2, <2>3
<1>2. CouponInv /\ [CouponNext]_couponVars =>
        [granted' # granted /\ ~mingled =>
            coupon.status = "ACTIVE" /\ granted' <= coupon.limit]_couponVars
  BY <1>1
<1>3. QED
  BY <1>2, CouponInvariant, PTL DEF CouponSpec, GrantIsDue

-----------------------------------------------------------------------------
(* Checkout: the records and the books.                                     *)

Answers == {"CAPTURED", "AUTHORIZED", "CREATED", "FAILED"}
AnsweredSteps == {"insert", "commit", "done", "lost"}

\* The records of a call, by how far it is.
SaleRecord == [step : {"new"}]
              \cup [step : {"charge"}, order : Purchases, gateway : Gateways]
              \cup [step : AnsweredSteps, order : Purchases, gateway : Gateways, answer : Answers]

\* The records, and what the wallet can answer.
SaleInv ==
    /\ sale \in [Sales -> SaleRecord]
    /\ purchase \in [Purchases -> PurchaseRow]
    /\ paymentRow \in [Sales -> PaymentRow \cup {NoPayment}]
    /\ refundRow \in [Returns -> RefundRow \cup {NoRefund}]
    /\ purse \in Purse
    /\ \A p \in Sales : sale[p].step \in AnsweredSteps /\ sale[p].gateway = "WALLET" =>
           sale[p].answer \in {"CAPTURED", "FAILED"}

\* A payment is what its call has recorded; FAILED is for good.
RowInv ==
    \A p \in Sales :
        /\ p \in Recorded <=> sale[p].step = "done"
        /\ p \in Recorded => /\ paymentRow[p].order = sale[p].order
                             /\ paymentRow[p].gateway = sale[p].gateway
                             /\ paymentRow[p].status = "FAILED" <=> sale[p].answer = "FAILED"

\* Only what has been captured is refunded.
ReturnInv ==
    \A r \in Requested :
        /\ refundRow[r].of \in Recorded
        /\ paymentRow[refundRow[r].of].status \in
               {"CAPTURED", "PARTIALLY_REFUNDED", "FULLY_REFUNDED"}

\* What is promised or paid back of a payment is within it.
RoomInv == \A p \in Recorded : SumRefunds(Reserved(p)) <= Amount(p)

\* What the sales paid from the wallet cost.
Spent == SumFunction([p \in Charged |-> Price[sale[p].order]])

BalanceInv == Opening - purse.balance = Spent - SumRefunds(PaidBack)

BooksInv == SaleInv /\ RowInv /\ ReturnInv /\ RoomInv /\ BalanceInv

-----------------------------------------------------------------------------
(* Sums.                                                                    *)

\* SumFunction is the sum of a function over its domain.
LEMMA FunctionSum ==
    ASSUME NEW S, IsFiniteSet(S), NEW f, NEW g, g = [x \in S |-> f[x]]
    PROVE  SumFunction(g) = SumOf(f, S)
<1>1. SumFunction(g) = SumOf(g, DOMAIN g)
  BY DEF SumFunction, SumFunctionOnSet, FoldFunctionOnSet, MapThenFoldSet, SumOf, MapThenSumSet
<1>2. DOMAIN g = S /\ \A x \in S : g[x] = f[x]
  OBVIOUS
<1>3. QED
  BY <1>1, <1>2, SumSame

\* The amounts of refunds, and the costs of sales.
Amounts(rows) == [r \in Returns |-> rows[r].amount]
Costs(calls) == [p \in Sales |-> Price[calls[p].order]]

LEMMA RefundSum ==
    ASSUME NEW rows, NEW R \in SUBSET Returns
    PROVE  SumFunction([r \in R |-> rows[r].amount]) = SumOf(Amounts(rows), R)
<1>1. IsFiniteSet(R)
  BY CheckoutAssumption, FS_Subset
<1>2. [r \in R |-> rows[r].amount] = [r \in R |-> Amounts(rows)[r]]
  BY DEF Amounts
<1>3. QED
  BY <1>1, <1>2, FunctionSum

LEMMA SaleSum ==
    ASSUME NEW calls, NEW S \in SUBSET Sales
    PROVE  SumFunction([p \in S |-> Price[calls[p].order]]) = SumOf(Costs(calls), S)
<1>1. IsFiniteSet(S)
  BY CheckoutAssumption, FS_Subset
<1>2. [p \in S |-> Price[calls[p].order]] = [p \in S |-> Costs(calls)[p]]
  BY DEF Costs
<1>3. QED
  BY <1>1, <1>2, FunctionSum

\* One more refund adds its amount.
LEMMA RefundAdds ==
    ASSUME NEW rows, NEW R \in SUBSET Returns, NEW r \in Returns, r \notin R,
           \A k \in R \cup {r} : rows[k].amount \in Nat
    PROVE  SumFunction([k \in R \cup {r} |-> rows[k].amount]) =
               rows[r].amount + SumFunction([k \in R |-> rows[k].amount])
<1>1. IsFiniteSet(R) /\ R \cup {r} \in SUBSET Returns
  BY CheckoutAssumption, FS_Subset
<1>2. \A k \in R \cup {r} : Amounts(rows)[k] = rows[k].amount
  BY DEF Amounts
<1>3. \A k \in R \cup {r} : Amounts(rows)[k] \in Int
  BY <1>2
<1>4. SumOf(Amounts(rows), R \cup {r}) = Amounts(rows)[r] + SumOf(Amounts(rows), R)
  BY <1>1, <1>3, SumAdd
<1>5. SumFunction([k \in R \cup {r} |-> rows[k].amount]) = SumOf(Amounts(rows), R \cup {r})
  BY <1>1, RefundSum
<1>6. SumFunction([k \in R |-> rows[k].amount]) = SumOf(Amounts(rows), R)
  BY RefundSum
<1>7. QED
  BY <1>2, <1>4, <1>5, <1>6

\* Fewer refunds sum up to no more.
LEMMA RefundFewer ==
    ASSUME NEW rows, NEW R \in SUBSET Returns, NEW T \in SUBSET R,
           \A k \in R : rows[k].amount \in Nat
    PROVE  /\ SumFunction([k \in T |-> rows[k].amount]) \in Nat
           /\ SumFunction([k \in R |-> rows[k].amount]) \in Nat
           /\ SumFunction([k \in T |-> rows[k].amount]) <=
                  SumFunction([k \in R |-> rows[k].amount])
<1>1. IsFiniteSet(R)
  BY CheckoutAssumption, FS_Subset
<1>2. \A k \in R : Amounts(rows)[k] \in Nat
  BY DEF Amounts
<1>3. /\ SumOf(Amounts(rows), T) \in Nat
      /\ SumOf(Amounts(rows), T) <= SumOf(Amounts(rows), R)
      /\ SumOf(Amounts(rows), R) \in Nat
  BY <1>1, <1>2, SumOfFewer, SumIsNat
<1>4. T \in SUBSET Returns
  OBVIOUS
<1>5. SumFunction([k \in T |-> rows[k].amount]) = SumOf(Amounts(rows), T)
  BY <1>4, RefundSum
<1>6. SumFunction([k \in R |-> rows[k].amount]) = SumOf(Amounts(rows), R)
  BY RefundSum
<1>7. QED
  BY <1>3, <1>5, <1>6

\* What sales cost is a natural number.
LEMMA SaleSumIsNat ==
    ASSUME NEW calls, NEW S \in SUBSET Sales, \A q \in S : calls[q].order \in Purchases
    PROVE  SumFunction([q \in S |-> Price[calls[q].order]]) \in Nat
<1>1. IsFiniteSet(S)
  BY CheckoutAssumption, FS_Subset
<1>2. \A o \in Purchases : Price[o] \in Nat
  BY CheckoutAssumption
<1>3. \A q \in S : Costs(calls)[q] = Price[calls[q].order]
  BY DEF Costs
<1>4. \A q \in S : Costs(calls)[q] \in Nat
  BY <1>2, <1>3
<1>5. QED
  BY <1>1, <1>4, SaleSum, SumIsNat

\* One more sale adds its price.
LEMMA SaleAdds ==
    ASSUME NEW calls, NEW S \in SUBSET Sales, NEW p \in Sales, p \notin S,
           \A q \in S \cup {p} : calls[q].order \in Purchases
    PROVE  /\ SumFunction([q \in S |-> Price[calls[q].order]]) \in Nat
           /\ SumFunction([q \in S \cup {p} |-> Price[calls[q].order]]) =
                  Price[calls[p].order] + SumFunction([q \in S |-> Price[calls[q].order]])
<1>1. IsFiniteSet(S) /\ S \cup {p} \in SUBSET Sales
  BY CheckoutAssumption, FS_Subset
<1>2. \A q \in S \cup {p} : Costs(calls)[q] = Price[calls[q].order]
                            /\ Costs(calls)[q] \in Nat
  <2>1. \A o \in Purchases : Price[o] \in Nat
    BY CheckoutAssumption
  <2>2. \A q \in S \cup {p} : Costs(calls)[q] = Price[calls[q].order]
    BY DEF Costs
  <2>3. QED
    BY <2>1, <2>2
<1>3. /\ SumOf(Costs(calls), S \cup {p}) = Costs(calls)[p] + SumOf(Costs(calls), S)
      /\ SumOf(Costs(calls), S) \in Nat
  <2>1. \A q \in S \cup {p} : Costs(calls)[q] \in Int
    BY <1>2
  <2>2. QED
    BY <1>1, <1>2, <2>1, SumAdd, SumIsNat
<1>4. SumFunction([q \in S \cup {p} |-> Price[calls[q].order]]) = SumOf(Costs(calls), S \cup {p})
  BY <1>1, SaleSum
<1>5. SumFunction([q \in S |-> Price[calls[q].order]]) = SumOf(Costs(calls), S)
  BY SaleSum
<1>6. QED
  BY <1>2, <1>3, <1>4, <1>5

-----------------------------------------------------------------------------
(* The records.                                                             *)

\* What the typed state says of one row.
LEMMA Rows ==
    ASSUME SaleInv
    PROVE  /\ \A p \in Recorded : /\ p \in Sales /\ paymentRow[p] \in PaymentRow
                                  /\ Amount(p) \in Nat /\ Amount(p) > 0
           /\ \A r \in Requested : /\ r \in Returns /\ refundRow[r] \in RefundRow
                                   /\ refundRow[r].amount \in Nat /\ refundRow[r].amount > 0
                                   /\ refundRow[r].of \in Sales
           /\ \A p \in Sales : sale[p].step \in AnsweredSteps \cup {"charge"} =>
                 /\ sale[p].order \in Purchases /\ sale[p].gateway \in Gateways
                 /\ Price[sale[p].order] \in Nat
           /\ \A p \in Sales : sale[p].step \in AnsweredSteps => sale[p].answer \in Answers
           /\ \A p \in Sales : sale[p].step \in AnsweredSteps \cup {"new", "charge"}
           /\ purse.balance \in Nat /\ purse.status \in {"ACTIVE", "FROZEN"}
<1> USE DEF SaleInv
<1>0. \A o \in Purchases : Price[o] \in Nat /\ Price[o] > 0
  BY CheckoutAssumption
<1>1. \A p \in Recorded : p \in Sales /\ paymentRow[p] \in PaymentRow
  BY DEF Recorded
<1>2. \A p \in Recorded : Amount(p) \in Nat /\ Amount(p) > 0
  BY <1>0, <1>1 DEF Amount, PaymentRow
<1>3. \A r \in Requested : r \in Returns /\ refundRow[r] \in RefundRow
  BY DEF Requested
<1>4. \A r \in Requested : /\ refundRow[r].amount \in Nat /\ refundRow[r].amount > 0
                           /\ refundRow[r].of \in Sales
  BY <1>3 DEF RefundRow
<1>5. ASSUME NEW p \in Sales, sale[p].step \in AnsweredSteps \cup {"charge"}
      PROVE  sale[p].order \in Purchases /\ sale[p].gateway \in Gateways
  <2>1. sale[p] \in SaleRecord /\ sale[p].step # "new"
    BY <1>5 DEF AnsweredSteps
  <2>2. \/ sale[p] \in [step : {"charge"}, order : Purchases, gateway : Gateways]
        \/ sale[p] \in [step : AnsweredSteps, order : Purchases, gateway : Gateways, answer : Answers]
    BY <2>1 DEF SaleRecord
  <2>3. QED
    BY <2>2
<1>6. ASSUME NEW p \in Sales, sale[p].step \in AnsweredSteps PROVE sale[p].answer \in Answers
  <2>1. sale[p] \in SaleRecord
    OBVIOUS
  <2>2. sale[p] \in [step : AnsweredSteps, order : Purchases, gateway : Gateways, answer : Answers]
    BY <2>1, <1>6 DEF SaleRecord, AnsweredSteps
  <2>3. QED
    BY <2>2
<1>7. \A p \in Sales : sale[p].step \in AnsweredSteps \cup {"new", "charge"}
  BY DEF SaleRecord, AnsweredSteps
<1>8. purse.balance \in Nat /\ purse.status \in {"ACTIVE", "FROZEN"}
  BY DEF Purse
<1>9. QED
  BY <1>0, <1>1, <1>2, <1>3, <1>4, <1>5, <1>6, <1>7, <1>8

\* A call goes on: only its own record changes.
LEMMA SaleStep ==
    ASSUME SaleInv, RowInv, ReturnInv, NEW p \in Sales, NEW rec \in SaleRecord,
           sale' = [sale EXCEPT ![p] = rec],
           rec.step \in AnsweredSteps /\ rec.gateway = "WALLET" => rec.answer \in {"CAPTURED", "FAILED"},
           sale[p].step # "done", rec.step # "done",
           purse' \in Purse, UNCHANGED <<purchase, paymentRow, refundRow>>
    PROVE  SaleInv' /\ RowInv' /\ ReturnInv'
<1>1. /\ sale' \in [Sales -> SaleRecord] /\ sale'[p] = rec
      /\ \A q \in Sales : q # p => sale'[q] = sale[q]
  BY DEF SaleInv
<1>2. SaleInv'
  BY <1>1 DEF SaleInv
<1>3. Recorded' = Recorded /\ Requested' = Requested
  BY DEF Recorded, Requested
<1>4. p \notin Recorded
  BY DEF RowInv
<1>5. RowInv'
  BY <1>1, <1>3, <1>4 DEF RowInv
<1>6. ReturnInv'
  BY <1>3 DEF ReturnInv
<1>7. QED
  BY <1>2, <1>5, <1>6

LEMMA RowsStartSale ==
    ASSUME SaleInv, RowInv, ReturnInv, NEW p \in Sales, NEW o \in Purchases, NEW g \in Gateways,
           StartSale(p, o, g)
    PROVE  SaleInv' /\ RowInv' /\ ReturnInv'
<1>1. PICK rec : rec = [step |-> "charge", order |-> o, gateway |-> g]
  OBVIOUS
<1>2. rec \in SaleRecord /\ rec.step = "charge"
  BY <1>1 DEF SaleRecord
<1>3. /\ sale' = [sale EXCEPT ![p] = rec] /\ sale[p].step = "new"
      /\ purse' \in Purse /\ UNCHANGED <<purchase, paymentRow, refundRow>>
  BY <1>1 DEF StartSale, SaleInv
<1>4. rec.step \notin AnsweredSteps
  BY <1>2 DEF AnsweredSteps
<1>5. QED
  BY <1>2, <1>3, <1>4, SaleStep

\* The wallet's balance after a debit is what the check has left room for.
LEMMA RowsChargeSale ==
    ASSUME SaleInv, RowInv, ReturnInv, NEW p \in Sales, ChargeSale(p)
    PROVE  SaleInv' /\ RowInv' /\ ReturnInv'
<1>1. PICK o, g, answer : /\ o = sale[p].order /\ g = sale[p].gateway
                          /\ answer = GatewayAnswer(g, Price[o])
  OBVIOUS
<1>2. sale[p].step = "charge"
  BY DEF ChargeSale
<1>3. o \in Purchases /\ g \in Gateways /\ Price[o] \in Nat
      /\ purse.balance \in Nat /\ purse.status \in {"ACTIVE", "FROZEN"}
  BY <1>1, <1>2, Rows
<1>4. answer \in Answers /\ (g = "WALLET" => answer \in {"CAPTURED", "FAILED"})
  BY <1>1, <1>3 DEF GatewayAnswer, Gateways, Answers
<1>5. PICK rec : rec = [step |-> "insert", order |-> o, gateway |-> g, answer |-> answer]
  OBVIOUS
<1>6. /\ rec \in SaleRecord /\ rec.step = "insert" /\ rec.gateway = g /\ rec.answer = answer
  BY <1>3, <1>4, <1>5 DEF SaleRecord, AnsweredSteps
<1>7. /\ sale' = [sale EXCEPT ![p] = rec]
      /\ purse' = IF g = "WALLET" /\ answer = "CAPTURED"
                  THEN [purse EXCEPT !.balance = @ - Price[o]] ELSE purse
      /\ UNCHANGED <<purchase, paymentRow, refundRow>>
  BY <1>1, <1>5 DEF ChargeSale
<1>8. purse' \in Purse
  <2>1. CASE g = "WALLET" /\ answer = "CAPTURED"
    <3>1. purse.balance >= Price[o]
      BY <1>1, <2>1 DEF GatewayAnswer, CanDebit
    <3>2. purse.balance - Price[o] \in Nat
      BY <1>3, <3>1
    <3>3. QED
      BY <1>7, <2>1, <3>2 DEF SaleInv, Purse
  <2>2. CASE ~(g = "WALLET" /\ answer = "CAPTURED")
    BY <1>7, <2>2 DEF SaleInv
  <2>3. QED
    BY <2>1, <2>2
<1>9. QED
  BY <1>2, <1>4, <1>6, <1>7, <1>8, SaleStep

\* Stamping a row, or losing a call, changes only how far the call is.
LEMMA RowsMove ==
    ASSUME SaleInv, RowInv, ReturnInv, NEW p \in Sales, NEW st \in {"commit", "lost"},
           sale[p].step \in {"insert", "commit"},
           sale' = [sale EXCEPT ![p].step = st],
           UNCHANGED <<purchase, paymentRow, refundRow, purse>>
    PROVE  SaleInv' /\ RowInv' /\ ReturnInv'
<1>1. PICK o, g, answer : o = sale[p].order /\ g = sale[p].gateway /\ answer = sale[p].answer
  OBVIOUS
<1>2. sale[p].step \in AnsweredSteps /\ sale[p].step # "done"
  BY DEF AnsweredSteps
<1>3. /\ sale[p] \in [step : AnsweredSteps, order : Purchases, gateway : Gateways, answer : Answers]
  <2>1. sale[p] \in SaleRecord
    BY DEF SaleInv
  <2>2. QED
    BY <1>2, <2>1 DEF SaleRecord, AnsweredSteps
<1>4. g = "WALLET" => answer \in {"CAPTURED", "FAILED"}
  BY <1>1, <1>2 DEF SaleInv
<1>5. PICK rec : rec = [sale[p] EXCEPT !.step = st]
  OBVIOUS
<1>6. rec \in SaleRecord /\ rec.step = st /\ rec.gateway = g /\ rec.answer = answer
  BY <1>1, <1>3, <1>5 DEF SaleRecord, AnsweredSteps
<1>7. sale' = [sale EXCEPT ![p] = rec]
  BY <1>5
<1>8. purse' \in Purse
  BY DEF SaleInv
<1>9. QED
  BY <1>2, <1>4, <1>6, <1>7, <1>8, SaleStep

\* The payment recorded is the call's.
LEMMA RowsRecordSale ==
    ASSUME SaleInv, RowInv, ReturnInv, NEW p \in Sales, RecordSale(p)
    PROVE  SaleInv' /\ RowInv' /\ ReturnInv'
<1>1. PICK o, g, answer : o = sale[p].order /\ g = sale[p].gateway /\ answer = sale[p].answer
  OBVIOUS
<1>2. sale[p].step = "commit" /\ sale[p].step \in AnsweredSteps
  BY DEF RecordSale, AnsweredSteps
<1>3. /\ sale[p] \in [step : AnsweredSteps, order : Purchases, gateway : Gateways, answer : Answers]
      /\ o \in Purchases /\ g \in Gateways /\ answer \in Answers
  <2>1. sale[p] \in SaleRecord
    BY DEF SaleInv
  <2>2. sale[p] \in [step : AnsweredSteps, order : Purchases, gateway : Gateways, answer : Answers]
    BY <1>2, <2>1 DEF SaleRecord, AnsweredSteps
  <2>3. QED
    BY <1>1, <2>2
<1>4. PICK row : row = [order |-> o, gateway |-> g, status |-> answer]
  OBVIOUS
<1>5. row \in PaymentRow /\ row.order = o /\ row.gateway = g /\ row.status = answer
  BY <1>3, <1>4 DEF PaymentRow, Answers
<1>6. PICK rec : rec = [sale[p] EXCEPT !.step = "done"]
  OBVIOUS
<1>7. rec \in SaleRecord /\ rec.step = "done" /\ rec.order = o /\ rec.gateway = g
      /\ rec.answer = answer
  BY <1>1, <1>3, <1>6 DEF SaleRecord, AnsweredSteps
<1>8. sale' = [sale EXCEPT ![p] = rec] /\ paymentRow' = [paymentRow EXCEPT ![p] = row]
      /\ UNCHANGED <<refundRow, purse>>
  BY <1>1, <1>4, <1>6 DEF RecordSale
<1>9. /\ sale' \in [Sales -> SaleRecord] /\ sale'[p] = rec
      /\ \A q \in Sales : q # p => sale'[q] = sale[q]
      /\ paymentRow' \in [Sales -> PaymentRow \cup {NoPayment}] /\ paymentRow'[p] = row
      /\ \A q \in Sales : q # p => paymentRow'[q] = paymentRow[q]
  BY <1>5, <1>7, <1>8 DEF SaleInv
<1>10. purchase' \in [Purchases -> PurchaseRow]
  <2>1. \/ purchase' = [purchase EXCEPT ![o] = "PAID"]
        \/ purchase' = [purchase EXCEPT ![o] = "PROCESSING"]
        \/ purchase' = purchase
    BY <1>1, Zenon DEF RecordSale
  <2>2. QED
    BY <1>3, <2>1 DEF SaleInv, PurchaseRow
<1>11. \A q \in Sales : sale'[q].step \in AnsweredSteps /\ sale'[q].gateway = "WALLET" =>
          sale'[q].answer \in {"CAPTURED", "FAILED"}
  BY <1>1, <1>2, <1>7, <1>9 DEF SaleInv
<1>12. SaleInv'
  BY <1>8, <1>9, <1>10, <1>11 DEF SaleInv
<1>13. row # NoPayment /\ Recorded' = Recorded \cup {p} /\ p \notin Recorded
  BY <1>2, <1>5, <1>9, NoRowAssumption DEF Recorded, RowInv
<1>14. RowInv'
  <2> SUFFICES ASSUME NEW q \in Sales
               PROVE  /\ q \in Recorded' <=> sale'[q].step = "done"
                      /\ q \in Recorded' =>
                            /\ paymentRow'[q].order = sale'[q].order
                            /\ paymentRow'[q].gateway = sale'[q].gateway
                            /\ paymentRow'[q].status = "FAILED" <=> sale'[q].answer = "FAILED"
    BY DEF RowInv
  <2>1. CASE q = p
    BY <1>5, <1>7, <1>9, <1>13, <2>1
  <2>2. CASE q # p
    BY <1>9, <1>13, <2>2 DEF RowInv
  <2>3. QED
    BY <2>1, <2>2
<1>15. ReturnInv'
  <2>1. Requested' = Requested /\ refundRow' = refundRow
    BY <1>8 DEF Requested
  <2>2. \A r \in Requested : refundRow[r].of \in Recorded /\ refundRow[r].of # p
                             /\ refundRow[r].of \in Sales
    BY <1>13, Rows DEF ReturnInv
  <2>3. QED
    BY <1>9, <1>13, <2>1, <2>2 DEF ReturnInv
<1>16. QED
  BY <1>12, <1>14, <1>15

\* capture_payment and void_payment leave a FAILED payment, and what a refund
\* was made of, alone.
LEMMA RowsSetSale ==
    ASSUME SaleInv, RowInv, ReturnInv, NEW p \in Recorded,
           NEW status \in {"CAPTURED", "VOIDED"}, NEW orderStatus \in {"PAID", "CANCELLED"},
           SetSale(p, status, orderStatus), paymentRow[p].status # "FAILED",
           \A r \in Requested : refundRow[r].of = p => status = "CAPTURED"
    PROVE  SaleInv' /\ RowInv' /\ ReturnInv'
<1>1. p \in Sales /\ paymentRow[p] \in PaymentRow
  BY Rows
<1>2. PICK row : row = [paymentRow[p] EXCEPT !.status = status]
  OBVIOUS
<1>3. /\ row \in PaymentRow /\ row.order = paymentRow[p].order
      /\ row.gateway = paymentRow[p].gateway /\ row.status = status
      /\ paymentRow[p].order \in Purchases
  BY <1>1, <1>2 DEF PaymentRow
<1>4. /\ paymentRow' = [paymentRow EXCEPT ![p] = row]
      /\ purchase' = [purchase EXCEPT ![paymentRow[p].order] = orderStatus]
      /\ UNCHANGED <<sale, refundRow, purse>>
  BY <1>2 DEF SetSale
<1>5. /\ paymentRow' \in [Sales -> PaymentRow \cup {NoPayment}] /\ paymentRow'[p] = row
      /\ \A q \in Sales : q # p => paymentRow'[q] = paymentRow[q]
  BY <1>1, <1>3, <1>4 DEF SaleInv
<1>6. purchase' \in [Purchases -> PurchaseRow]
  BY <1>3, <1>4 DEF SaleInv, PurchaseRow
<1>7. SaleInv'
  BY <1>4, <1>5, <1>6 DEF SaleInv
<1>8. row # NoPayment /\ Recorded' = Recorded /\ Requested' = Requested
  BY <1>3, <1>4, <1>5, NoRowAssumption DEF Recorded, Requested
<1>9. RowInv'
  BY <1>3, <1>4, <1>5, <1>8 DEF RowInv
<1>10. ReturnInv'
  <2> SUFFICES ASSUME NEW r \in Requested
               PROVE  /\ refundRow[r].of \in Recorded
                      /\ paymentRow'[refundRow[r].of].status \in
                             {"CAPTURED", "PARTIALLY_REFUNDED", "FULLY_REFUNDED"}
    BY <1>4, <1>8 DEF ReturnInv
  <2>1. CASE refundRow[r].of = p
    BY <1>3, <1>5, <2>1
  <2>2. CASE refundRow[r].of # p
    BY <1>5, <2>2, Rows DEF ReturnInv
  <2>3. QED
    BY <2>1, <2>2
<1>11. QED
  BY <1>7, <1>9, <1>10

\* A refund's row is written, and with it perhaps its payment's status.
LEMMA ReturnStep ==
    ASSUME SaleInv, RowInv, ReturnInv, NEW r \in Returns, NEW row \in RefundRow,
           NEW p, p = row.of, p \in Recorded,
           paymentRow[p].status \in {"CAPTURED", "PARTIALLY_REFUNDED", "FULLY_REFUNDED"},
           refundRow' = [refundRow EXCEPT ![r] = row],
           NEW st \in {"PARTIALLY_REFUNDED", "FULLY_REFUNDED"},
           \/ paymentRow' = paymentRow
           \/ paymentRow' = [paymentRow EXCEPT ![p].status = st],
           purse' \in Purse, UNCHANGED <<purchase, sale>>
    PROVE  SaleInv' /\ RowInv' /\ ReturnInv'
<1>1. p \in Sales /\ paymentRow[p] \in PaymentRow
  BY Rows
<1>2. PICK rec : /\ rec = paymentRow'[p]
                 /\ rec = paymentRow[p] \/ rec = [paymentRow[p] EXCEPT !.status = st]
  BY <1>1 DEF SaleInv
<1>3. /\ rec \in PaymentRow /\ rec.order = paymentRow[p].order
      /\ rec.gateway = paymentRow[p].gateway
      /\ rec.status \in {"CAPTURED", "PARTIALLY_REFUNDED", "FULLY_REFUNDED"}
  BY <1>1, <1>2 DEF PaymentRow
<1>4. /\ paymentRow' \in [Sales -> PaymentRow \cup {NoPayment}] /\ paymentRow'[p] = rec
      /\ \A q \in Sales : q # p => paymentRow'[q] = paymentRow[q]
  BY <1>1, <1>2, <1>3 DEF SaleInv
<1>5. /\ refundRow' \in [Returns -> RefundRow \cup {NoRefund}] /\ refundRow'[r] = row
      /\ \A k \in Returns : k # r => refundRow'[k] = refundRow[k]
  BY DEF SaleInv
<1>6. SaleInv'
  BY <1>4, <1>5 DEF SaleInv
<1>7. Recorded' = Recorded
  BY <1>1, <1>3, <1>4, NoRowAssumption DEF Recorded
<1>8. RowInv'
  BY <1>1, <1>3, <1>4, <1>7 DEF RowInv
<1>9. ReturnInv'
  <2> SUFFICES ASSUME NEW k \in Requested'
               PROVE  /\ refundRow'[k].of \in Recorded
                      /\ paymentRow'[refundRow'[k].of].status \in
                             {"CAPTURED", "PARTIALLY_REFUNDED", "FULLY_REFUNDED"}
    BY <1>7 DEF ReturnInv
  <2>1. CASE k = r
    BY <1>3, <1>4, <1>5, <2>1
  <2>2. CASE k # r
    <3>1. k \in Requested /\ refundRow'[k] = refundRow[k]
      BY <1>5, <2>2 DEF Requested
    <3>2. refundRow[k].of \in Sales
      BY <3>1, Rows
    <3>3. QED
      BY <1>3, <1>4, <3>1, <3>2 DEF ReturnInv
  <2>3. QED
    BY <2>1, <2>2
<1>10. QED
  BY <1>6, <1>8, <1>9

LEMMA RowsRequestReturn ==
    ASSUME SaleInv, RowInv, ReturnInv, NEW r \in Returns, NEW p \in Recorded,
           NEW amount \in 1 .. Amount(p), RequestReturn(r, p, amount)
    PROVE  SaleInv' /\ RowInv' /\ ReturnInv'
<1>1. PICK row : row = [of |-> p, amount |-> amount, status |-> "CREATED"]
  OBVIOUS
<1>2. p \in Sales /\ Amount(p) \in Nat
  BY Rows
<1>3. amount \in Nat \ {0}
  BY <1>2
<1>4. row \in RefundRow /\ row.of = p
  BY <1>1, <1>2, <1>3 DEF RefundRow
<1>5. /\ refundRow' = [refundRow EXCEPT ![r] = row]
      /\ paymentRow[p].status \in {"CAPTURED", "PARTIALLY_REFUNDED", "FULLY_REFUNDED"}
      /\ UNCHANGED <<purchase, sale, paymentRow, purse>>
  BY <1>1 DEF RequestReturn
<1>6. purse' \in Purse
  BY <1>5 DEF SaleInv
<1>7. PICK st : st \in {"PARTIALLY_REFUNDED", "FULLY_REFUNDED"}
  OBVIOUS
<1>8. QED
  BY <1>4, <1>5, <1>6, <1>7, ReturnStep

\* What a status of a refund's row changes is that status.
LEMMA ReturnRow ==
    ASSUME SaleInv, NEW r \in Requested, NEW status \in {"PROCESSING", "SUCCESS", "FAILED"}
    PROVE  LET row == [refundRow[r] EXCEPT !.status = status]
           IN /\ row \in RefundRow /\ row.of = refundRow[r].of
              /\ row.amount = refundRow[r].amount /\ row.status = status
<1>1. refundRow[r] \in RefundRow
  BY Rows
<1>2. QED
  BY <1>1 DEF RefundRow

LEMMA RowsTurnReturn ==
    ASSUME SaleInv, RowInv, ReturnInv, NEW r \in Returns, TakeReturn(r) \/ GiveUpReturn(r)
    PROVE  SaleInv' /\ RowInv' /\ ReturnInv'
<1>1. PICK status \in {"PROCESSING", "FAILED"} :
         /\ r \in Requested
         /\ refundRow' = [refundRow EXCEPT ![r].status = status]
         /\ UNCHANGED <<purchase, sale, paymentRow, purse>>
  BY DEF TakeReturn, GiveUpReturn
<1>2. PICK row : row = [refundRow[r] EXCEPT !.status = status]
  OBVIOUS
<1>3. row \in RefundRow /\ row.of = refundRow[r].of
  BY <1>1, <1>2, ReturnRow
<1>4. refundRow' = [refundRow EXCEPT ![r] = row] /\ purse' \in Purse
  BY <1>1, <1>2 DEF SaleInv
<1>5. PICK p : p = row.of
  OBVIOUS
<1>6. /\ p \in Recorded
      /\ paymentRow[p].status \in {"CAPTURED", "PARTIALLY_REFUNDED", "FULLY_REFUNDED"}
  BY <1>1, <1>3, <1>5 DEF ReturnInv
<1>7. PICK st : st \in {"PARTIALLY_REFUNDED", "FULLY_REFUNDED"}
  OBVIOUS
<1>8. QED
  BY <1>1, <1>3, <1>4, <1>5, <1>6, <1>7, ReturnStep

LEMMA RowsPayBack ==
    ASSUME SaleInv, RowInv, ReturnInv, NEW r \in Returns, PayBack(r)
    PROVE  SaleInv' /\ RowInv' /\ ReturnInv'
<1>1. PICK st : st = ReturnStatus(refundRow[r].of)
  OBVIOUS
<1>2. st \in {"PARTIALLY_REFUNDED", "FULLY_REFUNDED"}
  BY <1>1 DEF ReturnStatus
<1>3. /\ r \in Requested
      /\ refundRow' = [refundRow EXCEPT ![r].status = "SUCCESS"]
      /\ paymentRow' = [paymentRow EXCEPT ![refundRow[r].of].status = st]
      /\ \/ purse' = purse
         \/ purse' = [purse EXCEPT !.balance = @ + refundRow[r].amount]
      /\ UNCHANGED <<purchase, sale>>
  BY <1>1 DEF PayBack
<1>4. PICK row : row = [refundRow[r] EXCEPT !.status = "SUCCESS"]
  OBVIOUS
<1>5. row \in RefundRow /\ row.of = refundRow[r].of
  BY <1>3, <1>4, ReturnRow
<1>6. refundRow[r].amount \in Nat /\ purse.balance \in Nat
  BY <1>3, Rows
<1>7. purse' \in Purse
  <2>1. purse.balance + refundRow[r].amount \in Nat
    BY <1>6
  <2>2. QED
    BY <1>3, <2>1 DEF SaleInv, Purse
<1>8. refundRow' = [refundRow EXCEPT ![r] = row]
  BY <1>3, <1>4
<1>9. PICK p : p = row.of
  OBVIOUS
<1>10. /\ p \in Recorded
       /\ paymentRow[p].status \in {"CAPTURED", "PARTIALLY_REFUNDED", "FULLY_REFUNDED"}
  BY <1>3, <1>5, <1>9 DEF ReturnInv
<1>11. QED
  BY <1>2, <1>3, <1>5, <1>7, <1>8, <1>9, <1>10, ReturnStep

LEMMA InductiveRows ==
    ASSUME SaleInv, RowInv, ReturnInv, [CheckoutNext]_checkoutVars
    PROVE  SaleInv' /\ RowInv' /\ ReturnInv'
<1>1. ASSUME NEW p \in Sales, NEW o \in Purchases, NEW g \in Gateways, StartSale(p, o, g)
      PROVE  SaleInv' /\ RowInv' /\ ReturnInv'
  BY <1>1, RowsStartSale
<1>2. ASSUME NEW p \in Sales, ChargeSale(p) PROVE SaleInv' /\ RowInv' /\ ReturnInv'
  BY <1>2, RowsChargeSale
<1>3. ASSUME NEW p \in Sales, StampSale(p) \/ SaleDies(p)
      PROVE  SaleInv' /\ RowInv' /\ ReturnInv'
  <2>1. PICK st \in {"commit", "lost"} :
           /\ sale[p].step \in {"insert", "commit"}
           /\ sale' = [sale EXCEPT ![p].step = st]
           /\ UNCHANGED <<purchase, paymentRow, refundRow, purse>>
    BY <1>3 DEF StampSale, SaleDies
  <2>2. QED
    BY <2>1, RowsMove
<1>4. ASSUME NEW p \in Sales, RecordSale(p) PROVE SaleInv' /\ RowInv' /\ ReturnInv'
  BY <1>4, RowsRecordSale
<1>5. ASSUME NEW p \in Sales, CaptureSale(p) PROVE SaleInv' /\ RowInv' /\ ReturnInv'
  <2>1. p \in Recorded /\ SetSale(p, "CAPTURED", "PAID") /\ paymentRow[p].status # "FAILED"
    BY <1>5 DEF CaptureSale
  <2>2. QED
    BY <2>1, RowsSetSale
<1>6. ASSUME NEW p \in Sales, VoidSale(p) PROVE SaleInv' /\ RowInv' /\ ReturnInv'
  <2>1. /\ p \in Recorded /\ SetSale(p, "VOIDED", "CANCELLED")
        /\ paymentRow[p].status \in {"AUTHORIZED", "VOIDED"}
    BY <1>6 DEF VoidSale
  <2>2. \A r \in Requested : refundRow[r].of # p
    BY <2>1 DEF ReturnInv
  <2>3. QED
    BY <2>1, <2>2, RowsSetSale
<1>7. ASSUME NEW r \in Returns, NEW p \in Recorded, NEW amount \in 1 .. Amount(p),
             RequestReturn(r, p, amount)
      PROVE  SaleInv' /\ RowInv' /\ ReturnInv'
  BY <1>7, RowsRequestReturn
<1>8. ASSUME NEW r \in Returns, TakeReturn(r) \/ GiveUpReturn(r)
      PROVE  SaleInv' /\ RowInv' /\ ReturnInv'
  BY <1>8, RowsTurnReturn
<1>9. ASSUME NEW r \in Returns, PayBack(r) PROVE SaleInv' /\ RowInv' /\ ReturnInv'
  BY <1>9, RowsPayBack
<1>10. ASSUME TurnPurse PROVE SaleInv' /\ RowInv' /\ ReturnInv'
  <2>1. purse' \in Purse /\ UNCHANGED <<purchase, sale, paymentRow, refundRow>>
    BY <1>10 DEF TurnPurse, SaleInv, Purse
  <2>2. Recorded' = Recorded /\ Requested' = Requested
    BY <2>1 DEF Recorded, Requested
  <2>3. QED
    BY <2>1, <2>2 DEF SaleInv, RowInv, ReturnInv
<1>11. ASSUME UNCHANGED checkoutVars PROVE SaleInv' /\ RowInv' /\ ReturnInv'
  <2>1. UNCHANGED <<purchase, sale, paymentRow, refundRow, purse>>
    BY <1>11 DEF checkoutVars
  <2>2. Recorded' = Recorded /\ Requested' = Requested
    BY <2>1 DEF Recorded, Requested
  <2>3. QED
    BY <2>1, <2>2 DEF SaleInv, RowInv, ReturnInv
<1>12. ASSUME NEW o \in Purchases, NEW status \in {"CANCELLED", "EXPIRED"}, CloseOrder(o, status)
       PROVE  SaleInv' /\ RowInv' /\ ReturnInv'
  <2>1. status \in PurchaseRow
    BY DEF PurchaseRow
  <2>2. purchase' = [purchase EXCEPT ![o] = status]
        /\ UNCHANGED <<sale, paymentRow, refundRow, purse>>
    BY <1>12 DEF CloseOrder
  <2>3. purchase' \in [Purchases -> PurchaseRow]
    BY <2>1, <2>2 DEF SaleInv
  <2>4. Recorded' = Recorded /\ Requested' = Requested
    BY <2>2 DEF Recorded, Requested
  <2>5. QED
    BY <2>2, <2>3, <2>4 DEF SaleInv, RowInv, ReturnInv
<1>13. QED
  BY <1>1, <1>2, <1>3, <1>4, <1>5, <1>6, <1>7, <1>8, <1>9, <1>10, <1>11, <1>12, Zenon
     DEF CheckoutNext

-----------------------------------------------------------------------------
(* The money.                                                               *)

\* Nothing promised is nothing to pay.
LEMMA RefundNone ==
    ASSUME NEW rows, NEW R, R = {}
    PROVE  SumFunction([r \in R |-> rows[r].amount]) = 0
<1>1. R \in SUBSET Returns
  OBVIOUS
<1>2. SumFunction([r \in R |-> rows[r].amount]) = SumOf(Amounts(rows), R)
  BY <1>1, RefundSum
<1>3. QED
  BY <1>2, SumEmpty

\* A step that promises nothing new of payment p leaves room for what was.
LEMMA RoomKeeps ==
    ASSUME SaleInv, RoomInv, NEW p \in Recorded, paymentRow'[p].order = paymentRow[p].order,
           Reserved(p)' \subseteq Reserved(p),
           \A r \in Reserved(p) : refundRow'[r].amount = refundRow[r].amount
    PROVE  SumRefunds(Reserved(p))' <= Amount(p)'
<1>1. PICK R, T : R = Reserved(p) /\ T = Reserved(p)'
  OBVIOUS
<1>2. R \in SUBSET Returns /\ T \in SUBSET R /\ \A r \in R : refundRow[r].amount \in Nat
  BY <1>1, Rows DEF Reserved
<1>3. /\ SumFunction([r \in T |-> refundRow[r].amount]) \in Nat
      /\ SumFunction([r \in R |-> refundRow[r].amount]) \in Nat
      /\ SumFunction([r \in T |-> refundRow[r].amount]) <=
             SumFunction([r \in R |-> refundRow[r].amount])
  BY <1>2, RefundFewer
<1>4. [r \in T |-> refundRow'[r].amount] = [r \in T |-> refundRow[r].amount]
  BY <1>1, <1>2
<1>5. SumRefunds(R) = SumFunction([r \in R |-> refundRow[r].amount])
  BY DEF SumRefunds
<1>6. SumRefunds(Reserved(p))' = SumFunction([r \in T |-> refundRow'[r].amount])
  BY <1>1 DEF SumRefunds
<1>7. SumRefunds(R) <= Amount(p) /\ Amount(p)' = Amount(p) /\ Amount(p) \in Nat
  BY <1>1, Rows DEF RoomInv, Amount
<1>8. QED
  BY <1>3, <1>4, <1>5, <1>6, <1>7

\* The balance equation holds as long as none of its terms changes.
LEMMA BalanceKeeps ==
    ASSUME BalanceInv, purse'.balance = purse.balance,
           Charged' = Charged, \A p \in Charged : sale'[p].order = sale[p].order,
           PaidBack' = PaidBack, \A r \in PaidBack : refundRow'[r].amount = refundRow[r].amount
    PROVE  BalanceInv'
<1>1. [p \in Charged' |-> Price[sale'[p].order]] = [p \in Charged |-> Price[sale[p].order]]
  OBVIOUS
<1>2. [r \in PaidBack' |-> refundRow'[r].amount] = [r \in PaidBack |-> refundRow[r].amount]
  OBVIOUS
<1>3. Spent' = Spent /\ SumRefunds(PaidBack)' = SumRefunds(PaidBack)
  BY <1>1, <1>2 DEF Spent, SumRefunds
<1>4. QED
  BY <1>3 DEF BalanceInv

\* A call whose answer was known before, or is not yet, takes no money.
LEMMA ChargedSame ==
    ASSUME SaleInv, NEW p \in Sales, NEW rec, sale' = [sale EXCEPT ![p] = rec],
           rec.step \in AnsweredSteps <=> sale[p].step \in AnsweredSteps,
           rec.step \in AnsweredSteps => /\ rec.gateway = sale[p].gateway
                                   /\ rec.answer = sale[p].answer /\ rec.order = sale[p].order
    PROVE  Charged' = Charged /\ \A q \in Charged : sale'[q].order = sale[q].order
<1>1. sale'[p] = rec /\ \A q \in Sales : q # p => sale'[q] = sale[q]
  BY DEF SaleInv
<1>2. Charged = {q \in Sales : /\ sale[q].step \in AnsweredSteps
                               /\ sale[q].gateway = "WALLET" /\ sale[q].answer = "CAPTURED"}
  BY DEF Charged, AnsweredSteps
<1>3. Charged' = {q \in Sales : /\ sale'[q].step \in AnsweredSteps
                                /\ sale'[q].gateway = "WALLET" /\ sale'[q].answer = "CAPTURED"}
  BY DEF Charged, AnsweredSteps
<1>4. QED
  BY <1>1, <1>2, <1>3

\* Payments that keep their gateway and order, and refunds that are left alone.
LEMMA RefundsSame ==
    ASSUME ReturnInv, refundRow' = refundRow,
           \A p \in Recorded : paymentRow'[p].gateway = paymentRow[p].gateway
    PROVE  /\ PaidBack' = PaidBack /\ Requested' = Requested
           /\ \A p \in Sales : Reserved(p)' = Reserved(p)
<1>1. Requested' = Requested
  BY DEF Requested
<1>2. \A p \in Sales : Reserved(p)' = Reserved(p)
  BY <1>1 DEF Reserved
<1>3. \A r \in Requested : FromWallet(r)' <=> FromWallet(r)
  BY DEF ReturnInv, FromWallet
<1>4. PaidBack' = PaidBack
  BY <1>1, <1>3 DEF PaidBack
<1>5. QED
  BY <1>1, <1>2, <1>4

\* A step of a call that takes no money.
LEMMA MoneyOfCall ==
    ASSUME SaleInv, RowInv, ReturnInv, RoomInv, BalanceInv,
           NEW p \in Sales, NEW rec, sale' = [sale EXCEPT ![p] = rec],
           rec.step \in AnsweredSteps <=> sale[p].step \in AnsweredSteps,
           rec.step \in AnsweredSteps => /\ rec.gateway = sale[p].gateway
                                   /\ rec.answer = sale[p].answer /\ rec.order = sale[p].order,
           UNCHANGED <<paymentRow, refundRow, purse>>
    PROVE  RoomInv' /\ BalanceInv'
<1>1. Charged' = Charged /\ \A q \in Charged : sale'[q].order = sale[q].order
  BY ChargedSame
<1>2. /\ PaidBack' = PaidBack /\ \A q \in Sales : Reserved(q)' = Reserved(q)
      /\ Recorded' = Recorded
  BY RefundsSame DEF Recorded
<1>3. BalanceInv'
  BY <1>1, <1>2, BalanceKeeps
<1>4. \A q \in Recorded : SumRefunds(Reserved(q))' <= Amount(q)'
  BY <1>2, RoomKeeps, Rows
<1>5. QED
  BY <1>2, <1>3, <1>4 DEF RoomInv

\* The gateway's answer: the wallet pays the price of its sale.
LEMMA MoneyCharged ==
    ASSUME SaleInv, RowInv, ReturnInv, RoomInv, BalanceInv, NEW p \in Sales, ChargeSale(p)
    PROVE  RoomInv' /\ BalanceInv'
<1>1. PICK o, g, answer : /\ o = sale[p].order /\ g = sale[p].gateway
                          /\ answer = GatewayAnswer(g, Price[o])
  OBVIOUS
<1>2. PICK rec : rec = [step |-> "insert", order |-> o, gateway |-> g, answer |-> answer]
  OBVIOUS
<1>3. /\ sale[p].step = "charge" /\ sale' = [sale EXCEPT ![p] = rec]
      /\ purse' = IF g = "WALLET" /\ answer = "CAPTURED"
                  THEN [purse EXCEPT !.balance = @ - Price[o]] ELSE purse
      /\ UNCHANGED <<paymentRow, refundRow>>
  BY <1>1, <1>2 DEF ChargeSale
<1>4. o \in Purchases /\ Price[o] \in Nat /\ purse.balance \in Nat
  BY <1>1, <1>3, Rows
<1>5. /\ rec.step = "insert" /\ rec.order = o /\ rec.gateway = g /\ rec.answer = answer
  BY <1>2
<1>6. sale'[p] = rec /\ \A q \in Sales : q # p => sale'[q] = sale[q]
  BY <1>3 DEF SaleInv
<1>7. /\ PaidBack' = PaidBack /\ \A q \in Sales : Reserved(q)' = Reserved(q)
      /\ Recorded' = Recorded
  BY <1>3, RefundsSame DEF Recorded
<1>8. RoomInv'
  <2>1. \A q \in Recorded : SumRefunds(Reserved(q))' <= Amount(q)'
    BY <1>3, <1>7, RoomKeeps, Rows
  <2>2. QED
    BY <1>7, <2>1 DEF RoomInv
<1>9. p \notin Charged
  BY <1>3 DEF Charged
<1>10. SumRefunds(PaidBack)' = SumRefunds(PaidBack)
  BY <1>3, <1>7 DEF SumRefunds
<1>11. CASE g = "WALLET" /\ answer = "CAPTURED"
  <2>1. Charged' = Charged \cup {p}
    BY <1>5, <1>6, <1>9, <1>11 DEF Charged
  <2>2. PICK S : S = Charged
    OBVIOUS
  <2>3. /\ S \in SUBSET Sales /\ p \notin S
        /\ \A q \in S \cup {p} : sale'[q].order \in Purchases /\ Price[sale'[q].order] \in Nat
        /\ \A q \in S : sale'[q].order = sale[q].order
    <3>1. \A q \in S : q \in Sales /\ q # p /\ sale[q].step \in AnsweredSteps
      BY <1>9, <2>2 DEF Charged, AnsweredSteps
    <3>2. QED
      BY <1>4, <1>5, <1>6, <1>9, <2>2, <3>1, Rows
  <2>4. /\ SumFunction([q \in S |-> Price[sale'[q].order]]) \in Nat
        /\ SumFunction([q \in S \cup {p} |-> Price[sale'[q].order]]) =
               Price[sale'[p].order] + SumFunction([q \in S |-> Price[sale'[q].order]])
    BY <2>3, SaleAdds
  <2>5. [q \in S |-> Price[sale'[q].order]] = [q \in S |-> Price[sale[q].order]]
    BY <2>3
  <2>6. Spent = SumFunction([q \in S |-> Price[sale'[q].order]])
    BY <2>2, <2>5 DEF Spent
  <2>7. Spent' = SumFunction([q \in S \cup {p} |-> Price[sale'[q].order]])
    BY <2>1, <2>2 DEF Spent
  <2>8. Price[sale'[p].order] = Price[o]
    BY <1>5, <1>6
  <2>9. Spent \in Nat /\ Spent' = Price[o] + Spent
    BY <2>4, <2>6, <2>7, <2>8
  <2>10. purse'.balance = purse.balance - Price[o]
    BY <1>3, <1>11 DEF SaleInv, Purse
  <2>11. SumRefunds(PaidBack) \in Nat
    <3>1. PaidBack \in SUBSET Returns /\ \A r \in PaidBack : refundRow[r].amount \in Nat
      BY Rows DEF PaidBack
    <3>2. QED
      BY <3>1, RefundFewer DEF SumRefunds
  <2>12. Opening - purse.balance = Spent - SumRefunds(PaidBack) /\ Opening \in Nat
    BY CheckoutAssumption DEF BalanceInv
  <2>13. Opening - purse'.balance = Spent' - SumRefunds(PaidBack)'
    BY <1>4, <1>10, <2>9, <2>10, <2>11, <2>12
  <2>14. BalanceInv'
    BY <2>13 DEF BalanceInv
  <2>15. QED
    BY <1>8, <2>14
<1>12. CASE ~(g = "WALLET" /\ answer = "CAPTURED")
  <2>1. Charged' = Charged
    BY <1>5, <1>6, <1>9, <1>12 DEF Charged
  <2>2. \A q \in Charged : sale'[q].order = sale[q].order
    BY <1>6, <1>9 DEF Charged
  <2>3. purse' = purse
    BY <1>3, <1>12
  <2>4. BalanceInv'
    BY <1>3, <1>7, <2>1, <2>2, <2>3, BalanceKeeps
  <2>5. QED
    BY <1>8, <2>4
<1>13. QED
  BY <1>11, <1>12

\* A new payment has no refunds yet.
LEMMA MoneyRecorded ==
    ASSUME SaleInv, RowInv, ReturnInv, RoomInv, BalanceInv, NEW p \in Sales, RecordSale(p)
    PROVE  RoomInv' /\ BalanceInv'
<1>1. PICK o, g, answer : o = sale[p].order /\ g = sale[p].gateway /\ answer = sale[p].answer
  OBVIOUS
<1>2. PICK row : row = [order |-> o, gateway |-> g, status |-> answer]
  OBVIOUS
<1>3. PICK rec : rec = [sale[p] EXCEPT !.step = "done"]
  OBVIOUS
<1>4. /\ sale[p].step = "commit" /\ sale' = [sale EXCEPT ![p] = rec]
      /\ paymentRow' = [paymentRow EXCEPT ![p] = row] /\ UNCHANGED <<refundRow, purse>>
  BY <1>1, <1>2, <1>3 DEF RecordSale
<1>5. sale[p].step \in AnsweredSteps /\ o \in Purchases /\ Price[o] \in Nat
  BY <1>1, <1>4, Rows DEF AnsweredSteps
<1>6. rec.step = "done" /\ rec.order = o /\ rec.gateway = g /\ rec.answer = answer
  <2>1. sale[p] \in SaleRecord
    BY DEF SaleInv
  <2>2. sale[p] \in [step : AnsweredSteps, order : Purchases, gateway : Gateways, answer : Answers]
    BY <1>4, <2>1 DEF SaleRecord, AnsweredSteps
  <2>3. QED
    BY <1>1, <1>3, <2>2
<1>7. Charged' = Charged /\ \A q \in Charged : sale'[q].order = sale[q].order
  BY <1>1, <1>4, <1>5, <1>6, ChargedSame DEF AnsweredSteps
<1>8. /\ paymentRow'[p] = row /\ row.order = o /\ p \notin Recorded
      /\ \A q \in Sales : q # p => paymentRow'[q] = paymentRow[q]
  BY <1>2, <1>4 DEF SaleInv, RowInv
<1>9. \A q \in Recorded : q # p /\ q \in Sales /\ paymentRow'[q] = paymentRow[q]
  BY <1>8, Rows
<1>10. /\ PaidBack' = PaidBack /\ \A q \in Sales : Reserved(q)' = Reserved(q)
  BY <1>4, <1>9, RefundsSame
<1>11. BalanceInv'
  BY <1>4, <1>7, <1>10, BalanceKeeps
<1>12. RoomInv'
  <2> SUFFICES ASSUME NEW q \in Recorded' PROVE SumRefunds(Reserved(q))' <= Amount(q)'
    BY DEF RoomInv
  <2>0. q \in Sales
    BY DEF Recorded
  <2>1. CASE q = p
    <3>1. PICK R : R = Reserved(p)'
      OBVIOUS
    <3>2. Reserved(p) = {}
      BY <1>8 DEF Reserved, ReturnInv
    <3>3. R = {}
      BY <1>10, <3>1, <3>2
    <3>4. SumRefunds(Reserved(p))' = SumFunction([r \in R |-> refundRow'[r].amount])
      BY <3>1 DEF SumRefunds
    <3>5. SumRefunds(Reserved(p))' = 0
      BY <3>3, <3>4, RefundNone
    <3>6. Amount(p)' = Price[o]
      BY <1>8 DEF Amount
    <3>7. QED
      BY <1>5, <2>1, <3>5, <3>6
  <2>2. CASE q # p
    <3>1. q \in Recorded /\ paymentRow'[q] = paymentRow[q]
      BY <1>8, <2>0, <2>2 DEF Recorded
    <3>2. QED
      BY <1>4, <1>10, <2>0, <3>1, RoomKeeps
  <2>3. QED
    BY <2>1, <2>2
<1>13. QED
  BY <1>11, <1>12

\* A payment's status moves no money.
LEMMA MoneySet ==
    ASSUME SaleInv, RowInv, ReturnInv, RoomInv, BalanceInv, NEW p \in Recorded,
           NEW status, NEW orderStatus, SetSale(p, status, orderStatus)
    PROVE  RoomInv' /\ BalanceInv'
<1>1. /\ paymentRow' = [paymentRow EXCEPT ![p].status = status]
      /\ UNCHANGED <<sale, refundRow, purse>>
  BY DEF SetSale
<1>2. PICK row : row = [paymentRow[p] EXCEPT !.status = status]
  OBVIOUS
<1>3. row.order = paymentRow[p].order /\ row.gateway = paymentRow[p].gateway
  BY <1>2, Rows DEF PaymentRow
<1>4. paymentRow'[p] = row /\ \A q \in Sales : q # p => paymentRow'[q] = paymentRow[q]
  BY <1>1, <1>2, Rows DEF SaleInv
<1>5. \A q \in Recorded : /\ q \in Sales /\ paymentRow'[q].order = paymentRow[q].order
                          /\ paymentRow'[q].gateway = paymentRow[q].gateway
  BY <1>3, <1>4, Rows
<1>6. PaidBack' = PaidBack /\ \A q \in Sales : Reserved(q)' = Reserved(q)
  BY <1>1, <1>5, RefundsSame
<1>7. Charged' = Charged
  BY <1>1 DEF Charged
<1>8. BalanceInv'
  BY <1>1, <1>6, <1>7, BalanceKeeps
<1>9. \A q \in Sales : q \in Recorded' => q \in Recorded
  BY <1>4, Rows DEF Recorded
<1>10. RoomInv'
  <2> SUFFICES ASSUME NEW q \in Recorded' PROVE SumRefunds(Reserved(q))' <= Amount(q)'
    BY DEF RoomInv
  <2>1. q \in Sales /\ q \in Recorded
    BY <1>9 DEF Recorded
  <2>2. QED
    BY <1>1, <1>5, <1>6, <2>1, RoomKeeps
<1>11. QED
  BY <1>8, <1>10

\* create_refund promises what its check has left room for.
LEMMA MoneyRequested ==
    ASSUME SaleInv, RowInv, ReturnInv, RoomInv, BalanceInv, NEW r \in Returns,
           NEW p \in Recorded, NEW amount \in 1 .. Amount(p), RequestReturn(r, p, amount)
    PROVE  RoomInv' /\ BalanceInv'
<1>1. PICK row : row = [of |-> p, amount |-> amount, status |-> "CREATED"]
  OBVIOUS
<1>2. /\ refundRow[r] = NoRefund /\ refundRow' = [refundRow EXCEPT ![r] = row]
      /\ amount <= Amount(p) - SumRefunds(Reserved(p))
      /\ UNCHANGED <<sale, paymentRow, purse>>
  BY <1>1 DEF RequestReturn
<1>3. p \in Sales /\ Amount(p) \in Nat
  BY Rows
<1>4. amount \in Nat \ {0}
  BY <1>3
<1>5. row \in RefundRow /\ row.of = p /\ row.status = "CREATED" /\ row.amount = amount
  BY <1>1, <1>3, <1>4 DEF RefundRow
<1>6. /\ refundRow'[r] = row /\ row # NoRefund /\ r \notin Requested
      /\ \A k \in Returns : k # r => refundRow'[k] = refundRow[k]
  BY <1>2, <1>5, NoRowAssumption DEF SaleInv, Requested
<1>7. Requested' = Requested \cup {r}
  BY <1>6 DEF Requested
<1>8. PaidBack' = PaidBack /\ \A k \in PaidBack : refundRow'[k].amount = refundRow[k].amount
  <2>1. \A k \in Requested : k \in Returns /\ k # r /\ refundRow'[k] = refundRow[k]
    BY <1>6, Rows
  <2>2. \A k \in Requested : FromWallet(k)' <=> FromWallet(k)
    BY <1>2, <2>1 DEF FromWallet
  <2>3. QED
    BY <1>5, <1>6, <1>7, <2>1, <2>2 DEF PaidBack
<1>9. Charged' = Charged
  BY <1>2 DEF Charged
<1>10. BalanceInv'
  BY <1>2, <1>8, <1>9, BalanceKeeps
<1>11. Recorded' = Recorded
  BY <1>2 DEF Recorded
<1>12. RoomInv'
  <2> SUFFICES ASSUME NEW q \in Recorded PROVE SumRefunds(Reserved(q))' <= Amount(q)'
    BY <1>11 DEF RoomInv
  <2>1. CASE q = p
    <3>1. PICK R : R = Reserved(p)
      OBVIOUS
    <3>2. R \in SUBSET Returns /\ r \notin R
      BY <1>6, <3>1, Rows DEF Reserved
    <3>3. Reserved(p)' = R \cup {r}
      BY <1>5, <1>6, <1>7, <3>1, <3>2, Rows DEF Reserved
    <3>4. \A k \in R : refundRow'[k] = refundRow[k] /\ refundRow[k].amount \in Nat
      BY <1>6, <3>1, <3>2, Rows DEF Reserved
    <3>5. \A k \in R \cup {r} : refundRow'[k].amount \in Nat
      BY <1>4, <1>5, <1>6, <3>4
    <3>6. SumFunction([k \in R \cup {r} |-> refundRow'[k].amount]) =
             refundRow'[r].amount + SumFunction([k \in R |-> refundRow'[k].amount])
      BY <3>2, <3>5, RefundAdds
    <3>7. [k \in R |-> refundRow'[k].amount] = [k \in R |-> refundRow[k].amount]
      BY <3>4
    <3>8. SumRefunds(R) = SumFunction([k \in R |-> refundRow'[k].amount])
      BY <3>7 DEF SumRefunds
    <3>9. SumRefunds(Reserved(p))' = SumFunction([k \in R \cup {r} |-> refundRow'[k].amount])
      BY <3>3 DEF SumRefunds
    <3>10. SumRefunds(Reserved(p))' = amount + SumRefunds(R)
      BY <1>5, <1>6, <3>6, <3>8, <3>9
    <3>11. SumRefunds(R) \in Nat
      BY <3>2, <3>4, RefundFewer DEF SumRefunds
    <3>12. Amount(p)' = Amount(p) /\ amount <= Amount(p) - SumRefunds(R)
      BY <1>2, <3>1 DEF Amount
    <3>13. QED
      BY <1>3, <1>4, <2>1, <3>10, <3>11, <3>12
  <2>2. CASE q # p
    <3>1. Reserved(q)' = Reserved(q)
      BY <1>5, <1>6, <1>7, <2>2, Rows DEF Reserved
    <3>2. \A k \in Reserved(q) : refundRow'[k].amount = refundRow[k].amount
      BY <1>6, Rows DEF Reserved
    <3>3. QED
      BY <1>2, <3>1, <3>2, RoomKeeps
  <2>3. QED
    BY <2>1, <2>2
<1>13. QED
  BY <1>10, <1>12

\* A refund under way goes on: nothing new is promised.
LEMMA RoomOfReturn ==
    ASSUME SaleInv, RowInv, ReturnInv, RoomInv, NEW r \in Requested,
           refundRow[r].status \in {"CREATED", "PROCESSING"},
           NEW status \in {"PROCESSING", "SUCCESS", "FAILED"},
           refundRow' = [refundRow EXCEPT ![r].status = status],
           NEW st,
           \/ paymentRow' = paymentRow
           \/ paymentRow' = [paymentRow EXCEPT ![refundRow[r].of].status = st]
    PROVE  /\ RoomInv'
           /\ r \in Returns /\ refundRow'[r].status = status /\ refundRow'[r] # NoRefund
           /\ \A k \in Returns : k # r => refundRow'[k] = refundRow[k]
           /\ Requested' = Requested
           /\ \A k \in Requested : /\ refundRow'[k].of = refundRow[k].of
                                   /\ refundRow'[k].amount = refundRow[k].amount
                                   /\ FromWallet(k)' <=> FromWallet(k)
<1>1. PICK row : row = [refundRow[r] EXCEPT !.status = status]
  OBVIOUS
<1>2. /\ row \in RefundRow /\ row.of = refundRow[r].of /\ row.amount = refundRow[r].amount
      /\ row.status = status
  BY <1>1, ReturnRow
<1>3. r \in Returns /\ refundRow' = [refundRow EXCEPT ![r] = row]
  BY <1>1, Rows
<1>4. /\ refundRow'[r] = row /\ row # NoRefund
      /\ \A k \in Returns : k # r => refundRow'[k] = refundRow[k]
  BY <1>2, <1>3, NoRowAssumption DEF SaleInv
<1>5. Requested' = Requested /\ \A k \in Requested : k \in Returns
  BY <1>3, <1>4 DEF Requested
<1>6. \A k \in Requested : /\ refundRow'[k].of = refundRow[k].of
                           /\ refundRow'[k].amount = refundRow[k].amount
  BY <1>2, <1>4, <1>5
<1>7. PICK p : p = refundRow[r].of
  OBVIOUS
<1>8. p \in Recorded /\ p \in Sales /\ paymentRow[p] \in PaymentRow
  BY <1>7, Rows DEF ReturnInv
<1>9. \A q \in Sales : q # p => paymentRow'[q] = paymentRow[q]
  BY <1>7, <1>8 DEF SaleInv
<1>10. \/ paymentRow'[p] = paymentRow[p]
       \/ paymentRow'[p] = [paymentRow[p] EXCEPT !.status = st]
  BY <1>7, <1>8 DEF SaleInv
<1>11. paymentRow'[p].order = paymentRow[p].order /\ paymentRow'[p].gateway = paymentRow[p].gateway
  BY <1>8, <1>10 DEF PaymentRow
<1>12. \A q \in Recorded : /\ q \in Sales /\ paymentRow'[q].order = paymentRow[q].order
                           /\ paymentRow'[q].gateway = paymentRow[q].gateway
  BY <1>9, <1>11, Rows
<1>13. \A k \in Requested : FromWallet(k)' <=> FromWallet(k)
  BY <1>6, <1>12 DEF FromWallet, ReturnInv
<1>14. ASSUME NEW q \in Recorded PROVE SumRefunds(Reserved(q))' <= Amount(q)'
  <2>1. Reserved(q)' \subseteq Reserved(q)
    <3> SUFFICES ASSUME NEW k \in Reserved(q)' PROVE k \in Reserved(q)
      OBVIOUS
    <3>1. k \in Requested /\ refundRow'[k].of = q /\ refundRow'[k].status # "FAILED"
      BY <1>5 DEF Reserved
    <3>2. CASE k = r
      BY <1>6, <3>1, <3>2 DEF Reserved
    <3>3. CASE k # r
      BY <1>4, <1>5, <3>1, <3>3 DEF Reserved
    <3>4. QED
      BY <3>2, <3>3
  <2>2. \A k \in Reserved(q) : refundRow'[k].amount = refundRow[k].amount
    BY <1>6 DEF Reserved
  <2>3. QED
    BY <1>12, <2>1, <2>2, RoomKeeps
<1>15. \A q \in Sales : q \in Recorded' => q \in Recorded
  BY <1>8, <1>9 DEF Recorded
<1>16. RoomInv'
  BY <1>14, <1>15 DEF RoomInv, Recorded
<1>17. QED
  BY <1>2, <1>3, <1>4, <1>5, <1>6, <1>13, <1>16

\* Taking a refund up, or giving it up, pays nothing.
LEMMA MoneyTurned ==
    ASSUME SaleInv, RowInv, ReturnInv, RoomInv, BalanceInv, NEW r \in Returns,
           TakeReturn(r) \/ GiveUpReturn(r)
    PROVE  RoomInv' /\ BalanceInv'
<1>1. PICK status \in {"PROCESSING", "FAILED"} :
         /\ r \in Requested /\ refundRow[r].status \in {"CREATED", "PROCESSING"}
         /\ refundRow' = [refundRow EXCEPT ![r].status = status]
         /\ UNCHANGED <<purchase, sale, paymentRow, purse>>
  BY DEF TakeReturn, GiveUpReturn
<1>2. /\ RoomInv'
      /\ refundRow'[r].status = status
      /\ \A k \in Returns : k # r => refundRow'[k] = refundRow[k]
      /\ Requested' = Requested
      /\ \A k \in Requested : /\ refundRow'[k].amount = refundRow[k].amount
                              /\ FromWallet(k)' <=> FromWallet(k)
  BY <1>1, RoomOfReturn
<1>3. \A k \in Requested : refundRow'[k].status = "SUCCESS" <=> refundRow[k].status = "SUCCESS"
  BY <1>1, <1>2, Rows
<1>4. PaidBack' = PaidBack /\ \A k \in PaidBack : refundRow'[k].amount = refundRow[k].amount
  BY <1>2, <1>3 DEF PaidBack
<1>5. Charged' = Charged
  BY <1>1 DEF Charged
<1>6. BalanceInv'
  BY <1>1, <1>4, <1>5, BalanceKeeps
<1>7. QED
  BY <1>2, <1>6

\* A refund of a payment made from the wallet returns its amount to it.
LEMMA MoneyPaidBack ==
    ASSUME SaleInv, RowInv, ReturnInv, RoomInv, BalanceInv, NEW r \in Returns, PayBack(r)
    PROVE  RoomInv' /\ BalanceInv'
<1>1. PICK st : st = ReturnStatus(refundRow[r].of)
  OBVIOUS
<1>2. /\ r \in Requested /\ refundRow[r].status = "PROCESSING"
      /\ refundRow' = [refundRow EXCEPT ![r].status = "SUCCESS"]
      /\ paymentRow' = [paymentRow EXCEPT ![refundRow[r].of].status = st]
      /\ purse' = IF FromWallet(r) THEN [purse EXCEPT !.balance = @ + refundRow[r].amount]
                                   ELSE purse
      /\ UNCHANGED <<purchase, sale>>
  BY <1>1 DEF PayBack
<1>3. /\ RoomInv'
      /\ refundRow'[r].status = "SUCCESS"
      /\ \A k \in Returns : k # r => refundRow'[k] = refundRow[k]
      /\ Requested' = Requested
      /\ \A k \in Requested : /\ refundRow'[k].amount = refundRow[k].amount
                              /\ FromWallet(k)' <=> FromWallet(k)
  BY <1>2, RoomOfReturn
<1>4. Charged' = Charged /\ \A q \in Charged : sale'[q].order = sale[q].order
  BY <1>2 DEF Charged
<1>5. Spent' = Spent
  BY <1>2, <1>4 DEF Spent
<1>6. \A k \in Requested : k \in Returns /\ refundRow[k].amount \in Nat
  BY Rows
<1>7. CASE FromWallet(r)
  <2>1. PICK R : R = PaidBack
    OBVIOUS
  <2>2. R \in SUBSET Returns /\ r \notin R /\ \A k \in R : refundRow'[k] = refundRow[k]
    BY <1>2, <1>3, <1>6, <2>1 DEF PaidBack
  <2>3. PaidBack' = R \cup {r}
    BY <1>2, <1>3, <1>6, <1>7, <2>1, <2>2 DEF PaidBack
  <2>4. \A k \in R \cup {r} : /\ refundRow'[k].amount = refundRow[k].amount
                              /\ refundRow'[k].amount \in Nat
    BY <1>2, <1>3, <1>6, <2>1 DEF PaidBack
  <2>5. SumFunction([k \in R \cup {r} |-> refundRow'[k].amount]) =
           refundRow'[r].amount + SumFunction([k \in R |-> refundRow'[k].amount])
    BY <2>2, <2>4, RefundAdds
  <2>6. [k \in R |-> refundRow'[k].amount] = [k \in R |-> refundRow[k].amount]
    BY <2>4
  <2>7. SumRefunds(PaidBack) = SumFunction([k \in R |-> refundRow'[k].amount])
    BY <2>1, <2>6 DEF SumRefunds
  <2>8. SumRefunds(PaidBack)' = SumFunction([k \in R \cup {r} |-> refundRow'[k].amount])
    BY <2>3 DEF SumRefunds
  <2>9. SumRefunds(PaidBack)' = refundRow[r].amount + SumRefunds(PaidBack)
    BY <1>2, <1>3, <2>5, <2>7, <2>8
  <2>10. SumRefunds(PaidBack) \in Nat
    <3>1. \A k \in R : refundRow[k].amount \in Nat
      BY <2>4
    <3>2. QED
      BY <2>1, <2>2, <3>1, RefundFewer DEF SumRefunds
  <2>11. purse'.balance = purse.balance + refundRow[r].amount
    BY <1>2, <1>7 DEF SaleInv, Purse
  <2>12. /\ Opening \in Nat /\ purse.balance \in Nat /\ refundRow[r].amount \in Nat
         /\ Opening - purse.balance = Spent - SumRefunds(PaidBack)
    BY <1>2, Rows, CheckoutAssumption DEF BalanceInv
  <2>13. Spent \in Int
    <3>1. PICK S : S = Charged
      OBVIOUS
    <3>2. S \in SUBSET Sales /\ \A q \in S : sale[q].order \in Purchases
      BY <3>1, Rows DEF Charged, AnsweredSteps
    <3>3. QED
      BY <3>1, <3>2, SaleSumIsNat DEF Spent
  <2>14. Opening - purse'.balance = Spent' - SumRefunds(PaidBack)'
    BY <1>5, <2>9, <2>10, <2>11, <2>12, <2>13
  <2>15. QED
    BY <1>3, <2>14 DEF BalanceInv
<1>8. CASE ~FromWallet(r)
  <2>1. PaidBack' = PaidBack
    BY <1>2, <1>3, <1>6, <1>8 DEF PaidBack
  <2>2. \A k \in PaidBack : refundRow'[k].amount = refundRow[k].amount
    BY <1>3 DEF PaidBack
  <2>3. purse' = purse
    BY <1>2, <1>8
  <2>4. BalanceInv'
    BY <1>4, <2>1, <2>2, <2>3, BalanceKeeps
  <2>5. QED
    BY <1>3, <2>4
<1>9. QED
  BY <1>7, <1>8

\* Nothing is bought or refunded when the wallet is frozen or unfrozen, or in a
\* step of somebody else.
LEMMA MoneyRests ==
    ASSUME SaleInv, RowInv, ReturnInv, RoomInv, BalanceInv,
           UNCHANGED <<sale, paymentRow, refundRow>>, purse'.balance = purse.balance
    PROVE  RoomInv' /\ BalanceInv'
<1>1. Charged' = Charged /\ Recorded' = Recorded
  BY DEF Charged, Recorded
<1>2. PaidBack' = PaidBack /\ \A q \in Sales : Reserved(q)' = Reserved(q)
  BY RefundsSame
<1>3. BalanceInv'
  BY <1>1, <1>2, BalanceKeeps
<1>4. \A q \in Recorded : SumRefunds(Reserved(q))' <= Amount(q)'
  BY <1>2, RoomKeeps, Rows
<1>5. QED
  BY <1>1, <1>3, <1>4 DEF RoomInv

LEMMA InductiveMoney ==
    ASSUME SaleInv, RowInv, ReturnInv, RoomInv, BalanceInv, [CheckoutNext]_checkoutVars
    PROVE  RoomInv' /\ BalanceInv'
<1>1. ASSUME NEW p \in Sales, NEW o \in Purchases, NEW g \in Gateways, StartSale(p, o, g)
      PROVE  RoomInv' /\ BalanceInv'
  <2>1. PICK rec : rec = [step |-> "charge", order |-> o, gateway |-> g]
    OBVIOUS
  <2>2. /\ rec.step = "charge" /\ sale' = [sale EXCEPT ![p] = rec] /\ sale[p].step = "new"
        /\ UNCHANGED <<paymentRow, refundRow, purse>>
    BY <1>1, <2>1 DEF StartSale
  <2>3. rec.step \notin AnsweredSteps /\ sale[p].step \notin AnsweredSteps
    BY <2>2 DEF AnsweredSteps
  <2>4. QED
    BY <2>2, <2>3, MoneyOfCall
<1>2. ASSUME NEW p \in Sales, ChargeSale(p) PROVE RoomInv' /\ BalanceInv'
  BY <1>2, MoneyCharged
<1>3. ASSUME NEW p \in Sales, StampSale(p) \/ SaleDies(p) PROVE RoomInv' /\ BalanceInv'
  <2>1. PICK st \in {"commit", "lost"} :
           /\ sale[p].step \in {"insert", "commit"}
           /\ sale' = [sale EXCEPT ![p].step = st]
           /\ UNCHANGED <<paymentRow, refundRow, purse>>
    BY <1>3 DEF StampSale, SaleDies
  <2>2. PICK rec : rec = [sale[p] EXCEPT !.step = st]
    OBVIOUS
  <2>3. sale[p] \in [step : AnsweredSteps, order : Purchases, gateway : Gateways, answer : Answers]
    <3>1. sale[p] \in SaleRecord
      BY DEF SaleInv
    <3>2. QED
      BY <2>1, <3>1 DEF SaleRecord, AnsweredSteps
  <2>4. /\ rec.step = st /\ rec.order = sale[p].order /\ rec.gateway = sale[p].gateway
        /\ rec.answer = sale[p].answer
    BY <2>2, <2>3
  <2>5. rec.step \in AnsweredSteps /\ sale[p].step \in AnsweredSteps
    BY <2>1, <2>4 DEF AnsweredSteps
  <2>6. QED
    BY <2>1, <2>2, <2>4, <2>5, MoneyOfCall
<1>4. ASSUME NEW p \in Sales, RecordSale(p) PROVE RoomInv' /\ BalanceInv'
  BY <1>4, MoneyRecorded
<1>5. ASSUME NEW p \in Sales, CaptureSale(p) \/ VoidSale(p) PROVE RoomInv' /\ BalanceInv'
  <2>1. \/ p \in Recorded /\ SetSale(p, "CAPTURED", "PAID")
        \/ p \in Recorded /\ SetSale(p, "VOIDED", "CANCELLED")
    BY <1>5 DEF CaptureSale, VoidSale
  <2>2. QED
    BY <2>1, MoneySet
<1>6. ASSUME NEW r \in Returns, NEW p \in Recorded, NEW amount \in 1 .. Amount(p),
             RequestReturn(r, p, amount)
      PROVE  RoomInv' /\ BalanceInv'
  BY <1>6, MoneyRequested
<1>7. ASSUME NEW r \in Returns, TakeReturn(r) \/ GiveUpReturn(r) PROVE RoomInv' /\ BalanceInv'
  BY <1>7, MoneyTurned
<1>8. ASSUME NEW r \in Returns, PayBack(r) PROVE RoomInv' /\ BalanceInv'
  BY <1>8, MoneyPaidBack
<1>9. ASSUME TurnPurse PROVE RoomInv' /\ BalanceInv'
  <2>1. purse'.balance = purse.balance /\ UNCHANGED <<sale, paymentRow, refundRow>>
    BY <1>9 DEF TurnPurse, SaleInv, Purse
  <2>2. QED
    BY <2>1, MoneyRests
<1>10. ASSUME UNCHANGED checkoutVars PROVE RoomInv' /\ BalanceInv'
  <2>1. purse'.balance = purse.balance /\ UNCHANGED <<sale, paymentRow, refundRow>>
    BY <1>10 DEF checkoutVars
  <2>2. QED
    BY <2>1, MoneyRests
<1>11. ASSUME NEW o \in Purchases, NEW status \in {"CANCELLED", "EXPIRED"}, CloseOrder(o, status)
       PROVE  RoomInv' /\ BalanceInv'
  <2>1. purse'.balance = purse.balance /\ UNCHANGED <<sale, paymentRow, refundRow>>
    BY <1>11 DEF CloseOrder
  <2>2. QED
    BY <2>1, MoneyRests
<1>12. QED
  BY <1>1, <1>2, <1>3, <1>4, <1>5, <1>6, <1>7, <1>8, <1>9, <1>10, <1>11, Zenon DEF CheckoutNext

LEMMA BooksBegin == CheckoutInit => BooksInv
<1> SUFFICES ASSUME CheckoutInit PROVE BooksInv
  OBVIOUS
<1>1. PICK new : new = [step |-> "new"]
  OBVIOUS
<1>2. new \in SaleRecord /\ new.step = "new"
  BY <1>1 DEF SaleRecord
<1>3. sale = [p \in Sales |-> new]
  BY <1>1 DEF CheckoutInit
<1>4. \A p \in Sales : sale[p].step = "new"
  BY <1>2, <1>3
<1>5. Recorded = {} /\ Requested = {} /\ Charged = {} /\ PaidBack = {}
  BY <1>4 DEF CheckoutInit, Recorded, Requested, Charged, PaidBack
<1>6. SaleInv
  <2>1. purse \in Purse
    BY CheckoutAssumption DEF CheckoutInit, Purse
  <2>2. \A p \in Sales : sale[p].step \notin AnsweredSteps
    BY <1>4 DEF AnsweredSteps
  <2>3. QED
    BY <1>2, <1>3, <2>1, <2>2 DEF CheckoutInit, SaleInv, PurchaseRow
<1>7. RowInv /\ ReturnInv /\ RoomInv
  BY <1>4, <1>5 DEF RowInv, ReturnInv, RoomInv
<1>8. SumRefunds(PaidBack) = 0
  BY <1>5, RefundNone DEF SumRefunds
<1>9. Spent = 0
  <2>1. PICK S : S = Charged
    OBVIOUS
  <2>2. S \in SUBSET Sales /\ S = {}
    BY <1>5, <2>1
  <2>3. QED
    BY <2>1, <2>2, SaleSum, SumEmpty DEF Spent
<1>10. BalanceInv
  BY <1>8, <1>9, CheckoutAssumption DEF BalanceInv, CheckoutInit
<1>11. QED
  BY <1>6, <1>7, <1>10 DEF BooksInv

\* What BooksInv says, in the words of MoneyIsAccounted.
LEMMA BooksTell == BooksInv => MoneyIsAccounted
<1> SUFFICES ASSUME BooksInv PROVE MoneyIsAccounted
  OBVIOUS
<1> USE DEF BooksInv
<1>1. Opening - purse.balance =
          SumFunction([p \in Charged |-> Price[sale[p].order]]) - SumRefunds(PaidBack)
  BY DEF BalanceInv, Spent
<1>2. ASSUME NEW p \in Sales, p \in Recorded, paymentRow[p].gateway = "WALLET"
      PROVE  p \in Charged <=> paymentRow[p].status # "FAILED"
  <2>1. /\ sale[p].step = "done" /\ sale[p].gateway = "WALLET"
        /\ paymentRow[p].status = "FAILED" <=> sale[p].answer = "FAILED"
    BY <1>2 DEF RowInv
  <2>2. sale[p].answer \in {"CAPTURED", "FAILED"}
    BY <2>1 DEF SaleInv, AnsweredSteps
  <2>3. QED
    BY <2>1, <2>2 DEF Charged
<1>3. ASSUME NEW p \in Charged \ Recorded PROVE sale[p].step \in {"insert", "commit", "lost"}
  BY DEF Charged, RowInv
<1>4. ASSUME NEW p \in Recorded
      PROVE  SumRefunds({r \in PaidBack : refundRow[r].of = p}) <= Amount(p)
  <2>1. PICK R, T : R = Reserved(p) /\ T = {r \in PaidBack : refundRow[r].of = p}
    OBVIOUS
  <2>2. R \in SUBSET Returns /\ T \in SUBSET R /\ \A r \in R : refundRow[r].amount \in Nat
    BY <2>1, Rows DEF Reserved, PaidBack
  <2>3. SumRefunds(T) <= SumRefunds(R) /\ SumRefunds(T) \in Nat /\ SumRefunds(R) \in Nat
    BY <2>2, RefundFewer DEF SumRefunds
  <2>4. SumRefunds(R) <= Amount(p) /\ Amount(p) \in Nat
    BY <2>1, Rows DEF RoomInv
  <2>5. QED
    BY <2>1, <2>3, <2>4
<1>5. QED
  BY <1>1, <1>2, <1>3, <1>4 DEF MoneyIsAccounted

\* What has left the wallet is what the sales paid from it cost, less what was
\* refunded; a debit that no payment tells of belongs to a call that is under
\* way or dead; and no payment gives back more than it cost.
THEOREM MoneyStaysAccounted == CheckoutSpec => []MoneyIsAccounted
<1>1. BooksInv /\ [CheckoutNext]_checkoutVars => BooksInv'
  BY InductiveRows, InductiveMoney DEF BooksInv
<1>2. QED
  BY BooksBegin, <1>1, BooksTell, PTL DEF CheckoutSpec
-----------------------------------------------------------------------------
(* Reports: the books, as readers see them.                                 *)

OnePayment == \A p, q \in Recorded : paymentRow[p].order = paymentRow[q].order => p = q

\* An order is PAID only if a payment of it was captured and is kept, and a
\* payment is refunded, in part or in full, from its first refund on.
PaidFor(o) == \E p \in Recorded : paymentRow[p].order = o /\ paymentRow[p].status \in Kept
PaidInv ==
    /\ \A o \in Purchases : purchase[o] = "PAID" => PaidFor(o)
    /\ \A p \in Recorded :
          paymentRow[p].status \in {"PARTIALLY_REFUNDED", "FULLY_REFUNDED"}
             <=> \E r \in Returned : refundRow[r].of = p

\* The payments that have not failed, and never will.
Sound == Recorded \ WithStatus("FAILED")

-----------------------------------------------------------------------------
(* What readers hold.                                                       *)

Asked(view, k) == {Queries(view)[i] : i \in 1 .. k}
AllAsked(view) == Asked(view, Len(Queries(view)))

DashboardTells(got) == got["captured"] + got["failed"] <= got["payments"]

\* The dashboard so far: what was captured has not failed since.
DashboardGrows(got) ==
    /\ "captured" \in DOMAIN got => got["captured"] <= Cardinality(Sound)
    /\ "failed" \in DOMAIN got => got["failed"] <= Cardinality(WithStatus("FAILED"))
    /\ "payments" \in DOMAIN got => DashboardTells(got)

\* A report so far: what was recorded stays.
ReportGrows(got, asOf) ==
    /\ "summary" \in DOMAIN got => got["summary"] <= Cardinality(Recorded \cap asOf)
    /\ "rows" \in DOMAIN got => got["summary"] <= got["rows"]

\* Reader v has made the first k queries of its view.
IsReading(v, k) ==
    /\ v = [step |-> "reading", plan |-> v.plan, view |-> v.view, todo |-> v.todo, got |-> v.got,
            asOf |-> v.asOf, inFlight |-> v.inFlight, since |-> v.since, raced |-> v.raced,
            moved |-> v.moved]
    /\ v.plan \in Seq(Views) /\ v.view \in Views
    /\ v.asOf \in SUBSET Sales /\ v.inFlight \in SUBSET Sales
    /\ v.since \in Nat /\ v.raced \in BOOLEAN /\ v.moved \in BOOLEAN
    /\ k \in 0 .. Len(Queries(v.view))
    /\ v.todo = SubSeq(Queries(v.view), k + 1, Len(Queries(v.view)))
    /\ v.got \in [Asked(v.view, k) -> Nat]

IsTold(v) ==
    /\ v = [step |-> "told", plan |-> v.plan, view |-> v.view, got |-> v.got,
            inFlight |-> v.inFlight, moved |-> v.moved]
    /\ v.plan \in Seq(Views) /\ v.view \in Views
    /\ v.inFlight \in SUBSET Sales /\ v.moved \in BOOLEAN
    /\ v.got \in [AllAsked(v.view) -> Nat]

IsPlanned(v) == v = Planned(v.plan) /\ v.plan \in Seq(Views)

ReadingTells(v) ==
    /\ v.since = summaries \/ v.raced
    /\ v.view = "dashboard" => DashboardGrows(v.got)
    /\ v.view = "reconciliation" /\ ~v.moved =>
          \A query \in DOMAIN v.got : v.got[query] = Figure(query, {})
    /\ v.view = "transactions" =>
          /\ ReportGrows(v.got, v.asOf)
          /\ v.inFlight = {} => /\ v.asOf \subseteq Recorded
                                /\ \A query \in DOMAIN v.got : v.got[query] = Cardinality(v.asOf)
    /\ v.view = "captured" /\ ~v.moved =>
          \A query \in DOMAIN v.got : v.got[query] = Cardinality(WithStatus("CAPTURED") \cap v.asOf)

ToldTells(v) ==
    /\ v.view = "dashboard" => DashboardTells(v.got)
    /\ v.view = "reconciliation" /\ ~v.moved =>
          \A query \in DOMAIN v.got : v.got[query] = Figure(query, {})
    /\ v.view = "transactions" =>
          /\ v.got["summary"] <= v.got["rows"]
          /\ v.inFlight = {} => v.got["summary"] = v.got["rows"]
    /\ v.view = "captured" /\ ~v.moved => v.got["capturedSummary"] = v.got["capturedRows"]

ReaderHolds(v) == \/ v = Idle \/ IsPlanned(v)
                  \/ IsTold(v) /\ ToldTells(v)
                  \/ (\E k \in Nat : IsReading(v, k)) /\ ReadingTells(v)

\* What the cache holds under key k.
EntryHolds(k, entry) ==
    /\ entry = [got |-> entry.got, since |-> entry.since, raced |-> entry.raced]
    /\ entry.got \in [AllAsked(k) -> Nat]
    /\ entry.since \in Nat /\ entry.raced \in BOOLEAN
    /\ k = "dashboard" => DashboardTells(entry.got)
    /\ k \in Invalidated => entry.since = summaries \/ entry.raced

\* An invoice adds up.
Invoice == [order : Purchases, subtotal : Nat, tax : Nat, total : Nat]

InvoiceHolds(row) ==
    /\ row.order \in Purchases
    /\ 100 * row.tax - 18 * row.subtotal \in -50 .. 50
    /\ row.total = row.subtotal + row.tax

ReadersInv ==
    /\ reader = [x \in Readers |-> reader[x]] /\ \A x \in Readers : ReaderHolds(reader[x])
    /\ cache = [k \in CachedViews |-> cache[k]]
    /\ \A k \in CachedViews : cache[k] # NotCached => EntryHolds(k, cache[k])
    /\ summaries \in 0 .. MaxSummaries
    /\ invoices \in Seq(Invoice)
    /\ \A i \in DOMAIN invoices : InvoiceHolds(invoices[i])
-----------------------------------------------------------------------------
(* The books, as time goes by.                                              *)

\* What the typed state says before and after a step.
RowsHold == SaleInv /\ RowInv /\ ReturnInv

\* A call that has recorded its payment is over.
LEMMA DoneStays ==
    ASSUME RowsHold, [CheckoutNext]_checkoutVars, NEW q \in Sales, sale[q].step = "done"
    PROVE  sale'[q] = sale[q]
<1>1. ASSUME NEW p \in Sales, NEW o \in Purchases, NEW g \in Gateways, StartSale(p, o, g)
      PROVE  sale'[q] = sale[q]
  BY <1>1 DEF StartSale, RowsHold, SaleInv
<1>2. ASSUME NEW p \in Sales, ChargeSale(p) PROVE sale'[q] = sale[q]
  BY <1>2 DEF ChargeSale, RowsHold, SaleInv
<1>3. ASSUME NEW p \in Sales, StampSale(p) \/ SaleDies(p) \/ RecordSale(p)
      PROVE  sale'[q] = sale[q]
  <2>1. sale[p].step \in {"insert", "commit"}
        /\ \E st \in {"commit", "done", "lost"} : sale' = [sale EXCEPT ![p].step = st]
    BY <1>3 DEF StampSale, SaleDies, RecordSale
  <2>2. QED
    BY <2>1 DEF RowsHold, SaleInv
<1>4. ASSUME NEW p \in Sales, CaptureSale(p) \/ VoidSale(p) PROVE sale'[q] = sale[q]
  BY <1>4 DEF CaptureSale, VoidSale, SetSale
<1>5. ASSUME NEW r \in Returns, NEW p \in Recorded, NEW amount \in 1 .. Amount(p),
             RequestReturn(r, p, amount)
      PROVE  sale'[q] = sale[q]
  BY <1>5 DEF RequestReturn
<1>6. ASSUME NEW r \in Returns, TakeReturn(r) \/ PayBack(r) \/ GiveUpReturn(r)
      PROVE  sale'[q] = sale[q]
  BY <1>6 DEF TakeReturn, PayBack, GiveUpReturn
<1>7. ASSUME TurnPurse \/ UNCHANGED checkoutVars PROVE sale'[q] = sale[q]
  BY <1>7 DEF TurnPurse, checkoutVars
<1>8. ASSUME NEW o \in Purchases, NEW status \in {"CANCELLED", "EXPIRED"}, CloseOrder(o, status)
      PROVE  sale'[q] = sale[q]
  BY <1>8 DEF CloseOrder
<1>9. QED
  BY <1>1, <1>2, <1>3, <1>4, <1>5, <1>6, <1>7, <1>8, Zenon DEF CheckoutNext

\* A payment stays, with its order, and has failed at once or never.
LEMMA RecordsStay ==
    ASSUME RowsHold, RowsHold', [CheckoutNext]_checkoutVars
    PROVE  /\ Recorded \subseteq Recorded'
           /\ \A p \in Recorded : /\ paymentRow'[p].order = paymentRow[p].order
                                  /\ paymentRow'[p].status = "FAILED" <=>
                                        paymentRow[p].status = "FAILED"
<1>1. ASSUME NEW p \in Recorded
      PROVE  /\ p \in Recorded'
             /\ paymentRow'[p].order = paymentRow[p].order
             /\ paymentRow'[p].status = "FAILED" <=> paymentRow[p].status = "FAILED"
  <2>1. p \in Sales
    BY DEF Recorded
  <2>2. sale[p].step = "done"
    BY <2>1 DEF RowsHold, RowInv
  <2>3. sale'[p] = sale[p]
    BY <2>1, <2>2, DoneStays
  <2>4. p \in Recorded'
    BY <2>1, <2>2, <2>3 DEF RowsHold, RowInv
  <2>5. QED
    BY <2>1, <2>3, <2>4 DEF RowsHold, RowInv
<1>2. QED
  BY <1>1

-----------------------------------------------------------------------------
(* Orders and refunds follow payments.                                      *)

\* Neither a payment nor what is refunded of it changes.
LEMMA PaidRests ==
    ASSUME PaidInv, UNCHANGED <<purchase, paymentRow>>,
           Returned' = Returned, \A r \in Returned : refundRow'[r].of = refundRow[r].of
    PROVE  PaidInv'
<1>1. Recorded' = Recorded
  BY DEF Recorded
<1>2. QED
  BY <1>1 DEF PaidInv, PaidFor

\* A payment that stays kept pays for its order.
LEMMA PaidForStays ==
    ASSUME NEW o, PaidFor(o),
           \A p \in Recorded : paymentRow[p].status \in Kept =>
               /\ p \in Recorded' /\ paymentRow'[p].order = paymentRow[p].order
               /\ paymentRow'[p].status \in Kept
    PROVE  PaidFor(o)'
BY DEF PaidFor

\* An order that is closed is not PAID.
LEMMA PaidCloseOrder ==
    ASSUME RowsHold, PaidInv, NEW o \in Purchases, NEW status \in {"CANCELLED", "EXPIRED"},
           CloseOrder(o, status)
    PROVE  PaidInv'
<1>1. /\ purchase' = [purchase EXCEPT ![o] = status] /\ UNCHANGED <<paymentRow, refundRow>>
  BY DEF CloseOrder
<1>2. Recorded' = Recorded /\ Returned' = Returned
  BY <1>1 DEF Recorded, Returned, Requested
<1>3. \A x \in Purchases : purchase'[x] = "PAID" => purchase[x] = "PAID"
  BY <1>1 DEF RowsHold, SaleInv
<1>4. \A x \in Purchases : PaidFor(x) => PaidFor(x)'
  BY <1>1, <1>2 DEF PaidFor
<1>5. QED
  BY <1>1, <1>2, <1>3, <1>4 DEF PaidInv

LEMMA PaidRecordSale ==
    ASSUME RowsHold, RowsHold', PaidInv, NEW p \in Sales, RecordSale(p)
    PROVE  PaidInv'
<1>1. PICK o, answer : o = sale[p].order /\ answer = sale[p].answer
  OBVIOUS
<1>2. sale[p].step = "commit" /\ sale[p].step \in AnsweredSteps
  BY DEF RecordSale, AnsweredSteps
<1>3. o \in Purchases /\ answer \in Answers /\ p \notin Recorded
  BY <1>1, <1>2, Rows DEF RowsHold, RowInv
<1>4. PICK row : row = [order |-> o, gateway |-> sale[p].gateway, status |-> answer]
  OBVIOUS
<1>5. /\ paymentRow' = [paymentRow EXCEPT ![p] = row] /\ row.order = o /\ row.status = answer
      /\ refundRow' = refundRow
  BY <1>1, <1>4 DEF RecordSale
<1>6. paymentRow'[p] = row /\ \A q \in Sales : q # p => paymentRow'[q] = paymentRow[q]
  BY <1>5 DEF RowsHold, SaleInv
<1>7. p \in Recorded'
  BY DEF RowsHold, RowInv, RecordSale, SaleInv
<1>8. Recorded' = Recorded \cup {p} /\ \A q \in Recorded : q \in Sales /\ q # p
  BY <1>3, <1>6, <1>7 DEF Recorded
<1>9. /\ answer = "CAPTURED" => purchase'[o] = "PAID"
      /\ answer = "AUTHORIZED" => purchase'[o] = "PROCESSING"
      /\ answer \notin {"CAPTURED", "AUTHORIZED"} => purchase'[o] = purchase[o]
      /\ \A x \in Purchases : x # o => purchase'[x] = purchase[x]
  <2>1. \/ answer = "CAPTURED" /\ purchase' = [purchase EXCEPT ![o] = "PAID"]
        \/ answer = "AUTHORIZED" /\ purchase' = [purchase EXCEPT ![o] = "PROCESSING"]
        \/ answer \notin {"CAPTURED", "AUTHORIZED"} /\ purchase' = purchase
    <3>1. purchase' = CASE answer = "CAPTURED" -> [purchase EXCEPT ![o] = "PAID"]
                        [] answer = "AUTHORIZED" -> [purchase EXCEPT ![o] = "PROCESSING"]
                        [] OTHER -> purchase
      BY <1>1 DEF RecordSale
    <3>2. CASE answer = "CAPTURED"
      BY <3>1, <3>2
    <3>3. CASE answer = "AUTHORIZED"
      BY <3>1, <3>3
    <3>4. CASE answer \notin {"CAPTURED", "AUTHORIZED"}
      BY <3>1, <3>4
    <3>5. QED
      BY <3>2, <3>3, <3>4
  <2>2. QED
    BY <1>3, <2>1 DEF RowsHold, SaleInv
<1>10. ASSUME NEW x \in Purchases, purchase'[x] = "PAID" PROVE PaidFor(x)'
  <2>1. CASE x = o /\ answer = "CAPTURED"
    BY <1>5, <1>6, <1>7, <2>1 DEF PaidFor, Kept
  <2>2. CASE ~(x = o /\ answer = "CAPTURED")
    <3>1. purchase[x] = "PAID"
      BY <1>9, <1>10, <2>2
    <3>2. PaidFor(x)
      BY <3>1 DEF PaidInv
    <3>3. QED
      BY <1>6, <1>8, <3>2, PaidForStays
  <2>3. QED
    BY <2>1, <2>2
<1>11. Returned' = Returned /\ \A r \in Returned : refundRow[r].of \in Recorded
  BY <1>5 DEF Returned, Requested, RowsHold, ReturnInv
<1>12. ASSUME NEW q \in Recorded'
       PROVE  paymentRow'[q].status \in {"PARTIALLY_REFUNDED", "FULLY_REFUNDED"}
                 <=> \E r \in Returned' : refundRow'[r].of = q
  <2>1. CASE q = p
    <3>1. paymentRow'[q].status \notin {"PARTIALLY_REFUNDED", "FULLY_REFUNDED"}
      BY <1>3, <1>5, <1>6, <2>1 DEF Answers
    <3>2. \A r \in Returned' : refundRow'[r].of # q
      BY <1>3, <1>5, <1>11, <2>1
    <3>3. QED
      BY <3>1, <3>2
  <2>2. CASE q # p
    BY <1>5, <1>6, <1>8, <1>11, <2>2 DEF PaidInv
  <2>3. QED
    BY <2>1, <2>2
<1>13. QED
  BY <1>10, <1>12 DEF PaidInv

LEMMA PaidSetSale ==
    ASSUME RowsHold, RowsHold', PaidInv, NEW p \in Recorded,
           \/ paymentRow[p].status \in {"CREATED", "AUTHORIZED", "CAPTURED"}
              /\ SetSale(p, "CAPTURED", "PAID")
           \/ paymentRow[p].status \in {"AUTHORIZED", "VOIDED"}
              /\ SetSale(p, "VOIDED", "CANCELLED")
    PROVE  PaidInv'
<1>1. PICK status, orderStatus :
         /\ \/ status = "CAPTURED" /\ orderStatus = "PAID"
            \/ status = "VOIDED" /\ orderStatus = "CANCELLED"
         /\ SetSale(p, status, orderStatus)
  OBVIOUS
<1>2. PICK o : o = paymentRow[p].order
  OBVIOUS
<1>3. p \in Sales /\ paymentRow[p] \in PaymentRow /\ o \in Purchases
  BY <1>2, Rows DEF RowsHold, PaymentRow
<1>4. PICK row : row = [paymentRow[p] EXCEPT !.status = status]
  OBVIOUS
<1>5. row.order = o /\ row.status = status /\ row \in PaymentRow
  BY <1>1, <1>2, <1>3, <1>4 DEF PaymentRow
<1>6. /\ paymentRow' = [paymentRow EXCEPT ![p] = row]
      /\ purchase' = [purchase EXCEPT ![o] = orderStatus]
      /\ refundRow' = refundRow
  BY <1>1, <1>2, <1>4 DEF SetSale
<1>7. /\ paymentRow'[p] = row /\ \A q \in Sales : q # p => paymentRow'[q] = paymentRow[q]
      /\ purchase'[o] = orderStatus /\ \A x \in Purchases : x # o => purchase'[x] = purchase[x]
  BY <1>3, <1>6 DEF RowsHold, SaleInv
<1>8. Recorded' = Recorded /\ \A q \in Recorded : q \in Sales
  BY <1>5, <1>7, NoRowAssumption DEF Recorded
<1>9. ASSUME NEW x \in Purchases, purchase'[x] = "PAID" PROVE PaidFor(x)'
  <2>1. CASE x = o /\ status = "CAPTURED"
    <3>1. p \in Recorded' /\ paymentRow'[p].order = x /\ paymentRow'[p].status \in Kept
      BY <1>5, <1>7, <1>8, <2>1 DEF Kept
    <3>2. QED
      BY <3>1 DEF PaidFor
  <2>2. CASE ~(x = o /\ status = "CAPTURED")
    <3>1. x # o
      BY <1>1, <1>7, <1>9, <2>2
    <3>2. PICK q \in Recorded : paymentRow[q].order = x /\ paymentRow[q].status \in Kept
      BY <1>7, <1>9, <3>1 DEF PaidInv, PaidFor
    <3>3. q # p
      BY <1>2, <3>1, <3>2
    <3>4. q \in Recorded' /\ paymentRow'[q] = paymentRow[q]
      BY <1>7, <1>8, <3>3
    <3>5. QED
      BY <3>2, <3>4 DEF PaidFor
  <2>3. QED
    BY <2>1, <2>2
<1>10. Returned' = Returned
  BY <1>6 DEF Returned, Requested
<1>11. ASSUME NEW q \in Recorded'
       PROVE  paymentRow'[q].status \in {"PARTIALLY_REFUNDED", "FULLY_REFUNDED"}
                 <=> \E r \in Returned' : refundRow'[r].of = q
  <2>1. paymentRow[q].status \in {"PARTIALLY_REFUNDED", "FULLY_REFUNDED"}
           <=> \E r \in Returned : refundRow[r].of = q
    BY <1>8 DEF PaidInv
  <2>2. CASE q = p
    BY <1>1, <1>5, <1>6, <1>7, <1>10, <2>1, <2>2
  <2>3. CASE q # p
    BY <1>6, <1>7, <1>8, <1>10, <2>1, <2>3
  <2>4. QED
    BY <2>2, <2>3
<1>12. QED
  BY <1>9, <1>11 DEF PaidInv

LEMMA PaidPayBack ==
    ASSUME RowsHold, RowsHold', PaidInv, NEW r \in Returns, PayBack(r)
    PROVE  PaidInv'
<1>1. PICK p, st : p = refundRow[r].of /\ st = ReturnStatus(p)
  OBVIOUS
<1>2. /\ r \in Requested
      /\ refundRow' = [refundRow EXCEPT ![r].status = "SUCCESS"]
      /\ paymentRow' = [paymentRow EXCEPT ![p].status = st]
      /\ purchase' = purchase
  BY <1>1 DEF PayBack
<1>3. /\ p \in Recorded /\ p \in Sales /\ paymentRow[p] \in PaymentRow
      /\ paymentRow[p].status \in Kept
      /\ st \in {"PARTIALLY_REFUNDED", "FULLY_REFUNDED"}
  BY <1>1, <1>2, Rows DEF RowsHold, ReturnInv, Kept, ReturnStatus
<1>4. PICK row : row = [paymentRow[p] EXCEPT !.status = st]
  OBVIOUS
<1>5. row \in PaymentRow /\ row.order = paymentRow[p].order /\ row.status = st
  BY <1>3, <1>4 DEF PaymentRow
<1>6. paymentRow'[p] = row /\ \A q \in Sales : q # p => paymentRow'[q] = paymentRow[q]
  BY <1>2, <1>3, <1>4 DEF RowsHold, SaleInv
<1>7. Recorded' = Recorded /\ \A q \in Recorded : q \in Sales
  BY <1>3, <1>5, <1>6, NoRowAssumption DEF Recorded
<1>8. PICK back : back = [refundRow[r] EXCEPT !.status = "SUCCESS"]
  OBVIOUS
<1>9. back \in RefundRow /\ back.of = p /\ back.status = "SUCCESS"
  BY <1>1, <1>2, <1>8, ReturnRow DEF RowsHold
<1>10. refundRow'[r] = back /\ \A k \in Returns : k # r => refundRow'[k] = refundRow[k]
  BY <1>2, <1>8 DEF RowsHold, SaleInv
<1>11. /\ Returned' = Returned \cup {r} /\ \A k \in Returned : k \in Returns
  BY <1>9, <1>10, NoRowAssumption DEF Returned, Requested
<1>12. \A k \in Returned' : refundRow'[k].of = refundRow[k].of
  BY <1>1, <1>9, <1>10, <1>11
<1>13. ASSUME NEW x \in Purchases, purchase'[x] = "PAID" PROVE PaidFor(x)'
  <2>1. PaidFor(x)
    BY <1>2, <1>13 DEF PaidInv
  <2>2. \A q \in Recorded : /\ paymentRow'[q].order = paymentRow[q].order
                            /\ paymentRow'[q].status \in Kept <=> paymentRow[q].status \in Kept
    BY <1>3, <1>5, <1>6, <1>7 DEF Kept
  <2>3. QED
    BY <1>7, <2>1, <2>2, PaidForStays
<1>14. ASSUME NEW q \in Recorded'
       PROVE  paymentRow'[q].status \in {"PARTIALLY_REFUNDED", "FULLY_REFUNDED"}
                 <=> \E k \in Returned' : refundRow'[k].of = q
  <2>1. CASE q = p
    BY <1>1, <1>3, <1>5, <1>6, <1>11, <1>12, <2>1
  <2>2. CASE q # p
    <3>1. paymentRow[q].status \in {"PARTIALLY_REFUNDED", "FULLY_REFUNDED"}
             <=> \E k \in Returned : refundRow[k].of = q
      BY <1>7 DEF PaidInv
    <3>2. (\E k \in Returned' : refundRow'[k].of = q) <=> \E k \in Returned : refundRow[k].of = q
      BY <1>1, <1>11, <1>12, <2>2
    <3>3. QED
      BY <1>6, <1>7, <2>2, <3>1, <3>2
  <2>3. QED
    BY <2>1, <2>2
<1>15. QED
  BY <1>13, <1>14 DEF PaidInv

\* A refund that is asked for, taken up or given up has returned nothing.
LEMMA ReturnedSame ==
    ASSUME RowsHold, NEW r \in Returns, NEW row \in RefundRow, row.status # "SUCCESS",
           refundRow[r] = NoRefund \/ refundRow[r].status # "SUCCESS",
           refundRow' = [refundRow EXCEPT ![r] = row]
    PROVE  Returned' = Returned /\ \A k \in Returned : refundRow'[k].of = refundRow[k].of
<1>1. refundRow'[r] = row /\ \A k \in Returns : k # r => refundRow'[k] = refundRow[k]
  BY DEF RowsHold, SaleInv
<1>2. \A k \in Returns : k \in Returned' <=> k \in Returned
  BY <1>1 DEF Returned, Requested
<1>3. \A k : (k \in Returned' => k \in Returns) /\ (k \in Returned => k \in Returns /\ k # r)
  BY DEF Returned, Requested
<1>4. QED
  BY <1>1, <1>2, <1>3

LEMMA InductivePaid ==
    ASSUME RowsHold, RowsHold', PaidInv, [CheckoutNext]_checkoutVars
    PROVE  PaidInv'
<1>1. ASSUME NEW o \in Purchases, NEW status \in {"CANCELLED", "EXPIRED"}, CloseOrder(o, status)
      PROVE  PaidInv'
  BY <1>1, PaidCloseOrder
<1>2. ASSUME UNCHANGED <<purchase, paymentRow, refundRow>> PROVE PaidInv'
  <2>1. Returned' = Returned
    BY <1>2 DEF Returned, Requested
  <2>2. QED
    BY <1>2, <2>1, PaidRests
<1>3. ASSUME NEW p \in Sales, RecordSale(p) PROVE PaidInv'
  BY <1>3, PaidRecordSale
<1>4. ASSUME NEW p \in Sales, CaptureSale(p) \/ VoidSale(p) PROVE PaidInv'
  BY <1>4, PaidSetSale DEF CaptureSale, VoidSale
<1>5. ASSUME NEW r \in Returns, NEW p \in Recorded, NEW amount \in 1 .. Amount(p),
             RequestReturn(r, p, amount)
      PROVE  PaidInv'
  <2>1. PICK row : row = [of |-> p, amount |-> amount, status |-> "CREATED"]
    OBVIOUS
  <2>2. p \in Sales /\ Amount(p) \in Nat
    BY Rows DEF RowsHold
  <2>3. amount \in Nat \ {0}
    BY <2>2
  <2>4. row \in RefundRow /\ row.status # "SUCCESS"
    BY <2>1, <2>2, <2>3 DEF RefundRow
  <2>5. /\ refundRow[r] = NoRefund /\ refundRow' = [refundRow EXCEPT ![r] = row]
        /\ UNCHANGED <<purchase, paymentRow>>
    BY <1>5, <2>1 DEF RequestReturn
  <2>6. QED
    BY <2>4, <2>5, ReturnedSame, PaidRests
<1>6. ASSUME NEW r \in Returns, TakeReturn(r) \/ GiveUpReturn(r) PROVE PaidInv'
  <2>1. PICK status \in {"PROCESSING", "FAILED"} :
           /\ r \in Requested /\ refundRow[r].status \in {"CREATED", "PROCESSING"}
           /\ refundRow' = [refundRow EXCEPT ![r].status = status]
           /\ UNCHANGED <<purchase, paymentRow>>
    BY <1>6 DEF TakeReturn, GiveUpReturn
  <2>2. PICK row : row = [refundRow[r] EXCEPT !.status = status]
    OBVIOUS
  <2>3. row \in RefundRow /\ row.status # "SUCCESS"
    BY <2>1, <2>2, ReturnRow DEF RowsHold
  <2>4. refundRow' = [refundRow EXCEPT ![r] = row] /\ refundRow[r].status # "SUCCESS"
    BY <2>1, <2>2
  <2>5. QED
    BY <2>1, <2>3, <2>4, ReturnedSame, PaidRests
<1>7. ASSUME NEW r \in Returns, PayBack(r) PROVE PaidInv'
  BY <1>7, PaidPayBack
<1>8. ASSUME NEW p \in Sales, NEW o \in Purchases, NEW g \in Gateways, StartSale(p, o, g)
      PROVE  PaidInv'
  BY <1>2, <1>8 DEF StartSale
<1>9. ASSUME NEW p \in Sales, ChargeSale(p) \/ StampSale(p) \/ SaleDies(p) PROVE PaidInv'
  BY <1>2, <1>9 DEF ChargeSale, StampSale, SaleDies
<1>10. ASSUME TurnPurse \/ UNCHANGED checkoutVars PROVE PaidInv'
  BY <1>2, <1>10 DEF TurnPurse, checkoutVars
<1>11. QED
  BY <1>1, <1>3, <1>4, <1>5, <1>6, <1>7, <1>8, <1>9, <1>10, Zenon DEF CheckoutNext

\* The books, and what is true of them.
LedgerInv == BooksInv /\ PaidInv

LEMMA LedgerBegins == CheckoutInit => LedgerInv
<1> SUFFICES ASSUME CheckoutInit PROVE LedgerInv
  OBVIOUS
<1>1. Recorded = {}
  BY DEF CheckoutInit, Recorded
<1>2. \A o \in Purchases : purchase[o] # "PAID"
  BY DEF CheckoutInit
<1>3. QED
  BY <1>1, <1>2, BooksBegin DEF LedgerInv, PaidInv

LEMMA LedgerStays == LedgerInv /\ [CheckoutNext]_checkoutVars => LedgerInv'
<1> SUFFICES ASSUME LedgerInv, [CheckoutNext]_checkoutVars PROVE LedgerInv'
  OBVIOUS
<1>1. BooksInv /\ PaidInv /\ RowsHold
  BY DEF LedgerInv, BooksInv, RowsHold
<1>2. BooksInv'
  BY <1>1, InductiveRows, InductiveMoney DEF BooksInv
<1>3. RowsHold'
  BY <1>2 DEF BooksInv, RowsHold
<1>4. QED
  BY <1>1, <1>2, <1>3, InductivePaid DEF LedgerInv

-----------------------------------------------------------------------------
(* Views and figures.                                                       *)

Questions == {"purchases", "paid", "payments", "revenue", "captured", "failed", "refunds",
              "returns", "returned", "summary", "rows", "capturedSummary", "capturedRows"}

\* A view is a list of queries.
LEMMA ViewsAsk ==
    ASSUME NEW view \in Views
    PROVE  Queries(view) \in Seq(Questions)
<1>1. /\ DashboardQueries \in Seq(Questions) /\ ChartQueries \in Seq(Questions)
      /\ SettlementQueries \in Seq(Questions) /\ AdminQueries \in Seq(Questions)
      /\ ReconciliationQueries \in Seq(Questions) /\ ReportQueries \in Seq(Questions)
      /\ CapturedQueries \in Seq(Questions)
  BY DEF DashboardQueries, ChartQueries, SettlementQueries, AdminQueries,
         ReconciliationQueries, ReportQueries, CapturedQueries, Questions
<1>2. Queries(view) \in {DashboardQueries, ChartQueries, SettlementQueries, AdminQueries,
                         ReconciliationQueries, ReportQueries, CapturedQueries}
  BY DEF Queries, Views, CachedViews, Reports
<1>3. QED
  BY <1>1, <1>2

\* One query more.
LEMMA NextQuery ==
    ASSUME NEW view \in Views, NEW k \in 0 .. Len(Queries(view)),
           NEW todo, todo = SubSeq(Queries(view), k + 1, Len(Queries(view)))
    PROVE  /\ k = Len(Queries(view)) <=> todo = <<>>
           /\ todo # <<>> =>
                 /\ k + 1 \in 0 .. Len(Queries(view))
                 /\ Head(todo) = Queries(view)[k + 1] /\ Head(todo) \in Questions
                 /\ Tail(todo) = SubSeq(Queries(view), k + 2, Len(Queries(view)))
                 /\ Asked(view, k + 1) = Asked(view, k) \cup {Head(todo)}
<1>1. PICK s : s = Queries(view)
  OBVIOUS
<1>2. s \in Seq(Questions) /\ Len(s) \in Nat /\ k \in 0 .. Len(s)
      /\ todo = SubSeq(s, k + 1, Len(s))
  BY <1>1, ViewsAsk, LenProperties
<1>3. ASSUME k = Len(s) PROVE todo = <<>>
  BY <1>2, <1>3, SubSeqEmpty
<1>4. ASSUME k # Len(s)
      PROVE  /\ k + 1 \in 1 .. Len(s) /\ todo # <<>> /\ s[k + 1] \in Questions
             /\ Head(todo) = s[k + 1] /\ Tail(todo) = SubSeq(s, k + 2, Len(s))
  <2>1. k + 1 \in 1 .. Len(s) /\ k + 1 \in Int /\ Len(s) \in Int /\ k + 2 = (k + 1) + 1
    BY <1>2, <1>4
  <2>0. Len(s) \in (k + 1) .. Len(s)
    BY <2>1
  <2>2. Head(todo) = s[k + 1] /\ Tail(todo) = SubSeq(s, k + 2, Len(s))
    BY <1>2, <2>1, <2>0, HeadTailOfSubSeq
  <2>3. Len(todo) = Len(s) - (k + 1) + 1 /\ todo \in Seq(Questions)
    BY <1>2, <2>1, SubSeqProperties
  <2>4. Len(todo) # 0
    BY <1>2, <2>1, <2>3
  <2>5. todo # <<>>
    BY <2>4, EmptySeq
  <2>6. s[k + 1] \in Questions
    BY <1>2, <2>1, ElementOfSeq
  <2>7. QED
    BY <2>1, <2>2, <2>5, <2>6
<1>5. 1 .. k + 1 = (1 .. k) \cup {k + 1}
  BY <1>2
<1>6. Asked(view, k + 1) = Asked(view, k) \cup {s[k + 1]}
  BY <1>1, <1>5 DEF Asked
<1>7. QED
  BY <1>1, <1>2, <1>3, <1>4, <1>6

\* A dashboard counts all payments after those that were captured or failed.
LEMMA DashboardOrder ==
    ASSUME NEW k \in 0 .. Len(Queries("dashboard"))
    PROVE  /\ "payments" \in Asked("dashboard", k) => {"captured", "failed"} \subseteq Asked("dashboard", k)
           /\ k + 1 \in 1 .. Len(Queries("dashboard")) /\ Queries("dashboard")[k + 1] = "payments" =>
                 {"captured", "failed"} \subseteq Asked("dashboard", k)
<1>1. Queries("dashboard") = <<"revenue", "captured", "failed", "payments", "returns", "returned">>
  BY DEF Queries, DashboardQueries
<1>2. k \in 0 .. 6
  BY <1>1
<1>3. "payments" \in Asked("dashboard", k) => k >= 4
  BY <1>1, <1>2 DEF Asked
<1>4. k + 1 \in 1 .. 6 /\ Queries("dashboard")[k + 1] = "payments" => k = 3
  BY <1>1, <1>2
<1>5. k >= 3 => {"captured", "failed"} \subseteq Asked("dashboard", k)
  <2> SUFFICES ASSUME k >= 3 PROVE {"captured", "failed"} \subseteq Asked("dashboard", k)
    OBVIOUS
  <2>1. 2 \in 1 .. k /\ 3 \in 1 .. k
    BY <1>2
  <2>2. QED
    BY <1>1, <2>1 DEF Asked
<1>6. QED
  BY <1>1, <1>3, <1>4, <1>5

\* A report reads its rows after its summary.
LEMMA ReportOrder ==
    ASSUME NEW k \in 0 .. Len(Queries("transactions"))
    PROVE  /\ "rows" \in Asked("transactions", k) => "summary" \in Asked("transactions", k)
           /\ k + 1 \in 1 .. Len(Queries("transactions"))
                 /\ Queries("transactions")[k + 1] = "rows" => "summary" \in Asked("transactions", k)
<1>1. Queries("transactions") = <<"summary", "rows">>
  BY DEF Queries, ReportQueries
<1>2. k \in 0 .. 2
  BY <1>1
<1>3. k >= 1 => "summary" \in Asked("transactions", k)
  <2> SUFFICES ASSUME k >= 1 PROVE "summary" \in Asked("transactions", k)
    OBVIOUS
  <2>1. 1 \in 1 .. k
    BY <1>2
  <2>2. QED
    BY <1>1, <2>1 DEF Asked
<1>4. "rows" \in Asked("transactions", k) => k >= 2
  BY <1>1, <1>2 DEF Asked
<1>5. k + 1 \in 1 .. 2 /\ Queries("transactions")[k + 1] = "rows" => k = 1
  BY <1>1, <1>2
<1>6. QED
  BY <1>1, <1>2, <1>3, <1>4, <1>5

\* What is told at the end.
LEMMA AllIsAsked ==
    /\ {"captured", "failed", "payments"} \subseteq AllAsked("dashboard")
    /\ AllAsked("reconciliation") = {"paid", "revenue", "returned"}
    /\ AllAsked("transactions") = {"summary", "rows"}
    /\ AllAsked("captured") = {"capturedSummary", "capturedRows"}
<1>1. /\ Queries("dashboard") = <<"revenue", "captured", "failed", "payments", "returns", "returned">>
      /\ Queries("reconciliation") = <<"paid", "revenue", "returned">>
      /\ Queries("transactions") = <<"summary", "rows">>
  BY DEF Queries, DashboardQueries, ReconciliationQueries, ReportQueries
<1>2. {"captured", "failed", "payments"} \subseteq AllAsked("dashboard")
  <2>1. Len(Queries("dashboard")) = 6 /\ 2 \in 1 .. 6 /\ 3 \in 1 .. 6 /\ 4 \in 1 .. 6
    BY <1>1
  <2>2. QED
    BY <1>1, <2>1 DEF AllAsked, Asked
<1>3. AllAsked("reconciliation") = {"paid", "revenue", "returned"}
  <2>1. Len(Queries("reconciliation")) = 3 /\ 1 .. 3 = {1, 2, 3}
    BY <1>1
  <2>2. QED
    BY <1>1, <2>1 DEF AllAsked, Asked
<1>4. AllAsked("transactions") = {"summary", "rows"}
  <2>1. Len(Queries("transactions")) = 2 /\ 1 .. 2 = {1, 2}
    BY <1>1
  <2>2. QED
    BY <1>1, <2>1 DEF AllAsked, Asked
<1>5. AllAsked("captured") = {"capturedSummary", "capturedRows"}
  <2>1. Queries("captured") = <<"capturedSummary", "capturedRows">>
    BY DEF Queries, CapturedQueries
  <2>2. Len(Queries("captured")) = 2 /\ 1 .. 2 = {1, 2}
    BY <2>1
  <2>3. QED
    BY <2>1, <2>2 DEF AllAsked, Asked
<1>6. QED
  BY <1>2, <1>3, <1>4, <1>5

-----------------------------------------------------------------------------
(* Figures.                                                                 *)

\* Counts of payments and refunds.
LEMMA Counts ==
    ASSUME SaleInv
    PROVE  /\ IsFiniteSet(Recorded) /\ Recorded \subseteq Sales
           /\ \A S \in SUBSET Sales : IsFiniteSet(S) /\ Cardinality(S) \in Nat
           /\ \A S \in SUBSET Returns : IsFiniteSet(S) /\ Cardinality(S) \in Nat
           /\ Cardinality(Recorded) = Cardinality(Sound) + Cardinality(WithStatus("FAILED"))
           /\ Cardinality(WithStatus("CAPTURED")) <= Cardinality(Sound)
           /\ Sound \subseteq Sales /\ \A status : WithStatus(status) \subseteq Recorded
<1>1. /\ \A S \in SUBSET Sales : IsFiniteSet(S) /\ Cardinality(S) \in Nat
      /\ \A S \in SUBSET Returns : IsFiniteSet(S) /\ Cardinality(S) \in Nat
  BY CheckoutAssumption, FS_Subset, FS_CardinalityType
<1>2. Recorded \subseteq Sales /\ IsFiniteSet(Recorded)
  BY <1>1 DEF Recorded
<1>3. \A status : WithStatus(status) \subseteq Recorded
  BY DEF WithStatus
<1>4. Sound \subseteq Sales
  BY <1>2 DEF Sound
<1>5. Cardinality(Recorded) = Cardinality(Sound) + Cardinality(WithStatus("FAILED"))
  <2>1. PICK R, F : R = Recorded /\ F = WithStatus("FAILED")
    OBVIOUS
  <2>2. F \subseteq R /\ R \cap F = F /\ IsFiniteSet(R) /\ F \in SUBSET Sales /\ R \in SUBSET Sales
    BY <1>2, <1>3, <2>1
  <2>3. Cardinality(R \ F) = Cardinality(R) - Cardinality(F)
    BY <2>2, FS_Difference
  <2>4. Cardinality(R) \in Nat /\ Cardinality(F) \in Nat
    BY <1>1, <2>2
  <2>5. QED
    BY <2>1, <2>3, <2>4 DEF Sound
<1>6. Cardinality(WithStatus("CAPTURED")) <= Cardinality(Sound)
  <2>1. WithStatus("CAPTURED") \in SUBSET Sound
    BY DEF WithStatus, Sound
  <2>2. QED
    BY <1>1, <1>4, <2>1, FS_Subset
<1>7. QED
  BY <1>1, <1>2, <1>3, <1>4, <1>5, <1>6

\* What payments cost, by their rows.
LEMMA SumOfSales ==
    ASSUME SaleInv, NEW S \in SUBSET Recorded
    PROVE  SumSales(S) = SumOf(Costs(paymentRow), S) /\ SumSales(S) \in Nat
<1>1. S \in SUBSET Sales /\ \A p \in S : paymentRow[p].order \in Purchases
  BY Rows DEF Recorded, PaymentRow
<1>2. [p \in S |-> Amount(p)] = [p \in S |-> Price[paymentRow[p].order]]
  BY DEF Amount
<1>3. SumSales(S) = SumFunction([p \in S |-> Price[paymentRow[p].order]])
  BY <1>2 DEF SumSales
<1>4. SumFunction([p \in S |-> Price[paymentRow[p].order]]) = SumOf(Costs(paymentRow), S)
  BY <1>1, SaleSum
<1>5. SumFunction([p \in S |-> Price[paymentRow[p].order]]) \in Nat
  BY <1>1, SaleSumIsNat
<1>6. QED
  BY <1>3, <1>4, <1>5

\* What orders cost.
LEMMA SumOfOrders ==
    SumFunction([o \in PaidOrders |-> Price[o]]) = SumOf(Price, PaidOrders)
    /\ SumFunction([o \in PaidOrders |-> Price[o]]) \in Nat
<1>1. PICK S : S = PaidOrders
  OBVIOUS
<1>2. S \in SUBSET Purchases
  BY <1>1 DEF PaidOrders
<1>3. IsFiniteSet(S) /\ \A o \in S : Price[o] \in Nat
  BY <1>2, CheckoutAssumption, FS_Subset
<1>4. SumFunction([o \in S |-> Price[o]]) = SumOf(Price, S)
  BY <1>3, FunctionSum
<1>5. QED
  BY <1>1, <1>3, <1>4, SumIsNat

\* Every query is answered with a number.
LEMMA Figures ==
    ASSUME SaleInv, NEW query \in Questions, NEW asOf \in SUBSET Sales
    PROVE  Figure(query, asOf) \in Nat
<1>1. Cardinality(Purchases) \in Nat
  BY CheckoutAssumption, FS_CardinalityType
<1>2. Cardinality(Recorded) \in Nat /\ Cardinality(Recorded \cap asOf) \in Nat
      /\ Cardinality(WithStatus("CAPTURED")) \in Nat /\ Cardinality(WithStatus("FAILED")) \in Nat
      /\ Cardinality(WithStatus("CAPTURED") \cap asOf) \in Nat
  <2>1. /\ Recorded \in SUBSET Sales /\ Recorded \cap asOf \in SUBSET Sales
        /\ WithStatus("CAPTURED") \cap asOf \in SUBSET Sales
        /\ WithStatus("CAPTURED") \in SUBSET Sales /\ WithStatus("FAILED") \in SUBSET Sales
    BY DEF WithStatus, Recorded
  <2>2. QED
    BY <2>1, Counts
<1>3. Returned \in SUBSET Returns /\ Requested \in SUBSET Returns
      /\ \A r \in Returned : refundRow[r].amount \in Nat
  BY Rows DEF Returned, Requested
<1>4. Cardinality(Returned) \in Nat /\ Cardinality(Requested) \in Nat
  BY <1>3, Counts
<1>5. SumRefunds(Returned) \in Nat
  <2>1. PICK R : R = Returned
    OBVIOUS
  <2>2. SumFunction([k \in R |-> refundRow[k].amount]) \in Nat
    BY <1>3, <2>1, RefundFewer
  <2>3. QED
    BY <2>1, <2>2 DEF SumRefunds
<1>6. SumSales(WithStatus("CAPTURED")) \in Nat
  BY SumOfSales DEF WithStatus
<1>7. SumFunction([o \in PaidOrders |-> Price[o]]) \in Nat
  BY SumOfOrders
<1>8. QED
  BY <1>1, <1>2, <1>4, <1>5, <1>6, <1>7 DEF Figure, Questions

\* As long as the books do not move, figures stay.
LEMMA FigureStays ==
    ASSUME UNCHANGED checkoutVars, NEW query, NEW asOf
    PROVE  Figure(query, asOf)' = Figure(query, asOf)
<1>1. UNCHANGED <<purchase, sale, paymentRow, refundRow>>
  BY DEF checkoutVars
<1>2. Recorded' = Recorded /\ Requested' = Requested /\ PaidOrders' = PaidOrders
  BY <1>1 DEF Recorded, Requested, PaidOrders
<1>3. Returned' = Returned
  BY <1>1, <1>2 DEF Returned
<1>4. WithStatus("CAPTURED")' = WithStatus("CAPTURED") /\ WithStatus("FAILED")' = WithStatus("FAILED")
  BY <1>1, <1>2 DEF WithStatus
<1>5. SumSales(WithStatus("CAPTURED"))' = SumSales(WithStatus("CAPTURED"))
  BY <1>1, <1>4 DEF SumSales, Amount
<1>6. SumRefunds(Returned)' = SumRefunds(Returned)
  BY <1>1, <1>3 DEF SumRefunds
<1>7. SumFunction([o \in PaidOrders |-> Price[o]])' = SumFunction([o \in PaidOrders |-> Price[o]])
  BY <1>2
<1>8. QED
  BY <1>2, <1>3, <1>4, <1>5, <1>6, <1>7 DEF Figure

-----------------------------------------------------------------------------
(* Readers, step by step.                                                   *)

\* Payments, failed ones and others, only become more.
LEMMA BooksGrow ==
    ASSUME RowsHold, RowsHold', [CheckoutNext]_checkoutVars
    PROVE  /\ Recorded \subseteq Recorded'
           /\ Cardinality(Sound) \in Nat /\ Cardinality(Sound)' \in Nat
           /\ Cardinality(Sound) <= Cardinality(Sound)'
           /\ Cardinality(WithStatus("FAILED")) \in Nat /\ Cardinality(WithStatus("FAILED"))' \in Nat
           /\ Cardinality(WithStatus("FAILED")) <= Cardinality(WithStatus("FAILED"))'
<1>1. PICK S, F, R : S = Sound /\ F = WithStatus("FAILED") /\ R = Recorded
  OBVIOUS
<1>2. PICK S1, F1, R1 : S1 = Sound' /\ F1 = WithStatus("FAILED")' /\ R1 = Recorded'
  OBVIOUS
<1>3. R \subseteq R1 /\ \A p \in R : p \in F <=> p \in F1
  BY <1>1, <1>2, RecordsStay DEF WithStatus
<1>4. S = R \ F /\ S1 = R1 \ F1 /\ F \subseteq R /\ F1 \subseteq R1
  BY <1>1, <1>2 DEF Sound, WithStatus
<1>5. F \in SUBSET F1 /\ S \in SUBSET S1
  BY <1>3, <1>4
<1>6. F1 \in SUBSET Sales /\ S1 \in SUBSET Sales
  BY <1>2, <1>4 DEF Recorded
<1>7. IsFiniteSet(F1) /\ IsFiniteSet(S1)
  BY <1>6, CheckoutAssumption, FS_Subset
<1>8. /\ Cardinality(S) <= Cardinality(S1) /\ Cardinality(F) <= Cardinality(F1)
      /\ IsFiniteSet(S) /\ IsFiniteSet(F)
  BY <1>5, <1>7, FS_Subset
<1>9. /\ Cardinality(S) \in Nat /\ Cardinality(S1) \in Nat
      /\ Cardinality(F) \in Nat /\ Cardinality(F1) \in Nat
  BY <1>7, <1>8, FS_CardinalityType
<1>10. QED
  BY <1>1, <1>2, <1>3, <1>8, <1>9

\* More and more of what a report asks for is recorded.
LEMMA RecordedGrows ==
    ASSUME RowsHold, RowsHold', [CheckoutNext]_checkoutVars, NEW asOf \in SUBSET Sales
    PROVE  /\ Cardinality(Recorded \cap asOf) \in Nat /\ Cardinality(Recorded' \cap asOf) \in Nat
           /\ Cardinality(Recorded \cap asOf) <= Cardinality(Recorded' \cap asOf)
<1>1. PICK S, S1 : S = Recorded \cap asOf /\ S1 = Recorded' \cap asOf
  OBVIOUS
<1>2. S \in SUBSET S1 /\ S1 \in SUBSET Sales
  BY <1>1, RecordsStay
<1>3. IsFiniteSet(S1)
  BY <1>2, CheckoutAssumption, FS_Subset
<1>4. IsFiniteSet(S) /\ Cardinality(S) <= Cardinality(S1)
  BY <1>2, <1>3, FS_Subset
<1>5. QED
  BY <1>1, <1>3, <1>4, FS_CardinalityType

\* Nobody moves.
LEMMA ReaderKept ==
    ASSUME NEW v, ReaderHolds(v), UNCHANGED checkoutVars, UNCHANGED summaries
    PROVE  ReaderHolds(v)'
<1>1. \A query, asOf : Figure(query, asOf)' = Figure(query, asOf)
  BY FigureStays
<1>2. Recorded' = Recorded /\ WithStatus("FAILED")' = WithStatus("FAILED")
      /\ WithStatus("CAPTURED")' = WithStatus("CAPTURED")
  BY DEF checkoutVars, Recorded, WithStatus
<1>3. Sound' = Sound
  BY <1>2 DEF Sound
<1>4. ReadingTells(v) => ReadingTells(v)'
  BY <1>1, <1>2, <1>3 DEF ReadingTells, DashboardGrows, ReportGrows
<1>5. ToldTells(v) => ToldTells(v)'
  BY <1>1 DEF ToldTells
<1>6. QED
  BY <1>4, <1>5 DEF ReaderHolds

\* The steps of readers, apart.
LEMMA ReaderSteps ==
    ASSUME NEW v
    PROVE  /\ v = Idle => v.step = "idle" /\ "moved" \notin DOMAIN v
           /\ IsPlanned(v) => v.step = "told" /\ "moved" \notin DOMAIN v
           /\ IsTold(v) => v.step = "told"
           /\ \A k : IsReading(v, k) => v.step = "reading"
<1>1. v = Idle => v.step = "idle" /\ "moved" \notin DOMAIN v
  BY DEF Idle
<1>2. IsPlanned(v) => v.step = "told" /\ "moved" \notin DOMAIN v
  <2> SUFFICES ASSUME IsPlanned(v) PROVE v.step = "told" /\ "moved" \notin DOMAIN v
    OBVIOUS
  <2>1. PICK plan : plan = v.plan
    OBVIOUS
  <2>2. v = [step |-> "told", plan |-> plan, view |-> "none"]
    BY <2>1 DEF IsPlanned, Planned
  <2>3. QED
    BY <2>2
<1>3. IsTold(v) => v.step = "told"
  BY DEF IsTold
<1>4. \A k : IsReading(v, k) => v.step = "reading"
  BY DEF IsReading
<1>5. QED
  BY <1>1, <1>2, <1>3, <1>4

\* A record of a reader, and whether the books have moved.
LEMMA ToldMoves ==
    ASSUME NEW v, NEW plan, NEW view, NEW got, NEW inFlight, NEW moved,
           v = [step |-> "told", plan |-> plan, view |-> view, got |-> got,
                inFlight |-> inFlight, moved |-> moved],
           NEW to
    PROVE  [v EXCEPT !.moved = to] =
                [step |-> "told", plan |-> plan, view |-> view, got |-> got,
                 inFlight |-> inFlight, moved |-> to]
OBVIOUS

LEMMA ReadingMoves ==
    ASSUME NEW v, NEW plan, NEW view, NEW todo, NEW got, NEW asOf, NEW inFlight, NEW since,
           NEW raced, NEW moved,
           v = [step |-> "reading", plan |-> plan, view |-> view, todo |-> todo, got |-> got,
                asOf |-> asOf, inFlight |-> inFlight, since |-> since, raced |-> raced,
                moved |-> moved],
           NEW to
    PROVE  [v EXCEPT !.moved = to] =
                [step |-> "reading", plan |-> plan, view |-> view, todo |-> todo, got |-> got,
                 asOf |-> asOf, inFlight |-> inFlight, since |-> since, raced |-> raced,
                 moved |-> to]
OBVIOUS

\* What a reader knows once the books have moved.
AfterMove(v) == IF "moved" \in DOMAIN v THEN [v EXCEPT !.moved = TRUE] ELSE v

\* The books move.
LEMMA ReaderMoved ==
    ASSUME RowsHold, RowsHold', [CheckoutNext]_checkoutVars, UNCHANGED summaries,
           NEW v, ReaderHolds(v),
           NEW w, w = AfterMove(v)
    PROVE  ReaderHolds(w)'
<1>1. CASE v = Idle \/ IsPlanned(v)
  <2>1. w = v
    BY <1>1, ReaderSteps DEF AfterMove
  <2>2. QED
    BY <1>1, <2>1 DEF ReaderHolds
<1>2. CASE IsTold(v) /\ ToldTells(v)
  <2>0. PICK to : to = TRUE
    OBVIOUS
  <2>1. v = [step |-> "told", plan |-> v.plan, view |-> v.view, got |-> v.got,
             inFlight |-> v.inFlight, moved |-> v.moved]
    BY <1>2 DEF IsTold
  <2>2. w = [step |-> "told", plan |-> v.plan, view |-> v.view, got |-> v.got,
             inFlight |-> v.inFlight, moved |-> to]
    <3>1. "moved" \in DOMAIN v
      BY <2>1
    <3>2. w = [v EXCEPT !.moved = to]
      BY <2>0, <3>1, Zenon DEF AfterMove
    <3>3. QED
      BY <2>1, <3>2, ToldMoves
  <2>3. /\ w.step = "told" /\ w.plan = v.plan /\ w.view = v.view /\ w.got = v.got
        /\ w.inFlight = v.inFlight /\ w.moved = TRUE
    <3>1. /\ w.step = "told" /\ w.plan = v.plan /\ w.view = v.view /\ w.got = v.got
          /\ w.inFlight = v.inFlight /\ w.moved = to
      BY <2>2
    <3>2. QED
      BY <2>0, <3>1, Zenon
  <2>4. IsTold(w)
    <3>1. w.moved = to /\ w.moved \in BOOLEAN
      BY <2>0, <2>2
    <3>2. w = [step |-> "told", plan |-> w.plan, view |-> w.view, got |-> w.got,
               inFlight |-> w.inFlight, moved |-> w.moved]
      BY <2>2, <3>1
    <3>3. QED
      BY <1>2, <2>3, <3>1, <3>2 DEF IsTold
  <2>5. ToldTells(w)'
    BY <1>2, <2>3 DEF ToldTells
  <2>6. QED
    BY <2>4, <2>5 DEF ReaderHolds
<1>3. CASE (\E k \in Nat : IsReading(v, k)) /\ ReadingTells(v)
  <2>0. PICK to : to = TRUE
    OBVIOUS
  <2>1. PICK k \in Nat : IsReading(v, k)
    BY <1>3
  <2>2. v = [step |-> "reading", plan |-> v.plan, view |-> v.view, todo |-> v.todo, got |-> v.got,
             asOf |-> v.asOf, inFlight |-> v.inFlight, since |-> v.since, raced |-> v.raced,
             moved |-> v.moved]
    BY <2>1 DEF IsReading
  <2>3. w = [step |-> "reading", plan |-> v.plan, view |-> v.view, todo |-> v.todo, got |-> v.got,
             asOf |-> v.asOf, inFlight |-> v.inFlight, since |-> v.since, raced |-> v.raced,
             moved |-> to]
    <3>1. "moved" \in DOMAIN v
      BY <2>2
    <3>2. w = [v EXCEPT !.moved = to]
      BY <2>0, <3>1, Zenon DEF AfterMove
    <3>3. QED
      BY <2>2, <3>2, ReadingMoves
  <2>4. /\ w.step = "reading" /\ w.plan = v.plan /\ w.view = v.view /\ w.todo = v.todo
        /\ w.got = v.got /\ w.asOf = v.asOf /\ w.inFlight = v.inFlight /\ w.since = v.since
        /\ w.raced = v.raced /\ w.moved = TRUE
    <3>1. /\ w.step = "reading" /\ w.plan = v.plan /\ w.view = v.view /\ w.todo = v.todo
          /\ w.got = v.got /\ w.asOf = v.asOf /\ w.inFlight = v.inFlight /\ w.since = v.since
          /\ w.raced = v.raced /\ w.moved = to
      BY <2>3
    <3>2. QED
      BY <2>0, <3>1, Zenon
  <2>5. IsReading(w, k)
    <3>1. w.moved = to /\ w.moved \in BOOLEAN
      BY <2>0, <2>3
    <3>2. w = [step |-> "reading", plan |-> w.plan, view |-> w.view, todo |-> w.todo,
               got |-> w.got, asOf |-> w.asOf, inFlight |-> w.inFlight, since |-> w.since,
               raced |-> w.raced, moved |-> w.moved]
      BY <2>3, <3>1
    <3>3. QED
      BY <2>1, <2>4, <3>1, <3>2 DEF IsReading
  <2>6. v.view = "dashboard" => DashboardGrows(v.got)'
    <3> SUFFICES ASSUME v.view = "dashboard" PROVE DashboardGrows(v.got)'
      OBVIOUS
    <3>1. DashboardGrows(v.got) /\ \A query \in DOMAIN v.got : v.got[query] \in Nat
      BY <1>3, <2>1 DEF ReadingTells, IsReading
    <3>2. QED
      BY <3>1, BooksGrow DEF DashboardGrows
  <2>7. Recorded \subseteq Recorded'
    BY BooksGrow
  <2>10. v.view = "transactions" => ReportGrows(v.got, v.asOf)'
    <3> SUFFICES ASSUME v.view = "transactions" PROVE ReportGrows(v.got, v.asOf)'
      OBVIOUS
    <3>1. /\ ReportGrows(v.got, v.asOf) /\ v.asOf \in SUBSET Sales
          /\ \A query \in DOMAIN v.got : v.got[query] \in Nat
      BY <1>3, <2>1 DEF ReadingTells, IsReading
    <3>2. PICK n, m : n = Cardinality(Recorded \cap v.asOf) /\ m = Cardinality(Recorded' \cap v.asOf)
      OBVIOUS
    <3>3. n \in Nat /\ m \in Nat /\ n <= m
      BY <3>1, <3>2, RecordedGrows
    <3>4. "summary" \in DOMAIN v.got => v.got["summary"] <= m
      BY <3>1, <3>2, <3>3 DEF ReportGrows
    <3>5. "rows" \in DOMAIN v.got => v.got["summary"] <= v.got["rows"]
      BY <3>1 DEF ReportGrows
    <3>6. QED
      BY <3>2, <3>4, <3>5 DEF ReportGrows
  <2>8. ReadingTells(w)'
    BY <1>3, <2>4, <2>6, <2>7, <2>10 DEF ReadingTells
  <2>9. QED
    BY <2>5, <2>8 DEF ReaderHolds
<1>4. QED
  BY <1>1, <1>2, <1>3 DEF ReaderHolds

\* A summary runs.
LEMMA ReaderRaced ==
    ASSUME UNCHANGED checkoutVars, NEW v, ReaderHolds(v),
           NEW w, w = IF v.step = "reading" THEN [v EXCEPT !.raced = TRUE] ELSE v
    PROVE  ReaderHolds(w)'
<1>0. \A query, asOf : Figure(query, asOf)' = Figure(query, asOf)
  BY FigureStays
<1>1. CASE v = Idle \/ IsPlanned(v)
  <2>1. w = v
    BY <1>1, ReaderSteps
  <2>2. QED
    BY <1>1, <2>1 DEF ReaderHolds
<1>2. CASE IsTold(v) /\ ToldTells(v)
  <2>1. w = v
    BY <1>2, ReaderSteps
  <2>2. QED
    BY <1>0, <1>2, <2>1 DEF ReaderHolds, ToldTells
<1>3. CASE (\E k \in Nat : IsReading(v, k)) /\ ReadingTells(v)
  <2>1. PICK k \in Nat : IsReading(v, k)
    BY <1>3
  <2>2. v = [step |-> "reading", plan |-> v.plan, view |-> v.view, todo |-> v.todo, got |-> v.got,
             asOf |-> v.asOf, inFlight |-> v.inFlight, since |-> v.since, raced |-> v.raced,
             moved |-> v.moved]
    BY <2>1 DEF IsReading
  <2>3. w = [step |-> "reading", plan |-> v.plan, view |-> v.view, todo |-> v.todo, got |-> v.got,
             asOf |-> v.asOf, inFlight |-> v.inFlight, since |-> v.since, raced |-> TRUE,
             moved |-> v.moved]
    BY <2>1, <2>2, ReaderSteps
  <2>4. /\ w.step = "reading" /\ w.plan = v.plan /\ w.view = v.view /\ w.todo = v.todo
        /\ w.got = v.got /\ w.asOf = v.asOf /\ w.inFlight = v.inFlight /\ w.since = v.since
        /\ w.raced = TRUE /\ w.moved = v.moved
    BY <2>3
  <2>5. IsReading(w, k)
    BY <2>1, <2>3, <2>4 DEF IsReading
  <2>6. Recorded' = Recorded /\ WithStatus("FAILED")' = WithStatus("FAILED")
        /\ WithStatus("CAPTURED")' = WithStatus("CAPTURED")
    BY DEF checkoutVars, Recorded, WithStatus
  <2>7. Sound' = Sound
    BY <2>6 DEF Sound
  <2>8. ReadingTells(w)'
    BY <1>0, <1>3, <2>4, <2>6, <2>7 DEF ReadingTells, DashboardGrows, ReportGrows
  <2>9. QED
    BY <2>5, <2>8 DEF ReaderHolds
<1>4. QED
  BY <1>1, <1>2, <1>3 DEF ReaderHolds

\* A view that the cache does not answer.
Opened(view, plan, asOf) ==
    [step |-> "reading", plan |-> plan, view |-> view, todo |-> Queries(view),
     got |-> <<>>, asOf |-> asOf, inFlight |-> asOf \ Recorded,
     since |-> summaries, raced |-> FALSE, moved |-> FALSE]

LEMMA ReaderOpens ==
    ASSUME RowsHold, summaries \in Nat, NEW view \in Views, NEW plan \in Seq(Views),
           NEW asOf \in SUBSET Sales, NEW w, w = Opened(view, plan, asOf)
    PROVE  ReaderHolds(w)
<1>1. PICK inFlight, no : inFlight = asOf \ Recorded /\ no = FALSE
  OBVIOUS
<1>2. w = [step |-> "reading", plan |-> plan, view |-> view, todo |-> Queries(view), got |-> <<>>,
           asOf |-> asOf, inFlight |-> inFlight, since |-> summaries, raced |-> no, moved |-> no]
  BY <1>1, Zenon DEF Opened
<1>3. asOf \in SUBSET Sales /\ inFlight \in SUBSET Sales
  BY <1>1
<1>4. no \in BOOLEAN
  BY <1>1
<1>5. Queries(view) \in Seq(Questions) /\ Len(Queries(view)) \in Nat
  BY ViewsAsk, LenProperties
<1>6. Queries(view) = SubSeq(Queries(view), 0 + 1, Len(Queries(view)))
  <2>1. PICK s : s = Queries(view)
    OBVIOUS
  <2>2. s \in Seq(Questions) /\ Len(s) \in Nat
    BY <1>5, <2>1
  <2>3. \A i \in 1 .. Len(s) : s[i] \in Questions
    BY <2>2, ElementOfSeq
  <2>4. /\ SubSeq(s, 1, Len(s)) \in Seq(Questions)
        /\ Len(SubSeq(s, 1, Len(s))) = Len(s)
        /\ \A i \in 1 .. Len(s) : SubSeq(s, 1, Len(s))[i] = s[i]
    BY <2>2, <2>3, SubSeqProperties
  <2>5. SubSeq(s, 1, Len(s)) = s
    BY <2>2, <2>4, SeqEqual
  <2>6. QED
    BY <2>1, <2>5
<1>7. <<>> \in [Asked(view, 0) -> Nat] /\ DOMAIN <<>> = {}
  <2>1. Asked(view, 0) = {}
    BY DEF Asked
  <2>2. QED
    BY <2>1
<1>8. /\ w.step = "reading" /\ w.plan = plan /\ w.view = view /\ w.todo = Queries(view)
      /\ w.got = <<>> /\ w.asOf = asOf /\ w.inFlight = inFlight /\ w.since = summaries
      /\ w.raced = no /\ w.moved = no
  BY <1>2
<1>9. IsReading(w, 0)
  <2>1. w = [step |-> "reading", plan |-> w.plan, view |-> w.view, todo |-> w.todo,
             got |-> w.got, asOf |-> w.asOf, inFlight |-> w.inFlight, since |-> w.since,
             raced |-> w.raced, moved |-> w.moved]
    BY <1>2, <1>8
  <2>2. QED
    BY <1>3, <1>4, <1>5, <1>6, <1>7, <1>8, <2>1 DEF IsReading
<1>10. DashboardGrows(w.got) /\ ReportGrows(w.got, w.asOf)
  BY <1>7, <1>8 DEF DashboardGrows, ReportGrows
<1>11. inFlight = {} => asOf \subseteq Recorded
  BY <1>1
<1>12. ReadingTells(w)
  BY <1>7, <1>8, <1>10, <1>11 DEF ReadingTells
<1>13. QED
  BY <1>9, <1>12 DEF ReaderHolds

\* A view that the cache answers.
FromCache(view, plan, entry) ==
    Told(view, plan, [got |-> entry.got, inFlight |-> {}, moved |-> TRUE])

LEMMA ReaderAnswered ==
    ASSUME NEW view \in CachedViews, NEW plan \in Seq(Views), NEW entry, EntryHolds(view, entry),
           NEW w, w = FromCache(view, plan, entry)
    PROVE  ReaderHolds(w)
<1>1. PICK yes : yes = TRUE
  OBVIOUS
<1>2. PICK told : told = [got |-> entry.got, inFlight |-> {}, moved |-> yes]
  OBVIOUS
<1>3. told.got = entry.got /\ told.inFlight = {} /\ told.moved = yes
  BY <1>2
<1>4. w = Told(view, plan, told)
  BY <1>1, <1>2, Zenon DEF FromCache
<1>5. w = [step |-> "told", plan |-> plan, view |-> view, got |-> entry.got, inFlight |-> {},
           moved |-> yes]
  BY <1>3, <1>4 DEF Told
<1>6. /\ w.step = "told" /\ w.plan = plan /\ w.view = view /\ w.got = entry.got
      /\ w.inFlight = {} /\ w.moved = yes
  BY <1>5
<1>7. w.moved \in BOOLEAN /\ w.moved = TRUE
  BY <1>1, <1>6, Zenon
<1>8. IsTold(w)
  <2>1. w = [step |-> "told", plan |-> w.plan, view |-> w.view, got |-> w.got,
             inFlight |-> w.inFlight, moved |-> w.moved]
    BY <1>5, <1>6
  <2>2. w.view \in Views
    BY <1>6 DEF Views
  <2>3. QED
    BY <1>6, <1>7, <2>1, <2>2 DEF IsTold, EntryHolds
<1>9. view \notin {"reconciliation", "transactions", "captured"}
  BY DEF CachedViews
<1>10. ToldTells(w)
  BY <1>6, <1>9 DEF ToldTells, EntryHolds
<1>11. QED
  BY <1>8, <1>10 DEF ReaderHolds

\* One query more.
OneMore(got, query, figure) ==
    [q \in DOMAIN got \cup {query} |-> IF q \in DOMAIN got THEN got[q] ELSE figure]

Asking(v) ==
    [v EXCEPT !.todo = Tail(v.todo),
              !.got = OneMore(v.got, Head(v.todo), Figure(Head(v.todo), v.asOf))]

\* A record of a reader, and what it has asked.
LEMMA ReadingGoes ==
    ASSUME NEW v, NEW plan, NEW view, NEW todo, NEW got, NEW asOf, NEW inFlight, NEW since,
           NEW raced, NEW moved,
           v = [step |-> "reading", plan |-> plan, view |-> view, todo |-> todo, got |-> got,
                asOf |-> asOf, inFlight |-> inFlight, since |-> since, raced |-> raced,
                moved |-> moved],
           NEW rest, NEW more
    PROVE  [v EXCEPT !.todo = rest, !.got = more] =
                [step |-> "reading", plan |-> plan, view |-> view, todo |-> rest, got |-> more,
                 asOf |-> asOf, inFlight |-> inFlight, since |-> since, raced |-> raced,
                 moved |-> moved]
<1>1. PICK u : u = [v EXCEPT !.todo = rest]
  OBVIOUS
<1>2. u = [step |-> "reading", plan |-> plan, view |-> view, todo |-> rest, got |-> got,
           asOf |-> asOf, inFlight |-> inFlight, since |-> since, raced |-> raced,
           moved |-> moved]
  BY <1>1
<1>3. [u EXCEPT !.got = more] =
          [step |-> "reading", plan |-> plan, view |-> view, todo |-> rest, got |-> more,
           asOf |-> asOf, inFlight |-> inFlight, since |-> since, raced |-> raced,
           moved |-> moved]
  BY <1>2
<1>4. [v EXCEPT !.todo = rest, !.got = more] = [u EXCEPT !.got = more]
  BY <1>1, Zenon
<1>5. QED
  BY <1>3, <1>4

LEMMA ReaderAsks ==
    ASSUME RowsHold, NEW v, ReaderHolds(v), v.step = "reading", v.todo # <<>>,
           NEW w, w = Asking(v)
    PROVE  ReaderHolds(w)
<1>1. PICK k \in Nat : IsReading(v, k) /\ ReadingTells(v)
  BY ReaderSteps DEF ReaderHolds
<1>2. PICK view, query, figure :
         view = v.view /\ query = Head(v.todo) /\ figure = Figure(query, v.asOf)
  OBVIOUS
<1>3. /\ view \in Views /\ k \in 0 .. Len(Queries(view))
      /\ v.todo = SubSeq(Queries(view), k + 1, Len(Queries(view)))
      /\ v.got \in [Asked(view, k) -> Nat] /\ v.asOf \in SUBSET Sales
  BY <1>1, <1>2 DEF IsReading
<1>4. /\ k + 1 \in 0 .. Len(Queries(view)) /\ k # Len(Queries(view))
      /\ query = Queries(view)[k + 1] /\ query \in Questions
      /\ Tail(v.todo) = SubSeq(Queries(view), k + 2, Len(Queries(view)))
      /\ Asked(view, k + 1) = Asked(view, k) \cup {query}
  BY <1>2, <1>3, NextQuery
<1>5. figure \in Nat
  BY <1>2, <1>3, <1>4, Figures DEF RowsHold
<1>6. PICK got, rest : got = OneMore(v.got, query, figure) /\ rest = Tail(v.todo)
  OBVIOUS
<1>7. /\ got \in [Asked(view, k + 1) -> Nat]
      /\ \A q \in Asked(view, k) : got[q] = v.got[q]
      /\ query \in Asked(view, k) \/ got[query] = figure
  <2>1. DOMAIN v.got = Asked(view, k)
    BY <1>3
  <2>2. got = [q \in Asked(view, k + 1) |-> IF q \in Asked(view, k) THEN v.got[q] ELSE figure]
    BY <1>4, <1>6, <2>1 DEF OneMore
  <2>3. QED
    BY <1>3, <1>4, <1>5, <2>2
<1>8. v = [step |-> "reading", plan |-> v.plan, view |-> v.view, todo |-> v.todo, got |-> v.got,
           asOf |-> v.asOf, inFlight |-> v.inFlight, since |-> v.since, raced |-> v.raced,
           moved |-> v.moved]
  BY <1>1 DEF IsReading
<1>9. w = [step |-> "reading", plan |-> v.plan, view |-> v.view, todo |-> rest, got |-> got,
           asOf |-> v.asOf, inFlight |-> v.inFlight, since |-> v.since, raced |-> v.raced,
           moved |-> v.moved]
  <2>1. w = [v EXCEPT !.todo = rest, !.got = got]
    BY <1>2, <1>6, Zenon DEF Asking
  <2>2. QED
    BY <1>8, <2>1, ReadingGoes
<1>10. /\ w.step = "reading" /\ w.plan = v.plan /\ w.view = v.view /\ w.todo = rest
       /\ w.got = got /\ w.asOf = v.asOf /\ w.inFlight = v.inFlight /\ w.since = v.since
       /\ w.raced = v.raced /\ w.moved = v.moved
  BY <1>9
<1>11. IsReading(w, k + 1)
  <2>1. w = [step |-> "reading", plan |-> w.plan, view |-> w.view, todo |-> w.todo,
             got |-> w.got, asOf |-> w.asOf, inFlight |-> w.inFlight, since |-> w.since,
             raced |-> w.raced, moved |-> w.moved]
    BY <1>9, <1>10
  <2>2. (k + 1) + 1 = k + 2
    BY <1>3
  <2>3. w.todo = SubSeq(Queries(w.view), (k + 1) + 1, Len(Queries(w.view)))
    BY <1>2, <1>4, <1>6, <1>10, <2>2
  <2>4. w.got \in [Asked(w.view, k + 1) -> Nat] /\ k + 1 \in 0 .. Len(Queries(w.view))
    BY <1>2, <1>4, <1>7, <1>10
  <2>5. /\ w.plan \in Seq(Views) /\ w.view \in Views
        /\ w.asOf \in SUBSET Sales /\ w.inFlight \in SUBSET Sales
        /\ w.since \in Nat /\ w.raced \in BOOLEAN /\ w.moved \in BOOLEAN
    BY <1>1, <1>10, Zenon DEF IsReading
  <2>6. QED
    BY <2>1, <2>3, <2>4, <2>5 DEF IsReading
<1>12. DOMAIN v.got = Asked(view, k) /\ DOMAIN got = Asked(view, k) \cup {query}
  BY <1>3, <1>4, <1>7
<1>13. ASSUME view = "dashboard" PROVE DashboardGrows(got)
  <2>1. DashboardGrows(v.got)
    BY <1>1, <1>2, <1>13 DEF ReadingTells
  <2>2. "captured" \in DOMAIN got => got["captured"] <= Cardinality(Sound)
    <3>1. CASE "captured" \in Asked(view, k)
      BY <1>7, <1>12, <2>1, <3>1 DEF DashboardGrows
    <3>2. CASE "captured" \notin Asked(view, k)
      <4>1. query = "captured" => figure = Cardinality(WithStatus("CAPTURED"))
        BY <1>2 DEF Figure
      <4>2. query = "captured" => figure <= Cardinality(Sound)
        BY <4>1, Counts DEF RowsHold
      <4>3. QED
        BY <1>7, <1>12, <3>2, <4>2
    <3>3. QED
      BY <3>1, <3>2
  <2>3. "failed" \in DOMAIN got => got["failed"] <= Cardinality(WithStatus("FAILED"))
    <3>1. CASE "failed" \in Asked(view, k)
      BY <1>7, <1>12, <2>1, <3>1 DEF DashboardGrows
    <3>2. CASE "failed" \notin Asked(view, k)
      <4>1. query = "failed" => figure = Cardinality(WithStatus("FAILED"))
        BY <1>2 DEF Figure
      <4>2. QED
        BY <1>5, <1>7, <1>12, <3>2, <4>1
    <3>3. QED
      BY <3>1, <3>2
  <2>4. ASSUME "payments" \in DOMAIN got PROVE DashboardTells(got)
    <3>1. {"captured", "failed"} \subseteq Asked(view, k)
      BY <1>3, <1>4, <1>12, <1>13, <2>4, DashboardOrder
    <3>2. /\ got["captured"] = v.got["captured"] /\ got["failed"] = v.got["failed"]
          /\ v.got["captured"] \in Nat /\ v.got["failed"] \in Nat
      BY <1>3, <1>7, <3>1
    <3>3. CASE "payments" \in Asked(view, k)
      <4>1. v.got["captured"] + v.got["failed"] <= v.got["payments"]
        BY <1>12, <2>1, <3>3 DEF DashboardGrows, DashboardTells
      <4>2. QED
        BY <1>7, <3>2, <3>3, <4>1 DEF DashboardTells
    <3>4. CASE "payments" \notin Asked(view, k)
      <4>1. query = "payments"
        BY <1>12, <2>4, <3>4
      <4>2. figure = Cardinality(Recorded)
        BY <1>2, <4>1 DEF Figure
      <4>3. /\ v.got["captured"] <= Cardinality(Sound)
            /\ v.got["failed"] <= Cardinality(WithStatus("FAILED"))
        BY <1>12, <2>1, <3>1 DEF DashboardGrows
      <4>4. /\ Cardinality(Sound) \in Nat /\ Cardinality(WithStatus("FAILED")) \in Nat
            /\ Cardinality(Recorded) = Cardinality(Sound) + Cardinality(WithStatus("FAILED"))
        <5>1. WithStatus("FAILED") \in SUBSET Sales /\ Sound \in SUBSET Sales
          BY Counts DEF RowsHold
        <5>2. QED
          BY <5>1, Counts DEF RowsHold
      <4>5. got["payments"] = figure
        BY <1>7, <3>4, <4>1
      <4>6. QED
        BY <3>2, <4>2, <4>3, <4>4, <4>5 DEF DashboardTells
    <3>5. QED
      BY <3>3, <3>4
  <2>5. QED
    BY <2>2, <2>3, <2>4 DEF DashboardGrows
<1>14. ASSUME view = "reconciliation", ~v.moved, NEW q \in DOMAIN got
       PROVE  got[q] = Figure(q, {})
  <2>1. \A u \in DOMAIN v.got : v.got[u] = Figure(u, {})
    BY <1>1, <1>2, <1>14 DEF ReadingTells
  <2>2. query \in {"paid", "revenue", "returned"}
    <3>1. Queries("reconciliation") = <<"paid", "revenue", "returned">>
      BY DEF Queries, ReconciliationQueries
    <3>2. QED
      BY <1>4, <1>14, <3>1
  <2>3. figure = Figure(query, {})
    BY <1>2, <2>2 DEF Figure
  <2>4. QED
    BY <1>7, <1>12, <1>14, <2>1, <2>3
<1>15. ASSUME view = "transactions", v.inFlight = {}
       PROVE  v.asOf \subseteq Recorded /\ \A q \in DOMAIN got : got[q] = Cardinality(v.asOf)
  <2>1. /\ v.asOf \subseteq Recorded
        /\ \A q \in DOMAIN v.got : v.got[q] = Cardinality(v.asOf)
    BY <1>1, <1>2, <1>15 DEF ReadingTells
  <2>2. query \in {"summary", "rows"}
    <3>1. Queries("transactions") = <<"summary", "rows">>
      BY DEF Queries, ReportQueries
    <3>2. QED
      BY <1>4, <1>15, <3>1
  <2>3. Recorded \cap v.asOf = v.asOf
    BY <2>1
  <2>4. figure = Cardinality(v.asOf)
    BY <1>2, <2>2, <2>3 DEF Figure
  <2>5. QED
    BY <1>7, <1>12, <2>1, <2>4
<1>18. ASSUME view = "transactions" PROVE ReportGrows(got, v.asOf)
  <2>1. ReportGrows(v.got, v.asOf)
    BY <1>1, <1>2, <1>18 DEF ReadingTells
  <2>2. query \in {"summary", "rows"} => figure = Cardinality(Recorded \cap v.asOf)
    BY <1>2 DEF Figure
  <2>3. "summary" \in DOMAIN got => got["summary"] <= Cardinality(Recorded \cap v.asOf)
    <3>1. CASE "summary" \in Asked(view, k)
      BY <1>7, <1>12, <2>1, <3>1 DEF ReportGrows
    <3>2. CASE "summary" \notin Asked(view, k)
      BY <1>5, <1>7, <1>12, <2>2, <3>2
    <3>3. QED
      BY <3>1, <3>2
  <2>4. ASSUME "rows" \in DOMAIN got PROVE got["summary"] <= got["rows"]
    <3>1. "summary" \in Asked(view, k)
      BY <1>3, <1>4, <1>12, <1>18, <2>4, ReportOrder
    <3>2. got["summary"] = v.got["summary"]
      BY <1>7, <3>1
    <3>3. CASE "rows" \in Asked(view, k)
      BY <1>7, <1>12, <2>1, <3>2, <3>3 DEF ReportGrows
    <3>4. CASE "rows" \notin Asked(view, k)
      BY <1>7, <1>12, <2>1, <2>2, <2>4, <3>1, <3>2, <3>4 DEF ReportGrows
    <3>5. QED
      BY <3>3, <3>4
  <2>5. QED
    BY <2>3, <2>4 DEF ReportGrows
<1>19. ASSUME view = "captured", ~v.moved, NEW q \in DOMAIN got
       PROVE  got[q] = Cardinality(WithStatus("CAPTURED") \cap v.asOf)
  <2>1. \A u \in DOMAIN v.got : v.got[u] = Cardinality(WithStatus("CAPTURED") \cap v.asOf)
    BY <1>1, <1>2, <1>19 DEF ReadingTells
  <2>2. query \in {"capturedSummary", "capturedRows"}
    <3>1. Queries("captured") = <<"capturedSummary", "capturedRows">>
      BY DEF Queries, CapturedQueries
    <3>2. QED
      BY <1>4, <1>19, <3>1
  <2>3. figure = Cardinality(WithStatus("CAPTURED") \cap v.asOf)
    BY <1>2, <2>2 DEF Figure
  <2>4. QED
    BY <1>7, <1>12, <1>19, <2>1, <2>3
<1>16. ReadingTells(w)
  BY <1>1, <1>2, <1>10, <1>13, <1>14, <1>15, <1>18, <1>19 DEF ReadingTells
<1>17. QED
  BY <1>4, <1>11, <1>16 DEF ReaderHolds

\* What a reader has read it tells, and leaves in the cache.
LEMMA ReaderTells ==
    ASSUME NEW v, ReaderHolds(v), v.step = "reading", v.todo = <<>>,
           NEW w, w = Told(v.view, v.plan, v)
    PROVE  /\ ReaderHolds(w)
           /\ v.view \in Views
           /\ \A entry : entry = [got |-> v.got, since |-> v.since, raced |-> v.raced] =>
                  EntryHolds(v.view, entry)
<1>1. PICK k \in Nat : IsReading(v, k) /\ ReadingTells(v)
  BY ReaderSteps DEF ReaderHolds
<1>2. PICK view : view = v.view
  OBVIOUS
<1>3. view \in Views /\ k = Len(Queries(view))
  BY <1>1, <1>2, NextQuery DEF IsReading
<1>4. /\ v.got \in [AllAsked(view) -> Nat] /\ v.plan \in Seq(Views) /\ v.inFlight \in SUBSET Sales
      /\ v.moved \in BOOLEAN /\ v.since \in Nat /\ v.raced \in BOOLEAN
  BY <1>1, <1>2, <1>3 DEF IsReading, AllAsked
<1>5. w = [step |-> "told", plan |-> v.plan, view |-> view, got |-> v.got,
           inFlight |-> v.inFlight, moved |-> v.moved]
  BY <1>2 DEF Told
<1>6. /\ w.step = "told" /\ w.plan = v.plan /\ w.view = view /\ w.got = v.got
      /\ w.inFlight = v.inFlight /\ w.moved = v.moved
  BY <1>5
<1>7. IsTold(w)
  <2>1. w = [step |-> "told", plan |-> w.plan, view |-> w.view, got |-> w.got,
             inFlight |-> w.inFlight, moved |-> w.moved]
    BY <1>5, <1>6
  <2>2. w.moved \in BOOLEAN
    BY <1>4, <1>6, Zenon
  <2>3. QED
    BY <1>3, <1>4, <1>6, <2>1, <2>2 DEF IsTold
<1>8. DOMAIN v.got = AllAsked(view)
  BY <1>4
<1>9. view = "dashboard" => DashboardTells(v.got)
  <2> SUFFICES ASSUME view = "dashboard" PROVE DashboardTells(v.got)
    OBVIOUS
  <2>1. DashboardGrows(v.got)
    BY <1>1, <1>2 DEF ReadingTells
  <2>2. "payments" \in DOMAIN v.got
    BY <1>8, AllIsAsked
  <2>3. QED
    BY <2>1, <2>2 DEF DashboardGrows
<1>10. view = "reconciliation" /\ ~w.moved =>
          \A query \in DOMAIN v.got : v.got[query] = Figure(query, {})
  BY <1>1, <1>2, <1>6 DEF ReadingTells
<1>11. view = "transactions" /\ v.inFlight = {} => v.got["summary"] = v.got["rows"]
  <2> SUFFICES ASSUME view = "transactions", v.inFlight = {}
               PROVE  v.got["summary"] = v.got["rows"]
    OBVIOUS
  <2>1. \A query \in DOMAIN v.got : v.got[query] = Cardinality(v.asOf)
    BY <1>1, <1>2 DEF ReadingTells
  <2>2. "summary" \in DOMAIN v.got /\ "rows" \in DOMAIN v.got
    BY <1>8, AllIsAsked
  <2>3. QED
    BY <2>1, <2>2
<1>15. view = "transactions" => v.got["summary"] <= v.got["rows"]
  <2> SUFFICES ASSUME view = "transactions" PROVE v.got["summary"] <= v.got["rows"]
    OBVIOUS
  <2>1. ReportGrows(v.got, v.asOf)
    BY <1>1, <1>2 DEF ReadingTells
  <2>2. "rows" \in DOMAIN v.got
    BY <1>8, AllIsAsked
  <2>3. QED
    BY <2>1, <2>2 DEF ReportGrows
<1>16. view = "captured" /\ ~w.moved => v.got["capturedSummary"] = v.got["capturedRows"]
  <2> SUFFICES ASSUME view = "captured", ~w.moved
               PROVE  v.got["capturedSummary"] = v.got["capturedRows"]
    OBVIOUS
  <2>1. \A query \in DOMAIN v.got : v.got[query] = Cardinality(WithStatus("CAPTURED") \cap v.asOf)
    BY <1>1, <1>2, <1>6 DEF ReadingTells
  <2>2. "capturedSummary" \in DOMAIN v.got /\ "capturedRows" \in DOMAIN v.got
    BY <1>8, AllIsAsked
  <2>3. QED
    BY <2>1, <2>2
<1>12. ToldTells(w)
  BY <1>6, <1>9, <1>10, <1>11, <1>15, <1>16 DEF ToldTells
<1>13. ASSUME NEW entry, entry = [got |-> v.got, since |-> v.since, raced |-> v.raced]
       PROVE  EntryHolds(view, entry)
  <2>1. entry.got = v.got /\ entry.since = v.since /\ entry.raced = v.raced
    BY <1>13
  <2>2. entry = [got |-> entry.got, since |-> entry.since, raced |-> entry.raced]
    BY <1>13, <2>1
  <2>3. v.since = summaries \/ v.raced
    BY <1>1 DEF ReadingTells
  <2>4. entry.raced \in BOOLEAN /\ (entry.since = summaries \/ entry.raced)
    BY <1>4, <2>1, <2>3, Zenon
  <2>5. QED
    BY <1>4, <1>9, <2>1, <2>2, <2>4 DEF EntryHolds
<1>14. QED
  BY <1>2, <1>3, <1>7, <1>12, <1>13 DEF ReaderHolds

-----------------------------------------------------------------------------
(* Invoices.                                                                *)

\* ROUND_HALF_EVEN is at most half a unit away.
LEMMA QuantizedIsNear ==
    ASSUME NEW n \in Nat
    PROVE  /\ Quantized(n, 100) \in Nat
           /\ 100 * Quantized(n, 100) - n \in -50 .. 50
<1>1. PICK q, r : q = n \div 100 /\ r = n % 100
  OBVIOUS
<1>2. q \in Nat /\ r \in 0 .. 99 /\ n = 100 * q + r
  BY <1>1
<1>3. Quantized(n, 100) = IF 2 * r > 100 \/ (2 * r = 100 /\ q % 2 = 1) THEN q + 1 ELSE q
  BY <1>1 DEF Quantized
<1>4. CASE 2 * r > 100 \/ (2 * r = 100 /\ q % 2 = 1)
  <2>1. Quantized(n, 100) = q + 1 /\ r >= 50
    BY <1>2, <1>3, <1>4
  <2>2. QED
    BY <1>2, <2>1
<1>5. CASE ~(2 * r > 100 \/ (2 * r = 100 /\ q % 2 = 1))
  <2>1. Quantized(n, 100) = q /\ r <= 50
    BY <1>2, <1>3, <1>5
  <2>2. QED
    BY <1>2, <2>1
<1>6. QED
  BY <1>4, <1>5

LEMMA InvoiceIsRight ==
    ASSUME NEW o \in Purchases, NEW row,
           row = [order |-> o, subtotal |-> Price[o], tax |-> TaxAmount(Price[o]),
                  total |-> Price[o] + TaxAmount(Price[o])]
    PROVE  row \in Invoice /\ InvoiceHolds(row)
<1>1. Price[o] \in Nat
  BY CheckoutAssumption
<1>2. PICK price, tax : price = Price[o] /\ tax = TaxAmount(price)
  OBVIOUS
<1>3. 18 * price \in Nat /\ price \in Nat
  BY <1>1, <1>2
<1>4. tax \in Nat /\ 100 * tax - 18 * price \in -50 .. 50
  BY <1>2, <1>3, QuantizedIsNear DEF TaxAmount
<1>5. row.order = o /\ row.subtotal = price /\ row.tax = tax /\ row.total = price + tax
  BY <1>2
<1>6. row = [order |-> o, subtotal |-> price, tax |-> tax, total |-> price + tax]
  BY <1>2
<1>7. row \in Invoice
  BY <1>3, <1>4, <1>6 DEF Invoice
<1>8. QED
  BY <1>4, <1>5, <1>7 DEF InvoiceHolds

-----------------------------------------------------------------------------
(* The invariant of readers.                                                *)

\* Everybody who reads, the cache and the invoices after a step.
LEMMA AllHold ==
    ASSUME NEW f, reader' = f, f = [x \in Readers |-> f[x]],
           \A x \in Readers : ReaderHolds(f[x])',
           NEW c, cache' = c, c = [k \in CachedViews |-> c[k]],
           \A k \in CachedViews : c[k] # NotCached => EntryHolds(k, c[k])',
           summaries' \in 0 .. MaxSummaries,
           NEW rows, invoices' = rows, rows \in Seq(Invoice),
           \A i \in DOMAIN rows : InvoiceHolds(rows[i])
    PROVE  ReadersInv'
BY DEF ReadersInv

\* A step of one reader.
LEMMA OneReader ==
    ASSUME ReadersInv, NEW x \in Readers, NEW w, reader' = [reader EXCEPT ![x] = w],
           ReaderHolds(w), UNCHANGED <<checkoutVars, summaries, invoices>>,
           NEW c, cache' = c, c = [k \in CachedViews |-> c[k]],
           \A k \in CachedViews : c[k] # NotCached => EntryHolds(k, c[k])
    PROVE  ReadersInv'
<1>1. PICK f : f = reader'
  OBVIOUS
<1>2. f = [y \in Readers |-> f[y]] /\ f[x] = w /\ \A y \in Readers : y # x => f[y] = reader[y]
  BY <1>1 DEF ReadersInv
<1>3. \A v : ReaderHolds(v) => ReaderHolds(v)'
  BY ReaderKept
<1>4. \A y \in Readers : ReaderHolds(f[y])
  BY <1>2 DEF ReadersInv
<1>5. \A y \in Readers : ReaderHolds(f[y])'
  BY <1>3, <1>4
<1>6. \A k \in CachedViews : c[k] # NotCached => EntryHolds(k, c[k])'
  BY DEF EntryHolds
<1>7. PICK rows : rows = invoices
  OBVIOUS
<1>8. /\ rows \in Seq(Invoice) /\ \A i \in DOMAIN rows : InvoiceHolds(rows[i])
      /\ invoices' = rows /\ summaries' \in 0 .. MaxSummaries
  BY <1>7 DEF ReadersInv
<1>9. QED
  BY <1>1, <1>2, <1>5, <1>6, <1>8, AllHold

\* The cache, when nothing is put into it.
LEMMA CacheHolds ==
    ASSUME ReadersInv
    PROVE  /\ cache = [k \in CachedViews |-> cache[k]]
           /\ \A k \in CachedViews : cache[k] # NotCached => EntryHolds(k, cache[k])
BY DEF ReadersInv

LEMMA ReadersStart ==
    ASSUME ReadersInv, NEW x \in Readers, NEW plan \in Seq(Views), Start(x, plan)
    PROVE  ReadersInv'
<1>1. PICK w, c : w = Planned(plan) /\ c = cache
  OBVIOUS
<1>2. IsPlanned(w)
  <2>1. w.plan = plan
    BY <1>1 DEF Planned
  <2>2. QED
    BY <1>1, <2>1 DEF IsPlanned
<1>3. /\ reader' = [reader EXCEPT ![x] = w] /\ cache' = c
      /\ UNCHANGED <<checkoutVars, summaries, invoices>>
  BY <1>1 DEF Start
<1>4. ReaderHolds(w)
  BY <1>2 DEF ReaderHolds
<1>5. c = [k \in CachedViews |-> c[k]] /\ \A k \in CachedViews : c[k] # NotCached => EntryHolds(k, c[k])
  BY <1>1, CacheHolds
<1>6. QED
  BY <1>3, <1>4, <1>5, OneReader

\* What a reader is asked for next.
LEMMA PlanIsList ==
    ASSUME NEW v, ReaderHolds(v), v.step = "told", v.plan # <<>>
    PROVE  Head(v.plan) \in Views /\ Tail(v.plan) \in Seq(Views)
<1>1. v.plan \in Seq(Views)
  BY ReaderSteps DEF ReaderHolds, IsPlanned, IsTold
<1>2. QED
  BY <1>1, HeadTailProperties

LEMMA ReadersOpen ==
    ASSUME RowsHold, ReadersInv, NEW x \in Readers, OpenView(x)
    PROVE  ReadersInv'
<1>1. PICK view, plan, v : v = reader[x] /\ view = Head(v.plan) /\ plan = Tail(v.plan)
  OBVIOUS
<1>2. /\ v.step = "told" /\ v.plan # <<>> /\ UNCHANGED <<checkoutVars, summaries, invoices, cache>>
  BY <1>1 DEF OpenView
<1>3. view \in Views /\ plan \in Seq(Views)
  <2>1. ReaderHolds(v)
    BY <1>1 DEF ReadersInv
  <2>2. QED
    BY <1>1, <1>2, <2>1, PlanIsList
<1>4. PICK c : c = cache
  OBVIOUS
<1>5. /\ c = [k \in CachedViews |-> c[k]] /\ cache' = c
      /\ \A k \in CachedViews : c[k] # NotCached => EntryHolds(k, c[k])
  BY <1>2, <1>4, CacheHolds
<1>9. PICK asOf \in Ranges(view) : reader' = [reader EXCEPT ![x] =
         IF view \in CachedViews /\ cache[view] # NotCached
         THEN Told(view, plan, [got |-> cache[view].got, inFlight |-> {}, moved |-> TRUE])
         ELSE Opened(view, plan, asOf)]
  BY <1>1, Zenon DEF OpenView, Opened
<1>10. asOf \in SUBSET Sales
  BY DEF Ranges
<1>6. CASE view \in CachedViews /\ c[view] # NotCached
  <2>1. PICK w : w = FromCache(view, plan, c[view])
    OBVIOUS
  <2>2. reader' = [reader EXCEPT ![x] = w]
    <3>1. reader' = [reader EXCEPT ![x] = FromCache(view, plan, c[view])]
      BY <1>1, <1>4, <1>6, <1>9, Zenon DEF FromCache
    <3>2. QED
      BY <2>1, <3>1
  <2>3. ReaderHolds(w)
    BY <1>3, <1>5, <1>6, <2>1, ReaderAnswered
  <2>4. QED
    BY <1>2, <1>5, <2>2, <2>3, OneReader
<1>7. CASE ~(view \in CachedViews /\ c[view] # NotCached)
  <2>1. PICK w : w = Opened(view, plan, asOf)
    OBVIOUS
  <2>2. reader' = [reader EXCEPT ![x] = w]
    <3>1. reader' = [reader EXCEPT ![x] = Opened(view, plan, asOf)]
      BY <1>4, <1>7, <1>9, Zenon
    <3>2. QED
      BY <2>1, <3>1
  <2>3. ReaderHolds(w)
    <3>1. summaries \in Nat
      BY ReportsAssumption DEF ReadersInv
    <3>2. QED
      BY <1>3, <1>10, <2>1, <3>1, ReaderOpens
  <2>4. QED
    BY <1>2, <1>5, <2>2, <2>3, OneReader
<1>8. QED
  BY <1>6, <1>7

LEMMA ReadersAsk ==
    ASSUME RowsHold, ReadersInv, NEW x \in Readers, Query(x)
    PROVE  ReadersInv'
<1>1. PICK v, w : v = reader[x] /\ w = Asking(v)
  OBVIOUS
<1>2. /\ v.step = "reading" /\ v.todo # <<>>
      /\ UNCHANGED <<checkoutVars, summaries, invoices, cache>>
  BY <1>1 DEF Query
<1>3. ReaderHolds(v)
  BY <1>1 DEF ReadersInv
<1>4. ReaderHolds(w)
  BY <1>1, <1>2, <1>3, ReaderAsks
<1>5. reader' = [reader EXCEPT ![x] = w]
  <2>1. reader' = [reader EXCEPT ![x] = Asking(reader[x])]
    BY DEF Query, Asking, OneMore
  <2>2. QED
    BY <1>1, <2>1
<1>6. PICK c : c = cache
  OBVIOUS
<1>7. /\ c = [k \in CachedViews |-> c[k]] /\ cache' = c
      /\ \A k \in CachedViews : c[k] # NotCached => EntryHolds(k, c[k])
  BY <1>2, <1>6, CacheHolds
<1>8. QED
  BY <1>2, <1>4, <1>5, <1>7, OneReader

LEMMA ReadersTell ==
    ASSUME ReadersInv, NEW x \in Readers, Tell(x)
    PROVE  ReadersInv'
<1>1. PICK v, w : v = reader[x] /\ w = Told(v.view, v.plan, v)
  OBVIOUS
<1>2. v.step = "reading" /\ v.todo = <<>> /\ UNCHANGED <<checkoutVars, summaries, invoices>>
  BY <1>1 DEF Tell
<1>3. ReaderHolds(v)
  BY <1>1 DEF ReadersInv
<1>4. PICK entry : entry = [got |-> v.got, since |-> v.since, raced |-> v.raced]
  OBVIOUS
<1>5. ReaderHolds(w) /\ v.view \in Views /\ EntryHolds(v.view, entry)
  BY <1>1, <1>2, <1>3, <1>4, ReaderTells
<1>6. reader' = [reader EXCEPT ![x] = w]
  BY <1>1 DEF Tell
<1>7. PICK c : c = cache'
  OBVIOUS
<1>8. c = IF v.view \in CachedViews THEN [cache EXCEPT ![v.view] = entry] ELSE cache
  BY <1>1, <1>4, <1>7 DEF Tell
<1>9. /\ c = [k \in CachedViews |-> c[k]]
      /\ \A k \in CachedViews : c[k] # NotCached => EntryHolds(k, c[k])
  <2>1. CASE v.view \in CachedViews
    <3>1. /\ c = [k \in CachedViews |-> c[k]] /\ c[v.view] = entry
          /\ \A k \in CachedViews : k # v.view => c[k] = cache[k]
      BY <1>8, <2>1, CacheHolds
    <3>2. QED
      BY <1>5, <3>1, CacheHolds
  <2>2. CASE v.view \notin CachedViews
    BY <1>8, <2>2, CacheHolds
  <2>3. QED
    BY <2>1, <2>2
<1>10. QED
  BY <1>2, <1>5, <1>6, <1>7, <1>9, OneReader

\* A summary runs: what it invalidates is gone.
LEMMA ReadersSummary ==
    ASSUME ReadersInv, NEW x \in Readers, DailySummary(x)
    PROVE  ReadersInv'
<1>1. PICK f, c, rows : f = reader' /\ c = cache' /\ rows = invoices
  OBVIOUS
<1>2. PICK plan : plan = <<"dashboard", "settlement", "admin">>
  OBVIOUS
<1>3. /\ summaries < MaxSummaries /\ summaries' = summaries + 1
      /\ c = [k \in CachedViews |-> IF k \in Invalidated THEN NotCached ELSE cache[k]]
      /\ f = [y \in Readers |->
                IF y = x THEN Planned(plan)
                ELSE IF reader[y].step = "reading" THEN [reader[y] EXCEPT !.raced = TRUE]
                ELSE reader[y]]
      /\ UNCHANGED <<checkoutVars, invoices>>
  BY <1>1, <1>2, Zenon DEF DailySummary
<1>4. f = [y \in Readers |-> f[y]] /\ c = [k \in CachedViews |-> c[k]]
  BY <1>3
<1>5. ASSUME NEW y \in Readers PROVE ReaderHolds(f[y])'
  <2>1. CASE y = x
    <3>1. PICK w : w = Planned(plan)
      OBVIOUS
    <3>2. plan \in Seq(Views)
      BY <1>2 DEF Views, CachedViews
    <3>3. w.plan = plan
      BY <3>1 DEF Planned
    <3>4. IsPlanned(w)
      BY <3>1, <3>2, <3>3 DEF IsPlanned
    <3>5. f[y] = w
      BY <1>3, <2>1, <3>1
    <3>6. ReaderHolds(w)'
      BY <3>4 DEF ReaderHolds
    <3>7. QED
      BY <3>5, <3>6
  <2>2. CASE y # x
    <3>1. PICK v, w : v = reader[y] /\ w = f[y]
      OBVIOUS
    <3>2. w = IF v.step = "reading" THEN [v EXCEPT !.raced = TRUE] ELSE v
      BY <1>3, <2>2, <3>1, Zenon
    <3>3. ReaderHolds(v)
      BY <3>1 DEF ReadersInv
    <3>4. ReaderHolds(w)'
      BY <1>3, <3>2, <3>3, ReaderRaced
    <3>5. QED
      BY <3>1, <3>4
  <2>3. QED
    BY <2>1, <2>2
<1>6. ASSUME NEW k \in CachedViews, c[k] # NotCached PROVE EntryHolds(k, c[k])'
  <2>1. k \notin Invalidated /\ c[k] = cache[k]
    BY <1>3, <1>6
  <2>2. PICK entry : entry = c[k]
    OBVIOUS
  <2>3. EntryHolds(k, entry)
    BY <1>6, <2>1, <2>2 DEF ReadersInv
  <2>4. EntryHolds(k, entry)'
    BY <2>1, <2>3 DEF EntryHolds
  <2>5. QED
    BY <2>2, <2>4
<1>7. summaries' \in 0 .. MaxSummaries
  BY <1>3, ReportsAssumption DEF ReadersInv
<1>8. /\ rows \in Seq(Invoice) /\ \A i \in DOMAIN rows : InvoiceHolds(rows[i])
      /\ invoices' = rows
  BY <1>1, <1>3 DEF ReadersInv
<1>9. QED
  BY <1>1, <1>4, <1>5, <1>6, <1>7, <1>8, AllHold

LEMMA ReadersExpire ==
    ASSUME ReadersInv, NEW k \in CachedViews, CacheExpires(k)
    PROVE  ReadersInv'
<1>1. PICK f, c, rows : f = reader /\ c = cache' /\ rows = invoices
  OBVIOUS
<1>2. c = [cache EXCEPT ![k] = NotCached] /\ UNCHANGED <<checkoutVars, reader, summaries, invoices>>
  BY <1>1 DEF CacheExpires
<1>3. /\ c = [l \in CachedViews |-> c[l]] /\ c[k] = NotCached
      /\ \A l \in CachedViews : l # k => c[l] = cache[l]
  BY <1>2, CacheHolds
<1>4. \A l \in CachedViews : c[l] # NotCached => EntryHolds(l, c[l])
  BY <1>3, CacheHolds
<1>5. \A l \in CachedViews : c[l] # NotCached => EntryHolds(l, c[l])'
  BY <1>2, <1>4 DEF EntryHolds
<1>6. f = [x \in Readers |-> f[x]] /\ \A x \in Readers : ReaderHolds(f[x])
  BY <1>1 DEF ReadersInv
<1>7. \A v : ReaderHolds(v) => ReaderHolds(v)'
  BY <1>2, ReaderKept
<1>8. \A x \in Readers : ReaderHolds(f[x])'
  BY <1>6, <1>7
<1>9. /\ rows \in Seq(Invoice) /\ \A i \in DOMAIN rows : InvoiceHolds(rows[i])
      /\ invoices' = rows /\ reader' = f /\ summaries' \in 0 .. MaxSummaries
  BY <1>1, <1>2 DEF ReadersInv
<1>10. QED
  BY <1>1, <1>3, <1>5, <1>6, <1>8, <1>9, AllHold

\* Nothing but an invoice is written.
LEMMA ReadersInvoice ==
    ASSUME ReadersInv, UNCHANGED <<checkoutVars, reader, cache, summaries>>,
           \/ invoices' = invoices
           \/ \E o \in Purchases : CreateInvoice(o)
    PROVE  ReadersInv'
<1>1. PICK f, c, rows, old : f = reader /\ c = cache /\ rows = invoices' /\ old = invoices
  OBVIOUS
<1>2. old \in Seq(Invoice) /\ \A i \in DOMAIN old : InvoiceHolds(old[i])
  BY <1>1 DEF ReadersInv
<1>3. rows \in Seq(Invoice) /\ \A i \in DOMAIN rows : InvoiceHolds(rows[i])
  <2>1. CASE rows = old
    BY <1>2, <2>1
  <2>2. CASE rows # old
    <3>1. PICK o \in Purchases : CreateInvoice(o)
      BY <1>1, <2>2
    <3>2. PICK row : row = [order |-> o, subtotal |-> Price[o], tax |-> TaxAmount(Price[o]),
                            total |-> Price[o] + TaxAmount(Price[o])]
      OBVIOUS
    <3>3. rows = Append(old, row)
      BY <1>1, <3>1, <3>2 DEF CreateInvoice
    <3>4. row \in Invoice /\ InvoiceHolds(row)
      BY <3>2, InvoiceIsRight
    <3>5. /\ rows \in Seq(Invoice) /\ Len(rows) = Len(old) + 1
          /\ \A i \in 1 .. Len(old) : rows[i] = old[i]
          /\ rows[Len(old) + 1] = row
      BY <1>2, <3>3, <3>4, AppendProperties
    <3>6. Len(old) \in Nat /\ DOMAIN old = 1 .. Len(old) /\ DOMAIN rows = 1 .. Len(old) + 1
      BY <1>2, <3>5, LenProperties
    <3>7. ASSUME NEW i \in DOMAIN rows PROVE InvoiceHolds(rows[i])
      <4>1. i \in 1 .. Len(old) \/ i = Len(old) + 1
        BY <3>6
      <4>2. QED
        BY <1>2, <3>4, <3>5, <3>6, <4>1
    <3>8. QED
      BY <3>5, <3>7
  <2>3. QED
    BY <2>1, <2>2
<1>4. /\ f = [x \in Readers |-> f[x]] /\ \A x \in Readers : ReaderHolds(f[x])
      /\ c = [k \in CachedViews |-> c[k]]
      /\ \A k \in CachedViews : c[k] # NotCached => EntryHolds(k, c[k])
  BY <1>1 DEF ReadersInv
<1>5. \A v : ReaderHolds(v) => ReaderHolds(v)'
  BY ReaderKept
<1>6. \A x \in Readers : ReaderHolds(f[x])'
  BY <1>4, <1>5
<1>7. \A k \in CachedViews : c[k] # NotCached => EntryHolds(k, c[k])'
  BY <1>4 DEF EntryHolds
<1>8. summaries' \in 0 .. MaxSummaries /\ reader' = f /\ cache' = c
  BY <1>1 DEF ReadersInv
<1>9. QED
  BY <1>1, <1>3, <1>4, <1>6, <1>7, <1>8, AllHold

LEMMA ReadersMoved ==
    ASSUME RowsHold, RowsHold', ReadersInv, BooksMove
    PROVE  ReadersInv'
<1>1. PICK f, c, rows : f = reader' /\ c = cache /\ rows = invoices
  OBVIOUS
<1>2. /\ [CheckoutNext]_checkoutVars /\ UNCHANGED <<cache, summaries, invoices>>
      /\ f = [x \in Readers |-> AfterMove(reader[x])]
  BY <1>1 DEF BooksMove, AfterMove
<1>3. ASSUME NEW x \in Readers PROVE ReaderHolds(f[x])'
  <2>1. PICK v, w : v = reader[x] /\ w = AfterMove(v)
    OBVIOUS
  <2>2. ReaderHolds(v)
    BY <2>1 DEF ReadersInv
  <2>3. summaries' = summaries
    BY <1>2
  <2>4. ReaderHolds(w)'
    BY <1>2, <2>1, <2>2, <2>3, ReaderMoved
  <2>5. f[x] = w
    BY <1>2, <2>1
  <2>6. QED
    BY <2>4, <2>5
<1>4. f = [x \in Readers |-> f[x]]
  BY <1>2
<1>5. /\ c = [k \in CachedViews |-> c[k]] /\ cache' = c
      /\ \A k \in CachedViews : c[k] # NotCached => EntryHolds(k, c[k])
  BY <1>1, <1>2, CacheHolds
<1>6. \A k \in CachedViews : c[k] # NotCached => EntryHolds(k, c[k])'
  BY <1>2, <1>5 DEF EntryHolds
<1>7. /\ rows \in Seq(Invoice) /\ \A i \in DOMAIN rows : InvoiceHolds(rows[i])
      /\ invoices' = rows /\ summaries' \in 0 .. MaxSummaries
  BY <1>1, <1>2 DEF ReadersInv
<1>8. QED
  BY <1>1, <1>3, <1>4, <1>5, <1>6, <1>7, AllHold

\* The books and who reads them.
ReportInv == LedgerInv /\ ReadersInv

LEMMA ReportsBegin == BooksInit => ReportInv
<1> SUFFICES ASSUME BooksInit PROVE ReportInv
  OBVIOUS
<1>1. LedgerInv
  BY LedgerBegins DEF BooksInit
<1>2. /\ reader = [x \in Readers |-> Idle] /\ cache = [k \in CachedViews |-> NotCached]
      /\ summaries = 0 /\ invoices = <<>>
  BY DEF BooksInit, ReportInit
<1>3. \A x \in Readers : ReaderHolds(reader[x])
  BY <1>2 DEF ReaderHolds
<1>4. reader = [x \in Readers |-> reader[x]] /\ cache = [k \in CachedViews |-> cache[k]]
      /\ \A k \in CachedViews : cache[k] = NotCached
  BY <1>2
<1>5. /\ invoices \in Seq(Invoice) /\ DOMAIN invoices = {}
      /\ summaries \in 0 .. MaxSummaries
  BY <1>2, ReportsAssumption
<1>6. ReadersInv
  BY <1>3, <1>4, <1>5 DEF ReadersInv
<1>7. QED
  BY <1>1, <1>6 DEF ReportInv

LEMMA ReportsStay == ReportInv /\ [ReportNext]_booksVars => ReportInv'
<1> SUFFICES ASSUME ReportInv, [ReportNext]_booksVars PROVE ReportInv'
  OBVIOUS
<1>1. LedgerInv /\ ReadersInv /\ RowsHold
  BY DEF ReportInv, LedgerInv, BooksInv, RowsHold
<1>2. \/ BooksMove
      \/ UNCHANGED checkoutVars
  BY DEF ReportNext, AskFor, WeeklySummary, MonthlySummary, Start, DailySummary, OpenView, Query,
         Tell, CacheExpires, CreateInvoice, booksVars
<1>3. [CheckoutNext]_checkoutVars
  BY <1>2 DEF BooksMove
<1>4. LedgerInv' /\ RowsHold'
  <2>1. LedgerInv'
    BY <1>1, <1>3, LedgerStays
  <2>2. QED
    BY <2>1 DEF LedgerInv, BooksInv, RowsHold
<1>5. CASE BooksMove
  BY <1>1, <1>4, <1>5, ReadersMoved DEF ReportInv
<1>6. ASSUME NEW x \in Readers, NEW view \in Views, AskFor(x, view) PROVE ReportInv'
  <2>1. <<view>> \in Seq(Views)
    OBVIOUS
  <2>2. QED
    BY <1>1, <1>4, <1>6, <2>1, ReadersStart DEF AskFor, ReportInv
<1>7. ASSUME NEW x \in Readers, WeeklySummary(x) \/ MonthlySummary(x) PROVE ReportInv'
  <2>1. <<"weekly:30">> \in Seq(Views) /\ <<"monthly:365">> \in Seq(Views)
    BY DEF Views, CachedViews
  <2>2. QED
    BY <1>1, <1>4, <1>7, <2>1, ReadersStart DEF WeeklySummary, MonthlySummary, ReportInv
<1>8. ASSUME NEW x \in Readers, DailySummary(x) PROVE ReportInv'
  BY <1>1, <1>4, <1>8, ReadersSummary DEF ReportInv
<1>9. ASSUME NEW x \in Readers, OpenView(x) PROVE ReportInv'
  BY <1>1, <1>4, <1>9, ReadersOpen DEF ReportInv
<1>10. ASSUME NEW x \in Readers, Query(x) PROVE ReportInv'
  BY <1>1, <1>4, <1>10, ReadersAsk DEF ReportInv
<1>11. ASSUME NEW x \in Readers, Tell(x) PROVE ReportInv'
  BY <1>1, <1>4, <1>11, ReadersTell DEF ReportInv
<1>12. ASSUME NEW k \in CachedViews, CacheExpires(k) PROVE ReportInv'
  BY <1>1, <1>4, <1>12, ReadersExpire DEF ReportInv
<1>13. ASSUME NEW o \in Purchases, CreateInvoice(o) PROVE ReportInv'
  <2>1. UNCHANGED <<checkoutVars, reader, cache, summaries>>
    BY <1>13 DEF CreateInvoice
  <2>2. QED
    BY <1>1, <1>4, <1>13, <2>1, ReadersInvoice DEF ReportInv
<1>14. CASE UNCHANGED booksVars
  <2>1. UNCHANGED <<checkoutVars, reader, cache, summaries>> /\ invoices' = invoices
    BY <1>14 DEF booksVars, reportVars
  <2>2. QED
    BY <1>1, <1>4, <2>1, ReadersInvoice DEF ReportInv
<1>15. QED
  BY <1>5, <1>6, <1>7, <1>8, <1>9, <1>10, <1>11, <1>12, <1>13, <1>14, Zenon DEF ReportNext

-----------------------------------------------------------------------------
(* What readers are told.                                                   *)

\* As long as orders have one payment each, what was captured differs from what
\* PAID orders cost by what was refunded and by what was captured of orders that
\* are closed; if there is nothing of one, by the other alone.
LEMMA PaidIsCaptured ==
    ASSUME LedgerInv, OnePayment
    PROVE  /\ ClosedOver = {} => (Figure("paid", {}) = Figure("revenue", {}) <=> Returned = {})
           /\ Returned = {} => (Figure("paid", {}) = Figure("revenue", {}) <=> ClosedOver = {})
<1>0. SaleInv /\ ReturnInv /\ PaidInv
  BY DEF LedgerInv, BooksInv
<1>1. PICK K, P, T : /\ K = {p \in Recorded : paymentRow[p].status \in Kept}
                     /\ P = {p \in K : purchase[paymentRow[p].order] = "PAID"}
                     /\ T = WithStatus("CAPTURED")
  OBVIOUS
<1>2. PICK f : f = Costs(paymentRow)
  OBVIOUS
<1>3. PICK h : h = [p \in P |-> paymentRow[p].order]
  OBVIOUS
<1>4. /\ K \in SUBSET Sales /\ K \subseteq Recorded
      /\ \A p \in Recorded : p \in Sales /\ paymentRow[p].order \in Purchases
  BY <1>0, <1>1, Rows DEF PaymentRow
<1>5. P \in SUBSET K /\ T \in SUBSET K /\ T \in SUBSET Recorded
  BY <1>1 DEF WithStatus, Kept
<1>6. IsFiniteSet(K) /\ IsFiniteSet(P) /\ IsFiniteSet(Purchases)
  BY <1>4, <1>5, CheckoutAssumption, FS_Subset
<1>7. \A p \in K : f[p] \in Nat /\ f[p] > 0 /\ f[p] \in Int /\ Price[paymentRow[p].order] = f[p]
  <2>1. \A o \in Purchases : Price[o] \in Nat /\ Price[o] > 0
    BY CheckoutAssumption
  <2>2. \A p \in K : f[p] = Price[paymentRow[p].order]
    BY <1>2, <1>4 DEF Costs
  <2>3. QED
    BY <1>4, <2>1, <2>2
<1>8. /\ h \in [P -> Purchases] /\ \A p, q \in P : h[p] = h[q] => p = q
      /\ \A p \in P : f[p] \in Int /\ Price[h[p]] = f[p]
  BY <1>3, <1>4, <1>5, <1>7 DEF OnePayment
<1>9. PaidOrders = {h[p] : p \in P}
  <2>1. ASSUME NEW o \in Purchases, purchase[o] = "PAID" PROVE \E p \in P : h[p] = o
    <3>1. PICK p \in Recorded : paymentRow[p].order = o /\ paymentRow[p].status \in Kept
      BY <1>0, <2>1 DEF PaidInv, PaidFor
    <3>2. p \in P
      BY <1>1, <2>1, <3>1
    <3>3. QED
      BY <1>3, <3>1, <3>2
  <2>2. \A p \in P : h[p] \in Purchases /\ purchase[h[p]] = "PAID"
    BY <1>1, <1>3, <1>8
  <2>3. QED
    BY <2>1, <2>2 DEF PaidOrders
<1>10. SumOf(Price, PaidOrders) = SumOf(f, P)
  BY <1>6, <1>8, <1>9, SumRenamed
<1>11. Figure("paid", {}) = SumOf(f, P)
  <2>1. Figure("paid", {}) = SumFunction([o \in PaidOrders |-> Price[o]])
    BY DEF Figure
  <2>2. QED
    BY <1>10, <2>1, SumOfOrders
<1>12. Figure("revenue", {}) = SumOf(f, T)
  <2>1. Figure("revenue", {}) = SumSales(T)
    BY <1>1 DEF Figure
  <2>2. QED
    BY <1>0, <1>2, <1>5, <2>1, SumOfSales
<1>13. \A S \in SUBSET K : SumOf(f, S) = SumOf(f, K) <=> S = K
  BY <1>6, <1>7, SumGrows
<1>14. P = K <=> ClosedOver = {}
  BY <1>1 DEF ClosedOver
<1>15. T = K <=> Returned = {}
  <2>1. T = K <=> \A p \in Recorded :
                     paymentRow[p].status \notin {"PARTIALLY_REFUNDED", "FULLY_REFUNDED"}
    BY <1>1 DEF WithStatus, Kept
  <2>2. \A p \in Recorded :
           paymentRow[p].status \in {"PARTIALLY_REFUNDED", "FULLY_REFUNDED"}
              <=> \E r \in Returned : refundRow[r].of = p
    BY <1>0 DEF PaidInv
  <2>3. \A r \in Returned : refundRow[r].of \in Recorded
    BY <1>0 DEF ReturnInv, Returned
  <2>4. QED
    BY <2>1, <2>2, <2>3
<1>16. ASSUME ClosedOver = {} PROVE Figure("paid", {}) = Figure("revenue", {}) <=> Returned = {}
  <2>1. SumOf(f, P) = SumOf(f, K)
    BY <1>14, <1>16
  <2>2. QED
    BY <1>5, <1>11, <1>12, <1>13, <1>15, <2>1
<1>17. ASSUME Returned = {} PROVE Figure("paid", {}) = Figure("revenue", {}) <=> ClosedOver = {}
  <2>1. SumOf(f, T) = SumOf(f, K)
    BY <1>15, <1>17
  <2>2. QED
    BY <1>5, <1>11, <1>12, <1>13, <1>14, <2>1
<1>18. QED
  BY <1>16, <1>17

\* A reader that has been told something of a view holds an answer.
LEMMA ToldHolds ==
    ASSUME ReadersInv, NEW x \in Readers, NEW view \in Views,
           reader[x].step = "told", reader[x].view = view
    PROVE  IsTold(reader[x]) /\ ToldTells(reader[x])
<1>1. PICK v : v = reader[x]
  OBVIOUS
<1>2. ReaderHolds(v)
  BY <1>1 DEF ReadersInv
<1>3. ~IsPlanned(v)
  <2> SUFFICES ASSUME IsPlanned(v) PROVE FALSE
    OBVIOUS
  <2>1. v.view = "none"
    BY DEF IsPlanned, Planned
  <2>2. QED
    BY <1>1, <2>1 DEF Views, CachedViews, Reports
<1>4. IsTold(v) /\ ToldTells(v)
  BY <1>1, <1>2, <1>3, ReaderSteps DEF ReaderHolds
<1>5. QED
  BY <1>1, <1>4

LEMMA ReportsAreRight == ReportInv => ReportsTell
<1> SUFFICES ASSUME ReportInv PROVE ReportsTell
  OBVIOUS
<1>0. ReadersInv /\ LedgerInv
  BY DEF ReportInv
<1>1. DashboardAddsUp
  <2>1. ASSUME cache.dashboard # NotCached
        PROVE  cache.dashboard.got.captured + cache.dashboard.got.failed
                  <= cache.dashboard.got.payments
    <3>1. EntryHolds("dashboard", cache["dashboard"])
      BY <1>0, <2>1 DEF ReadersInv, CachedViews
    <3>2. QED
      BY <3>1 DEF EntryHolds, DashboardTells
  <2>2. ASSUME NEW x \in Readers, reader[x].step = "told", reader[x].view = "dashboard"
        PROVE  reader[x].got.captured + reader[x].got.failed <= reader[x].got.payments
    <3>1. ToldTells(reader[x])
      BY <1>0, <2>2, ToldHolds DEF Views, CachedViews
    <3>2. QED
      BY <2>2, <3>1 DEF ToldTells, DashboardTells
  <2>3. QED
    BY <2>1, <2>2 DEF DashboardAddsUp
<1>2. InvalidationIsSeen
  <2> SUFFICES ASSUME NEW k \in Invalidated \cup {"settlement"}, cache[k] # NotCached
               PROVE  cache[k].since = summaries \/ cache[k].raced
    BY DEF InvalidationIsSeen
  <2>1. k \in Invalidated /\ k \in CachedViews
    BY DEF Invalidated, CachedViews
  <2>2. EntryHolds(k, cache[k])
    BY <1>0, <2>1 DEF ReadersInv
  <2>3. QED
    BY <2>1, <2>2 DEF EntryHolds
<1>3. ReconciliationTells
  <2> SUFFICES ASSUME NEW x \in Readers,
                      reader[x].step = "told", reader[x].view = "reconciliation",
                      ~reader[x].moved,
                      \A p, q \in Recorded : paymentRow[p].order = paymentRow[q].order => p = q
               PROVE  LET reconciled == reader[x].got.paid = reader[x].got.revenue
                      IN /\ ClosedOver = {} => (reconciled <=> Returned = {})
                         /\ Returned = {} => (reconciled <=> ClosedOver = {})
    BY DEF ReconciliationTells
  <2>1. IsTold(reader[x]) /\ ToldTells(reader[x])
    BY <1>0, ToldHolds DEF Views
  <2>2. DOMAIN reader[x].got = {"paid", "revenue", "returned"}
    BY <2>1, AllIsAsked DEF IsTold
  <2>3. /\ reader[x].got["paid"] = Figure("paid", {})
        /\ reader[x].got["revenue"] = Figure("revenue", {})
    BY <2>1, <2>2 DEF ToldTells
  <2>4. /\ ClosedOver = {} => (Figure("paid", {}) = Figure("revenue", {}) <=> Returned = {})
        /\ Returned = {} => (Figure("paid", {}) = Figure("revenue", {}) <=> ClosedOver = {})
    BY <1>0, PaidIsCaptured DEF OnePayment
  <2>5. QED
    BY <2>3, <2>4
<1>4. ReportAddsUp
  <2> SUFFICES ASSUME NEW x \in Readers, reader[x].step = "told"
               PROVE  /\ reader[x].view = "transactions" =>
                            /\ reader[x].got.summary <= reader[x].got.rows
                            /\ reader[x].inFlight = {} =>
                                  reader[x].got.summary = reader[x].got.rows
                      /\ reader[x].view = "captured" /\ ~reader[x].moved =>
                            reader[x].got.capturedSummary = reader[x].got.capturedRows
    BY DEF ReportAddsUp
  <2>1. reader[x].view \in Reports => ToldTells(reader[x])
    BY <1>0, ToldHolds DEF Views
  <2>2. QED
    BY <2>1 DEF ToldTells, Reports
<1>5. InvoiceAddsUp
  BY <1>0 DEF ReadersInv, InvoiceHolds, InvoiceAddsUp
<1>6. QED
  BY <1>1, <1>2, <1>3, <1>4, <1>5 DEF ReportsTell

\* Dashboards, cached or not, never show more captured and failed payments than
\* payments; what a summary invalidates is gone unless a reader raced with it;
\* if orders have one payment each and the books have not moved since,
\* reconciliation finds a difference exactly when something was refunded or a
\* captured payment's order is closed, where only one of them is the case; a
\* report on all payments counts no more than its rows, and as many if its range
\* was recorded when it was asked for; one on payments with a status counts its
\* rows if the books have not moved; and invoices add up.
THEOREM ReportsStayTrue == BooksSpec => []ReportsTell
BY ReportsBegin, ReportsStay, ReportsAreRight, PTL DEF BooksSpec

\* Every variable of the books has its type.
THEOREM CheckoutTypesStay == BooksSpec => []CheckoutTypeOK
<1>1. ReportInv => CheckoutTypeOK
  <2> SUFFICES ASSUME ReportInv PROVE CheckoutTypeOK
    OBVIOUS
  <2>1. SaleInv
    BY DEF ReportInv, LedgerInv, BooksInv
  <2>2. QED
    BY <2>1, Rows DEF SaleInv, CheckoutTypeOK, AnsweredSteps
<1>2. QED
  BY ReportsBegin, ReportsStay, <1>1, PTL DEF BooksSpec

\* Every variable of readers has its type; in the cache every query of a view
\* is answered with a number.
THEOREM ReportTypesStay == BooksSpec => []ReportTypeOK
<1>1. ReportInv => ReportTypeOK
  <2> SUFFICES ASSUME ReportInv PROVE ReportTypeOK
    OBVIOUS
  <2>0. ReadersInv
    BY DEF ReportInv
  <2>1. ASSUME NEW x \in Readers PROVE reader[x].step \in {"idle", "reading", "told"}
    BY <2>0, ReaderSteps DEF ReadersInv, ReaderHolds
  <2>2. ASSUME NEW k \in CachedViews, cache[k] # NotCached
        PROVE  /\ DOMAIN cache[k].got = {Queries(k)[i] : i \in DOMAIN Queries(k)}
               /\ \A query \in DOMAIN cache[k].got : cache[k].got[query] \in Nat
    <3>1. EntryHolds(k, cache[k])
      BY <2>0, <2>2 DEF ReadersInv
    <3>2. k \in Views
      BY DEF Views
    <3>3. Queries(k) \in Seq(Questions)
      BY <3>2, ViewsAsk
    <3>4. AllAsked(k) = {Queries(k)[i] : i \in DOMAIN Queries(k)}
      <4>1. DOMAIN Queries(k) = 1 .. Len(Queries(k))
        BY <3>3, LenProperties
      <4>2. QED
        BY <4>1 DEF AllAsked, Asked
    <3>5. QED
      BY <3>1, <3>4 DEF EntryHolds
  <2>3. \A i \in DOMAIN invoices : invoices[i].order \in Purchases
    BY <2>0 DEF ReadersInv, InvoiceHolds
  <2>4. summaries \in 0 .. MaxSummaries
    BY <2>0 DEF ReadersInv
  <2>5. QED
    BY <2>1, <2>2, <2>3, <2>4 DEF ReportTypeOK
<1>2. QED
  BY ReportsBegin, ReportsStay, <1>1, PTL DEF BooksSpec

\* The balance of the books holds however much they are read.
THEOREM BooksStayAccounted == BooksSpec => []MoneyIsAccounted
<1>1. ReportInv => MoneyIsAccounted
  BY BooksTell DEF ReportInv, LedgerInv
<1>2. QED
  BY ReportsBegin, ReportsStay, <1>1, PTL DEF BooksSpec
=============================================================================
