---------------------------- MODULE WalletProofs ----------------------------
(***************************************************************************)
(* Theorems about Wallet, for any sets of wallets, calls and amounts.      *)
(*                                                                         *)
(* The inductive invariant is IInv: the types, what the row lock protects, *)
(* and what a thread has established by the time it is at each step.       *)
(* TypeOK is not inductive without it: that a balance stays in its column  *)
(* follows from the tests a debit made on the row before its UPDATE, and   *)
(* from the lock that keeps that row as it was until the COMMIT.           *)
(***************************************************************************)
EXTENDS Wallet, TLAPS

\* What each step of a thread relies on when it runs.
PhaseOK ==
    /\ \A r \in Requests :
          /\ pc[r] = "written" => Accepted(r)
          /\ pc[r] \in {"selected", "locked", "written"} => Exists(ask[r].wallet)
    /\ \A w \in Wallets : ~Exists(w) => row[w].balance = 0

IInv == TypeOK /\ LockProtectsRow /\ PhaseOK

\* The initial state satisfies the inductive invariant.
LEMMA InitIInv == Init => IInv
BY WalletAssumption
   DEF Init, IInv, TypeOK, LockProtectsRow, PhaseOK, Row, Absent, InTransaction, Exists

\* The balance an accepted credit or debit leaves fits the column.
LEMMA AcceptedFits ==
    ASSUME TypeOK, NEW r \in Requests, Accepted(r), ask[r].op \in Movements
    PROVE  BalanceAfter(r) \in 0 .. MaxBalance
<1>1. ask[r] \in Ask /\ seen[r] \in Row
  BY DEF TypeOK
<1>2. seen[r].balance \in 0 .. MaxBalance
  BY <1>1 DEF Row
<1>3. ask[r].amount \in Nat
  <2>1. CASE ask[r] \in [op : Movements, wallet : Wallets, amount : Amounts]
    BY <2>1, WalletAssumption
  <2>2. CASE ask[r] \in [op : Switches \cup {"open"}, wallet : Wallets, amount : {0}]
    BY <2>2
  <2>3. QED
    BY <1>1, <2>1, <2>2 DEF Ask
<1>4. QED
  BY <1>2, <1>3, WalletAssumption DEF Accepted, BalanceAfter, Movements

\* Every step of a call keeps the types.
LEMMA StepTypeOK ==
    ASSUME IInv, NEW r \in Requests, Step(r)
    PROVE  TypeOK'
<1> DEFINE w == ask[r].wallet
<1>0. TypeOK /\ LockProtectsRow /\ PhaseOK
  BY DEF IInv
<1>1. ask[r] \in Ask /\ w \in Wallets /\ row[w] \in Row /\ seen[r] \in Row
  BY <1>0 DEF TypeOK, Ask
<1>2. CASE Get(r)
  BY <1>0, <1>2 DEF Get, TypeOK, Goto
<1>3. CASE CreateRow(r)
  <2>1. [status |-> "ACTIVE", balance |-> 0] \in Row
    BY WalletAssumption DEF Row
  <2>2. QED
    BY <1>0, <1>1, <1>3, <2>1 DEF CreateRow, TypeOK, Return, Goto
<1>4. CASE Refuse(r)
  BY <1>0, <1>4 DEF Refuse, TypeOK, Return, Goto
<1>5. CASE LockRow(r)
  BY <1>0, <1>1, <1>5 DEF LockRow, TypeOK, Goto
<1>6. CASE SaveBalance(r)
  BY <1>0, <1>6 DEF SaveBalance, TypeOK, Goto
<1>7. CASE Commit(r)
  <2>1. BalanceAfter(r) \in 0 .. MaxBalance
    BY <1>0, <1>7, AcceptedFits
       DEF Commit, PhaseOK, LockProtectsRow, InTransaction
  <2>2. row' \in [Wallets -> Row]
    BY <1>0, <1>1, <1>7, <2>1 DEF Commit, TypeOK, Row
  <2>3. [before |-> seen[r].balance, after |-> BalanceAfter(r)] \in Entry
    BY <1>1, <2>1 DEF Row, Entry
  <2>4. ledger' \in [Wallets -> Seq(Entry)]
    <3>1. Append(ledger[w], [before |-> seen[r].balance, after |-> BalanceAfter(r)])
             \in Seq(Entry)
      BY <1>0, <1>1, <2>3 DEF TypeOK
    <3>2. QED
      BY <1>0, <1>7, <3>1 DEF Commit, TypeOK
  <2>5. QED
    BY <1>0, <1>7, <2>2, <2>4 DEF Commit, TypeOK, Return, Goto
<1>8. CASE Rollback(r)
  BY <1>0, <1>8 DEF Rollback, TypeOK, Return, Goto
<1>9. CASE Select(r)
  BY <1>0, <1>1, <1>9 DEF Select, TypeOK, Goto
<1>10. CASE SaveStatus(r)
  BY <1>0, <1>1, <1>10 DEF SaveStatus, TypeOK, Row, Return, Goto
<1>11. QED
  BY <1>2, <1>3, <1>4, <1>5, <1>6, <1>7, <1>8, <1>9, <1>10 DEF Step

\* Every step of a call keeps the discipline of the row lock.
LEMMA StepLock ==
    ASSUME IInv, NEW r \in Requests, Step(r)
    PROVE  LockProtectsRow'
<1> DEFINE w == ask[r].wallet
<1>0. TypeOK /\ LockProtectsRow /\ PhaseOK /\ NoRequest \notin Requests
  BY WalletAssumption DEF IInv
<1>1. ask \in [Requests -> Ask] /\ w \in Wallets
  BY <1>0 DEF TypeOK, Ask
<1>2. CASE Get(r)
  BY <1>0, <1>2 DEF Get, TypeOK, LockProtectsRow, InTransaction, Goto, At
<1>3. CASE CreateRow(r)
  BY <1>0, <1>1, <1>3
     DEF CreateRow, TypeOK, LockProtectsRow, InTransaction, Return, Goto, At, Exists,
         PhaseOK
<1>4. CASE Refuse(r)
  BY <1>0, <1>4 DEF Refuse, TypeOK, LockProtectsRow, InTransaction, Return, Goto, At
<1>5. CASE LockRow(r)
  BY <1>0, <1>1, <1>5 DEF LockRow, TypeOK, LockProtectsRow, InTransaction, Goto, At
<1>6. CASE SaveBalance(r)
  BY <1>0, <1>6 DEF SaveBalance, TypeOK, LockProtectsRow, InTransaction, Goto
<1>7. CASE Commit(r)
  BY <1>0, <1>1, <1>7 DEF Commit, TypeOK, LockProtectsRow, InTransaction, Return, Goto
<1>8. CASE Rollback(r)
  BY <1>0, <1>1, <1>8 DEF Rollback, TypeOK, LockProtectsRow, InTransaction, Return, Goto
<1>9. CASE Select(r)
  BY <1>0, <1>1, <1>9 DEF Select, TypeOK, LockProtectsRow, InTransaction, Goto, At,
                          Movements, Switches
<1>10. CASE SaveStatus(r)
  BY <1>0, <1>1, <1>10 DEF SaveStatus, TypeOK, LockProtectsRow, InTransaction, Return, Goto
<1>11. QED
  BY <1>2, <1>3, <1>4, <1>5, <1>6, <1>7, <1>8, <1>9, <1>10 DEF Step

\* Every step of a call keeps what the threads have established.
LEMMA StepPhase ==
    ASSUME IInv, NEW r \in Requests, Step(r)
    PROVE  PhaseOK'
<1> DEFINE w == ask[r].wallet
<1>0. TypeOK /\ LockProtectsRow /\ PhaseOK
  BY DEF IInv
<1>1. w \in Wallets /\ row[w] \in Row
  BY <1>0 DEF TypeOK, Ask
<1> USE DEF Accepted, BalanceAfter, Exists
<1>2. CASE Get(r)
  BY <1>0, <1>2 DEF Get, TypeOK, PhaseOK, Goto
<1>3. CASE CreateRow(r)
  BY <1>0, <1>1, <1>3 DEF CreateRow, TypeOK, PhaseOK, Return, Goto
<1>4. CASE Refuse(r)
  BY <1>0, <1>4 DEF Refuse, TypeOK, PhaseOK, Return, Goto
<1>5. CASE LockRow(r)
  BY <1>0, <1>1, <1>5 DEF LockRow, TypeOK, PhaseOK, Goto
<1>6. CASE SaveBalance(r)
  BY <1>0, <1>6 DEF SaveBalance, TypeOK, PhaseOK, Goto
<1>7. CASE Commit(r)
  BY <1>0, <1>1, <1>7 DEF Commit, TypeOK, PhaseOK, Return, Goto, Row
<1>8. CASE Rollback(r)
  BY <1>0, <1>8 DEF Rollback, TypeOK, PhaseOK, Return, Goto
<1>9. CASE Select(r)
  BY <1>0, <1>1, <1>9 DEF Select, TypeOK, PhaseOK, Goto
<1>10. CASE SaveStatus(r)
  BY <1>0, <1>1, <1>10 DEF SaveStatus, TypeOK, PhaseOK, Return, Goto, Row
<1>11. QED
  BY <1>2, <1>3, <1>4, <1>5, <1>6, <1>7, <1>8, <1>9, <1>10 DEF Step

\* IInv is an inductive invariant.
LEMMA Inductive == Spec => []IInv
<1>1. IInv /\ [Next]_vars => IInv'
  <2> SUFFICES ASSUME IInv, [Next]_vars
               PROVE  IInv'
    OBVIOUS
  <2>1. CASE \E r \in Requests : Step(r)
    BY <2>1, StepTypeOK, StepLock, StepPhase DEF IInv
  <2>2. CASE UNCHANGED vars
    BY <2>2 DEF IInv, TypeOK, LockProtectsRow, PhaseOK, Accepted, BalanceAfter, Exists,
                InTransaction, vars
  <2>3. QED
    BY <2>1, <2>2 DEF Next, Terminated
<1>2. QED
  BY InitIInv, <1>1, PTL DEF Spec

\* No wallet is ever overdrawn, exceeds its column or has a malformed row,
\* whatever credits, debits and freezes run at the same time.
THEOREM TypeCorrect == Spec => []TypeOK
BY Inductive, PTL DEF IInv

\* SELECT ... FOR UPDATE keeps the row that credit_wallet or debit_wallet
\* read as it is until their COMMIT.
THEOREM RowLocked == Spec => []LockProtectsRow
BY Inductive, PTL DEF IInv

-----------------------------------------------------------------------------
\* A history stays one when the next movement starts at its last balance.
LEMMA ExplainsAppend ==
    ASSUME NEW L \in Seq(Entry), NEW b, NEW a, Explains(L, b)
    PROVE  Explains(Append(L, [before |-> b, after |-> a]), a)
<1> DEFINE e == [before |-> b, after |-> a]
           M == Append(L, e)
<1>1. Len(M) = Len(L) + 1 /\ M[Len(M)] = e /\ Len(L) \in Nat
  OBVIOUS
<1>2. \A i \in 1 .. Len(L) : M[i] = L[i]
  OBVIOUS
<1>3. ASSUME NEW i \in 1 .. Len(M)
      PROVE  M[i].before = IF i = 1 THEN 0 ELSE M[i - 1].after
  <2>1. CASE i \in 1 .. Len(L)
    <3>1. i # 1 => i - 1 \in 1 .. Len(L)
      BY <1>1, <2>1
    <3>2. QED
      BY <1>2, <2>1, <3>1 DEF Explains
  <2>2. CASE i = Len(L) + 1 /\ i # 1
    <3>1. i - 1 = Len(L) /\ Len(L) \in 1 .. Len(L)
      BY <1>1, <2>2
    <3>2. QED
      BY <1>1, <1>2, <2>2, <3>1 DEF Explains
  <2>3. CASE i = Len(L) + 1 /\ i = 1
    BY <1>1, <2>3 DEF Explains
  <2>4. QED
    BY <1>1, <1>3, <2>1, <2>2, <2>3
<1>4. QED
  BY <1>1, <1>3 DEF Explains

\* The wallet_transactions rows account for the balance of every wallet, at
\* all times: no credit or debit is lost to another.
THEOREM LedgerComplete == Spec => []LedgerExplainsBalance
<1>1. Init => LedgerExplainsBalance
  <2> SUFFICES ASSUME Init, NEW w \in Wallets
               PROVE  Explains(ledger[w], row[w].balance)
    BY DEF LedgerExplainsBalance
  <2>1. ledger[w] = << >> /\ row[w].balance = 0
    BY DEF Init, Absent
  <2>2. Len(<< >>) = 0
    OBVIOUS
  <2>3. QED
    BY <2>1, <2>2 DEF Explains
<1>2. IInv /\ LedgerExplainsBalance /\ [Next]_vars => LedgerExplainsBalance'
  <2> SUFFICES ASSUME IInv, LedgerExplainsBalance, [Next]_vars
               PROVE  LedgerExplainsBalance'
    OBVIOUS
  <2>0. TypeOK /\ LockProtectsRow /\ PhaseOK
    BY DEF IInv
  <2>1. ASSUME NEW r \in Requests, Commit(r)
        PROVE  LedgerExplainsBalance'
    <3> DEFINE w == ask[r].wallet
    <3>1. w \in Wallets /\ ledger[w] \in Seq(Entry) /\ seen[r] = row[w] /\ row[w] \in Row
      BY <2>0, <2>1 DEF TypeOK, Ask, Commit, LockProtectsRow, InTransaction
    <3>2. Explains(Append(ledger[w], [before |-> row[w].balance, after |-> BalanceAfter(r)]),
                   BalanceAfter(r))
      BY <3>1, ExplainsAppend DEF LedgerExplainsBalance
    <3>3. /\ ledger'[w] = Append(ledger[w], [before |-> row[w].balance, after |-> BalanceAfter(r)])
          /\ row'[w].balance = BalanceAfter(r)
      BY <2>0, <2>1, <3>1 DEF Commit, TypeOK, Row
    <3>4. \A v \in Wallets \ {w} : ledger'[v] = ledger[v] /\ row'[v] = row[v]
      BY <2>0, <2>1, <3>1 DEF Commit, TypeOK
    <3>5. QED
      BY <3>2, <3>3, <3>4 DEF LedgerExplainsBalance
  <2>2. ASSUME UNCHANGED ledger, \A w \in Wallets : row'[w].balance = row[w].balance
        PROVE  LedgerExplainsBalance'
    BY <2>2 DEF LedgerExplainsBalance
  <2>3. ASSUME NEW r \in Requests, Step(r), ~Commit(r)
        PROVE  UNCHANGED ledger /\ \A w \in Wallets : row'[w].balance = row[w].balance
    <3>1. ask[r].wallet \in Wallets /\ row \in [Wallets -> Row]
      BY <2>0 DEF TypeOK, Ask
    <3>2. CASE CreateRow(r)
      BY <2>0, <3>1, <3>2 DEF CreateRow, PhaseOK
    <3>3. CASE SaveStatus(r)
      BY <3>1, <3>3 DEF SaveStatus, Row
    <3>4. CASE UNCHANGED <<row, ledger>>
      BY <3>4
    <3>5. QED
      BY <2>3, <3>2, <3>3, <3>4
         DEF Step, Get, Refuse, LockRow, SaveBalance, Rollback, Select
  <2>4. CASE UNCHANGED vars
    BY <2>2, <2>4 DEF vars
  <2>5. QED
    BY <2>1, <2>2, <2>3, <2>4 DEF Next, Terminated
<1>3. QED
  BY <1>1, <1>2, Inductive, PTL DEF Spec

-----------------------------------------------------------------------------
\* freeze_wallet takes effect at once: a balance moves only while the wallet
\* is ACTIVE, also when the freeze falls between a debit's test and its COMMIT.
THEOREM FrozenStays == Spec => OnlyActiveWalletMoves
<1>1. ASSUME IInv, [Next]_vars
      PROVE  [\A w \in Wallets : row'[w].balance # row[w].balance => row[w].status = "ACTIVE"]_vars
  <2>0. TypeOK /\ LockProtectsRow /\ PhaseOK
    BY <1>1 DEF IInv
  <2>1. ASSUME NEW r \in Requests, Step(r), NEW w \in Wallets,
               row'[w].balance # row[w].balance
        PROVE  row[w].status = "ACTIVE"
    <3>1. ask[r].wallet \in Wallets /\ row \in [Wallets -> Row]
      BY <2>0 DEF TypeOK, Ask
    <3>2. CASE Commit(r)
      BY <2>0, <2>1, <3>1, <3>2
         DEF Commit, LockProtectsRow, PhaseOK, Accepted, InTransaction
    <3>3. CASE CreateRow(r)
      BY <2>0, <2>1, <3>1, <3>3 DEF CreateRow, PhaseOK
    <3>4. CASE SaveStatus(r)
      BY <2>1, <3>1, <3>4 DEF SaveStatus, Row
    <3>5. CASE UNCHANGED row
      BY <2>1, <3>5
    <3>6. QED
      BY <2>1, <3>2, <3>3, <3>4, <3>5
         DEF Step, Get, Refuse, LockRow, SaveBalance, Rollback, Select
  <2>2. QED
    BY <1>1, <2>1 DEF Next, Terminated
<1>2. QED
  BY <1>1, Inductive, PTL DEF Spec, OnlyActiveWalletMoves

\* The engine implements the atomic account of WalletAccount: every step of
\* a call is one atomic operation on the wallet, or invisible.
THEOREM ImplementsAccount == Spec => AtomicAccount
<1>1. Init => Account!Init
  BY DEF Init, Account!Init, Absent, Account!Absent
<1>2. ASSUME IInv, [Next]_vars
      PROVE  [Account!Next]_<<row, ledger>>
  <2>0. TypeOK /\ LockProtectsRow /\ PhaseOK
    BY <1>2 DEF IInv
  <2>1. ASSUME NEW r \in Requests, Step(r)
        PROVE  Account!Next \/ UNCHANGED <<row, ledger>>
    <3> DEFINE w == ask[r].wallet
    <3>1. w \in Wallets /\ row \in [Wallets -> Row]
      BY <2>0 DEF TypeOK, Ask
    <3>2. CASE Commit(r)
      <4>1. seen[r] = row[w] /\ row[w].status = "ACTIVE"
        BY <2>0, <3>2 DEF Commit, LockProtectsRow, PhaseOK, Accepted, InTransaction
      <4>2. BalanceAfter(r) \in 0 .. MaxBalance
        BY <2>0, <3>2, AcceptedFits DEF Commit, PhaseOK, LockProtectsRow, InTransaction
      <4>3. Account!Move(w, BalanceAfter(r))
        BY <3>2, <4>1 DEF Commit, Account!Move
      <4>4. QED
        BY <3>1, <4>2, <4>3 DEF Account!Next
    <3>3. CASE CreateRow(r)
      <4>1. Account!Open(w) \/ UNCHANGED <<row, ledger>>
        BY <3>1, <3>3 DEF CreateRow, Exists, Account!Open
      <4>2. QED
        BY <3>1, <4>1 DEF Account!Next
    <3>4. CASE SaveStatus(r)
      <4>1. Account!SetStatus(w, IF ask[r].op = "freeze" THEN "FROZEN" ELSE "ACTIVE")
        BY <2>0, <3>4 DEF SaveStatus, PhaseOK, Exists, Account!SetStatus
      <4>2. QED
        BY <3>1, <4>1 DEF Account!Next
    <3>5. CASE UNCHANGED <<row, ledger>>
      BY <3>5
    <3>6. QED
      BY <2>1, <3>2, <3>3, <3>4, <3>5
         DEF Step, Get, Refuse, LockRow, SaveBalance, Rollback, Select
  <2>2. QED
    BY <1>2, <2>1 DEF Next, Terminated, vars
<1>3. QED
  BY <1>1, <1>2, Inductive, PTL DEF Spec, AtomicAccount, Account!Spec
=============================================================================
