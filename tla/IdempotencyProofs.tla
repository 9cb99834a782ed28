------------------------- MODULE IdempotencyProofs -------------------------
(***************************************************************************)
(* Theorems about Idempotency, for any sets of requests and bodies and any *)
(* number of requests under way, slow views and late failures.             *)
(*                                                                         *)
(* HoldsOwn says what the entry and each request hold, whatever overlaps.  *)
(* SerialInv is about requests that come one after another: then the one   *)
(* under way is alone, and a COMPLETED entry is the last word on its key.  *)
(***************************************************************************)
EXTENDS Idempotency, FiniteSetTheorems, TLAPS

\* A stored response is that of a request that took effect; a request that is
\* still under way has had no answer; whoever got a response was not refused.
HoldsOwn ==
    /\ entry.status = "COMPLETED" => entry.by \in executed
    /\ \A r \in Requests :
          /\ pc[r] = "store" => r \in executed
          /\ pc[r] # "done" => reply[r] = NoRequest /\ r \notin refused
          /\ reply[r] # NoRequest => /\ reply[r] \in executed
                                     /\ body[reply[r]] = body[r]
                                     /\ r \notin refused
          /\ pc[r] = "done" => reply[r] # NoRequest \/ r \in refused

\* The steps on which a request may write the entry or take effect.
Past(r) == pc[r] \in {"set", "run", "store", "delete"}

\* While no two requests have overlapped: one request at a time is under way,
\* and none gets past an entry that is COMPLETED.
Alone == ~overlapped =>
    /\ \A r, s \in Active : r = s
    /\ entry.status = "COMPLETED" => \A r \in Requests : ~Past(r)

\* If, besides, none has failed late, what took effect is stored or about to be.
OnlyOne == ~overlapped /\ late = 0 =>
    /\ \A r, s \in executed : r = s
    /\ executed # {} => entry.status = "COMPLETED" \/ \E r \in Requests : pc[r] = "store"

IInv == TypeOK /\ HoldsOwn
SerialInv == Alone /\ OnlyOne

-----------------------------------------------------------------------------
(* Types.                                                                   *)

\* The entries that the decorator writes are entries.
LEMMA Entries ==
    ASSUME NEW r \in Requests
    PROVE  /\ Empty \in Entry /\ Processing(r) \in Entry /\ Completed(r) \in Entry
           /\ Empty.status = "NONE" /\ Processing(r).status = "PROCESSING"
           /\ Completed(r).status = "COMPLETED" /\ Completed(r).by = r /\ Processing(r).by = r
BY DEF Entry, Empty, Processing, Completed

\* Whose request a stored response is.
LEMMA EntryBy ==
    ASSUME TypeOK, entry.status # "NONE"
    PROVE  entry.by \in Requests
BY DEF TypeOK, Entry, Empty, Processing, Completed

LEMMA InitIInv == Init => IInv /\ SerialInv
<1> SUFFICES ASSUME Init PROVE IInv /\ SerialInv
  OBVIOUS
<1>1. TypeOK
  <2>1. entry \in Entry
    BY DEF Init, Entry
  <2>2. slow \in 0 .. MaxSlow /\ late \in 0 .. MaxLate
    BY IdempotencyAssumption DEF Init
  <2>3. QED
    BY <2>1, <2>2 DEF Init, TypeOK
<1>2. HoldsOwn
  BY DEF Init, HoldsOwn, Empty
<1>3. SerialInv
  BY DEF Init, SerialInv, Alone, OnlyOne, Active, Past, Empty
<1>4. QED
  BY <1>1, <1>2, <1>3 DEF IInv

\* A request moves from one step to another.
LEMMA StepTypes ==
    ASSUME TypeOK, NEW r \in Requests, NEW from,
           NEW to \in {"idle", "get", "set", "run", "store", "delete", "done"}, Step(r, from, to)
    PROVE  /\ pc' \in [Requests -> {"idle", "get", "set", "run", "store", "delete", "done"}]
           /\ pc[r] = from /\ pc'[r] = to
           /\ \A s \in Requests \ {r} : pc'[s] = pc[s]
BY DEF TypeOK, Step

LEMMA NextTypeOK == TypeOK /\ [Next]_vars => TypeOK'
<1> SUFFICES ASSUME TypeOK, [Next]_vars PROVE TypeOK'
  OBVIOUS
<1>1. CASE \E r \in Requests : Send(r) \/ Handle(r)
  <2>1. PICK r \in Requests : Send(r) \/ Handle(r)
    BY <1>1
  <2>2. CASE Send(r)
    BY <2>2, StepTypes DEF TypeOK, Send
  <2>3. CASE Miss(r)
    BY <2>3, StepTypes DEF TypeOK, Miss
  <2>4. CASE Conflict(r)
    BY <2>4, StepTypes DEF TypeOK, Conflict, Refused
  <2>5. CASE Replay(r)
    BY <2>5, StepTypes, EntryBy DEF TypeOK, Replay
  <2>6. CASE SetProcessing(r)
    BY <2>6, StepTypes, Entries DEF TypeOK, SetProcessing
  <2>7. CASE Run(r)
    BY <2>7, StepTypes DEF TypeOK, Run
  <2>8. CASE RunRaises(r)
    BY <2>8, StepTypes, IdempotencyAssumption DEF TypeOK, RunRaises, Refused
  <2>9. CASE RunFails(r)
    BY <2>9, StepTypes DEF TypeOK, RunFails
  <2>10. CASE Store(r)
    BY <2>10, StepTypes, Entries DEF TypeOK, Store
  <2>11. CASE Delete(r)
    BY <2>11, StepTypes, Entries DEF TypeOK, Delete, Refused
  <2>12. QED
    BY <2>1, <2>2, <2>3, <2>4, <2>5, <2>6, <2>7, <2>8, <2>9, <2>10, <2>11 DEF Handle
<1>2. CASE Expire
  <2>1. Empty \in Entry
    BY DEF Entry
  <2>2. slow' \in 0 .. MaxSlow
    BY <1>2, IdempotencyAssumption DEF TypeOK, Expire
  <2>3. QED
    BY <1>2, <2>1, <2>2 DEF TypeOK, Expire
<1>3. CASE UNCHANGED vars
  BY <1>3 DEF TypeOK, vars
<1>4. QED
  BY <1>1, <1>2, <1>3 DEF Next, Terminated

\* The entry, the program counters, replies and sets keep their types through
\* any overlap, slow view and late failure.
THEOREM TypeCorrect == Spec => []TypeOK
<1>1. Init => TypeOK
  BY InitIInv DEF IInv
<1>2. QED
  BY <1>1, NextTypeOK, PTL DEF Spec

-----------------------------------------------------------------------------
(* Answers.                                                                 *)

LEMMA NextIInv == IInv /\ [Next]_vars => IInv'
<1> SUFFICES ASSUME IInv, [Next]_vars PROVE IInv'
  OBVIOUS
<1>1. TypeOK /\ HoldsOwn /\ TypeOK'
  BY NextTypeOK DEF IInv
<1> USE <1>1
<1>2. HoldsOwn'
  <2>1. CASE \E r \in Requests : Send(r) \/ Handle(r)
    <3>1. PICK r \in Requests : Send(r) \/ Handle(r)
      BY <2>1
    <3> USE StepTypes
    <3>2. CASE Send(r)
      BY <3>2 DEF TypeOK, HoldsOwn, Send
    <3>3. CASE Miss(r)
      BY <3>3 DEF TypeOK, HoldsOwn, Miss
    <3>4. CASE Conflict(r)
      BY <3>4 DEF TypeOK, HoldsOwn, Conflict, Refused
    <3>5. CASE Replay(r)
      <4>1. entry.by \in Requests
        BY <3>5, EntryBy DEF Replay
      <4>2. entry.by # NoRequest
        BY <4>1, IdempotencyAssumption
      <4>3. QED
        BY <3>5, <4>1, <4>2 DEF TypeOK, HoldsOwn, Replay
    <3>6. CASE SetProcessing(r)
      BY <3>6, Entries DEF TypeOK, HoldsOwn, SetProcessing
    <3>7. CASE Run(r)
      BY <3>7 DEF TypeOK, HoldsOwn, Run
    <3>8. CASE RunRaises(r)
      BY <3>8 DEF TypeOK, HoldsOwn, RunRaises, Refused
    <3>9. CASE RunFails(r)
      BY <3>9 DEF TypeOK, HoldsOwn, RunFails
    <3>10. CASE Store(r)
      BY <3>10, Entries, IdempotencyAssumption DEF TypeOK, HoldsOwn, Store
    <3>11. CASE Delete(r)
      BY <3>11, Entries DEF TypeOK, HoldsOwn, Delete, Refused
    <3>12. QED
      BY <3>1, <3>2, <3>3, <3>4, <3>5, <3>6, <3>7, <3>8, <3>9, <3>10, <3>11 DEF Handle
  <2>2. CASE Expire
    BY <2>2 DEF TypeOK, HoldsOwn, Expire, Empty
  <2>3. CASE UNCHANGED vars
    BY <2>3 DEF HoldsOwn, vars
  <2>4. QED
    BY <2>1, <2>2, <2>3 DEF Next, Terminated
<1>3. QED
  BY <1>2 DEF IInv

LEMMA Invariant == Spec => []IInv
<1>1. Init => IInv
  BY InitIInv
<1>2. QED
  BY <1>1, NextIInv, PTL DEF Spec

\* A client gets the response of a request like its own that took effect, or an
\* error, never both, whatever overlaps, expires or fails: the fingerprint in
\* the COMPLETED entry is compared before the response is replayed.
THEOREM ReplyBelongs == Spec => []ReplyIsOwn
<1>1. IInv => ReplyIsOwn
  BY DEF IInv, HoldsOwn, ReplyIsOwn
<1>2. QED
  BY <1>1, Invariant, PTL

-----------------------------------------------------------------------------
(* Requests that come one after another.                                    *)

\* Nobody else is under way.
LEMMA NobodyElse ==
    ASSUME TypeOK, Alone, ~overlapped, NEW r \in Requests, pc[r] \notin {"idle", "done"}
    PROVE  \A s \in Requests \ {r} : pc[s] \in {"idle", "done"}
BY DEF TypeOK, Alone, Active

\* What keeps Alone: a step of the one request that is under way, to a step
\* that is consistent with the entry.
LEMMA StaysAlone ==
    ASSUME TypeOK, Alone, NEW r \in Requests, NEW from, from \notin {"idle", "done"},
           NEW to \in {"set", "run", "store", "delete", "done"},
           Step(r, from, to), overlapped' = overlapped,
           ~overlapped /\ entry'.status = "COMPLETED" => to = "done"
    PROVE  Alone'
<1> SUFFICES ASSUME ~overlapped
             PROVE  /\ \A q, s \in Active' : q = s
                    /\ entry'.status = "COMPLETED" => \A q \in Requests : ~Past(q)'
  BY DEF Alone
<1>1. pc[r] = from /\ pc'[r] = to /\ \A s \in Requests \ {r} : pc'[s] = pc[s]
  BY StepTypes
<1>2. \A s \in Requests \ {r} : pc'[s] \in {"idle", "done"}
  BY <1>1, NobodyElse
<1>3. QED
  BY <1>1, <1>2 DEF Active, Past

LEMMA NextAlone == TypeOK /\ Alone /\ [Next]_vars => Alone'
<1> SUFFICES ASSUME TypeOK, Alone, [Next]_vars PROVE Alone'
  OBVIOUS
<1>1. CASE \E r \in Requests : Send(r) \/ Handle(r)
  <2>1. PICK r \in Requests : Send(r) \/ Handle(r)
    BY <1>1
  <2>2. CASE Send(r)
    <3>1. pc[r] = "idle" /\ pc'[r] = "get" /\ \A s \in Requests \ {r} : pc'[s] = pc[s]
      BY <2>2, StepTypes DEF Send
    <3>2. QED
      BY <2>2, <3>1 DEF Alone, Active, Past, Send
  <2>3. CASE Miss(r)
    BY <2>3, StaysAlone DEF Miss, Empty
  <2>4. CASE Conflict(r)
    BY <2>4, StaysAlone DEF Conflict
  <2>5. CASE Replay(r)
    BY <2>5, StaysAlone DEF Replay
  <2>6. CASE SetProcessing(r)
    BY <2>6, StaysAlone, Entries DEF SetProcessing
  <2>7. CASE Run(r)
    <3>1. ~overlapped => entry.status # "COMPLETED"
      BY <2>7 DEF Alone, Past, Run, Step
    <3>2. QED
      BY <2>7, <3>1, StaysAlone DEF Run
  <2>8. CASE RunRaises(r)
    BY <2>8, StaysAlone DEF RunRaises
  <2>9. CASE RunFails(r)
    <3>1. ~overlapped => entry.status # "COMPLETED"
      BY <2>9 DEF Alone, Past, RunFails, Step
    <3>2. QED
      BY <2>9, <3>1, StaysAlone DEF RunFails
  <2>10. CASE Store(r)
    BY <2>10, StaysAlone DEF Store
  <2>11. CASE Delete(r)
    BY <2>11, StaysAlone DEF Delete
  <2>12. QED
    BY <2>1, <2>2, <2>3, <2>4, <2>5, <2>6, <2>7, <2>8, <2>9, <2>10, <2>11 DEF Handle
<1>2. CASE Expire
  BY <1>2 DEF Alone, Active, Past, Expire, Empty
<1>3. CASE UNCHANGED vars
  BY <1>3 DEF Alone, Active, Past, vars
<1>4. QED
  BY <1>1, <1>2, <1>3 DEF Next, Terminated

\* A request that is about to run its view, or to delete the entry, is the first
\* to take effect.
LEMMA NothingExecuted ==
    ASSUME TypeOK, SerialInv, ~overlapped, late = 0, NEW r \in Requests,
           pc[r] \in {"set", "run", "delete"}
    PROVE  executed = {}
BY NobodyElse DEF SerialInv, Alone, OnlyOne, Past

LEMMA NextOnlyOne == IInv /\ SerialInv /\ [Next]_vars => OnlyOne'
<1> SUFFICES ASSUME IInv, SerialInv, [Next]_vars, ~overlapped', late' = 0
             PROVE  /\ \A r, s \in executed' : r = s
                    /\ executed' # {} => \/ entry'.status = "COMPLETED"
                                         \/ \E r \in Requests : pc'[r] = "store"
  BY DEF OnlyOne
<1>1. TypeOK /\ HoldsOwn /\ Alone /\ OnlyOne
  BY DEF IInv, SerialInv
<1> USE <1>1
<1>2. CASE \E r \in Requests : Send(r) \/ Handle(r)
  <2>1. PICK r \in Requests : Send(r) \/ Handle(r)
    BY <1>2
  <2> USE StepTypes
  <2>2. CASE Send(r)
    BY <2>2 DEF TypeOK, OnlyOne, Send
  <2>3. CASE Miss(r)
    BY <2>3 DEF TypeOK, OnlyOne, Miss
  <2>4. CASE Conflict(r)
    BY <2>4 DEF TypeOK, OnlyOne, Conflict
  <2>5. CASE Replay(r)
    BY <2>5 DEF TypeOK, OnlyOne, Replay
  <2>6. CASE SetProcessing(r)
    BY <2>6, NothingExecuted DEF SetProcessing
  <2>7. CASE Run(r)
    BY <2>7, NothingExecuted DEF Run
  <2>8. CASE RunRaises(r)
    <3>1. executed' = executed /\ late' = late
      BY <2>8 DEF RunRaises, TypeOK
    <3>2. QED
      BY <2>8, <3>1, NothingExecuted DEF RunRaises
  <2>9. CASE RunFails(r)
    BY <2>9, NothingExecuted DEF RunFails
  <2>10. CASE Store(r)
    BY <2>10, Entries DEF OnlyOne, Store
  <2>11. CASE Delete(r)
    BY <2>11, NothingExecuted DEF Delete
  <2>12. QED
    BY <2>1, <2>2, <2>3, <2>4, <2>5, <2>6, <2>7, <2>8, <2>9, <2>10, <2>11 DEF Handle
<1>3. CASE Expire
  BY <1>3 DEF OnlyOne, Expire
<1>4. CASE UNCHANGED vars
  BY <1>4 DEF OnlyOne, vars
<1>5. QED
  BY <1>2, <1>3, <1>4 DEF Next, Terminated

LEMMA SerialInvariant == Spec => [](IInv /\ SerialInv)
<1>1. Init => IInv /\ SerialInv
  BY InitIInv
<1>2. IInv /\ SerialInv /\ [Next]_vars => (IInv /\ SerialInv)'
  BY NextIInv, NextAlone, NextOnlyOne DEF IInv, SerialInv
<1>3. QED
  BY <1>1, <1>2, PTL DEF Spec

\* A client that waits for an answer before it retries is not charged twice,
\* however many attempts fail before taking effect: whatever has taken effect
\* is stored, or is about to be by the only request under way.
THEOREM SeriallyOnce == Spec => []SerialExecutedOnce
<1>1. SerialInv => SerialExecutedOnce
  <2> SUFFICES ASSUME SerialInv, ~overlapped, late = 0 PROVE Cardinality(executed) <= 1
    BY DEF SerialExecutedOnce, ExecutedOnce
  <2>1. CASE executed = {}
    BY <2>1, FS_EmptySet
  <2>2. CASE executed # {}
    <3>1. PICK r : executed = {r}
      BY <2>2 DEF SerialInv, OnlyOne
    <3>2. Cardinality({r}) = 1
      BY FS_Singleton
    <3>3. QED
      BY <3>1, <3>2
  <2>3. QED
    BY <2>1, <2>2
<1>2. QED
  BY <1>1, SerialInvariant, PTL

\* And the response stored by one of them is there for every later one, which
\* finds it before it can write the key.
THEOREM CompletedIsKept == Spec => CompletedStays
<1>1. IInv /\ SerialInv /\ [Next]_vars
      => [~overlapped /\ entry.status = "COMPLETED" => entry' = entry]_vars
  <2> SUFFICES ASSUME SerialInv, Next, ~overlapped, entry.status = "COMPLETED"
               PROVE  entry' = entry
    BY DEF vars
  <2>1. \A r \in Requests : ~Past(r)
    BY DEF SerialInv, Alone
  <2>2. CASE \E r \in Requests : Send(r) \/ Handle(r)
    BY <2>1, <2>2 DEF Past, Step, Send, Handle, Miss, Conflict, Replay, SetProcessing, Run,
                      RunRaises, RunFails, Store, Delete
  <2>3. CASE Expire
    BY <2>3 DEF Expire
  <2>4. CASE Terminated
    BY <2>4 DEF Terminated, vars
  <2>5. QED
    BY <2>2, <2>3, <2>4 DEF Next
<1>2. QED
  BY <1>1, SerialInvariant, PTL DEF CompletedStays, Spec
=============================================================================
