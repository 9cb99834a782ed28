---------------------------- MODULE Idempotency ----------------------------
(***************************************************************************)
(* Requests that carry one Idempotency-Key (idempotency_key_required in    *)
(* apps/common/decorators): the first attempt of a client and its retries, *)
(* or another request that reuses the key.  They share one cache entry,    *)
(* which each reads, and later writes, with separate Redis commands.       *)
(*                                                                         *)
(* The view is whatever the decorator guards: it takes effect or does not, *)
(* and answers, or raises: an exception leaves through the decorator.      *)
(* Entries of finished requests live for 24 hours, longer than any client  *)
(* retries; those of running ones for 30 seconds.                          *)
(***************************************************************************)
EXTENDS Integers, FiniteSets

CONSTANTS Requests,
          Bodies,       \* fingerprints of path and body
          MaxActive,    \* requests under way at the same time
          MaxSlow,      \* views that run for more than 30 seconds
          MaxLate,      \* views that take effect and then raise or die
          NoRequest

ASSUME IdempotencyAssumption ==
    /\ MaxActive \in Nat /\ MaxSlow \in Nat /\ MaxLate \in Nat
    /\ NoRequest \notin Requests

VARIABLES entry,        \* the cache entry: its status, and whose request it is
          body,         \* body[r]: the fingerprint of request r
          pc,           \* pc[r]: where request r is
          reply,        \* reply[r]: the request whose response r got, if any
          refused,      \* requests answered with an error or not at all
          executed,     \* requests whose view took effect
          slow, late,
          overlapped    \* a request has arrived while another was under way

vars == <<entry, body, pc, reply, refused, executed, slow, late, overlapped>>

\* The entry holds the fingerprint of its request, body[entry.by], and once
\* it is COMPLETED the response of its view.
Empty == [status |-> "NONE", by |-> NoRequest]
Processing(r) == [status |-> "PROCESSING", by |-> r]
Completed(r) == [status |-> "COMPLETED", by |-> r]
Entry == {Empty} \cup {Processing(r) : r \in Requests} \cup {Completed(r) : r \in Requests}

Active == {r \in Requests : pc[r] \notin {"idle", "done"}}
Step(r, from, to) == pc[r] = from /\ pc' = [pc EXCEPT ![r] = to]
Refused(r) == refused' = refused \cup {r}

Init == /\ entry = Empty
        /\ body \in [Requests -> Bodies]
        /\ pc = [r \in Requests |-> "idle"]
        /\ reply = [r \in Requests |-> NoRequest]
        /\ refused = {}
        /\ executed = {}
        /\ slow = 0
        /\ late = 0
        /\ overlapped = FALSE

-----------------------------------------------------------------------------
Send(r) ==
    /\ Cardinality(Active) < MaxActive
    /\ overlapped' = (overlapped \/ Active # {})
    /\ Step(r, "idle", "get")
    /\ UNCHANGED <<entry, body, reply, refused, executed, slow, late>>

\* Variant: the entry is read but not looked at.
MissUnchecked(r) ==
    /\ Step(r, "get", "set")
    /\ UNCHANGED <<entry, body, reply, refused, executed, slow, late, overlapped>>

\* cache.get finds nothing.
Miss(r) ==
    /\ entry = Empty
    /\ Step(r, "get", "set")
    /\ UNCHANGED <<entry, body, reply, refused, executed, slow, late, overlapped>>

\* IDEMPOTENCY_PROCESSING, or IDEMPOTENCY_KEY_MISMATCH.
Conflict(r) ==
    /\ \/ entry.status = "PROCESSING"
       \/ entry.status = "COMPLETED" /\ body[entry.by] # body[r]
    /\ Step(r, "get", "done")
    /\ Refused(r)
    /\ UNCHANGED <<entry, body, reply, executed, slow, late, overlapped>>

\* Variant: the fingerprints are not compared.
ReplayAnyBody(r) ==
    /\ entry.status = "COMPLETED"
    /\ Step(r, "get", "done")
    /\ reply' = [reply EXCEPT ![r] = entry.by]
    /\ UNCHANGED <<entry, body, refused, executed, slow, late, overlapped>>

\* The cached response.
Replay(r) ==
    /\ entry.status = "COMPLETED" /\ body[entry.by] = body[r]
    /\ Step(r, "get", "done")
    /\ reply' = [reply EXCEPT ![r] = entry.by]
    /\ UNCHANGED <<entry, body, refused, executed, slow, late, overlapped>>

\* "Lock key during execution": cache.set, whatever the key holds by now.
SetProcessing(r) ==
    /\ Step(r, "set", "run")
    /\ entry' = Processing(r)
    /\ UNCHANGED <<body, reply, refused, executed, slow, late, overlapped>>

\* The view takes effect and returns a response below 500.
Run(r) ==
    /\ Step(r, "run", "store")
    /\ executed' = executed \cup {r}
    /\ UNCHANGED <<entry, body, reply, refused, slow, late, overlapped>>

\* The view raises (the caller gets an error, the entry stays PROCESSING) or
\* the worker dies in it, before it took effect or, MaxLate times, after.
RunRaises(r) ==
    /\ Step(r, "run", "done")
    /\ Refused(r)
    /\ \/ UNCHANGED <<executed, late>>
       \/ late < MaxLate /\ late' = late + 1 /\ executed' = executed \cup {r}
    /\ UNCHANGED <<entry, body, reply, slow, overlapped>>

\* The view returns a response of 500 or more, without effect.  (The decorator
\* provides for it; the views it guards answer 200 or 201, and their errors raise.)
RunFails(r) ==
    /\ Step(r, "run", "delete")
    /\ UNCHANGED <<entry, body, reply, refused, executed, slow, late, overlapped>>

\* Variant: the entry is deleted once the view has returned.
StoreDeletes(r) ==
    /\ Step(r, "store", "done")
    /\ entry' = Empty
    /\ reply' = [reply EXCEPT ![r] = r]
    /\ UNCHANGED <<body, refused, executed, slow, late, overlapped>>

\* Variant: the COMPLETED entry lacks req_hash.
StoreWithoutHash(r) ==
    /\ Step(r, "store", "done")
    /\ entry' = [status |-> "COMPLETED", by |-> NoRequest]
    /\ reply' = [reply EXCEPT ![r] = r]
    /\ UNCHANGED <<body, refused, executed, slow, late, overlapped>>

\* cache.set of the COMPLETED entry, and the response.
Store(r) ==
    /\ Step(r, "store", "done")
    /\ entry' = Completed(r)
    /\ reply' = [reply EXCEPT ![r] = r]
    /\ UNCHANGED <<body, refused, executed, slow, late, overlapped>>

Delete(r) ==
    /\ Step(r, "delete", "done")
    /\ entry' = Empty
    /\ Refused(r)
    /\ UNCHANGED <<body, reply, executed, slow, late, overlapped>>

\* Variant: the PROCESSING entry is stored without timeout=30.
ExpireNever == FALSE /\ UNCHANGED vars

\* The timeout of a PROCESSING entry, of a request that is gone or still runs.
Expire ==
    /\ entry.status = "PROCESSING"
    /\ IF entry.by \in Active THEN slow < MaxSlow /\ slow' = slow + 1 ELSE UNCHANGED slow
    /\ entry' = Empty
    /\ UNCHANGED <<body, pc, reply, refused, executed, late, overlapped>>

Handle(r) == \/ Miss(r) \/ Conflict(r) \/ Replay(r) \/ SetProcessing(r)
             \/ Run(r) \/ RunRaises(r) \/ RunFails(r) \/ Store(r) \/ Delete(r)

Terminated == (\A r \in Requests : pc[r] = "done") /\ UNCHANGED vars

Next == (\E r \in Requests : Send(r) \/ Handle(r)) \/ Expire \/ Terminated

Spec == Init /\ [][Next]_vars

\* A request that has arrived is handled; Redis drops expired keys.
FairSpec == Spec /\ WF_vars(Expire) /\ \A r \in Requests : WF_vars(Handle(r))

-----------------------------------------------------------------------------
(* Properties.                                                              *)

\* Every variable has its type.
TypeOK == /\ entry \in Entry
          /\ body \in [Requests -> Bodies]
          /\ pc \in [Requests -> {"idle", "get", "set", "run", "store", "delete", "done"}]
          /\ reply \in [Requests -> Requests \cup {NoRequest}]
          /\ refused \subseteq Requests
          /\ executed \subseteq Requests
          /\ slow \in 0 .. MaxSlow
          /\ late \in 0 .. MaxLate
          /\ overlapped \in BOOLEAN

\* The guarded view takes effect at most once for the key: the client that
\* retries is not charged twice.
ExecutedOnce == Cardinality(executed) <= 1

\* So it is as long as no two requests have overlapped and none has failed
\* after it took effect, however many have failed before.
SerialExecutedOnce == ~overlapped /\ late = 0 => ExecutedOnce

\* A request is answered with the response to a request like it, one that
\* took effect; and each is answered or refused, not both.
ReplyIsOwn ==
    \A r \in Requests :
        /\ reply[r] # NoRequest => /\ reply[r] \in executed
                                   /\ body[reply[r]] = body[r]
                                   /\ r \notin refused
        /\ pc[r] = "done" => reply[r] # NoRequest \/ r \in refused

\* As long as no two requests have overlapped, a stored response is there for
\* every later request of the key.
CompletedStays == [][~overlapped /\ entry.status = "COMPLETED" => entry' = entry]_vars

\* The key does not stay locked: whatever becomes of the request that set it
\* to PROCESSING, a retry finds it free or completed later on.
KeyIsReleased == entry.status = "PROCESSING" ~> entry.status # "PROCESSING"
=============================================================================
