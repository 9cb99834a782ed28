------------------------------ MODULE Requests ------------------------------
(***************************************************************************)
(* What every request goes through (apps/common, apps/audit_logs): the     *)
(* correlation ID, which the thread that serves the request keeps in a     *)
(* thread-local variable, the view or the exception handler, the audit log *)
(* and its two backends.                                                   *)
(*                                                                         *)
(* The thread-local variable is also what log records carry, whatever is   *)
(* logged, so it must never outlive its request.                           *)
(***************************************************************************)
EXTENDS Integers, FiniteSets

CONSTANTS Threads,      \* the threads of a web process
          WebRequests,  \* requests; also the IDs made for them
          SentIds,      \* correlation IDs that clients send
          Absent        \* "N/A", and a request that is not there

ASSUME RequestsAssumption == Absent \notin WebRequests \cup SentIds

VARIABLES correlation,  \* correlation[t]: _thread_locals.correlation_id of thread t
          web,          \* web[r]: how far request r is
          auditRows,    \* auditRows[b]: the requests that backend b has recorded,
                        \* with the ID and the status that it was told
          refusedRows,  \* history: refusedRows[b]: those that b could not record
          crashes       \* history: the process has been killed

requestVars == <<correlation, web, auditRows, refusedRows, crashes>>

HttpMethods == {"GET", "POST"}
Paths == {"audited", "excluded"}
Outcomes == {"ok", "refused", "not_found", "conflict", "bad_gateway", "invalid", "crash"}
Backends == {"database", "file"}

\* The body that answers a request: APIResponse and custom_exception_handler.
Success(id) == [success |-> TRUE, status |-> 200, id |-> id]

\* The status of the exception's class; any other exception is a 500.
StatusOf(outcome) == CASE outcome \in {"refused", "invalid"} -> 400
                       [] outcome = "not_found" -> 404
                       [] outcome = "conflict" -> 409
                       [] outcome = "bad_gateway" -> 502
                       [] outcome = "crash" -> 500

Failure(outcome, id) == [success |-> FALSE, status |-> StatusOf(outcome), id |-> id]

\* HealthCheckView: the answer of a degraded service is a success with status 503.
Health(database, redis, id) ==
    [success |-> TRUE, status |-> IF database /\ redis THEN 200 ELSE 503, id |-> id]

\* ReadinessCheckView.
Readiness(database, redis, id) ==
    IF database /\ redis THEN Success(id) ELSE [success |-> FALSE, status |-> 503, id |-> id]

NewRequest == [step |-> "new"]

RequestInit ==
    /\ correlation = [t \in Threads |-> Absent]
    /\ web = [r \in WebRequests |-> NewRequest]
    /\ auditRows = [b \in Backends |-> {}]
    /\ refusedRows = [b \in Backends |-> {}]
    /\ crashes = 0

-----------------------------------------------------------------------------
Served == {r \in WebRequests : web[r].step \in {"view", "answered", "audited"}}
Free(t) == \A r \in Served : web[r].thread # t

WebAt(r, from, to) ==
    /\ web[r].step = from
    /\ web' = [web EXCEPT ![r] = to]

\* process_request: the ID of the header, or a new one.
Receive(r, t, sent, method, path) ==
    /\ Free(t)
    /\ LET id == IF sent = Absent THEN r ELSE sent
       IN /\ WebAt(r, "new", [step |-> "view", thread |-> t, id |-> id, method |-> method,
                              path |-> path])
          /\ correlation' = [correlation EXCEPT ![t] = id]
    /\ UNCHANGED <<auditRows, refusedRows, crashes>>

\* A middleware before it answers: the request never gets an ID.
TurnAway(r) ==
    /\ WebAt(r, "new", [step |-> "away"])
    /\ UNCHANGED <<correlation, auditRows, refusedRows, crashes>>

Answered(r, body) == [step |-> "answered", thread |-> web[r].thread, id |-> web[r].id,
                      method |-> web[r].method, path |-> web[r].path, body |-> body]

\* The body of an answer takes the ID from the thread.
Answer(r, outcome) ==
    /\ WebAt(r, "view", Answered(r, IF outcome = "ok" THEN Success(correlation[web[r].thread])
                                    ELSE Failure(outcome, correlation[web[r].thread])))
    /\ UNCHANGED <<correlation, auditRows, refusedRows, crashes>>

AnswerHealth(r, database, redis, readiness) ==
    /\ web[r].step = "view" /\ web[r].method = "GET"
    /\ WebAt(r, "view", LET id == correlation[web[r].thread]
                        IN Answered(r, IF readiness THEN Readiness(database, redis, id)
                                       ELSE Health(database, redis, id)))
    /\ UNCHANGED <<correlation, auditRows, refusedRows, crashes>>

\* Variant: errors of requests that change nothing are not audited.
IsChange(r) == web[r].path = "audited" /\ web[r].method # "GET"

\* AuditLoggingMiddleware: changes, and errors.
IsAudited(r) == web[r].path = "audited" /\ (web[r].method # "GET" \/ web[r].body.status >= 400)

AuditRow(r) == [request |-> r, id |-> web[r].id, status |-> web[r].body.status]

\* AuditService.log: every backend is tried; what one raises is dropped.
Audit(r, failing) ==
    /\ web[r].step = "answered"
    /\ WebAt(r, "answered", [web[r] EXCEPT !.step = "audited"])
    /\ auditRows' = [b \in Backends |-> IF IsAudited(r) /\ b \notin failing
                                        THEN auditRows[b] \cup {AuditRow(r)} ELSE auditRows[b]]
    /\ refusedRows' = [b \in Backends |-> IF b \in failing THEN refusedRows[b] \cup {r}
                                          ELSE refusedRows[b]]
    /\ UNCHANGED <<correlation, crashes>>

\* Variant: the thread keeps the ID.
RespondOnly(r) ==
    /\ WebAt(r, "audited", [web[r] EXCEPT !.step = "done"])
    /\ UNCHANGED <<correlation, auditRows, refusedRows, crashes>>

\* process_response: the header, and the thread forgets the ID.
Respond(r) ==
    /\ WebAt(r, "audited", [web[r] EXCEPT !.step = "done"])
    /\ correlation' = [correlation EXCEPT ![web[r].thread] = Absent]
    /\ UNCHANGED <<auditRows, refusedRows, crashes>>

\* The process is killed and another started.
Crash ==
    /\ Served # {} /\ crashes = 0
    /\ crashes' = 1
    /\ correlation' = [t \in Threads |-> Absent]
    /\ web' = [r \in WebRequests |-> IF r \in Served THEN [step |-> "lost"] ELSE web[r]]
    /\ UNCHANGED <<auditRows, refusedRows>>

RequestsDone == /\ \A r \in WebRequests : web[r].step \in {"done", "away", "lost"}
                /\ UNCHANGED requestVars

RequestNext ==
    \/ \E r \in WebRequests :
          \/ \E t \in Threads, sent \in SentIds \cup {Absent}, method \in HttpMethods, path \in Paths :
                Receive(r, t, sent, method, path)
          \/ TurnAway(r)
          \/ \E outcome \in Outcomes : Answer(r, outcome)
          \/ \E database, redis, readiness \in BOOLEAN : AnswerHealth(r, database, redis, readiness)
          \/ \E failing \in SUBSET Backends : Audit(r, failing)
          \/ Respond(r)
    \/ Crash \/ RequestsDone

RequestSpec == RequestInit /\ [][RequestNext]_requestVars

-----------------------------------------------------------------------------
(* Properties.                                                              *)

\* Every variable has its type.
RequestTypeOK ==
    /\ correlation \in [Threads -> WebRequests \cup SentIds \cup {Absent}]
    /\ \A r \in WebRequests : web[r].step \in {"new", "view", "answered", "audited", "done",
                                               "away", "lost"}
    /\ DOMAIN auditRows = Backends /\ refusedRows \in [Backends -> SUBSET WebRequests]
    /\ crashes \in 0 .. 1

\* A thread speaks for the request that it serves, and for none when it serves
\* none (its log records carry the ID of the thread); the body, the header and
\* the rows of the audit log carry the ID of their own request; and a change or
\* an error that has been answered is in every backend that could record it.
RequestsAreTraced ==
    /\ \A t \in Threads :
          IF Free(t) THEN correlation[t] = Absent
          ELSE \A r \in Served : web[r].thread = t => correlation[t] = web[r].id
    /\ \A r \in WebRequests : web[r].step \in {"answered", "audited", "done"} =>
          web[r].body.id = web[r].id
    /\ \A r \in WebRequests, b \in Backends :
          LET rows == {row \in auditRows[b] : row.request = r}
          IN /\ web[r].step \in {"audited", "done"} =>
                   rows = IF r \notin refusedRows[b] /\ web[r].path = "audited"
                             /\ (web[r].method = "POST" \/ ~web[r].body.success
                                 \/ web[r].body.status = 503)
                          THEN {[request |-> r, id |-> web[r].id, status |-> web[r].body.status]}
                          ELSE {}
             /\ Cardinality(rows) <= 1
=============================================================================
