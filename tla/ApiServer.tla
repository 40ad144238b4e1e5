----------------------------- MODULE ApiServer -----------------------------
(***************************************************************************)
(* Access to the HTTP API (internal/api): which requests reach a handler,  *)
(* how a POS page is paired, and what a submission or a query of a Job     *)
(* answers.  Requests run concurrently, each in a goroutine; a step is one *)
(* database statement or one section under a mutex.                        *)
(*                                                                         *)
(* There is one Job identity (jobId and template); the Job may be purged   *)
(* and submitted again.  The steps of a request:                           *)
(*   auth    past posCORS and rateLimit, before requireAuth                *)
(*   lookup  in Accept, before GetJobByIdentity                            *)
(*   insert  in Accept, the identity was free                              *)
(*   again   in Accept, the identity was taken meanwhile                   *)
(*   detail  in duplicateResult, before GetDetail                          *)
(*   read    a query of a Job or a run, or a reprint                       *)
(*   try     past posCORS and pairRateLimit, before AuthService.Pair       *)
(*   issue   in Pair, the code was accepted                                *)
(*   done    answered                                                      *)
(***************************************************************************)
EXTENDS Naturals, FiniteSets

CONSTANTS
    Origins,       \* Origin headers that are not the agent's own
    Normal,        \* Normal[o]: normalizeOrigin of o
    NoOrigin,      \* the setting allowed_origin is empty
    Contents,      \* template data and printers of a submission, as hashed
    Requests,      \* requests in progress
    MaxCodes,      \* bound: pairing codes generated
    MaxJobs,       \* bound: Jobs stored
    MaxTime,       \* bound: the clock
    MaxFailures,   \* wrong guesses that invalidate a code: 5
    Burst, Rate,   \* pairLimiter, in fractions of a token: 5 tokens, 0.2 per second
    Cost           \* one token, in the same fractions

ASSUME ApiAssumption ==
    /\ Normal \in [Origins -> Origins]
    /\ \A o \in Origins : Normal[Normal[o]] = Normal[o]
    /\ NoOrigin \notin Origins
    /\ {MaxCodes, MaxJobs, MaxTime, MaxFailures, Burst, Rate, Cost} \subseteq Nat

VARIABLES
    allowedOrigin,  \* the setting
    code,           \* the pairing code
    token,          \* token[c]: the client token issued for code c
    bucket,         \* the token bucket of pairLimiter
    clock,
    job,            \* the stored Job of the identity
    jobs,           \* number of Jobs stored so far
    request,        \* request[r]: the requests
    since, passed   \* history: an observer's start, and the pairings passed since

apiVars == <<allowedOrigin, code, token, bucket, clock, job, jobs, request, since, passed>>

\* A client without an Origin header, and the dashboard on the agent's own port.
Headers == Origins \cup {"none", "dashboard"}
isLocalOrigin(h) == h \notin Origins
requestOwner(h) == IF isLocalOrigin(h) THEN "local" ELSE h

NoJob == [uid |-> 0]

\* arg: the content of a submission, the uid of a query, the code of a pairing;
\* revoked: history, whether its token had been revoked when the request came.
NoRequest == [pc |-> "free", kind |-> "none", origin |-> "none", arg |-> 0, bearer |-> 0,
              answer |-> NoJob, revoked |-> FALSE]

-----------------------------------------------------------------------------
(* Middleware *)

\* posCORS: the configured origin, to the letter, or a local one.
posCORS(h) == isLocalOrigin(h) \/ h = allowedOrigin

\* Faulty variant: the bucket fills without limit.
RefilledUncapped == bucket.level + (clock - bucket.last) * Rate

Refilled ==
    IF bucket.level + (clock - bucket.last) * Rate < Burst
    THEN bucket.level + (clock - bucket.last) * Rate ELSE Burst

\* Faulty variant: a token is valid for every origin.
validateTokenAlone(t, h) == t # 0 /\ token[t].status = "active"

\* validateToken: the query of client_tokens.
validateToken(t, h) == t # 0 /\ token[t].status = "active" /\ token[t].origin = h

Go(r, pc) == request' = [request EXCEPT ![r].pc = pc]
End(r) == request' = [request EXCEPT ![r] = NoRequest]

Arrival(pc, kind, h, t, a) ==
    [pc |-> pc, kind |-> kind, origin |-> h, arg |-> a, bearer |-> t, answer |-> NoJob,
     revoked |-> t # 0 /\ token[t].status = "revoked"]

\* A POS request passes posCORS and rateLimit; a refusal changes nothing.
Arrive(r, kind, h, t, a) ==
    /\ request[r].pc \in {"free", "done"} /\ posCORS(h)
    /\ request' = [request EXCEPT ![r] = Arrival("auth", kind, h, t, a)]
    /\ UNCHANGED <<allowedOrigin, code, token, bucket, clock, job, jobs, since, passed>>

\* A pairing request passes posCORS and pairRateLimit ...
ArrivePair(r, h, guess) ==
    /\ request[r].pc \in {"free", "done"} /\ posCORS(h)
    /\ Refilled >= Cost
    /\ bucket' = [level |-> Refilled - Cost, last |-> clock]
    /\ passed' = IF clock >= since THEN passed + 1 ELSE passed
    /\ request' = [request EXCEPT ![r] = Arrival("try", "pair", h, 0, guess)]
    /\ UNCHANGED <<allowedOrigin, code, token, clock, job, jobs, since>>

\* ... or is refused by the latter, which counts the time that has passed.
PairLimited(h) ==
    /\ posCORS(h) /\ Refilled < Cost
    /\ bucket' = [level |-> Refilled, last |-> clock]
    /\ UNCHANGED <<allowedOrigin, code, token, clock, job, jobs, request, since, passed>>

\* requireAuth.
requireAuth(r) ==
    LET q == request[r]
    IN  /\ q.pc = "auth"
        /\ IF isLocalOrigin(q.origin) \/ validateToken(q.bearer, q.origin)
           THEN Go(r, IF q.kind = "submit" THEN "lookup" ELSE "read")
           ELSE End(r)
        /\ UNCHANGED <<allowedOrigin, code, token, bucket, clock, job, jobs, since, passed>>

-----------------------------------------------------------------------------
(* handleCreateJob: Service.Accept *)

\* duplicateResult accepts the stored Job as the one of request q.
Duplicate(q) ==
    /\ requestOwner(q.origin) \in {"local", job.owner}
    /\ job.content = q.arg

\* Faulty variant: the Job that met the UNIQUE constraint is taken for a duplicate.
LookupTrusting(r) ==
    LET q == request[r]
    IN  /\ q.pc \in {"lookup", "again"}
        /\ IF job = NoJob THEN IF q.pc = "lookup" THEN Go(r, "insert") ELSE End(r)
           ELSE IF q.pc = "again" \/ Duplicate(q)
           THEN request' = [request EXCEPT ![r].pc = "detail", ![r].answer = job]
           ELSE End(r)
        /\ UNCHANGED <<allowedOrigin, code, token, bucket, clock, job, jobs, since, passed>>

\* GetJobByIdentity, before the insertion or after it met the UNIQUE constraint.
\* A conflict is refused; the second time a Job that is gone is an error.
Lookup(r) ==
    LET q == request[r]
    IN  /\ q.pc \in {"lookup", "again"}
        /\ IF job = NoJob THEN IF q.pc = "lookup" THEN Go(r, "insert") ELSE End(r)
           ELSE IF Duplicate(q)
           THEN request' = [request EXCEPT ![r].pc = "detail", ![r].answer = job]
           ELSE End(r)
        /\ UNCHANGED <<allowedOrigin, code, token, bucket, clock, job, jobs, since, passed>>

\* The transaction of InsertJob.
InsertJob(r) ==
    LET q == request[r]
        new == [uid |-> jobs + 1, owner |-> requestOwner(q.origin), content |-> q.arg]
    IN  /\ q.pc = "insert"
        /\ \/ job # NoJob /\ Go(r, "again") /\ UNCHANGED <<job, jobs>>
           \/ /\ job = NoJob /\ jobs < MaxJobs
              /\ job' = new /\ jobs' = jobs + 1
              /\ request' = [request EXCEPT ![r].pc = "done", ![r].answer = new]
        /\ UNCHANGED <<allowedOrigin, code, token, bucket, clock, since, passed>>

\* GetDetail of the Job found before, which may be purged by now.
GetDetail(r) ==
    /\ request[r].pc = "detail"
    /\ IF job = request[r].answer THEN Go(r, "done") ELSE End(r)
    /\ UNCHANGED <<allowedOrigin, code, token, bucket, clock, job, jobs, since, passed>>

(* handleGetJob, handleGetPrintRun, handleListJobs, handleReprint *)

\* Get, GetRun, List and Reprint of the service.
OwnedBy(q) == requestOwner(q.origin) \in {"local", job.owner}

Read(r) ==
    LET q == request[r]
    IN  /\ q.pc = "read"
        /\ IF job # NoJob /\ job.uid = q.arg /\ OwnedBy(q)
           THEN request' = [request EXCEPT ![r].pc = "done", ![r].answer = job]
           ELSE End(r)
        /\ UNCHANGED <<allowedOrigin, code, token, bucket, clock, job, jobs, since, passed>>

PurgeExpired ==
    /\ job # NoJob
    /\ job' = NoJob
    /\ UNCHANGED <<allowedOrigin, code, token, bucket, clock, jobs, request, since, passed>>

-----------------------------------------------------------------------------
(* Pairing: AuthService *)

\* Faulty variant: a code that was accepted stays.
CodeAfterKept(accepted) == code

\* The code after it was compared: spent, or one failure closer to its end.
CodeAfter(accepted) ==
    CASE accepted -> [code EXCEPT !.status = "none", !.failures = 0]
      [] ~accepted /\ code.status = "none" -> code
      [] OTHER -> [code EXCEPT !.failures = @ + 1,
                     !.status = IF code.failures + 1 >= MaxFailures THEN "none" ELSE @]

\* Pair, under the mutex.  A client without an Origin is refused before.
Pair(r) ==
    LET q == request[r]
        accepted == code.status = "valid" /\ q.arg = code.id
    IN  /\ q.pc = "try"
        /\ IF q.origin = "none" THEN UNCHANGED code /\ End(r)
           ELSE code' = CodeAfter(accepted) /\ IF accepted THEN Go(r, "issue") ELSE End(r)
        /\ UNCHANGED <<allowedOrigin, token, bucket, clock, job, jobs, since, passed>>

\* Pair stores the token, or fails: the code is spent all the same.
IssueToken(r) ==
    LET q == request[r]
    IN  /\ q.pc = "issue"
        /\ \/ token' = [token EXCEPT ![q.arg] =
                [status |-> "active", issued |-> @.issued + 1,
                 origin |-> IF isLocalOrigin(q.origin) THEN q.origin ELSE Normal[q.origin]]]
           \/ UNCHANGED token
        /\ End(r)
        /\ UNCHANGED <<allowedOrigin, code, bucket, clock, job, jobs, since, passed>>

GeneratePairingCode ==
    /\ code.id < MaxCodes
    /\ code' = [id |-> code.id + 1, status |-> "valid", failures |-> 0]
    /\ UNCHANGED <<allowedOrigin, token, bucket, clock, job, jobs, request, since, passed>>

\* Five minutes pass.  The code is not cleared.
CodeExpires ==
    /\ code.status = "valid"
    /\ code' = [code EXCEPT !.status = "expired"]
    /\ UNCHANGED <<allowedOrigin, token, bucket, clock, job, jobs, request, since, passed>>

RevokeToken(t) ==
    /\ token[t].status = "active"
    /\ token' = [token EXCEPT ![t].status = "revoked"]
    /\ UNCHANGED <<allowedOrigin, code, bucket, clock, job, jobs, request, since, passed>>

\* Faulty variant: the setting is stored as it was typed.
PutSettingsRaw(o) ==
    /\ allowedOrigin' = o
    /\ UNCHANGED <<code, token, bucket, clock, job, jobs, request, since, passed>>

\* handlePutSettings, with an origin in any spelling.
PutSettings(o) ==
    /\ allowedOrigin' = Normal[o]
    /\ UNCHANGED <<code, token, bucket, clock, job, jobs, request, since, passed>>

Tick ==
    /\ clock < MaxTime
    /\ clock' = clock + 1
    /\ UNCHANGED <<allowedOrigin, code, token, bucket, job, jobs, request, since, passed>>

-----------------------------------------------------------------------------
ApiInit ==
    /\ allowedOrigin = NoOrigin
    /\ code = [id |-> 0, status |-> "none", failures |-> 0]
    /\ token = [c \in 1..MaxCodes |-> [status |-> "none", issued |-> 0, origin |-> NoOrigin]]
    /\ bucket = [level |-> Burst, last |-> 0]
    /\ clock = 0
    /\ job = NoJob /\ jobs = 0
    /\ request = [r \in Requests |-> NoRequest]
    /\ since \in 0..MaxTime /\ passed = 0

\* The dashboard's own calls pass localOnly, which looks at the header alone.
AdminNext ==
    \/ GeneratePairingCode
    \/ \E t \in 1..MaxCodes : RevokeToken(t)
    \/ \E o \in Origins : PutSettings(o)

RequestNext(r) ==
    \/ requireAuth(r) \/ Lookup(r) \/ InsertJob(r) \/ GetDetail(r) \/ Read(r)
    \/ Pair(r) \/ IssueToken(r)

\* Of a local request nobody reads the token; a token that was never issued stands
\* for a wrong or missing one.  Only pairing tells a client without an Origin
\* from the dashboard.
ApiNext ==
    \/ \E r \in Requests : RequestNext(r)
    \/ \E r \in Requests, h \in Origins \cup {"dashboard"} :
       \E t \in IF isLocalOrigin(h) THEN {0} ELSE 1..MaxCodes :
          \/ \E c \in Contents : Arrive(r, "submit", h, t, c)
          \/ \E u \in 1..jobs : Arrive(r, "read", h, t, u)
    \/ \E r \in Requests, h \in Headers, guess \in 0..code.id : ArrivePair(r, h, guess)
    \/ \E h \in Headers : PairLimited(h)
    \/ AdminNext
    \/ PurgeExpired \/ CodeExpires \/ Tick

ApiSpec == ApiInit /\ [][ApiNext]_apiVars

-----------------------------------------------------------------------------
(* Properties *)

\* A pairing code yields at most one token, whatever requests compare it at the same
\* time (auth.go:59-71 against the insertion outside of the lock).
OneTokenPerCode ==
    \A c \in 1..MaxCodes :
        token[c].issued + Cardinality({r \in Requests : request[r].pc = "issue"
                                                        /\ request[r].arg = c}) <= 1

\* From any moment on, not more pairing attempts come through than the bucket holds
\* and refills (middleware.go:142-153).
PairingAttemptsBounded ==
    clock >= since => passed * Cost <= Burst + Rate * (clock - since)

\* A request from another origin that has reached a handler carries a token that was
\* issued to a page of that origin and was not revoked yet when the request came, and
\* its origin, which becomes the owner of its Jobs, is in normal form.
ServedIsEntitled ==
    \A r \in Requests :
        LET q == request[r]
        IN  /\ q.pc \in {"lookup", "insert", "again", "detail", "read", "done"}
            /\ ~isLocalOrigin(q.origin)
            => /\ q.bearer # 0 /\ ~q.revoked
               /\ token[q.bearer].origin = q.origin
               /\ Normal[q.origin] = q.origin

\* A page that pairs gets a token it can use: it is issued for the very Origin that
\* the browser sends (handlePair normalises it, requireAuth does not).
TokenFitsItsPage ==
    [][\A r \in Requests : request[r].pc = "issue" /\ ~isLocalOrigin(request[r].origin)
                            /\ token'[request[r].arg] # token[request[r].arg]
          => token'[request[r].arg].origin = request[r].origin]_apiVars

\* What a submission or a query is answered with is its own: the Job has the content
\* that was submitted and an owner whose Jobs the client may see, although others
\* submit the same identity and the Job is purged and stored again meanwhile.
AnswerIsOwnJob ==
    \A r \in Requests :
        LET q == request[r]
        IN  q.pc = "done" =>
                /\ requestOwner(q.origin) \in {"local", q.answer.owner}
                /\ q.kind = "submit" => q.answer.content = q.arg
=============================================================================
