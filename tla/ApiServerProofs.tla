-------------------------- MODULE ApiServerProofs --------------------------
(***************************************************************************)
(* Access to the HTTP API, for all sets of origins, contents and requests  *)
(* and all bounds and rates: ApiInv is an inductive invariant from which   *)
(* the properties of ApiServer follow.                                     *)
(*                                                                         *)
(* Its parts are about different things that happen to share a state: the  *)
(* life of a pairing code and its token, the entitlement of a request      *)
(* along its way, the ownership of an answer, and the bucket of the        *)
(* pairing limiter.                                                        *)
(***************************************************************************)
EXTENDS ApiServer, FiniteSetTheorems, TLAPS

-----------------------------------------------------------------------------
(* The inductive invariant *)

Served == {"lookup", "insert", "again", "detail", "read", "done"}
Pcs == Served \cup {"free", "auth", "try", "issue"}
Args == Contents \cup Nat

Code == [id : 0..MaxCodes, status : {"none", "valid", "expired"}, failures : Nat]
Token == [status : {"none", "active", "revoked"}, issued : {0, 1},
          origin : Headers \cup {NoOrigin}]
Job == [uid : Nat, owner : Headers \cup {"local"}, content : Args]
Request == [pc : Pcs, kind : {"none", "submit", "read", "pair"}, origin : Headers,
            arg : Args, bearer : 0..MaxCodes, answer : {NoJob} \cup Job,
            revoked : BOOLEAN]

ApiTypes ==
    /\ allowedOrigin \in Origins \cup {NoOrigin}
    /\ code \in Code
    /\ token \in [1..MaxCodes -> Token]
    /\ bucket \in [level : Nat, last : Nat]
    /\ clock \in Nat
    /\ job \in {NoJob} \cup Job /\ jobs \in Nat
    /\ request \in [Requests -> Request]
    /\ since \in Nat /\ passed \in Nat

Issuing(q, c) == q.pc = "issue" /\ q.arg = c

\* A code is in one hand at a time: guessed by anybody while it is valid, then with
\* the one request that was accepted, then in the token.
CodeInv ==
    /\ code.status = "valid" =>
          /\ code.id \in 1..MaxCodes /\ token[code.id].issued = 0
          /\ \A r \in Requests : ~Issuing(request[r], code.id)
    /\ \A c \in 1..MaxCodes : c > code.id => token[c].issued = 0
    /\ \A c \in 1..MaxCodes : token[c].status = "none" <=> token[c].issued = 0
    /\ \A r \in Requests : request[r].pc = "issue" =>
          /\ request[r].arg \in 1..code.id
          /\ token[request[r].arg].issued = 0
    /\ \A r, s \in Requests :
          request[r].pc = "issue" /\ Issuing(request[s], request[r].arg) => r = s

\* A request past posCORS comes from an origin in normal form; the token it carries
\* is not used any more if it had been revoked, and belongs to the origin once the
\* request is served.
Entitled(q) ==
    /\ q.pc # "free" /\ ~isLocalOrigin(q.origin) => Normal[q.origin] = q.origin
    /\ q.revoked => q.bearer # 0 /\ token[q.bearer].status = "revoked"
    /\ q.pc \in Served /\ ~isLocalOrigin(q.origin) =>
          /\ q.bearer # 0 /\ ~q.revoked
          /\ token[q.bearer].issued = 1 /\ token[q.bearer].origin = q.origin
OriginInv ==
    /\ allowedOrigin \in Origins => Normal[allowedOrigin] = allowedOrigin
    /\ \A r \in Requests : Entitled(request[r])

\* The answer belongs to the client from the moment it is chosen.
Answered(q) ==
    /\ q.pc = "read" => q.kind # "submit"
    /\ q.pc \in {"detail", "done"} =>
          /\ requestOwner(q.origin) \in {"local", q.answer.owner}
          /\ q.kind = "submit" => q.answer.content = q.arg
AnswerInv == \A r \in Requests : Answered(request[r])

\* What has been let through since the observer's start and what the bucket would
\* let through now are paid for by a full bucket and the time that has passed.
BucketInv ==
    /\ bucket.level <= Burst /\ bucket.last <= clock
    /\ clock < since => passed = 0
    /\ clock >= since => passed * Cost + Refilled <= Burst + Rate * (clock - since)

ApiInv == ApiTypes /\ CodeInv /\ OriginInv /\ AnswerInv /\ BucketInv

-----------------------------------------------------------------------------
(* The bucket *)

\* Multiplication by a number that has grown by one.
LEMMA OneMore == ASSUME NEW a \in Nat, NEW b \in Nat PROVE (a + 1) * b = a * b + b
  OBVIOUS

\* A difference that has grown by one.
LEMMA OneLater ==
    ASSUME NEW a \in Nat, NEW b \in Nat, NEW c \in Nat, b <= a
    PROVE  /\ (a + 1 - b) * c = (a - b) * c + c
           /\ c * (a + 1 - b) = c * (a - b) + c
           /\ (a - b) * c \in Nat
  <1>1. PICK d \in Nat : d = a - b OBVIOUS
  <1>2. a + 1 - b = d + 1 BY <1>1
  <1>3. (d + 1) * c = d * c + c /\ c * (d + 1) = c * d + c /\ d * c \in Nat BY OneMore
  <1> QED BY <1>1, <1>2, <1>3

\* What the bucket would let through is between nothing and a full bucket.
LEMMA RefilledRange ==
    ASSUME ApiTypes, BucketInv
    PROVE  Refilled \in Nat /\ Refilled <= Burst
  <1>1. PICK x \in Nat : x = (clock - bucket.last) * Rate
    BY ApiAssumption, OneLater DEF ApiTypes, BucketInv
  <1> QED BY <1>1, ApiAssumption DEF ApiTypes, Refilled

\* A pairing attempt that is let through or refused: the time is counted and the
\* price is taken.
LEMMA BucketTaken ==
    ASSUME ApiTypes, BucketInv, NEW taken \in {0, Cost}, Refilled >= taken,
           bucket' = [level |-> Refilled - taken, last |-> clock],
           clock' = clock, since' = since,
           passed' = passed \/ (taken = Cost /\ clock >= since /\ passed' = passed + 1)
    PROVE  BucketInv' /\ bucket' \in [level : Nat, last : Nat] /\ passed' \in Nat
  <1>1. Refilled \in Nat /\ Refilled <= Burst BY RefilledRange
  <1>2. Cost \in Nat /\ Burst \in Nat /\ Rate \in Nat BY ApiAssumption
  <1>3. bucket'.level = Refilled - taken /\ bucket'.last = clock OBVIOUS
  <1>4. (clock' - bucket'.last) * Rate = 0 BY <1>2, <1>3 DEF ApiTypes
  <1>5. Refilled' = Refilled - taken BY <1>1, <1>2, <1>3, <1>4 DEF Refilled
  <1>6. bucket' \in [level : Nat, last : Nat] /\ passed' \in Nat
    BY <1>1, <1>2 DEF ApiTypes
  <1>7. ASSUME clock >= since
        PROVE  passed' * Cost + Refilled' <= Burst + Rate * (clock - since)
    <2>1. PICK x \in Nat : x = passed * Cost BY <1>2 DEF ApiTypes
    <2>2. PICK y \in Nat : y = Rate * (clock - since)
      BY <1>2, <1>7, OneLater DEF ApiTypes
    <2>3. x + Refilled <= Burst + y BY <1>7, <2>1, <2>2 DEF BucketInv
    <2>4. passed' * Cost + Refilled' <= x + Refilled
      <3>1. CASE taken = Cost /\ passed' = passed + 1
        <4>1. (passed + 1) * Cost = x + Cost BY <1>2, <2>1, OneMore DEF ApiTypes
        <4> QED BY <1>1, <1>2, <1>5, <3>1, <4>1
      <3>2. CASE passed' = passed BY <1>1, <1>2, <1>5, <2>1, <3>2
      <3> QED BY <3>1, <3>2
    <2>5. passed' * Cost \in Nat
      <3>1. \A n \in Nat : n * Cost \in Nat BY <1>2
      <3>2. PICK n \in Nat : n = passed' BY <1>6
      <3> QED BY <3>1, <3>2
    <2> QED BY <1>1, <1>2, <1>5, <2>2, <2>3, <2>4, <2>5
  <1>8. clock < since => passed' = 0 BY DEF BucketInv, ApiTypes
  <1>9. bucket'.level <= Burst /\ bucket'.last <= clock' BY <1>1, <1>2, <1>3 DEF ApiTypes
  <1> QED BY <1>6, <1>7, <1>8, <1>9 DEF BucketInv

\* A second passes: what the bucket would let through grows by Rate at most.
LEMMA BucketTick ==
    ASSUME ApiTypes, BucketInv, Tick
    PROVE  BucketInv'
  <1>1. /\ clock' = clock + 1
        /\ bucket' = bucket /\ since' = since /\ passed' = passed
    BY DEF Tick
  <1>2. Cost \in Nat /\ Burst \in Nat /\ Rate \in Nat BY ApiAssumption
  <1>3. PICK x \in Nat : x = (clock - bucket.last) * Rate
    BY <1>2, OneLater DEF ApiTypes, BucketInv
  <1>4. (clock' - bucket'.last) * Rate = x + Rate
    BY <1>1, <1>2, <1>3, OneLater DEF ApiTypes, BucketInv
  <1>5. Refilled' <= Refilled + Rate /\ Refilled' <= Burst /\ Refilled' \in Nat
        /\ Refilled \in Nat
    BY <1>1, <1>2, <1>3, <1>4 DEF ApiTypes, Refilled
  <1>6. ASSUME clock' >= since
        PROVE  passed * Cost + Refilled' <= Burst + Rate * (clock' - since)
    <2>1. PICK z \in Nat : z = passed * Cost BY <1>2 DEF ApiTypes
    <2>2. CASE clock >= since
      <3>1. PICK y \in Nat : y = Rate * (clock - since)
        BY <1>2, <2>2, OneLater DEF ApiTypes
      <3>2. Rate * (clock' - since) = y + Rate
        BY <1>1, <1>2, <2>2, <3>1, OneLater DEF ApiTypes
      <3>3. z + Refilled <= Burst + y BY <2>1, <2>2, <3>1 DEF BucketInv
      <3> QED BY <1>2, <1>5, <2>1, <3>2, <3>3
    <2>3. CASE clock < since
      <3>1. passed * Cost = 0 BY <1>2, <2>3 DEF BucketInv
      <3>2. clock' - since = 0 BY <1>1, <1>6, <2>3 DEF ApiTypes
      <3>3. Rate * 0 = 0 BY <1>2
      <3> QED BY <1>2, <1>5, <3>1, <3>2, <3>3
    <2> QED BY <2>2, <2>3 DEF ApiTypes
  <1>7. clock' < since => passed = 0 BY <1>1 DEF BucketInv, ApiTypes
  <1>8. bucket.level <= Burst /\ bucket.last <= clock' BY <1>1 DEF BucketInv, ApiTypes
  <1> QED BY <1>1, <1>6, <1>7, <1>8 DEF BucketInv

\* A step that is not about the bucket.
LEMMA BucketFrame ==
    ASSUME BucketInv, UNCHANGED <<bucket, clock, since, passed>>
    PROVE  BucketInv'
  BY DEF BucketInv, Refilled

-----------------------------------------------------------------------------
(* The way of a request *)

\* An ended request claims nothing.
LEMMA EndedRequest ==
    NoRequest \in Request /\ Entitled(NoRequest) /\ Answered(NoRequest)
  <1>1. NoRequest \in Request
    BY ApiAssumption DEF NoRequest, Request, Pcs, Headers, Args
  <1> QED BY <1>1 DEF NoRequest, Entitled, Answered, Served

\* Request r moves on, outside of the issue of a token.
LEMMA RequestMoves ==
    ASSUME ApiInv, NEW r \in Requests, NEW v \in Request,
           request' = [request EXCEPT ![r] = v],
           v.pc # "issue", Entitled(v), Answered(v),
           UNCHANGED <<allowedOrigin, code, token>>,
           ApiTypes', BucketInv'
    PROVE  ApiInv'
  <1>1. \A s \in Requests : request'[s] = IF s = r THEN v ELSE request[s]
    BY DEF ApiInv, ApiTypes
  <1>2. CodeInv' BY <1>1 DEF ApiInv, CodeInv, Issuing
  <1>3. OriginInv' BY <1>1 DEF ApiInv, OriginInv, Entitled
  <1>4. AnswerInv' BY <1>1 DEF ApiInv, AnswerInv, Answered
  <1> QED BY <1>2, <1>3, <1>4 DEF ApiInv

\* The same for a step that concerns the Job at most.
LEMMA JobMoves ==
    ASSUME ApiInv, NEW r \in Requests, NEW v \in Request,
           request' = [request EXCEPT ![r] = v],
           v.pc # "issue", Entitled(v), Answered(v),
           UNCHANGED <<allowedOrigin, code, token, bucket, clock, since, passed>>,
           job' \in {NoJob} \cup Job, jobs' \in Nat
    PROVE  ApiInv'
  <1>1. BucketInv' BY BucketFrame DEF ApiInv
  <1>2. ApiTypes' BY DEF ApiInv, ApiTypes
  <1> QED BY <1>1, <1>2, RequestMoves

\* posCORS lets through local requests and those of the configured origin.
LEMMA ArrivalIsEntitled ==
    ASSUME ApiInv, NEW h \in Headers, posCORS(h), NEW t \in 0..MaxCodes,
           NEW a \in Args, NEW kind \in {"submit", "read", "pair"},
           NEW pc \in {"auth", "try"}
    PROVE  /\ Arrival(pc, kind, h, t, a) \in Request
           /\ Arrival(pc, kind, h, t, a).pc = pc
           /\ Entitled(Arrival(pc, kind, h, t, a))
           /\ Answered(Arrival(pc, kind, h, t, a))
  <1> DEFINE v == Arrival(pc, kind, h, t, a)
  <1>1. (t # 0 /\ token[t].status = "revoked") \in BOOLEAN OBVIOUS
  <1>2. v \in Request BY <1>1 DEF Arrival, Request, Pcs
  <1>3. /\ v.pc = pc /\ v.origin = h /\ v.bearer = t
        /\ v.revoked = (t # 0 /\ token[t].status = "revoked")
    BY DEF Arrival
  <1>4. ~isLocalOrigin(h) => Normal[h] = h
    BY DEF posCORS, isLocalOrigin, ApiInv, OriginInv
  <1>5. Entitled(v) BY <1>3, <1>4 DEF Entitled, Served
  <1> QED BY <1>2, <1>3, <1>5 DEF Answered

\* Requests of the POS and pairing requests come in.
LEMMA ArrivePreserves ==
    ASSUME ApiInv, NEW r \in Requests, NEW h \in Headers, NEW t \in 0..MaxCodes,
           NEW a \in Args, NEW kind \in {"submit", "read"}, Arrive(r, kind, h, t, a)
    PROVE  ApiInv'
  <1>1. posCORS(h) BY DEF Arrive
  <1>2. job' \in {NoJob} \cup Job /\ jobs' \in Nat BY DEF Arrive, ApiInv, ApiTypes
  <1> QED BY <1>1, <1>2, ArrivalIsEntitled, JobMoves DEF Arrive

\* A pairing request takes its price from the bucket.
LEMMA ArrivePairPreserves ==
    ASSUME ApiInv, NEW r \in Requests, NEW h \in Headers, NEW guess \in 0..code.id,
           ArrivePair(r, h, guess)
    PROVE  ApiInv'
  <1> DEFINE v == Arrival("try", "pair", h, 0, guess)
  <1>1. posCORS(h) BY DEF ArrivePair
  <1>2. guess \in Args /\ 0 \in 0..MaxCodes
    BY ApiAssumption DEF ApiInv, ApiTypes, Code, Args
  <1>3. v \in Request /\ v.pc = "try" /\ Entitled(v) /\ Answered(v)
    BY <1>1, <1>2, ArrivalIsEntitled
  <1>4. BucketInv' /\ bucket' \in [level : Nat, last : Nat] /\ passed' \in Nat
    <2>1. PICK taken \in {0, Cost} : taken = Cost OBVIOUS
    <2> QED BY <2>1, BucketTaken DEF ApiInv, ApiTypes, ArrivePair
  <1>5. request' = [request EXCEPT ![r] = v] BY DEF ArrivePair
  <1>6. ApiTypes' BY <1>3, <1>4, <1>5 DEF ApiInv, ApiTypes, ArrivePair
  <1> QED BY <1>3, <1>4, <1>5, <1>6, RequestMoves DEF ArrivePair

\* requireAuth: the token is active, so it has not been revoked since the request
\* came, and it was issued to the origin of the request.
LEMMA AuthPreserves ==
    ASSUME ApiInv, NEW r \in Requests, requireAuth(r)
    PROVE  ApiInv'
  <1> DEFINE q == request[r]
             pc == IF q.kind = "submit" THEN "lookup" ELSE "read"
             v == [q EXCEPT !.pc = pc]
  <1>1. q \in Request /\ Entitled(q) /\ q.pc = "auth"
    BY DEF ApiInv, ApiTypes, OriginInv, requireAuth
  <1>2. job' \in {NoJob} \cup Job /\ jobs' \in Nat BY DEF requireAuth, ApiInv, ApiTypes
  <1>3. UNCHANGED <<allowedOrigin, code, token, bucket, clock, since, passed>>
    BY DEF requireAuth
  <1>4. CASE isLocalOrigin(q.origin) \/ validateToken(q.bearer, q.origin)
    <2>1. request' = [request EXCEPT ![r] = v] BY <1>4 DEF requireAuth, Go
    <2>2. /\ v \in Request /\ v.pc = pc /\ v.origin = q.origin /\ v.kind = q.kind
          /\ v.bearer = q.bearer /\ v.revoked = q.revoked /\ v.arg = q.arg
      BY <1>1 DEF Request, Pcs, Served
    <2>3. ~isLocalOrigin(q.origin) =>
             /\ q.bearer # 0 /\ token[q.bearer].status = "active"
             /\ token[q.bearer].origin = q.origin
             /\ Normal[q.origin] = q.origin
      BY <1>1, <1>4 DEF validateToken, Entitled
    <2>4. ~isLocalOrigin(q.origin) => token[q.bearer].issued = 1 /\ ~q.revoked
      <3>1. q.bearer # 0 => q.bearer \in 1..MaxCodes
        BY <1>1, ApiAssumption DEF Request
      <3>2. q.bearer # 0 => token[q.bearer].issued \in {0, 1}
        BY <3>1 DEF ApiInv, ApiTypes, Token
      <3> QED BY <1>1, <2>3, <3>1, <3>2 DEF ApiInv, CodeInv, Entitled
    <2>5. Entitled(v)
      <3>1. v.revoked => v.bearer # 0 /\ token[v.bearer].status = "revoked"
        BY <1>1, <2>2 DEF Entitled
      <3> QED BY <2>2, <2>3, <2>4, <3>1 DEF Entitled
    <2>6. Answered(v) BY <2>2 DEF Answered
    <2>7. v.pc # "issue" BY <2>2
    <2> HIDE DEF v
    <2> QED BY <1>2, <1>3, <2>1, <2>2, <2>5, <2>6, <2>7, JobMoves
  <1>5. CASE ~(isLocalOrigin(q.origin) \/ validateToken(q.bearer, q.origin))
    <2>1. request' = [request EXCEPT ![r] = NoRequest] BY <1>5 DEF requireAuth, End
    <2>2. NoRequest.pc # "issue" BY DEF NoRequest
    <2> QED BY <1>2, <1>3, <2>1, <2>2, EndedRequest, JobMoves
  <1> QED BY <1>4, <1>5

\* A request that is being served goes on, with an answer of its own if it has one.
LEMMA ServedMoves ==
    ASSUME ApiInv, NEW r \in Requests, NEW pc \in Served, NEW a \in {NoJob} \cup Job,
           request[r].pc \in Served,
           request' = [request EXCEPT ![r] = [request[r] EXCEPT !.pc = pc, !.answer = a]],
           pc # "read",
           pc \in {"detail", "done"} =>
              /\ requestOwner(request[r].origin) \in {"local", a.owner}
              /\ request[r].kind = "submit" => a.content = request[r].arg,
           UNCHANGED <<allowedOrigin, code, token, bucket, clock, since, passed>>,
           job' \in {NoJob} \cup Job, jobs' \in Nat
    PROVE  ApiInv'
  <1> DEFINE q == request[r]
             v == [q EXCEPT !.pc = pc, !.answer = a]
  <1>1. q \in Request /\ Entitled(q) BY DEF ApiInv, ApiTypes, OriginInv
  <1>2. /\ v \in Request /\ v.pc = pc /\ v.origin = q.origin /\ v.kind = q.kind
        /\ v.bearer = q.bearer /\ v.revoked = q.revoked /\ v.arg = q.arg /\ v.answer = a
    BY <1>1 DEF Request, Pcs
  <1>3. Entitled(v) BY <1>1, <1>2 DEF Entitled, Served
  <1>4. Answered(v) BY <1>2 DEF Answered
  <1>5. v.pc # "issue" BY <1>2 DEF Served
  <1> HIDE DEF v
  <1>6. request' = [request EXCEPT ![r] = v] BY DEF v
  <1> QED BY <1>2, <1>3, <1>4, <1>5, <1>6, JobMoves

\* A request ends without an answer.
LEMMA EndMoves ==
    ASSUME ApiInv, NEW r \in Requests, End(r),
           UNCHANGED <<allowedOrigin, code, token, bucket, clock, job, jobs, since, passed>>
    PROVE  ApiInv'
  <1>1. request' = [request EXCEPT ![r] = NoRequest] BY DEF End
  <1>2. NoRequest.pc # "issue" BY DEF NoRequest
  <1>3. job' \in {NoJob} \cup Job /\ jobs' \in Nat BY DEF ApiInv, ApiTypes
  <1> QED BY <1>1, <1>2, <1>3, EndedRequest, JobMoves

\* Service.Accept and the queries: an answer is chosen only after the owner, and for
\* a submission the content, have been compared with the stored Job.
LEMMA ServePreserves ==
    ASSUME ApiInv, NEW r \in Requests,
           Lookup(r) \/ InsertJob(r) \/ GetDetail(r) \/ Read(r)
    PROVE  ApiInv'
  <1> DEFINE q == request[r]
  <1>0. /\ q \in Request /\ Answered(q) /\ job \in {NoJob} \cup Job /\ jobs \in Nat
        /\ q.answer \in {NoJob} \cup Job /\ request \in [Requests -> Request]
    BY DEF ApiInv, ApiTypes, AnswerInv, Request
  <1>1. UNCHANGED <<allowedOrigin, code, token, bucket, clock, since, passed>>
    BY DEF Lookup, InsertJob, GetDetail, Read
  <1>2. ASSUME NEW pc, Go(r, pc)
        PROVE  request' = [request EXCEPT ![r] =
                              [request[r] EXCEPT !.pc = pc, !.answer = q.answer]]
    <2>1. [q EXCEPT !.pc = pc] = [q EXCEPT !.pc = pc, !.answer = q.answer]
      BY <1>0 DEF Request
    <2> QED BY <1>2, <2>1 DEF Go
  <1>3. CASE Lookup(r)
    <2>1. UNCHANGED <<job, jobs>> /\ q.pc \in {"lookup", "again"} BY <1>3 DEF Lookup
    <2>2. CASE End(r) BY <1>1, <2>1, <2>2, EndMoves
    <2>3. CASE Go(r, "insert")
      <3>1. request' = [request EXCEPT ![r] =
                           [request[r] EXCEPT !.pc = "insert", !.answer = q.answer]]
        BY <1>2, <2>3
      <3>2. job' \in {NoJob} \cup Job /\ jobs' \in Nat /\ q.pc \in Served
        BY <1>0, <2>1, <2>3 DEF Served
      <3>3. "insert" \in Served /\ "insert" \notin {"read", "detail", "done"} BY DEF Served
      <3> QED BY <1>0, <1>1, <3>1, <3>2, <3>3, ServedMoves
    <2>4. CASE /\ Duplicate(q) /\ job # NoJob
               /\ request' = [request EXCEPT ![r].pc = "detail", ![r].answer = job]
      <3>1. requestOwner(q.origin) \in {"local", job.owner} /\ job.content = q.arg
        BY <2>4 DEF Duplicate
      <3>2. request' = [request EXCEPT ![r] =
                           [request[r] EXCEPT !.pc = "detail", !.answer = job]]
        BY <1>0, <2>4
      <3> QED BY <1>0, <1>1, <2>1, <3>1, <3>2, ServedMoves DEF Served
    <2> QED BY <1>3, <2>2, <2>3, <2>4 DEF Lookup
  <1>4. CASE InsertJob(r)
    <2> DEFINE new == [uid |-> jobs + 1, owner |-> requestOwner(q.origin),
                       content |-> q.arg]
    <2>1. q.pc = "insert" BY <1>4 DEF InsertJob
    <2>2. CASE Go(r, "again") /\ UNCHANGED <<job, jobs>>
      <3>1. request' = [request EXCEPT ![r] =
                           [request[r] EXCEPT !.pc = "again", !.answer = q.answer]]
        BY <1>2, <2>2
      <3>2. job' \in {NoJob} \cup Job /\ jobs' \in Nat /\ q.pc \in Served
        BY <1>0, <2>1, <2>2 DEF Served
      <3>3. "again" \in Served /\ "again" \notin {"read", "detail", "done"} BY DEF Served
      <3> QED BY <1>0, <1>1, <3>1, <3>2, <3>3, ServedMoves
    <2>3. CASE /\ job' = new /\ jobs' = jobs + 1
               /\ request' = [request EXCEPT ![r].pc = "done", ![r].answer = new]
      <3>1. new \in Job
        BY <1>0 DEF Job, Request, requestOwner
      <3>2. new.owner = requestOwner(q.origin) /\ new.content = q.arg OBVIOUS
      <3>3. request' = [request EXCEPT ![r] =
                           [request[r] EXCEPT !.pc = "done", !.answer = new]]
        BY <1>0, <2>3
      <3>4. job' \in {NoJob} \cup Job /\ jobs' \in Nat BY <1>0, <2>3, <3>1
      <3> HIDE DEF new
      <3> QED BY <1>1, <2>1, <3>1, <3>2, <3>3, <3>4, ServedMoves DEF Served
    <2> QED BY <1>4, <2>2, <2>3 DEF InsertJob
  <1>5. CASE GetDetail(r)
    <2>1. UNCHANGED <<job, jobs>> /\ q.pc = "detail" BY <1>5 DEF GetDetail
    <2>2. CASE End(r) BY <1>1, <2>1, <2>2, EndMoves
    <2>3. CASE Go(r, "done")
      <3>1. /\ requestOwner(q.origin) \in {"local", q.answer.owner}
            /\ q.kind = "submit" => q.answer.content = q.arg
        BY <1>0, <2>1 DEF Answered
      <3> QED BY <1>0, <1>1, <1>2, <2>1, <2>3, <3>1, ServedMoves DEF Served
    <2> QED BY <1>5, <2>2, <2>3 DEF GetDetail
  <1>6. CASE Read(r)
    <2>1. UNCHANGED <<job, jobs>> /\ q.pc = "read" BY <1>6 DEF Read
    <2>2. CASE End(r) BY <1>1, <2>1, <2>2, EndMoves
    <2>3. CASE /\ OwnedBy(q) /\ job # NoJob
               /\ request' = [request EXCEPT ![r].pc = "done", ![r].answer = job]
      <3>1. requestOwner(q.origin) \in {"local", job.owner} /\ q.kind # "submit"
        BY <1>0, <2>1, <2>3 DEF OwnedBy, Answered
      <3>2. request' = [request EXCEPT ![r] =
                           [request[r] EXCEPT !.pc = "done", !.answer = job]]
        BY <1>0, <2>3
      <3> QED BY <1>0, <1>1, <2>1, <3>1, <3>2, ServedMoves DEF Served
    <2> QED BY <1>6, <2>2, <2>3 DEF Read
  <1> QED BY <1>3, <1>4, <1>5, <1>6

-----------------------------------------------------------------------------
(* The way of a pairing code *)

\* Pair compares a guess: an accepted code is taken by this request alone.
LEMMA PairPreserves ==
    ASSUME ApiInv, NEW r \in Requests, Pair(r)
    PROVE  ApiInv'
  <1> DEFINE q == request[r]
             accepted == code.status = "valid" /\ q.arg = code.id
  <1>0. /\ q \in Request /\ q.pc = "try" /\ Entitled(q) /\ code \in Code
        /\ request \in [Requests -> Request]
    BY DEF ApiInv, ApiTypes, OriginInv, Pair
  <1>1. UNCHANGED <<allowedOrigin, token, bucket, clock, job, jobs, since, passed>>
    BY DEF Pair
  <1>2. BucketInv' BY <1>1, BucketFrame DEF ApiInv
  <1>3. CASE End(r) /\ code' = code BY <1>1, <1>3, EndMoves
  <1>4. CASE End(r) /\ code' = CodeAfter(FALSE)
    <2>1. /\ code' \in Code /\ code'.id = code.id
          /\ code'.status = "valid" => code.status = "valid"
      <3>1. CASE code.status = "none"
        <4>1. code' = code BY <1>4, <3>1 DEF CodeAfter
        <4> QED BY <1>0, <4>1
      <3>2. CASE code.status # "none"
        <4> DEFINE status == IF code.failures + 1 >= MaxFailures THEN "none" ELSE code.status
        <4>1. code' = [code EXCEPT !.failures = code.failures + 1, !.status = status]
          BY <1>4, <3>2 DEF CodeAfter
        <4>2. /\ status \in {"none", "valid", "expired"}
              /\ status = "valid" => code.status = "valid"
              /\ code.failures + 1 \in Nat
          BY <1>0 DEF Code
        <4> HIDE DEF status
        <4>3. code'.id = code.id /\ code'.status = status BY <1>0, <4>1 DEF Code
        <4>4. code' \in Code BY <1>0, <4>1, <4>2 DEF Code
        <4> QED BY <4>2, <4>3, <4>4
      <3> QED BY <3>1, <3>2
    <2>2. request' = [request EXCEPT ![r] = NoRequest] BY <1>4 DEF End
    <2>3. \A s \in Requests : request'[s] = IF s = r THEN NoRequest ELSE request[s]
      BY <1>0, <2>2
    <2>4. NoRequest.pc # "issue" BY DEF NoRequest
    <2>5. ApiTypes' BY <1>1, <2>1, <2>2, EndedRequest DEF ApiInv, ApiTypes
    <2>6. CodeInv' BY <1>1, <2>1, <2>3, <2>4 DEF ApiInv, CodeInv, Issuing
    <2>7. OriginInv' /\ AnswerInv'
      BY <1>1, <2>3, EndedRequest DEF ApiInv, OriginInv, Entitled, AnswerInv, Answered
    <2> QED BY <1>2, <2>5, <2>6, <2>7 DEF ApiInv
  <1>5. CASE accepted /\ Go(r, "issue") /\ code' = CodeAfter(TRUE)
    <2> DEFINE v == [q EXCEPT !.pc = "issue"]
    <2>1. code' \in Code /\ code'.id = code.id /\ code'.status = "none"
      BY <1>0, <1>5 DEF CodeAfter, Code
    <2>2. request' = [request EXCEPT ![r] = v] BY <1>5 DEF Go
    <2>3. /\ v \in Request /\ v.pc = "issue" /\ v.arg = q.arg /\ v.origin = q.origin
          /\ v.bearer = q.bearer /\ v.revoked = q.revoked
      BY <1>0 DEF Request, Pcs
    <2>4. \A s \in Requests : request'[s] = IF s = r THEN v ELSE request[s]
      BY <1>0, <2>2
    <2>5. Entitled(v) /\ Answered(v)
      <3>1. v.revoked => v.bearer # 0 /\ token[v.bearer].status = "revoked"
        BY <1>0, <2>3 DEF Entitled
      <3> QED BY <1>0, <2>3, <3>1 DEF Entitled, Answered, Served
    <2> HIDE DEF v
    <2>6. ApiTypes' BY <1>1, <2>1, <2>2, <2>3 DEF ApiInv, ApiTypes
    <2>7. /\ v.arg = code.id /\ code.id \in 1..MaxCodes /\ code.id \in 1..code.id
          /\ token[code.id].issued = 0
          /\ \A s \in Requests : ~Issuing(request[s], code.id)
      BY <1>0, <1>5, <2>3 DEF ApiInv, CodeInv, Code
    <2>8. CodeInv'
      <3>1. \A s \in Requests : request'[s].pc = "issue" =>
               request'[s].arg \in 1..code.id /\ token[request'[s].arg].issued = 0
        BY <2>4, <2>7 DEF ApiInv, CodeInv
      <3>2. \A s, t \in Requests :
               request'[s].pc = "issue" /\ Issuing(request'[t], request'[s].arg) => s = t
        BY <2>3, <2>4, <2>7 DEF ApiInv, CodeInv, Issuing
      <3> QED BY <1>1, <2>1, <3>1, <3>2 DEF ApiInv, CodeInv, Issuing
    <2>9. OriginInv' /\ AnswerInv'
      BY <1>1, <2>4, <2>5 DEF ApiInv, OriginInv, Entitled, AnswerInv, Answered
    <2> QED BY <1>2, <2>6, <2>8, <2>9 DEF ApiInv
  <1>6. CASE q.origin = "none" BY <1>3, <1>6 DEF Pair
  <1>7. CASE q.origin # "none"
    <2>1. CASE accepted
      <3>1. accepted = TRUE BY <2>1
      <3>2. CodeAfter(accepted) = CodeAfter(TRUE) BY <3>1
      <3> QED BY <1>5, <1>7, <2>1, <3>2 DEF Pair
    <2>2. CASE ~accepted
      <3>1. accepted = FALSE BY <2>2
      <3>2. CodeAfter(accepted) = CodeAfter(FALSE) BY <3>1
      <3> QED BY <1>4, <1>7, <2>2, <3>2 DEF Pair
    <2> QED BY <2>1, <2>2
  <1> QED BY <1>6, <1>7

\* The token changes hands: the accepted request ends and the code has its token.
LEMMA IssuePreserves ==
    ASSUME ApiInv, NEW r \in Requests, IssueToken(r)
    PROVE  ApiInv'
  <1> DEFINE q == request[r]
             c == q.arg
  <1>0. /\ q \in Request /\ q.pc = "issue" /\ request \in [Requests -> Request]
        /\ c \in 1..code.id /\ c \in 1..MaxCodes /\ token[c].issued = 0
        /\ token \in [1..MaxCodes -> Token] /\ q.origin \in Headers
    BY ApiAssumption DEF ApiInv, ApiTypes, CodeInv, Code, Request, IssueToken
  <1>1. UNCHANGED <<allowedOrigin, code, bucket, clock, job, jobs, since, passed>> /\ End(r)
    BY DEF IssueToken
  <1>2. CASE token' = token BY <1>1, <1>2, EndMoves
  <1>3. CASE token' # token
    <2> DEFINE o == IF isLocalOrigin(q.origin) THEN q.origin ELSE Normal[q.origin]
               new == [status |-> "active", issued |-> 1, origin |-> o]
    <2>1. token' = [token EXCEPT ![c] = new] BY <1>0, <1>3 DEF IssueToken
    <2>2. o \in Headers \cup {NoOrigin}
      BY <1>0, ApiAssumption DEF isLocalOrigin, Headers
    <2>3. new \in Token /\ new.issued = 1 /\ new.status = "active"
      BY <2>2 DEF Token
    <2> HIDE DEF new
    <2>4. token' \in [1..MaxCodes -> Token]
          /\ \A d \in 1..MaxCodes : token'[d] = IF d = c THEN new ELSE token[d]
      BY <1>0, <2>1, <2>3
    <2>5. request' = [request EXCEPT ![r] = NoRequest] BY <1>1 DEF End
    <2>6. \A s \in Requests : request'[s] = IF s = r THEN NoRequest ELSE request[s]
      BY <1>0, <2>5
    <2>7. NoRequest.pc # "issue" BY DEF NoRequest
    <2>8. ApiTypes' BY <1>1, <2>4, <2>5, EndedRequest DEF ApiInv, ApiTypes
    <2>9. ~(code.status = "valid" /\ code.id = c)
      BY <1>0 DEF ApiInv, CodeInv, Issuing
    <2>10. \A s \in Requests : request'[s].pc = "issue" => request'[s].arg # c
      BY <1>0, <2>6, <2>7 DEF ApiInv, CodeInv, Issuing
    <2>11. \A s \in Requests : request'[s].pc = "issue" =>
              request'[s].arg \in 1..code.id /\ request'[s].arg \in 1..MaxCodes
      BY <2>6, <2>7, ApiAssumption DEF ApiInv, ApiTypes, Code, CodeInv
    <2>12. CodeInv'
      <3>1. code.status = "valid" =>
               /\ code.id \in 1..MaxCodes /\ token'[code.id].issued = 0
               /\ \A s \in Requests : ~Issuing(request'[s], code.id)
        BY <2>4, <2>6, <2>7, <2>9 DEF ApiInv, CodeInv, Issuing
      <3>2. \A d \in 1..MaxCodes : d > code.id => token'[d].issued = 0
        BY <1>0, <2>4 DEF ApiInv, CodeInv, ApiTypes, Code
      <3>3. \A d \in 1..MaxCodes : token'[d].status = "none" <=> token'[d].issued = 0
        BY <2>3, <2>4 DEF ApiInv, CodeInv
      <3>4. \A s \in Requests : request'[s].pc = "issue" =>
               token'[request'[s].arg].issued = 0
        BY <2>4, <2>6, <2>7, <2>10, <2>11 DEF ApiInv, CodeInv
      <3>5. \A s, t \in Requests :
               request'[s].pc = "issue" /\ Issuing(request'[t], request'[s].arg) => s = t
        BY <2>6, <2>7 DEF ApiInv, CodeInv, Issuing
      <3> QED BY <1>1, <2>11, <3>1, <3>2, <3>3, <3>4, <3>5 DEF CodeInv
    <2>13. \A s \in Requests : Entitled(request[s])'
      <3> SUFFICES ASSUME NEW s \in Requests PROVE Entitled(request[s])' OBVIOUS
      <3>1. CASE s = r BY <2>6, <3>1 DEF Entitled, NoRequest, Served
      <3>2. CASE s # r
        <4>1. PICK x : x = request[s] OBVIOUS
        <4>2. request'[s] = x /\ Entitled(x) /\ x \in Request
          BY <2>6, <3>2, <4>1 DEF ApiInv, OriginInv, ApiTypes
        <4>3. x.bearer # 0 => x.bearer \in 1..MaxCodes
          BY <4>2, ApiAssumption DEF Request
        <4>4. /\ token[c].status = "none"
              /\ \A d \in 1..MaxCodes : token[d].status = "revoked" \/ token[d].issued = 1
                    => token'[d] = token[d]
          BY <1>0, <2>4 DEF ApiInv, CodeInv
        <4>5. Entitled(x)' BY <4>2, <4>3, <4>4 DEF Entitled
        <4> QED BY <4>2, <4>5 DEF Entitled
      <3> QED BY <3>1, <3>2
    <2>14. OriginInv' BY <1>1, <2>13 DEF ApiInv, OriginInv
    <2>15. AnswerInv' BY <2>6, EndedRequest DEF ApiInv, AnswerInv, Answered
    <2>16. BucketInv' BY <1>1, BucketFrame DEF ApiInv
    <2> QED BY <2>8, <2>12, <2>14, <2>15, <2>16 DEF ApiInv
  <1> QED BY <1>2, <1>3

\* Steps that leave the requests and the tokens alone.
LEMMA QuietPreserves ==
    ASSUME ApiInv, UNCHANGED <<token, request>>, ApiTypes', BucketInv',
           code'.id >= code.id,
           code'.status = "valid" => (code' = code \/ code'.id = code.id + 1),
           allowedOrigin' \in Origins => Normal[allowedOrigin'] = allowedOrigin'
    PROVE  ApiInv'
  <1>1. code.id \in Nat /\ code'.id \in 0..MaxCodes /\ code'.id \in Nat
    BY ApiAssumption DEF ApiInv, ApiTypes, Code
  <1>2. \A r \in Requests : request[r].pc = "issue" =>
           request[r].arg \in 1..code.id /\ token[request[r].arg].issued = 0
    BY DEF ApiInv, CodeInv
  <1>3. code'.status = "valid" =>
           /\ code'.id \in 1..MaxCodes /\ token[code'.id].issued = 0
           /\ \A r \in Requests : ~Issuing(request[r], code'.id)
    <2>1. CASE code' = code BY <2>1 DEF ApiInv, CodeInv
    <2>2. CASE code'.id = code.id + 1
      <3>1. code'.id \in 1..MaxCodes /\ code'.id > code.id BY <1>1, <2>2
      <3>2. token[code'.id].issued = 0 BY <3>1 DEF ApiInv, CodeInv
      <3>3. \A r \in Requests : ~Issuing(request[r], code'.id)
        BY <1>1, <1>2, <3>1 DEF Issuing
      <3> QED BY <3>1, <3>2, <3>3
    <2> QED BY <2>1, <2>2
  <1>4. \A c \in 1..MaxCodes : c > code'.id => token[c].issued = 0
    BY <1>1 DEF ApiInv, CodeInv
  <1>5. \A r \in Requests : request[r].pc = "issue" => request[r].arg \in 1..code'.id
    BY <1>1, <1>2
  <1>6. CodeInv' BY <1>2, <1>3, <1>4, <1>5 DEF ApiInv, CodeInv, Issuing
  <1>7. OriginInv' /\ AnswerInv'
    BY DEF ApiInv, OriginInv, Entitled, AnswerInv, Answered
  <1> QED BY <1>6, <1>7 DEF ApiInv

\* Codes are generated and expire, the setting changes, the Job is purged, the
\* limiter refuses, time passes.
LEMMA QuietSteps ==
    ASSUME ApiInv,
           \/ GeneratePairingCode \/ CodeExpires \/ PurgeExpired \/ Tick
           \/ \E o \in Origins : PutSettings(o)
           \/ \E h \in Headers : PairLimited(h)
           \/ UNCHANGED apiVars
    PROVE  ApiInv'
  <1>0. code \in Code /\ code.id \in Nat BY DEF ApiInv, ApiTypes, Code
  <1>1. CASE GeneratePairingCode
    <2>1. code' \in Code /\ code'.id = code.id + 1
      BY <1>0, <1>1, ApiAssumption DEF GeneratePairingCode, Code
    <2>2. BucketInv' BY <1>1, BucketFrame DEF ApiInv, GeneratePairingCode
    <2>3. ApiTypes' BY <1>1, <2>1 DEF ApiInv, ApiTypes, GeneratePairingCode
    <2> QED BY <1>0, <1>1, <2>1, <2>2, <2>3, QuietPreserves
         DEF ApiInv, OriginInv, GeneratePairingCode
  <1>2. CASE CodeExpires
    <2>1. code' \in Code /\ code'.id = code.id /\ code'.status # "valid"
      BY <1>0, <1>2 DEF CodeExpires, Code
    <2>2. BucketInv' BY <1>2, BucketFrame DEF ApiInv, CodeExpires
    <2>3. ApiTypes' BY <1>2, <2>1 DEF ApiInv, ApiTypes, CodeExpires
    <2> QED BY <1>0, <1>2, <2>1, <2>2, <2>3, QuietPreserves
         DEF ApiInv, OriginInv, CodeExpires
  <1>3. CASE PurgeExpired
    <2>1. BucketInv' BY <1>3, BucketFrame DEF ApiInv, PurgeExpired
    <2>2. ApiTypes' BY <1>3 DEF ApiInv, ApiTypes, PurgeExpired
    <2> QED BY <1>0, <1>3, <2>1, <2>2, QuietPreserves
         DEF ApiInv, OriginInv, PurgeExpired
  <1>4. CASE Tick
    <2>1. BucketInv' BY <1>4, BucketTick DEF ApiInv
    <2>2. ApiTypes' BY <1>4 DEF ApiInv, ApiTypes, Tick
    <2> QED BY <1>0, <1>4, <2>1, <2>2, QuietPreserves DEF ApiInv, OriginInv, Tick
  <1>5. ASSUME NEW o \in Origins, PutSettings(o) PROVE ApiInv'
    <2>1. Normal[o] \in Origins /\ Normal[Normal[o]] = Normal[o] BY ApiAssumption
    <2>2. BucketInv' BY <1>5, BucketFrame DEF ApiInv, PutSettings
    <2>3. ApiTypes' BY <1>5, <2>1 DEF ApiInv, ApiTypes, PutSettings
    <2> QED BY <1>0, <1>5, <2>1, <2>2, <2>3, QuietPreserves DEF PutSettings
  <1>6. ASSUME NEW h \in Headers, PairLimited(h) PROVE ApiInv'
    <2>1. Refilled \in Nat BY RefilledRange DEF ApiInv
    <2>2. PICK taken \in {0, Cost} : taken = 0 OBVIOUS
    <2>3. Refilled >= taken /\ Refilled - taken = Refilled BY <2>1, <2>2
    <2>4. BucketInv' /\ bucket' \in [level : Nat, last : Nat]
      BY <1>6, <2>3, BucketTaken DEF ApiInv, PairLimited
    <2>5. ApiTypes' BY <1>6, <2>4 DEF ApiInv, ApiTypes, PairLimited
    <2> QED BY <1>0, <1>6, <2>4, <2>5, QuietPreserves DEF ApiInv, OriginInv, PairLimited
  <1>7. CASE UNCHANGED apiVars
    <2>1. BucketInv' BY <1>7, BucketFrame DEF ApiInv, apiVars
    <2>2. ApiTypes' BY <1>7 DEF ApiInv, ApiTypes, apiVars
    <2> QED BY <1>0, <1>7, <2>1, <2>2, QuietPreserves DEF ApiInv, OriginInv, apiVars
  <1> QED BY <1>1, <1>2, <1>3, <1>4, <1>5, <1>6, <1>7

\* A token is revoked for good.
LEMMA RevokePreserves ==
    ASSUME ApiInv, NEW t \in 1..MaxCodes, RevokeToken(t)
    PROVE  ApiInv'
  <1> DEFINE new == [token[t] EXCEPT !.status = "revoked"]
  <1>1. /\ UNCHANGED <<allowedOrigin, code, bucket, clock, job, jobs, request, since, passed>>
        /\ token' = [token EXCEPT ![t] = new] /\ token[t].status = "active"
    BY DEF RevokeToken
  <1>2. token \in [1..MaxCodes -> Token] BY DEF ApiInv, ApiTypes
  <1>3. /\ new \in Token /\ new.status = "revoked"
        /\ new.issued = token[t].issued /\ new.origin = token[t].origin
    BY <1>2 DEF Token
  <1> HIDE DEF new
  <1>4. /\ token' \in [1..MaxCodes -> Token]
        /\ \A c \in 1..MaxCodes : token'[c] = IF c = t THEN new ELSE token[c]
    BY <1>1, <1>2, <1>3
  <1>5. \A c \in 1..MaxCodes :
           /\ token'[c].issued = token[c].issued /\ token'[c].origin = token[c].origin
           /\ token'[c].status = "none" <=> token[c].status = "none"
           /\ token[c].status = "revoked" => token'[c].status = "revoked"
    BY <1>1, <1>3, <1>4
  <1>6. ApiTypes' BY <1>1, <1>4 DEF ApiInv, ApiTypes
  <1>7. BucketInv' BY <1>1, BucketFrame DEF ApiInv
  <1>8. CodeInv'
    <2>1. \A r \in Requests : request[r].pc = "issue" => request[r].arg \in 1..MaxCodes
      BY ApiAssumption DEF ApiInv, ApiTypes, Code, CodeInv
    <2> QED BY <1>1, <1>5, <2>1 DEF ApiInv, CodeInv, Issuing
  <1>9. OriginInv'
    <2>1. \A r \in Requests : request[r].bearer # 0 => request[r].bearer \in 1..MaxCodes
      BY ApiAssumption DEF ApiInv, ApiTypes, Request
    <2> QED BY <1>1, <1>5, <2>1 DEF ApiInv, OriginInv, Entitled
  <1>10. AnswerInv' BY <1>1 DEF ApiInv, AnswerInv, Answered
  <1> QED BY <1>6, <1>7, <1>8, <1>9, <1>10 DEF ApiInv

-----------------------------------------------------------------------------
(* Theorems *)

\* Every step preserves the inductive invariant.
LEMMA ApiPreserves == ApiInv /\ [ApiNext]_apiVars => ApiInv'
  <1> SUFFICES ASSUME ApiInv, [ApiNext]_apiVars PROVE ApiInv' OBVIOUS
  <1>1. CASE \E r \in Requests : RequestNext(r)
    BY <1>1, AuthPreserves, ServePreserves, PairPreserves, IssuePreserves DEF RequestNext
  <1>2. ASSUME NEW r \in Requests, NEW h \in Origins \cup {"dashboard"},
               NEW t \in IF isLocalOrigin(h) THEN {0} ELSE 1..MaxCodes,
               \/ \E c \in Contents : Arrive(r, "submit", h, t, c)
               \/ \E u \in 1..jobs : Arrive(r, "read", h, t, u)
        PROVE  ApiInv'
    <2>1. h \in Headers /\ t \in 0..MaxCodes BY ApiAssumption DEF Headers
    <2>2. Contents \subseteq Args /\ 1..jobs \subseteq Args BY DEF Args, ApiInv, ApiTypes
    <2>3. "submit" \in {"submit", "read"} /\ "read" \in {"submit", "read"} OBVIOUS
    <2> QED BY <1>2, <2>1, <2>2, <2>3, ArrivePreserves
  <1>3. CASE \E r \in Requests, h \in Headers, guess \in 0..code.id : ArrivePair(r, h, guess)
    BY <1>3, ArrivePairPreserves
  <1>4. CASE (\E h \in Headers : PairLimited(h)) \/ PurgeExpired \/ CodeExpires \/ Tick
             \/ UNCHANGED apiVars
    BY <1>4, QuietSteps
  <1>5. CASE AdminNext BY <1>5, QuietSteps, RevokePreserves DEF AdminNext
  <1> QED BY <1>1, <1>2, <1>3, <1>4, <1>5 DEF ApiNext

\* A fresh installation satisfies the invariant.
LEMMA ApiInitially == ApiInit => ApiInv
  <1> SUFFICES ASSUME ApiInit PROVE ApiInv OBVIOUS
  <1>1. ApiTypes
    <2>1. code \in Code BY ApiAssumption DEF ApiInit, Code
    <2>2. token \in [1..MaxCodes -> Token] BY DEF ApiInit, Token
    <2>3. request \in [Requests -> Request] BY EndedRequest DEF ApiInit
    <2> QED BY <2>1, <2>2, <2>3, ApiAssumption DEF ApiInit, ApiTypes
  <1>2. CodeInv BY DEF ApiInit, CodeInv, Issuing, NoRequest
  <1>3. OriginInv /\ AnswerInv
    BY EndedRequest, ApiAssumption DEF ApiInit, OriginInv, AnswerInv
  <1>4. BucketInv
    <2>1. Burst \in Nat /\ Rate \in Nat /\ Cost \in Nat BY ApiAssumption
    <2>2. (0 - 0) * Rate = 0 /\ 0 * Cost = 0 BY <2>1
    <2>3. Refilled = Burst BY <2>1, <2>2 DEF ApiInit, Refilled
    <2>4. clock >= since => Rate * (clock - since) = 0 /\ passed * Cost = 0
      BY <2>1 DEF ApiInit
    <2> QED BY <2>1, <2>3, <2>4 DEF ApiInit, BucketInv
  <1> QED BY <1>1, <1>2, <1>3, <1>4 DEF ApiInv

\* Whatever requests, pages and operators do, the access to the API is in a state
\* that satisfies the inductive invariant.
THEOREM ApiInvariant == ApiSpec => []ApiInv
  <1> QED BY ApiInitially, ApiPreserves, PTL DEF ApiSpec

\* A pairing code yields at most one token, although Pair stores the token outside of
\* the lock under which it compares the code.
THEOREM CodesYieldOneToken == ApiSpec => []OneTokenPerCode
  <1>1. ASSUME ApiInv PROVE OneTokenPerCode
    <2> SUFFICES ASSUME NEW c \in 1..MaxCodes
                 PROVE  token[c].issued + Cardinality({r \in Requests :
                            request[r].pc = "issue" /\ request[r].arg = c}) <= 1
      BY DEF OneTokenPerCode
    <2> DEFINE F == {r \in Requests : request[r].pc = "issue" /\ request[r].arg = c}
    <2>1. token[c].issued \in {0, 1} BY <1>1 DEF ApiInv, ApiTypes, Token
    <2>2. CASE F = {}
      <3>1. Cardinality({}) = 0 BY FS_EmptySet
      <3>2. Cardinality(F) = 0 BY <2>2, <3>1
      <3> HIDE DEF F
      <3>3. token[c].issued + Cardinality(F) <= 1 BY <2>1, <3>2
      <3> QED BY <3>3 DEF F
    <2>3. CASE F # {}
      <3>1. PICK r \in Requests : r \in F BY <2>3
      <3>2. F = {r} BY <1>1, <3>1 DEF ApiInv, CodeInv, Issuing
      <3>3. token[c].issued = 0 BY <1>1, <3>1 DEF ApiInv, CodeInv
      <3>4. Cardinality({r}) = 1 BY FS_Singleton
      <3>5. Cardinality(F) = 1 BY <3>2, <3>4
      <3> HIDE DEF F
      <3>6. token[c].issued + Cardinality(F) <= 1 BY <3>3, <3>5
      <3> QED BY <3>6 DEF F
    <2> QED BY <2>2, <2>3
  <1> QED BY <1>1, ApiInvariant, PTL

\* From any moment on, the pairing attempts that come through are bounded by a full
\* bucket and what has been refilled since.
THEOREM PairingIsLimited == ApiSpec => []PairingAttemptsBounded
  <1>1. ASSUME ApiInv PROVE PairingAttemptsBounded
    <2> SUFFICES ASSUME clock >= since
                 PROVE  passed * Cost <= Burst + Rate * (clock - since)
      BY DEF PairingAttemptsBounded
    <2>1. Refilled \in Nat BY <1>1, RefilledRange DEF ApiInv
    <2>2. PICK x \in Nat : x = passed * Cost BY <1>1, ApiAssumption DEF ApiInv, ApiTypes
    <2>3. PICK y \in Nat : y = Rate * (clock - since)
      BY <1>1, ApiAssumption, OneLater DEF ApiInv, ApiTypes
    <2>4. x + Refilled <= Burst + y BY <1>1, <2>2, <2>3 DEF ApiInv, BucketInv
    <2>5. Burst \in Nat BY ApiAssumption
    <2> QED BY <2>1, <2>2, <2>3, <2>4, <2>5
  <1> QED BY <1>1, ApiInvariant, PTL

\* A request of another origin that is served carries a token of that origin which had
\* not been revoked when it came.
THEOREM OnlyTheEntitledAreServed == ApiSpec => []ServedIsEntitled
  <1>1. ApiInv => ServedIsEntitled
    BY DEF ApiInv, OriginInv, Entitled, Served, ServedIsEntitled
  <1> QED BY <1>1, ApiInvariant, PTL

\* A submission or a query is answered with a Job that its client may see, and a
\* submission with one that has the submitted content.
THEOREM AnswersAreOwn == ApiSpec => []AnswerIsOwnJob
  <1>1. ApiInv => AnswerIsOwnJob BY DEF ApiInv, AnswerInv, Answered, AnswerIsOwnJob
  <1> QED BY <1>1, ApiInvariant, PTL

\* The token that a page gets is for the Origin that its browser sends.
THEOREM PagesCanUseTheirTokens == ApiSpec => TokenFitsItsPage
  <1> DEFINE Fits(r) ==
        request[r].pc = "issue" /\ ~isLocalOrigin(request[r].origin)
        /\ token'[request[r].arg] # token[request[r].arg]
           => token'[request[r].arg].origin = request[r].origin
  <1>1. ASSUME ApiInv, [ApiNext]_apiVars
        PROVE  [\A r \in Requests : Fits(r)]_apiVars
    <2> SUFFICES ASSUME NEW r \in Requests, request[r].pc = "issue",
                        ~isLocalOrigin(request[r].origin),
                        token'[request[r].arg] # token[request[r].arg]
                 PROVE  token'[request[r].arg].origin = request[r].origin
      OBVIOUS
    <2>1. /\ request[r].arg \in 1..MaxCodes /\ token[request[r].arg].issued = 0
          /\ token[request[r].arg].status = "none"
          /\ token \in [1..MaxCodes -> Token]
          /\ Normal[request[r].origin] = request[r].origin
      BY <1>1, ApiAssumption DEF ApiInv, ApiTypes, Code, CodeInv, OriginInv, Entitled
    <2>2. PICK s \in Requests : IssueToken(s)
      <3>1. \A t \in 1..MaxCodes : ~RevokeToken(t)
        <4> SUFFICES ASSUME NEW t \in 1..MaxCodes, RevokeToken(t) PROVE FALSE OBVIOUS
        <4>1. t # request[r].arg BY <2>1 DEF RevokeToken
        <4> QED BY <2>1, <4>1 DEF RevokeToken
      <3> QED BY <1>1, <3>1
           DEF ApiNext, RequestNext, AdminNext, apiVars, requireAuth, Lookup, InsertJob,
               GetDetail, Read, Pair, Arrive, ArrivePair, PairLimited, PurgeExpired,
               CodeExpires, Tick, GeneratePairingCode, PutSettings
    <2>3. request[s].pc = "issue" /\ request[s].arg \in 1..MaxCodes
      BY <1>1, <2>2, ApiAssumption DEF IssueToken, ApiInv, ApiTypes, Code, CodeInv
    <2>4. request[s].arg = request[r].arg BY <2>1, <2>2, <2>3 DEF IssueToken
    <2>5. s = r BY <1>1, <2>3, <2>4 DEF ApiInv, CodeInv, Issuing
    <2>6. token' = [token EXCEPT ![request[r].arg] =
                [status |-> "active", issued |-> @.issued + 1,
                 origin |-> Normal[request[r].origin]]]
      BY <2>2, <2>5 DEF IssueToken
    <2> QED BY <2>1, <2>6
  <1> QED BY <1>1, ApiInvariant, PTL DEF ApiSpec, TokenFitsItsPage
=============================================================================
