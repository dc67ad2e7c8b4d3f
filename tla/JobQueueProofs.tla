--------------------------- MODULE JobQueueProofs ---------------------------
(***************************************************************************)
(* Theorems about JobQueue for every set of jobs and workers and every     *)
(* bound: its type invariant, the safety invariants of the run             *)
(* job_queue_safety and the action property NeverReopened.                 *)
(***************************************************************************)
EXTENDS JobQueue, TLAPS

-----------------------------------------------------------------------------
(* The inductive invariant, as a conjunction of named parts.               *)

Unclaimed == {"absent", "pending"}

\* A worker waits for an answer exactly where its loop awaits a call, holds a
\* job exactly from setJobRunning to its report, and is being handed one
\* only while its claim is answered.
WorkerShape ==
    \A w \in Workers :
        /\ call[w] # "idle" <=> pc[w] \in Calls
        /\ held[w] # NoJob <=> pc[w] \in {"start", "handle", "complete", "fail"}
        /\ reply[w] # NoJob => pc[w] = "claim" /\ call[w] = "served"

\* A carried job is claimed, by its carrier.
CarriedIsClaimed ==
    \A w \in Workers, j \in Jobs :
        Carries(w, j) => claimedBy[j] = {w} /\ status[j] \notin Unclaimed

\* Up to the handler's start nothing has run, and nothing was reported.
FreshUntilStart ==
    /\ \A j \in Jobs : status[j] \in Unclaimed => runs[j] = 0 /\ outcome[j] = "none"
    /\ \A w \in Workers, j \in Jobs :
         Carries(w, j) /\ pc[w] \in {"claim", "start"} =>
            /\ runs[j] = 0
            /\ outcome[j] = "none"
            /\ status[j] \in {"claimed", "running"}

\* The outcome is recorded by the one handler run, and a completion report
\* (awaited or late) or a success is there only after an "ok".
OutcomeShape ==
    /\ \A w \in Workers :
         /\ pc[w] = "handle" => outcome[held[w]] = "none"
         /\ pc[w] = "complete" => outcome[held[w]] = "ok"
    /\ \A j \in Jobs :
         status[j] = "succeeded" \/ told[j] = "succeeded" => outcome[j] = "ok"

\* A late request is about a claimed job.  A late setJobRunning belongs to a
\* job that was dropped there; a late report to one that is past its handler.
LateOK(m) ==
    /\ m.op = "claim" <=> m.job = NoJob
    /\ m.op # "claim" => status[m.job] \notin Unclaimed
    /\ m.op = "start" =>
         /\ \A w \in Workers : ~Carries(w, m.job)
         /\ status[m.job] \in {"claimed", "running"}
    /\ m.op = "complete" => outcome[m.job] = "ok"
    /\ m.op \in {"complete", "fail"} =>
         \A w \in Workers : Carries(w, m.job) => pc[w] = "fail"

LateShape ==
    /\ \A m \in late : LateOK(m)
    /\ \A m, n \in late :
         m.op = "start" /\ n.op \in {"complete", "fail"} => m.job # n.job

IInv ==
    /\ TypeOK
    /\ WorkerShape
    /\ CarriedIsClaimed
    /\ FreshUntilStart
    /\ OutcomeShape
    /\ LateShape
    /\ AtMostOnce

-----------------------------------------------------------------------------
(* Sets and tuples of variables that every proof below may look into.      *)
USE DEF Carries, Unclaimed, Calls, Locations, JobOrNone, Requests, Statuses,
        Terminal, Kinds, rowVars, workerVars, histVars, Update

\* Two carriers of one job are the same worker (claimed_by has one value).
LEMMA OneCarrier ==
  ASSUME CarriedIsClaimed, NEW j \in Jobs, NEW v \in Workers, NEW w \in Workers,
         Carries(v, j), Carries(w, j)
  PROVE  v = w
  BY DEF CarriedIsClaimed

\* A worker between setJobRunning and its report holds a job of the table.
LEMMA HeldInJobs ==
  ASSUME TypeOK, WorkerShape, NEW w \in Workers,
         pc[w] \in {"start", "handle", "complete", "fail"}
  PROVE  held[w] \in Jobs
  BY DEF TypeOK, WorkerShape

\* Giving up on a call adds at most a well-formed request to `late`.
LEMMA AbandonType ==
  ASSUME IInv, NEW w \in Workers, call[w] # "idle", Abandon(w)
  PROVE  late' \subseteq Requests
  BY DEF IInv, TypeOK, WorkerShape, Abandon

\* No endpoint writes a value outside its column's type.
LEMMA EndpointType ==
  ASSUME IInv, NEW op \in Calls, NEW j \in JobOrNone, op # "claim" => j \in Jobs,
         NEW w \in Workers, NEW r \in JobOrNone, Endpoint(op, j, w, r)
  PROVE  /\ status' \in [Jobs -> Statuses]
         /\ kind' = kind /\ createdAt' = createdAt
         /\ claimedBy' \in [Jobs -> SUBSET Workers]
         /\ result' \in [Jobs -> BOOLEAN]
         /\ error' \in [Jobs -> BOOLEAN]
<1>1. CASE op = "claim" /\ ClaimNext(w, r)
  BY <1>1 DEF ClaimNext, IInv, TypeOK
<1>2. CASE op = "start" /\ SetRunning(j)
  BY <1>2 DEF SetRunning, IInv, TypeOK
<1>3. CASE op = "complete" /\ Complete(j)
  BY <1>3 DEF Complete, IInv, TypeOK
<1>4. CASE op = "fail" /\ Fail(j)
  BY <1>4 DEF Fail, IInv, TypeOK
<1> QED BY <1>1, <1>2, <1>3, <1>4 DEF Endpoint

\* Giving up on a call keeps what is known of late requests, if the worker
\* then drops its job or, from completeJob only, goes on to failJob.
LEMMA AbandonLate ==
  ASSUME IInv, NEW w \in Workers, Abandon(w), call[w] # "idle", 
         status' = status, outcome' = outcome,
         \A v \in Workers \ {w} : held'[v] = held[v] /\ reply'[v] = reply[v] /\ pc'[v] = pc[v],
         \A j \in Jobs : Carries(w, j)' => held[w] = j /\ pc'[w] = "fail" /\ pc[w] = "complete"
  PROVE  LateShape'
<1>1. late' \subseteq late \cup {[op |-> pc[w], job |-> held[w], by |-> w]}
  BY DEF Abandon
<1>2. \A m \in late : m \in Requests
  BY DEF IInv, TypeOK
<1>3. ASSUME NEW v \in Workers, NEW j \in Jobs, Carries(v, j)'
      PROVE  Carries(v, j) /\ (pc'[v] = pc[v] \/ (v = w /\ pc'[w] = "fail" /\ pc[w] = "complete"))
  BY <1>3
<1>4. ASSUME NEW m \in late PROVE LateOK(m)'
  <2>1. LateOK(m) /\ m \in Requests
    BY DEF IInv, LateShape, TypeOK
  <2> QED BY <2>1, <1>3 DEF LateOK
<1>5. ASSUME NEW m \in late', m \notin late
      PROVE  LateOK(m)' /\ m.op = pc[w] /\ m.job = held[w]
  <2>1. call[w] = "sent" /\ m.op = pc[w] /\ m.job = held[w]
    BY <1>5 DEF Abandon
  <2>2. m.op \in Calls
    BY <2>1 DEF IInv, WorkerShape
  <2>3. CASE m.op = "claim"
    BY <2>1, <2>3, JobQueueAssumption DEF LateOK, IInv, TypeOK, WorkerShape
  <2>4. CASE m.op # "claim"
    <3>1. m.job \in Jobs /\ m.job # NoJob /\ status[m.job] \notin Unclaimed
      BY <2>1, <2>2, <2>4, JobQueueAssumption DEF IInv, TypeOK, WorkerShape, CarriedIsClaimed
    <3>2. ASSUME NEW v \in Workers, Carries(v, m.job)'
          PROVE  v = w /\ m.op = "complete" /\ pc'[w] = "fail"
      <4>1. v = w
        BY <2>1, <3>1, <3>2, <1>3, OneCarrier DEF IInv
      <4> QED BY <2>1, <3>1, <3>2, <4>1
    <3>3. m.op = "start" => status[m.job] \in {"claimed", "running"}
      BY <2>1, <3>1 DEF IInv, FreshUntilStart
    <3>4. m.op = "complete" => outcome[m.job] = "ok"
      BY <2>1, <3>1 DEF IInv, OutcomeShape, TypeOK
    <3>5. \A v \in Workers : Carries(v, m.job)' => m.op = "complete" /\ pc'[v] = "fail"
      BY <3>2
    <3> QED BY <2>1, <2>2, <2>4, <3>1, <3>3, <3>4, <3>5 DEF LateOK
  <2> QED BY <2>1, <2>3, <2>4
<1>6. ASSUME NEW m \in late', NEW n \in late', m.op = "start", n.op \in {"complete", "fail"}
      PROVE  m.job # n.job
  <2>1. CASE m \in late /\ n \in late
    BY <2>1, <1>6 DEF IInv, LateShape
  <2>2. CASE m \notin late
    <3>1. n \in late /\ Carries(w, m.job) /\ pc[w] = "start"
      BY <1>1, <1>5, <1>6, <2>2
    <3> QED BY <3>1, <1>6 DEF IInv, LateShape, LateOK
  <2>3. CASE n \notin late
    <3>1. m \in late /\ Carries(w, n.job)
      BY <1>1, <1>5, <1>6, <2>3
    <3> QED BY <3>1, <1>6 DEF IInv, LateShape, LateOK
  <2> QED BY <2>1, <2>2, <2>3
<1> QED
  BY <1>4, <1>5, <1>6 DEF LateShape

-----------------------------------------------------------------------------
\* The empty table with idle workers satisfies the invariant.
LEMMA InitIInv == Init => IInv
  BY JobQueueAssumption DEF Init, IInv, TypeOK, WorkerShape, CarriedIsClaimed,
     FreshUntilStart, OutcomeShape, LateShape, AtMostOnce

\* Submit preserves the invariant.
LEMMA SubmitIInv ==
  ASSUME IInv, NEW j \in Jobs, Submit(j)
  PROVE  IInv'
<1>1. TypeOK' /\ WorkerShape' /\ CarriedIsClaimed' /\ FreshUntilStart' /\
      OutcomeShape' /\ LateShape' /\ AtMostOnce'
  BY DEF Submit, IInv, TypeOK, WorkerShape, CarriedIsClaimed,
     FreshUntilStart, OutcomeShape, LateShape, LateOK, AtMostOnce
<1> QED BY <1>1 DEF IInv

\* Follow preserves the invariant.
LEMMA FollowIInv ==
  ASSUME IInv, NEW j \in Jobs, Follow(j)
  PROVE  IInv'
<1>1. TypeOK' /\ WorkerShape' /\ CarriedIsClaimed' /\ FreshUntilStart' /\
      OutcomeShape' /\ LateShape' /\ AtMostOnce'
  BY DEF Follow, IInv, TypeOK, WorkerShape, CarriedIsClaimed,
     FreshUntilStart, OutcomeShape, LateShape, LateOK, AtMostOnce
<1> QED BY <1>1 DEF IInv

\* FollowFails preserves the invariant.
LEMMA FollowFailsIInv ==
  ASSUME IInv, NEW j \in Jobs, FollowFails(j)
  PROVE  IInv'
<1>1. TypeOK' /\ WorkerShape' /\ CarriedIsClaimed' /\ FreshUntilStart' /\
      OutcomeShape' /\ LateShape' /\ AtMostOnce'
  BY DEF FollowFails, IInv, TypeOK, WorkerShape, CarriedIsClaimed,
     FreshUntilStart, OutcomeShape, LateShape, LateOK, AtMostOnce
<1> QED BY <1>1 DEF IInv

\* Serve preserves the invariant.
LEMMA ServeIInv ==
  ASSUME IInv, NEW w \in Workers, Serve(w)
  PROVE  IInv'
<1>1. TypeOK'
  <2>1. PICK r \in JobOrNone : /\ Endpoint(pc[w], held[w], w, r)
                                /\ reply' = [reply EXCEPT ![w] = r]
    BY DEF Serve
  <2>2. /\ pc[w] \in Calls
        /\ held[w] \in JobOrNone
        /\ pc[w] # "claim" => held[w] \in Jobs
    BY DEF IInv, TypeOK, WorkerShape, Serve
  <2> QED BY <2>1, <2>2, EndpointType DEF IInv, TypeOK, Serve
<1>2. WorkerShape'
  BY DEF Serve, Endpoint, ClaimNext, SetRunning, Complete, Fail, Pending,
     Oldest, IInv, TypeOK, WorkerShape
<1>3. CarriedIsClaimed'
  BY JobQueueAssumption DEF Serve, Endpoint, ClaimNext, SetRunning,
     Complete, Fail, Pending, Oldest, IInv, TypeOK, WorkerShape,
     CarriedIsClaimed
<1>4. FreshUntilStart'
  <2>1. PICK r \in JobOrNone : /\ Endpoint(pc[w], held[w], w, r)
                                /\ reply' = [reply EXCEPT ![w] = r]
    BY DEF Serve
  <2>2. CASE pc[w] = "claim"
    <3>1. ClaimNext(w, r)
      BY <2>1, <2>2 DEF Endpoint
    <3> QED BY <3>1, <2>1, <2>2 DEF ClaimNext, Serve, Oldest, Pending, IInv,
               TypeOK, WorkerShape, FreshUntilStart, CarriedIsClaimed
  <2>3. CASE pc[w] # "claim"
    <3>1. pc[w] \in Calls /\ held[w] \in Jobs
      BY <2>3 DEF IInv, TypeOK, WorkerShape, Serve
    <3> QED BY <2>1, <2>3, <3>1, OneCarrier DEF Endpoint, SetRunning, Complete,
               Fail, Serve, IInv, TypeOK, WorkerShape, FreshUntilStart
  <2> QED BY <2>2, <2>3
<1>5. OutcomeShape'
  BY DEF Serve, Endpoint, ClaimNext, SetRunning, Complete, Fail, Pending,
     Oldest, IInv, TypeOK, OutcomeShape
<1>6. LateShape'
  BY DEF Serve, Endpoint, ClaimNext, SetRunning, Complete, Fail, Pending,
     Oldest, IInv, TypeOK, LateShape, LateOK
<1>7. AtMostOnce'
  BY DEF Serve, Endpoint, ClaimNext, SetRunning, Complete, Fail, Pending,
     Oldest, IInv, AtMostOnce
<1> QED BY <1>1, <1>2, <1>3, <1>4, <1>5, <1>6, <1>7 DEF IInv

\* Poll preserves the invariant.
LEMMA PollIInv ==
  ASSUME IInv, NEW w \in Workers, Poll(w)
  PROVE  IInv'
<1>1. WorkerShape'
  BY DEF Poll, Goto, IInv, TypeOK, WorkerShape
<1>2. CarriedIsClaimed'
  BY JobQueueAssumption DEF Poll, Goto, IInv, TypeOK, WorkerShape,
     CarriedIsClaimed
<1>3. FreshUntilStart'
  BY JobQueueAssumption DEF Poll, Goto, IInv, TypeOK, WorkerShape,
     FreshUntilStart
<1>4. TypeOK' /\ OutcomeShape' /\ LateShape' /\ AtMostOnce'
  BY DEF Poll, Goto, IInv, TypeOK, OutcomeShape, LateShape, LateOK,
     AtMostOnce
<1> QED BY <1>1, <1>2, <1>3, <1>4 DEF IInv

\* Claimed preserves the invariant.
LEMMA ClaimedIInv ==
  ASSUME IInv, NEW w \in Workers, Claimed(w)
  PROVE  IInv'
<1>1. TypeOK'
  <2>1. CASE reply[w] = NoJob
    BY <2>1, JobQueueAssumption DEF Claimed, Goto, IInv, TypeOK
  <2>2. CASE reply[w] # NoJob
    BY <2>2, JobQueueAssumption DEF Claimed, Goto, IInv, TypeOK
  <2> QED BY <2>1, <2>2
<1>2. WorkerShape'
  BY DEF Claimed, Goto, IInv, TypeOK, WorkerShape
<1>3. CarriedIsClaimed'
  BY JobQueueAssumption DEF Claimed, Goto, IInv, TypeOK, WorkerShape,
     CarriedIsClaimed
<1>4. FreshUntilStart'
  BY JobQueueAssumption DEF Claimed, Goto, IInv, TypeOK, WorkerShape,
     FreshUntilStart
<1>5. OutcomeShape'
  BY DEF Claimed, Goto, IInv, TypeOK, OutcomeShape
<1>6. LateShape'
  BY DEF Claimed, Goto, IInv, TypeOK, LateShape, LateOK
<1>7. AtMostOnce'
  BY DEF Claimed, Goto, IInv, AtMostOnce
<1> QED BY <1>1, <1>2, <1>3, <1>4, <1>5, <1>6, <1>7 DEF IInv

\* StartHandler preserves the invariant.
LEMMA StartHandlerIInv ==
  ASSUME IInv, NEW w \in Workers, StartHandler(w)
  PROVE  IInv'
<1>1. TypeOK'
  BY JobQueueAssumption DEF StartHandler, Goto, IInv, TypeOK, WorkerShape
<1>2. WorkerShape'
  BY DEF StartHandler, Goto, IInv, TypeOK, WorkerShape
<1>3. CarriedIsClaimed'
  BY JobQueueAssumption DEF StartHandler, Goto, IInv, TypeOK, WorkerShape,
     CarriedIsClaimed
<1>4. FreshUntilStart'
  BY HeldInJobs, OneCarrier, JobQueueAssumption DEF StartHandler, Goto,
     IInv, TypeOK, WorkerShape, CarriedIsClaimed, FreshUntilStart
<1>5. OutcomeShape'
  BY JobQueueAssumption DEF StartHandler, Goto, IInv, TypeOK, WorkerShape,
     FreshUntilStart, OutcomeShape
<1>6. AtMostOnce'
  BY JobQueueAssumption DEF StartHandler, Goto, IInv, TypeOK, WorkerShape,
     FreshUntilStart, AtMostOnce
<1>7. LateShape'
  BY DEF StartHandler, Goto, IInv, LateShape, LateOK
<1> QED BY <1>1, <1>2, <1>3, <1>4, <1>5, <1>6, <1>7 DEF IInv

\* NoHandler preserves the invariant.
LEMMA NoHandlerIInv ==
  ASSUME IInv, NEW w \in Workers, NoHandler(w)
  PROVE  IInv'
<1>1. CarriedIsClaimed'
  BY JobQueueAssumption DEF NoHandler, Goto, IInv, TypeOK, WorkerShape,
     CarriedIsClaimed
<1>2. FreshUntilStart'
  BY DEF NoHandler, Goto, IInv, TypeOK, FreshUntilStart
<1>3. TypeOK' /\ WorkerShape' /\ OutcomeShape' /\ LateShape' /\ AtMostOnce'
  BY DEF NoHandler, Goto, IInv, TypeOK, WorkerShape, OutcomeShape,
     LateShape, LateOK, AtMostOnce
<1> QED BY <1>1, <1>2, <1>3 DEF IInv

\* HandlerOk preserves the invariant.
LEMMA HandlerOkIInv ==
  ASSUME IInv, NEW w \in Workers, HandlerOk(w)
  PROVE  IInv'
<1>1. WorkerShape'
  BY DEF HandlerOk, Goto, IInv, TypeOK, WorkerShape
<1>2. CarriedIsClaimed'
  BY JobQueueAssumption DEF HandlerOk, Goto, IInv, TypeOK, WorkerShape,
     CarriedIsClaimed
<1>3. FreshUntilStart'
  BY HeldInJobs, OneCarrier, JobQueueAssumption DEF HandlerOk, Goto, IInv,
     TypeOK, WorkerShape, CarriedIsClaimed, FreshUntilStart
<1>4. OutcomeShape'
  BY HeldInJobs, OneCarrier, JobQueueAssumption DEF HandlerOk, Goto, IInv,
     TypeOK, WorkerShape, CarriedIsClaimed, OutcomeShape
<1>5. LateShape'
  BY DEF HandlerOk, Goto, IInv, LateShape, LateOK
<1>6. TypeOK' /\ AtMostOnce'
  BY DEF HandlerOk, Goto, IInv, TypeOK, AtMostOnce
<1> QED BY <1>1, <1>2, <1>3, <1>4, <1>5, <1>6 DEF IInv

\* HandlerThrows preserves the invariant.
LEMMA HandlerThrowsIInv ==
  ASSUME IInv, NEW w \in Workers, HandlerThrows(w)
  PROVE  IInv'
<1>1. WorkerShape'
  BY DEF HandlerThrows, Goto, IInv, TypeOK, WorkerShape
<1>2. CarriedIsClaimed'
  BY JobQueueAssumption DEF HandlerThrows, Goto, IInv, TypeOK, WorkerShape,
     CarriedIsClaimed
<1>3. FreshUntilStart'
  BY HeldInJobs, OneCarrier, JobQueueAssumption DEF HandlerThrows, Goto,
     IInv, TypeOK, WorkerShape, CarriedIsClaimed, FreshUntilStart
<1>4. OutcomeShape'
  BY HeldInJobs, OneCarrier, JobQueueAssumption DEF HandlerThrows, Goto,
     IInv, TypeOK, WorkerShape, CarriedIsClaimed, OutcomeShape
<1>5. LateShape'
  BY DEF HandlerThrows, Goto, IInv, LateShape, LateOK
<1>6. TypeOK' /\ AtMostOnce'
  BY DEF HandlerThrows, Goto, IInv, TypeOK, AtMostOnce
<1> QED BY <1>1, <1>2, <1>3, <1>4, <1>5, <1>6 DEF IInv

\* Reported preserves the invariant.
LEMMA ReportedIInv ==
  ASSUME IInv, NEW w \in Workers, Reported(w)
  PROVE  IInv'
<1>1. WorkerShape'
  BY DEF Reported, Goto, IInv, TypeOK, WorkerShape
<1>2. CarriedIsClaimed'
  BY JobQueueAssumption DEF Reported, Goto, IInv, TypeOK, WorkerShape,
     CarriedIsClaimed
<1>3. OutcomeShape'
  BY DEF Reported, Goto, IInv, TypeOK, OutcomeShape
<1>4. LateShape'
  BY DEF Reported, Goto, IInv, TypeOK, LateShape, LateOK
<1>5. TypeOK' /\ FreshUntilStart' /\ AtMostOnce'
  BY DEF Reported, Goto, IInv, TypeOK, FreshUntilStart, AtMostOnce
<1> QED BY <1>1, <1>2, <1>3, <1>4, <1>5 DEF IInv

\* CallFails preserves the invariant.
LEMMA CallFailsIInv ==
  ASSUME IInv, NEW w \in Workers, CallFails(w)
  PROVE  IInv'
<1>1. TypeOK'
  <2>1. late' \subseteq Requests
    BY AbandonType DEF CallFails
  <2> QED BY <2>1, JobQueueAssumption DEF CallFails, AfterError, Goto, IInv,
             TypeOK
<1>2. WorkerShape'
  BY DEF CallFails, Abandon, AfterError, Goto, IInv, TypeOK, WorkerShape
<1>3. CarriedIsClaimed'
  BY JobQueueAssumption DEF CallFails, Abandon, AfterError, Goto, IInv,
     TypeOK, WorkerShape, CarriedIsClaimed
<1>4. FreshUntilStart'
  BY DEF CallFails, Abandon, AfterError, Goto, IInv, TypeOK, FreshUntilStart
<1>5. OutcomeShape'
  BY DEF CallFails, Abandon, AfterError, Goto, IInv, TypeOK, OutcomeShape
<1>6. LateShape'
  <2>1. \A v \in Workers \ {w} : held'[v] = held[v] /\ reply'[v] = reply[v] /\ pc'[v] = pc[v]
    BY DEF CallFails, AfterError, Goto, IInv, TypeOK
  <2>2. \A j \in Jobs : Carries(w, j)' =>
            held[w] = j /\ pc'[w] = "fail" /\ pc[w] = "complete"
    BY JobQueueAssumption DEF CallFails, AfterError, Goto, IInv, TypeOK
  <2> QED BY <2>1, <2>2, AbandonLate DEF CallFails
<1>7. AtMostOnce'
  BY DEF CallFails, Abandon, AfterError, Goto, IInv, AtMostOnce
<1> QED BY <1>1, <1>2, <1>3, <1>4, <1>5, <1>6, <1>7 DEF IInv

\* Crash preserves the invariant.
LEMMA CrashIInv ==
  ASSUME IInv, NEW w \in Workers, Crash(w)
  PROVE  IInv'
<1>1. TypeOK'
  BY JobQueueAssumption DEF Crash, Abandon, Goto, IInv, TypeOK, WorkerShape
<1>2. WorkerShape'
  BY DEF Crash, Abandon, Goto, IInv, TypeOK, WorkerShape
<1>3. CarriedIsClaimed'
  BY JobQueueAssumption DEF Crash, Abandon, Goto, IInv, TypeOK, WorkerShape,
     CarriedIsClaimed
<1>4. FreshUntilStart'
  BY DEF Crash, Abandon, Goto, IInv, TypeOK, FreshUntilStart
<1>5. OutcomeShape'
  BY DEF Crash, Abandon, Goto, IInv, TypeOK, OutcomeShape
<1>6. LateShape'
  <2>1. CASE call[w] = "idle"
    BY <2>1, JobQueueAssumption DEF Crash, Abandon, Goto, IInv, TypeOK,
       LateShape, LateOK
  <2>2. CASE call[w] # "idle"
    <3>1. \A v \in Workers \ {w} : held'[v] = held[v] /\ reply'[v] = reply[v] /\ pc'[v] = pc[v]
      BY DEF Crash, Goto, IInv, TypeOK
    <3>2. \A j \in Jobs : ~Carries(w, j)'
      BY JobQueueAssumption DEF Crash, Goto, IInv, TypeOK
    <3> QED BY <2>2, <3>1, <3>2, AbandonLate DEF Crash
  <2> QED BY <2>1, <2>2
<1>7. AtMostOnce'
  BY DEF Crash, Abandon, Goto, IInv, AtMostOnce
<1> QED BY <1>1, <1>2, <1>3, <1>4, <1>5, <1>6, <1>7 DEF IInv

\* Restart preserves the invariant.
LEMMA RestartIInv ==
  ASSUME IInv, NEW w \in Workers, Restart(w)
  PROVE  IInv'
<1>1. CarriedIsClaimed'
  BY JobQueueAssumption DEF Restart, Goto, IInv, TypeOK, WorkerShape,
     CarriedIsClaimed
<1>2. TypeOK' /\ WorkerShape' /\ FreshUntilStart' /\ OutcomeShape' /\
      LateShape' /\ AtMostOnce'
  BY DEF Restart, Goto, IInv, TypeOK, WorkerShape, FreshUntilStart,
     OutcomeShape, LateShape, LateOK, AtMostOnce
<1> QED BY <1>1, <1>2 DEF IInv

\* ServeLate preserves the invariant.
LEMMA ServeLateIInv ==
  ASSUME IInv, NEW m \in late, ServeLate(m)
  PROVE  IInv'
<1>1. TypeOK'
  <2>1. PICK r \in JobOrNone : Endpoint(m.op, m.job, m.by, r)
    BY DEF ServeLate
  <2>2. /\ m.op \in Calls
        /\ m.job \in JobOrNone
        /\ m.by \in Workers
        /\ m.op # "claim" => m.job \in Jobs
    BY DEF IInv, TypeOK, LateShape, LateOK
  <2> QED BY <2>1, <2>2, EndpointType DEF IInv, TypeOK, ServeLate
<1>2. CarriedIsClaimed'
  BY DEF ServeLate, Endpoint, ClaimNext, SetRunning, Complete, Fail,
     Pending, Oldest, IInv, TypeOK, CarriedIsClaimed
<1>3. FreshUntilStart'
  BY HeldInJobs, OneCarrier, JobQueueAssumption DEF ServeLate, Endpoint,
     ClaimNext, SetRunning, Complete, Fail, Pending, Oldest, IInv, TypeOK,
     WorkerShape, CarriedIsClaimed, OutcomeShape, LateShape, LateOK,
     FreshUntilStart
<1>4. OutcomeShape'
  BY HeldInJobs, OneCarrier, JobQueueAssumption DEF ServeLate, Endpoint,
     ClaimNext, SetRunning, Complete, Fail, Pending, Oldest, IInv, TypeOK,
     WorkerShape, CarriedIsClaimed, OutcomeShape, LateShape, LateOK
<1>5. LateShape'
  BY DEF ServeLate, Endpoint, ClaimNext, SetRunning, Complete, Fail,
     Pending, Oldest, IInv, TypeOK, LateShape, LateOK
<1>6. WorkerShape' /\ AtMostOnce'
  BY DEF ServeLate, Endpoint, ClaimNext, SetRunning, Complete, Fail,
     Pending, Oldest, IInv, WorkerShape, AtMostOnce
<1> QED BY <1>1, <1>2, <1>3, <1>4, <1>5, <1>6 DEF IInv

\* LoseLate preserves the invariant.
LEMMA LoseLateIInv ==
  ASSUME IInv, NEW m \in late, LoseLate(m)
  PROVE  IInv'
<1>1. TypeOK' /\ WorkerShape' /\ CarriedIsClaimed' /\ FreshUntilStart' /\
      OutcomeShape' /\ LateShape' /\ AtMostOnce'
  BY DEF LoseLate, IInv, TypeOK, WorkerShape, CarriedIsClaimed,
     FreshUntilStart, OutcomeShape, LateShape, LateOK, AtMostOnce
<1> QED BY <1>1 DEF IInv

\* Every step of the system, and every stuttering step, preserves it.
LEMMA NextIInv == IInv /\ [Next]_vars => IInv'
<1> SUFFICES ASSUME IInv, [Next]_vars PROVE IInv'
  OBVIOUS
<1>1. CASE \E j \in Jobs : Submitter(j)
  BY <1>1, SubmitIInv, FollowIInv, FollowFailsIInv DEF Submitter
<1>2. CASE \E w \in Workers : Serve(w) \/ WorkerStep(w)
  BY <1>2, ServeIInv, PollIInv, ClaimedIInv, StartHandlerIInv, NoHandlerIInv,
     HandlerOkIInv, HandlerThrowsIInv, ReportedIInv DEF WorkerStep
<1>3. CASE \E w \in Workers : Fault(w)
  BY <1>3, CallFailsIInv, CrashIInv, RestartIInv DEF Fault
<1>4. CASE \E m \in late : ServeLate(m) \/ LoseLate(m)
  BY <1>4, ServeLateIInv, LoseLateIInv
<1>5. CASE UNCHANGED vars
  BY <1>5 DEF vars, IInv, TypeOK, WorkerShape, CarriedIsClaimed,
     FreshUntilStart, OutcomeShape, LateShape, LateOK, AtMostOnce
<1> QED BY <1>1, <1>2, <1>3, <1>4, <1>5 DEF Next

\* The inductive invariant holds in every reachable state.
THEOREM JobQueueInvariant == Spec => []IInv
  BY InitIInv, NextIInv, PTL DEF Spec

\* Type correctness of the table, the workers and the requests in flight.
THEOREM JobQueueTypeOK == Spec => []TypeOK
<1>1. IInv => TypeOK
  BY DEF IInv
<1> QED BY <1>1, JobQueueInvariant, PTL

\* However calls are lost or delayed and whoever crashes, the worker that
\* works on a job is the one its row names (claimNext's guarded UPDATE).
THEOREM JobQueueHolder == Spec => []HolderIsClaimer
<1>1. IInv => HolderIsClaimer
  BY DEF IInv, CarriedIsClaimed, HolderIsClaimer
<1> QED BY <1>1, JobQueueInvariant, PTL

\* A job's handler is started at most once: the queue never delivers twice.
THEOREM JobQueueAtMostOnce == Spec => []AtMostOnce
<1>1. IInv => AtMostOnce
  BY DEF IInv
<1> QED BY <1>1, JobQueueInvariant, PTL

\* A success in the row, or told to the submitter, is a handler that returned.
THEOREM JobQueueSuccess == Spec => []SuccessIsReal
<1>1. IInv => SuccessIsReal
  BY DEF IInv, OutcomeShape, SuccessIsReal
<1> QED BY <1>1, JobQueueInvariant, PTL

\* What an endpoint may do to a status: only move it forward.  A setJobRunning
\* is served, late or not, only for a job that is claimed or running.
LEMMA EndpointForward ==
  ASSUME IInv, NEW op \in Calls, NEW i \in JobOrNone, op # "claim" => i \in Jobs,
         NEW w \in Workers, NEW r \in JobOrNone, Endpoint(op, i, w, r),
         op = "start" => status[i] \in {"claimed", "running"},
         NEW j \in Jobs
  PROVE  Rank(status[j]) <= Rank(status'[j])
<1>1. CASE op = "claim" /\ ClaimNext(w, r)
  BY <1>1 DEF ClaimNext, Oldest, Pending, Rank, IInv, TypeOK
<1>2. CASE op = "start" /\ SetRunning(i)
  BY <1>2 DEF SetRunning, Rank, IInv, TypeOK
<1>3. CASE op = "complete" /\ Complete(i)
  BY <1>3 DEF Complete, Rank, IInv, TypeOK
<1>4. CASE op = "fail" /\ Fail(i)
  BY <1>4 DEF Fail, Rank, IInv, TypeOK
<1> QED BY <1>1, <1>2, <1>3, <1>4 DEF Endpoint

\* A row never moves back towards the queue: no lost, late or repeated call
\* reopens a job that was reported.
THEOREM JobQueueNeverReopened == Spec => NeverReopened
<1> DEFINE Forward == \A j \in Jobs : Rank(status[j]) <= Rank(status'[j])
<1>1. ASSUME IInv, status' = status PROVE Forward
  BY <1>1 DEF Rank, IInv, TypeOK
<1>2. ASSUME IInv, NEW i \in Jobs, Submit(i) PROVE Forward
  BY <1>2 DEF Submit, Rank, IInv, TypeOK
<1>3. ASSUME IInv, NEW w \in Workers, Serve(w) PROVE Forward
  <2>1. PICK r \in JobOrNone : Endpoint(pc[w], held[w], w, r)
    BY <1>3 DEF Serve
  <2>2. /\ pc[w] \in Calls
        /\ held[w] \in JobOrNone
        /\ pc[w] # "claim" => held[w] \in Jobs
    BY <1>3 DEF IInv, TypeOK, WorkerShape, Serve
  <2>3. pc[w] = "start" => status[held[w]] \in {"claimed", "running"}
    BY <1>3, <2>2 DEF IInv, FreshUntilStart
  <2> QED BY <1>3, <2>1, <2>2, <2>3, EndpointForward
<1>4. ASSUME IInv, NEW m \in late, ServeLate(m) PROVE Forward
  <2>1. PICK r \in JobOrNone : Endpoint(m.op, m.job, m.by, r)
    BY <1>4 DEF ServeLate
  <2>2. /\ m.op \in Calls /\ m.job \in JobOrNone /\ m.by \in Workers
        /\ m.op # "claim" => m.job \in Jobs
        /\ m.op = "start" => status[m.job] \in {"claimed", "running"}
    BY <1>4 DEF IInv, TypeOK, LateShape, LateOK
  <2> QED BY <1>4, <2>1, <2>2, EndpointForward
<1>5. ASSUME IInv, [Next]_vars PROVE [Forward]_vars
  <2>1. CASE \E j \in Jobs : Submitter(j)
    BY <1>1, <1>2, <1>5, <2>1 DEF Submitter, Follow, FollowFails
  <2>2. CASE \E w \in Workers : Serve(w)
    BY <1>3, <1>5, <2>2
  <2>3. CASE \E w \in Workers : WorkerStep(w) \/ Fault(w)
    BY <1>1, <1>5, <2>3 DEF WorkerStep, Fault, Poll, Claimed, StartHandler,
       NoHandler, HandlerOk, HandlerThrows, Reported, CallFails, Crash, Restart
  <2>4. CASE \E m \in late : ServeLate(m) \/ LoseLate(m)
    BY <1>1, <1>4, <1>5, <2>4 DEF LoseLate
  <2> QED BY <1>5, <2>1, <2>2, <2>3, <2>4 DEF Next
<1> QED BY <1>5, JobQueueInvariant, PTL DEF Spec, NeverReopened

-----------------------------------------------------------------------------
(* Refinement of TaskQueue.                                                *)

Phases  == [j \in Jobs |-> PhaseOf(status[j])]
Started == {j \in Jobs : runs[j] > 0}

\* Moving one status moves one phase.
LEMMA PhasesMove ==
  ASSUME TypeOK, NEW j \in Jobs, NEW s \in Statuses,
         status' = [status EXCEPT ![j] = s]
  PROVE  Phases' = [Phases EXCEPT ![j] = PhaseOf(s)]
  BY DEF Phases, TypeOK

\* An endpoint takes or finishes at most one task.
LEMMA EndpointRefines ==
  ASSUME IInv, runs' = runs,
         NEW op \in Calls, NEW i \in JobOrNone, op # "claim" => i \in Jobs,
         NEW w \in Workers, NEW r \in JobOrNone, Endpoint(op, i, w, r),
         op = "start" => status[i] \in {"claimed", "running"},
         op # "claim" => status[i] \notin Unclaimed
  PROVE  TQ!Next \/ UNCHANGED TQ!vars
<1>1. CASE op = "claim" /\ Pending = {} /\ UNCHANGED rowVars
  BY <1>1 DEF TQ!vars
<1>2. CASE op = "claim" /\ r \in Jobs /\ Oldest(r)
           /\ status' = [status EXCEPT ![r] = "claimed"]
  <2>1. TQ!Take(r)
    BY <1>2, PhasesMove DEF TQ!Take, TQ!Move, Oldest, Pending, PhaseOf, Phases,
       IInv, TypeOK
  <2> QED BY <1>2, <2>1 DEF TQ!Next
<1>3. CASE op = "start" /\ SetRunning(i)
  <2>1. Phases' = [Phases EXCEPT ![i] = "taken"] /\ Phases[i] = "taken"
    BY <1>3, PhasesMove DEF SetRunning, PhaseOf, Phases, IInv
  <2>2. Phases' = Phases
    BY <2>1 DEF Phases
  <2> QED BY <2>2 DEF TQ!vars, Phases
<1>4. ASSUME i \in Jobs, NEW s \in Terminal, status' = [status EXCEPT ![i] = s],
             status[i] \notin Unclaimed
      PROVE  TQ!Next \/ UNCHANGED TQ!vars
  <2>1. Phases' = [Phases EXCEPT ![i] = "done"]
    BY <1>4, PhasesMove DEF PhaseOf, IInv
  <2>2. CASE status[i] \in Terminal
    <3>1. Phases' = Phases
      BY <1>4, <2>1, <2>2 DEF Phases, PhaseOf
    <3> QED BY <3>1 DEF TQ!vars, Phases
  <2>3. CASE status[i] \in {"claimed", "running"}
    <3>1. TQ!Finish(i)
      BY <1>4, <2>1, <2>3 DEF TQ!Finish, TQ!Move, PhaseOf, Phases
    <3> QED BY <1>4, <3>1 DEF TQ!Next
  <2> QED BY <1>4, <2>2, <2>3 DEF IInv, TypeOK
<1>5. CASE op = "complete" /\ Complete(i)
  BY <1>4, <1>5 DEF Complete
<1>6. CASE op = "fail" /\ Fail(i)
  BY <1>4, <1>6 DEF Fail
<1> QED BY <1>1, <1>2, <1>3, <1>5, <1>6 DEF Endpoint, ClaimNext

\* Every step of the table and the workers is a step of the abstract queue or
\* leaves it unchanged.
LEMMA StepRefines ==
  ASSUME IInv, Next
  PROVE  TQ!Next \/ UNCHANGED TQ!vars
<1>1. ASSUME UNCHANGED <<status, runs>> PROVE UNCHANGED TQ!vars
  BY <1>1 DEF TQ!vars
<1>2. ASSUME NEW j \in Jobs, Submit(j) PROVE TQ!Enqueue(j)
  <2>1. Phases' = [Phases EXCEPT ![j] = "queued"]
    BY <1>2, PhasesMove DEF Submit, PhaseOf, IInv
  <2> QED BY <1>2, <2>1 DEF Submit, TQ!Enqueue, TQ!Move, PhaseOf, Phases
<1>3. ASSUME NEW w \in Workers, Serve(w) PROVE TQ!Next \/ UNCHANGED TQ!vars
  <2>1. PICK r \in JobOrNone : Endpoint(pc[w], held[w], w, r)
    BY <1>3 DEF Serve
  <2>2. /\ pc[w] \in Calls
        /\ held[w] \in JobOrNone
        /\ pc[w] # "claim" => held[w] \in Jobs
    BY <1>3 DEF IInv, TypeOK, WorkerShape, Serve
  <2>3. /\ pc[w] = "start" => status[held[w]] \in {"claimed", "running"}
        /\ pc[w] # "claim" => status[held[w]] \notin Unclaimed
    BY <2>2 DEF IInv, FreshUntilStart, CarriedIsClaimed
  <2> QED BY <1>3, <2>1, <2>2, <2>3, EndpointRefines DEF Serve
<1>4. ASSUME NEW m \in late, ServeLate(m) PROVE TQ!Next \/ UNCHANGED TQ!vars
  <2>1. PICK r \in JobOrNone : Endpoint(m.op, m.job, m.by, r)
    BY <1>4 DEF ServeLate
  <2>2. /\ m.op \in Calls /\ m.job \in JobOrNone /\ m.by \in Workers
        /\ m.op # "claim" => m.job \in Jobs
        /\ m.op = "start" => status[m.job] \in {"claimed", "running"}
        /\ m.op # "claim" => status[m.job] \notin Unclaimed
    BY <1>4 DEF IInv, TypeOK, LateShape, LateOK
  <2> QED BY <1>4, <2>1, <2>2, EndpointRefines DEF ServeLate
<1>5. ASSUME NEW w \in Workers, StartHandler(w) PROVE TQ!Next
  <2>1. PICK j \in Jobs : j = held[w]
    BY <1>5, HeldInJobs DEF StartHandler, IInv
  <2>2. runs[j] = 0 /\ status[j] \in {"claimed", "running"}
    BY <1>5, <2>1 DEF StartHandler, IInv, FreshUntilStart
  <2>3. Started' = Started \cup {j}
    BY <1>5, <2>1, <2>2 DEF StartHandler, Started, IInv, TypeOK
  <2>4. TQ!Start(j)
    BY <1>5, <2>1, <2>2, <2>3 DEF TQ!Start, StartHandler, PhaseOf, Started
  <2> QED BY <2>4 DEF TQ!Next
<1>6. CASE \E j \in Jobs : Submitter(j)
  BY <1>1, <1>2, <1>6 DEF Submitter, Follow, FollowFails, TQ!Next
<1>7. CASE \E w \in Workers : Serve(w) \/ WorkerStep(w) \/ Fault(w)
  BY <1>1, <1>3, <1>5, <1>7 DEF WorkerStep, Fault, Poll, Claimed, NoHandler,
     HandlerOk, HandlerThrows, Reported, CallFails, Crash, Restart
<1>8. CASE \E m \in late : ServeLate(m) \/ LoseLate(m)
  BY <1>1, <1>4, <1>8 DEF LoseLate
<1> QED BY <1>6, <1>7, <1>8 DEF Next

\* The job table with its endpoints, workers, lost and late calls and crashes
\* implements the at-most-once queue TaskQueue.
THEOREM JobQueueImplementsTaskQueue == Spec => ImplementsTaskQueue
<1>1. Init => TQ!Init
  BY DEF Init, TQ!Init, PhaseOf
<1>2. IInv /\ [Next]_vars => [TQ!Next]_(TQ!vars)
  <2>1. UNCHANGED vars => UNCHANGED TQ!vars
    BY DEF vars, TQ!vars
  <2> QED BY <2>1, StepRefines
<1> QED BY <1>1, <1>2, JobQueueInvariant, PTL DEF Spec, ImplementsTaskQueue, TQ!Spec
=============================================================================
