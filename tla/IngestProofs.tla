---------------------------- MODULE IngestProofs ----------------------------
(***************************************************************************)
(* Proofs about Ingest, for every number of endpoints, callers, items and  *)
(* settings and every choice of the operator and failure actions.          *)
(***************************************************************************)
EXTENDS Ingest, TLAPS

\* The endpoint index a run works on exists: what the loop of fetchEndpoints
\* guarantees, and what makes the type invariant inductive.
IndexInRange ==
    \A t \in Triggers :
        /\ run[t].pc \in {"idle", "gate"} => run[t].k = 1
        /\ run[t].pc \in {"endpoint", "request", "await"} => run[t].k <= NEndpoints

IndInv == TypeOK /\ IndexInRange

------------------------------------------------------------------------------
(* Types of the operators *)

LEMMA SettingsType == AnySettings \in Settings
BY ConstantsAssumption DEF AnySettings

LEMMA IdleType == Idle \in RunState /\ Idle.pc = "idle" /\ Idle.k = 1
BY SettingsType, ConstantsAssumption DEF Idle, RunState, Snapshot

LEMMA UntilType ==
    ASSUME NEW row \in SourceRow
    PROVE  Until(row) \in Nat
BY ConstantsAssumption DEF Until, SourceRow, Larger, Never

LEMMA BackoffType ==
    ASSUME NEW n \in Nat \ {0}
    PROVE  Backoff(n) \in Nat
<1>1. Smaller(n, 11) \in 1..11
  BY DEF Smaller
<1>2. Doublings[Smaller(n, 11)] \in Nat
  BY <1>1 DEF Doublings
<1> DEFINE d == Doublings[Smaller(n, 11)]
<1>3. Poll * d \in Nat
  <2>1. d \in Nat
    BY <1>2
  <2> HIDE DEF d
  <2> QED
    BY <2>1, ConstantsAssumption
<1>4. Larger(MaxBackoff, Poll) \in Nat
  BY ConstantsAssumption DEF Larger
<1> QED
  BY <1>3, <1>4 DEF Backoff, Smaller

LEMMA FailuresType ==
    ASSUME NEW s \in RunState
    PROVE  NewFailures(s) \in Nat /\ (s.anyFailure => NewFailures(s) \in Nat \ {0})
BY DEF NewFailures, RunState, Snapshot

OutcomeRow == [failed : BOOLEAN, success : BOOLEAN, notBefore : Nat, stop : BOOLEAN]

LEMMA OutcomeType ==
    ASSUME NEW f \in BOOLEAN, NEW s \in BOOLEAN, NEW n \in Nat, NEW stop \in BOOLEAN
    PROVE  Outcome(f, s, n, stop) \in OutcomeRow
BY DEF Outcome, OutcomeRow

\* A fresh local state for one caller keeps the run variable well formed.
LEMMA RunUpdate ==
    ASSUME IndInv, NEW t \in Triggers, NEW r \in RunState,
           run' = [run EXCEPT ![t] = r],
           r.pc \in {"idle", "gate"} => r.k = 1,
           r.pc \in {"endpoint", "request", "await"} => r.k <= NEndpoints
    PROVE  run' \in [Triggers -> RunState] /\ IndexInRange'
BY DEF IndInv, TypeOK, IndexInRange

\* Folding an outcome into a run keeps it well formed.
LEMMA ConcludeType ==
    ASSUME IndInv, NEW t \in Triggers, NEW out \in OutcomeRow,
           run[t].pc \in {"endpoint", "await"},
           Conclude(t, out)
    PROVE  run' \in [Triggers -> RunState] /\ IndexInRange'
<1> DEFINE r == run[t]
           new == Folded(r, out)
<1>1. r \in RunState /\ r.k \in 1..NEndpoints
  BY ConstantsAssumption DEF IndInv, TypeOK, IndexInRange, RunState
<1>2. Larger(r.notBefore, out.notBefore) \in Nat
  BY <1>1 DEF Larger, RunState, OutcomeRow
<1>3. new \in RunState
  BY <1>1, <1>2, ConstantsAssumption DEF RunState, OutcomeRow, Folded
<1>4. /\ new.pc \in {"retire", "endpoint"}
      /\ new.pc = "endpoint" => new.k <= NEndpoints
  BY <1>1, ConstantsAssumption DEF RunState, Folded
<1>5. run' = [run EXCEPT ![t] = new]
  BY DEF Conclude
<1> HIDE DEF new
<1> QED
  BY <1>3, <1>4, <1>5, RunUpdate

------------------------------------------------------------------------------
(* Type correctness *)

\* The steps of a caller before the first endpoint.
LEMMA GateStep ==
    ASSUME IndInv, NEW t \in Triggers, ReadRow(t) \/ Refuse(t) \/ Begin(t)
    PROVE  IndInv'
<1>0. run[t] \in RunState /\ src \in SourceRow /\ clock \in Nat
  BY DEF IndInv, TypeOK
<1>1. CASE ReadRow(t)
  <2> DEFINE new == [run[t] EXCEPT !.pc = "gate",
                        !.row = [enabled |-> src.enabled, settings |-> src.settings,
                                 failures |-> src.failures, until |-> Until(src)]]
  <2>1. run[t].k = 1
    BY <1>1 DEF ReadRow, IndInv, IndexInRange
  <2>2. new \in RunState /\ new.pc = "gate" /\ new.k = 1
    BY <1>0, <2>1, UntilType DEF RunState, Snapshot, SourceRow
  <2>3. run' = [run EXCEPT ![t] = new]
    BY <1>1 DEF ReadRow
  <2> HIDE DEF new
  <2>4. run' \in [Triggers -> RunState] /\ IndexInRange'
    BY <2>2, <2>3, RunUpdate
  <2> QED
    BY <1>1, <2>4 DEF ReadRow, IndInv, TypeOK, rows, observers
<1>2. CASE Refuse(t)
  <2>1. run' \in [Triggers -> RunState] /\ IndexInRange'
    BY <1>2, IdleType, RunUpdate DEF Refuse, GoIdle
  <2> QED
    BY <1>2, <2>1 DEF Refuse, IndInv, TypeOK, rows, observers
<1>3. CASE Begin(t)
  <2> DEFINE spent == [run[t].row EXCEPT !.until = 0]
             new == [run[t] EXCEPT !.pc = "endpoint", !.began = clock, !.row = spent]
  <2>1. run[t].k = 1
    BY <1>3 DEF Begin, IndInv, IndexInRange
  <2>a. spent \in Snapshot
    BY <1>0 DEF RunState, Snapshot
  <2>3. run' = [run EXCEPT ![t] = new]
    BY <1>3 DEF Begin
  <2> HIDE DEF spent
  <2>2. new \in RunState
    BY <1>0, <2>a DEF RunState
  <2>b. new.pc = "endpoint" /\ new.k <= NEndpoints
    BY <1>0, <2>1, ConstantsAssumption DEF RunState
  <2> HIDE DEF new
  <2>4. run' \in [Triggers -> RunState] /\ IndexInRange'
    BY <2>2, <2>b, <2>3, RunUpdate
  <2> QED
    BY <1>3, <2>4 DEF Begin, IndInv, TypeOK, rows, observers
<1> QED
  BY <1>1, <1>2, <1>3

\* What an ok transaction writes is well formed.
LEMMA IngestedType ==
    ASSUME TypeOK, NEW body \in Body, NEW r \in Nat
    PROVE  Ingested(body, r) \in [Identities -> ItemRow]
BY DEF Ingested, TypeOK, ItemRow

LEMMA SeenAgainType ==
    ASSUME TypeOK, NEW r \in Nat
    PROVE  SeenAgain(r) \in [Identities -> ItemRow]
BY DEF SeenAgain, TypeOK, ItemRow

\* The steps of a run at one endpoint.
LEMMA EndpointStepType ==
    ASSUME IndInv, NEW t \in Triggers, EndpointStep(t)
    PROVE  IndInv'
<1>0. /\ run[t] \in RunState /\ src \in SourceRow /\ clock \in Nat /\ lastRun \in Nat
      /\ run[t].pc \in {"endpoint", "request", "await"} => run[t].k \in Endpoint
  BY DEF IndInv, TypeOK, IndexInRange, RunState, Endpoint
<1> USE DEF IndInv, rows, observers
<1>1. CASE CredentialMissing(t)
  <2>1. run' \in [Triggers -> RunState] /\ IndexInRange'
    BY <1>1, OutcomeType, ConcludeType DEF CredentialMissing
  <2> QED
    BY <1>1, <2>1 DEF CredentialMissing, TypeOK
<1>2. CASE RobotsDenied(t)
  <2>1. run' \in [Triggers -> RunState] /\ IndexInRange'
    BY <1>2, OutcomeType, ConcludeType DEF RobotsDenied, Failed
  <2> QED
    BY <1>2, <2>1 DEF RobotsDenied, TypeOK
<1>3. CASE ReadValidators(t)
  <2> DEFINE new == [run[t] EXCEPT !.pc = "request", !.sent = validators[run[t].k]]
  <2>1. validators[run[t].k] \in Validator \cup {NoValidators}
    BY <1>0, <1>3 DEF ReadValidators, TypeOK
  <2>a. run[t].k \in Endpoint
    BY <1>0, <1>3 DEF ReadValidators
  <2>2. new \in RunState
    BY <1>0, <2>1 DEF RunState
  <2>b. new.pc = "request" /\ new.k <= NEndpoints
    BY <1>0, <2>a, ConstantsAssumption DEF RunState, Endpoint
  <2>3. run' = [run EXCEPT ![t] = new]
    BY <1>3 DEF ReadValidators
  <2> HIDE DEF new
  <2>4. run' \in [Triggers -> RunState] /\ IndexInRange'
    BY <2>2, <2>b, <2>3, RunUpdate
  <2> QED
    BY <1>3, <2>4 DEF ReadValidators, TypeOK
<1>4. CASE Request(t)
  <2> DEFINE new == [run[t] EXCEPT !.pc = "await"]
  <2>1. new \in RunState /\ new.pc = "await" /\ new.k = run[t].k /\ new.k <= NEndpoints
    BY <1>0, <1>4, ConstantsAssumption DEF Request, RunState, Endpoint
  <2>2. run' = [run EXCEPT ![t] = new]
    BY <1>4 DEF Request
  <2> HIDE DEF new
  <2>3. run' \in [Triggers -> RunState] /\ IndexInRange'
    BY <2>1, <2>2, RunUpdate
  <2>4. src' \in SourceRow
    BY <1>0, <1>4 DEF Request, SourceRow
  <2> QED
    BY <1>4, <2>3, <2>4 DEF Request, TypeOK
<1>5. CASE NotModified(t)
  <2>1. run' \in [Triggers -> RunState] /\ IndexInRange'
    BY <1>5, OutcomeType, ConcludeType DEF NotModified, Answered
  <2>2. lastOk[run[t].k].id \in Nat
    BY <1>0, <1>5 DEF NotModified, TypeOK, OkRow
  <2>3. items' \in [Identities -> ItemRow]
    BY <1>5, <2>2, SeenAgainType DEF NotModified
  <2> QED
    BY <1>5, <2>1, <2>3 DEF NotModified, TypeOK
<1>6. ASSUME NEW wait \in Waits, TooManyRequests(t, wait) \/ Unavailable(t, wait)
      PROVE  IndInv'
  <2>1. clock + wait \in Nat
    BY <1>0, ConstantsAssumption
  <2>2. run' \in [Triggers -> RunState] /\ IndexInRange'
    BY <1>6, <2>1, OutcomeType, ConcludeType DEF TooManyRequests, Unavailable, Failed
  <2>3. quiet' \in [Endpoint -> Nat]
    BY <1>6, <2>1 DEF TooManyRequests, Unavailable, TypeOK
  <2> QED
    BY <1>6, <2>2, <2>3 DEF TooManyRequests, Unavailable, TypeOK
<1>7. CASE FetchFailed(t)
  <2>1. run' \in [Triggers -> RunState] /\ IndexInRange'
    BY <1>7, OutcomeType, ConcludeType DEF FetchFailed, Failed
  <2> QED
    BY <1>7, <2>1 DEF FetchFailed, TypeOK
<1>8. ASSUME NEW body \in Body, Unreadable(t, body)
      PROVE  IndInv'
  <2>1. run' \in [Triggers -> RunState] /\ IndexInRange'
    BY <1>8, OutcomeType, ConcludeType DEF Unreadable, Failed
  <2> QED
    BY <1>8, <2>1 DEF Unreadable, TypeOK
<1>9. ASSUME NEW body \in Body, NEW etag \in BOOLEAN, Ok(t, body, etag)
      PROVE  IndInv'
  <2>1. run' \in [Triggers -> RunState] /\ IndexInRange'
    BY <1>9, OutcomeType, ConcludeType DEF Ok, Answered
  <2>2. lastRun + 1 \in Nat
    BY <1>0
  <2>3. items' \in [Identities -> ItemRow]
    BY <1>9, <2>2, IngestedType DEF Ok
  <2>4. lastOk' \in [Endpoint -> OkRow]
    BY <1>9, <2>2 DEF Ok, TypeOK, OkRow
  <2>5. run[t].row.settings \in Settings
    BY <1>0 DEF RunState, Snapshot
  <2>6. validators' \in [Endpoint -> Validator \cup {NoValidators}]
    BY <1>9, <2>5 DEF Ok, TypeOK, Validator
  <2>7. overtaken' \subseteq Nat
    BY <1>9, <2>2 DEF Ok, TypeOK
  <2> QED
    BY <1>9, <2>1, <2>2, <2>3, <2>4, <2>6, <2>7 DEF Ok, TypeOK
<1> QED
  BY <1>1, <1>2, <1>3, <1>4, <1>5, <1>6, <1>7, <1>8, <1>9 DEF EndpointStep

\* Retirement and the end of a run.
LEMMA EndOfRunType ==
    ASSUME IndInv, NEW t \in Triggers, Retire(t) \/ Finish(t) \/ RunThrows(t)
    PROVE  IndInv'
<1>0. run[t] \in RunState /\ src \in SourceRow /\ clock \in Nat
  BY DEF IndInv, TypeOK
<1> USE DEF IndInv, rows, observers
<1>1. CASE Retire(t)
  <2> DEFINE new == [run[t] EXCEPT !.pc = "finish"]
  <2>1. new \in RunState /\ new.pc = "finish"
    BY <1>0 DEF RunState
  <2>2. run' = [run EXCEPT ![t] = new]
    BY <1>1 DEF Retire
  <2> HIDE DEF new
  <2>3. run' \in [Triggers -> RunState] /\ IndexInRange'
    BY <2>1, <2>2, RunUpdate
  <2>4. items' \in [Identities -> ItemRow]
    BY <1>1 DEF Retire, TypeOK, ItemRow
  <2> QED
    BY <1>1, <2>3, <2>4 DEF Retire, TypeOK
<1>2. CASE Finish(t)
  <2>1. run' \in [Triggers -> RunState] /\ IndexInRange'
    BY <1>2, IdleType, RunUpdate DEF Finish, GoIdle
  <2>2. NewFailures(run[t]) \in Nat
    BY <1>0, FailuresType
  <2>3. run[t].anyFailure => Backoff(NewFailures(run[t])) \in Nat
    BY <1>0, FailuresType, BackoffType
  <2>4. (IF run[t].anyFailure THEN Backoff(NewFailures(run[t])) ELSE Poll) \in Nat
    BY <2>3, ConstantsAssumption
  <2> DEFINE wait == IF run[t].anyFailure THEN Backoff(NewFailures(run[t])) ELSE Poll
             n == NewFailures(run[t])
  <2>5. src' = IF src.exists
               THEN [src EXCEPT !.failures = n, !.notBefore = run[t].notBefore,
                                !.nextDue = clock + wait]
               ELSE src
    BY <1>2 DEF Finish
  <2>6. n \in Nat /\ clock + wait \in Nat /\ run[t].notBefore \in Nat
    BY <1>0, <2>2, <2>4 DEF RunState
  <2> HIDE DEF wait, n
  <2>7. src' \in SourceRow
    BY <1>0, <2>5, <2>6 DEF SourceRow
  <2>8. streak' \in Nat
    BY <1>2 DEF Finish, TypeOK
  <2>9. inflight' \in BOOLEAN
    BY <1>2 DEF Finish, Release
  <2> QED
    BY <1>2, <2>1, <2>7, <2>8, <2>9 DEF Finish, TypeOK
<1>3. CASE RunThrows(t)
  <2>1. run' \in [Triggers -> RunState] /\ IndexInRange'
    BY <1>3, IdleType, RunUpdate DEF RunThrows, GoIdle
  <2> QED
    BY <1>3, <2>1 DEF RunThrows, TypeOK, Release
<1> QED
  BY <1>1, <1>2, <1>3

\* What operators, restarts and the clock do.
LEMMA AroundType ==
    ASSUME IndInv, Operator \/ Restart \/ Tick
    PROVE  IndInv'
<1> USE DEF IndInv, rows, observers
<1>1. src \in SourceRow
  BY DEF TypeOK
<1>2. CASE PatchEnabled
  <2>1. src' \in SourceRow
    BY <1>1, <1>2 DEF PatchEnabled, SourceRow
  <2> QED
    BY <1>2, <2>1 DEF PatchEnabled, TypeOK, IndexInRange
<1>3. ASSUME NEW s \in Settings, PatchEndpoints(s)
      PROVE  IndInv'
  <2>1. src' \in SourceRow
    BY <1>1, <1>3 DEF PatchEndpoints, SourceRow
  <2> QED
    BY <1>3, <2>1 DEF PatchEndpoints, Step, Pending, TypeOK, IndexInRange
<1>4. ASSUME NEW s \in Settings, CreateSource(s)
      PROVE  IndInv'
  <2>1. src' \in SourceRow
    BY <1>4 DEF CreateSource, NewSource, SourceRow
  <2> QED
    BY <1>4, <2>1 DEF CreateSource, TypeOK, IndexInRange
<1>5. CASE ResetValidators \/ DeleteCount \/ DeleteRuns \/ RequestFails
  <2>1. okRuns \subseteq Nat
    BY DEF TypeOK
  <2>2. pending' \in Pending
    <3>1. CASE ResetValidators \/ RequestFails
      BY <3>1 DEF ResetValidators, RequestFails, NoRequest, Pending
    <3>2. CASE DeleteCount
      BY <3>2 DEF DeleteCount, Step, Pending
    <3>3. CASE DeleteRuns
      BY <2>1, <3>3 DEF DeleteRuns, Step, Pending
    <3> QED
      BY <1>5, <3>1, <3>2, <3>3
  <2> QED
    BY <1>5, <2>2 DEF ResetValidators, DeleteCount, DeleteRuns, RequestFails, TypeOK, IndexInRange
<1>9. CASE DeleteCommit
  <2>1. src' \in SourceRow
    BY <1>1, <1>9 DEF DeleteCommit, SourceRow
  <2>2. lastOk' \in [Endpoint -> OkRow]
    BY <1>9 DEF DeleteCommit, TypeOK, NoRun, OkRow, Body
  <2>3. pending' \in Pending
    BY <1>9 DEF DeleteCommit, NoRequest, Pending
  <2> QED
    BY <1>9, <2>1, <2>2, <2>3 DEF DeleteCommit, TypeOK, IndexInRange
<1>6. ASSUME NEW i \in Identities, Takedown(i)
      PROVE  IndInv'
  <2>1. items' \in [Identities -> ItemRow]
    BY <1>6 DEF Takedown, TypeOK, ItemRow
  <2> QED
    BY <1>6, <2>1 DEF Takedown, TypeOK, IndexInRange
<1>7. CASE Restart
  <2>1. run' \in [Triggers -> RunState] /\ IndexInRange'
    BY <1>7, IdleType DEF Restart, AllIdle, IndexInRange
  <2> QED
    BY <1>7, <2>1 DEF Restart, NoRequest, Pending, TypeOK
<1>8. CASE Tick
  BY <1>8 DEF Tick, TypeOK, IndexInRange
<1> QED
  BY <1>2, <1>3, <1>4, <1>5, <1>6, <1>7, <1>8, <1>9 DEF Operator, Statement

LEMMA InitType == Init => IndInv
<1> SUFFICES ASSUME Init PROVE IndInv
  OBVIOUS
<1>1. src \in SourceRow
  BY SettingsType DEF Init, NewSource, SourceRow
<1>2. items \in [Identities -> ItemRow]
  BY DEF Init, NoItem, ItemRow
<1>3. run \in [Triggers -> RunState] /\ IndexInRange
  BY IdleType DEF Init, AllIdle, IndexInRange
<1>4. lastOk \in [Endpoint -> OkRow]
  BY DEF Init, NoRun, OkRow, Body
<1>5. pending \in Pending
  BY DEF Init, NoRequest, Pending
<1> QED
  BY <1>1, <1>2, <1>3, <1>4, <1>5 DEF Init, IndInv, TypeOK

LEMMA NextType == IndInv /\ [Next]_vars => IndInv'
<1> SUFFICES ASSUME IndInv, [Next]_vars PROVE IndInv'
  OBVIOUS
<1>1. ASSUME NEW t \in Triggers, Caller(t)
      PROVE  IndInv'
  BY <1>1, GateStep, EndpointStepType, EndOfRunType DEF Caller, RunStep
<1>2. CASE Operator \/ Restart \/ Tick
  BY <1>2, AroundType
<1>3. CASE UNCHANGED vars
  BY <1>3 DEF vars, IndInv, TypeOK, IndexInRange
<1> QED
  BY <1>1, <1>2, <1>3 DEF Next

\* In every behaviour every variable keeps its type, and no run reads past its
\* list of endpoints (fetchEndpoints, ingest.js:591-615).
THEOREM TypeCorrect == Spec => []TypeOK
<1>1. Spec => []IndInv
  BY InitType, NextType, PTL DEF Spec
<1>2. IndInv => TypeOK
  BY DEF IndInv
<1> QED
  BY <1>1, <1>2, PTL

\* A PATCH, a DELETE, a new source and a takedown touch no run, no clock and no run counter.
LEMMA OperatorKeeps ==
    ASSUME Operator
    PROVE  UNCHANGED <<run, inflight, clock, lastRun, credential, quiet, overtaken>>
<1>1. CASE PatchEnabled \/ \E s \in Settings : PatchEndpoints(s) \/ CreateSource(s)
  BY <1>1 DEF PatchEnabled, PatchEndpoints, CreateSource, observers
<1>2. CASE DeleteCount \/ Statement \/ RequestFails
  BY <1>2 DEF DeleteCount, Statement, ResetValidators, DeleteRuns, DeleteCommit, RequestFails, rows, observers
<1>3. CASE \E i \in Identities : Takedown(i)
  BY <1>3 DEF Takedown, observers
<1> QED
  BY <1>1, <1>2, <1>3 DEF Operator

------------------------------------------------------------------------------
(* One run at a time *)

\* A step of one caller that neither enters nor leaves the inflight set.
LEMMA FlightKept ==
    ASSUME IndInv, SingleFlight, NEW t \in Triggers, NEW r,
           run' = [run EXCEPT ![t] = r], inflight' = inflight,
           (r.pc \notin {"idle", "gate"}) <=> Active(t)
    PROVE  SingleFlight'
BY DEF IndInv, TypeOK, SingleFlight, Active

\* Leaving: the caller was the only one in flight, and nobody is afterwards.
LEMMA FlightLeft ==
    ASSUME IndInv, SingleFlight, NEW t \in Triggers, Active(t), GoIdle(t), Release
    PROVE  SingleFlight'
BY IdleType DEF IndInv, TypeOK, SingleFlight, Active, GoIdle, Release

LEMMA FlightEntered ==
    ASSUME IndInv, SingleFlight, NEW t \in Triggers, Begin(t)
    PROVE  SingleFlight'
<1> DEFINE new == [run[t] EXCEPT !.pc = "endpoint", !.began = clock,
                                 !.row = [run[t].row EXCEPT !.until = 0]]
<1>1. run[t] \in RunState
  BY DEF IndInv, TypeOK
<1>2. new.pc = "endpoint"
  BY <1>1 DEF RunState
<1>3. run' = [run EXCEPT ![t] = new] /\ inflight' = TRUE /\ inflight = FALSE
  BY DEF Begin, Busy, IndInv, TypeOK
<1> HIDE DEF new
<1>4. \A u \in Triggers : ~Active(u)
  BY <1>3 DEF SingleFlight
<1>5. \A u \in Triggers : (Active(u))' <=> u = t
  BY <1>2, <1>3, <1>4 DEF IndInv, TypeOK, Active
<1> QED
  BY <1>3, <1>5 DEF SingleFlight

LEMMA EndpointStepFlight ==
    ASSUME IndInv, SingleFlight, NEW t \in Triggers, EndpointStep(t)
    PROVE  SingleFlight'
<1>1. run[t] \in RunState
  BY DEF IndInv, TypeOK
<1>2. ASSUME NEW out, run[t].pc \in {"endpoint", "await"}, Conclude(t, out), inflight' = inflight
      PROVE  SingleFlight'
  <2> DEFINE new == Folded(run[t], out)
  <2>1. new.pc \in {"retire", "endpoint"}
    BY DEF Folded
  <2>2. run' = [run EXCEPT ![t] = new]
    BY <1>2 DEF Conclude
  <2>3. Active(t)
    BY <1>2 DEF Active
  <2> HIDE DEF new
  <2> QED
    BY <1>2, <2>1, <2>2, <2>3, FlightKept
<1>3. CASE ReadValidators(t)
  <2> DEFINE new == [run[t] EXCEPT !.pc = "request", !.sent = validators[run[t].k]]
  <2>1. new.pc = "request"
    BY <1>1 DEF RunState
  <2>2. run' = [run EXCEPT ![t] = new] /\ inflight' = inflight /\ Active(t)
    BY <1>3 DEF ReadValidators, Active
  <2> HIDE DEF new
  <2> QED
    BY <2>1, <2>2, FlightKept
<1>4. CASE Request(t)
  <2> DEFINE new == [run[t] EXCEPT !.pc = "await"]
  <2>1. new.pc = "await"
    BY <1>1 DEF RunState
  <2>2. run' = [run EXCEPT ![t] = new] /\ inflight' = inflight /\ Active(t)
    BY <1>4 DEF Request, Active
  <2> HIDE DEF new
  <2> QED
    BY <2>1, <2>2, FlightKept
<1>5. CASE CredentialMissing(t)
  <2> DEFINE out == Outcome(FALSE, FALSE, 0, FALSE)
  <2>1. run[t].pc = "endpoint" /\ inflight' = inflight /\ Conclude(t, out)
    BY <1>5 DEF CredentialMissing
  <2> HIDE DEF out
  <2> QED
    BY <1>2, <2>1
<1>6. CASE RobotsDenied(t)
  BY <1>2, <1>6 DEF RobotsDenied
<1>7. CASE NotModified(t)
  BY <1>2, <1>7 DEF NotModified
<1>8. ASSUME NEW wait \in Waits, TooManyRequests(t, wait) \/ Unavailable(t, wait)
      PROVE  SingleFlight'
  <2>1. CASE TooManyRequests(t, wait)
    <3> DEFINE out == Outcome(TRUE, FALSE, clock + wait, TRUE)
    <3>1. run[t].pc = "await" /\ inflight' = inflight /\ Conclude(t, out)
      BY <2>1 DEF TooManyRequests
    <3> HIDE DEF out
    <3> QED
      BY <1>2, <3>1
  <2>2. CASE Unavailable(t, wait)
    <3>1. run[t].pc = "await" /\ inflight' = inflight /\ Conclude(t, Failed(clock + wait))
      BY <2>2 DEF Unavailable
    <3> QED
      BY <1>2, <3>1
  <2> QED
    BY <1>8, <2>1, <2>2
<1>9. CASE FetchFailed(t)
  BY <1>2, <1>9 DEF FetchFailed
<1>10. ASSUME NEW body \in Body, Unreadable(t, body)
       PROVE  SingleFlight'
  BY <1>2, <1>10 DEF Unreadable
<1>11. ASSUME NEW body \in Body, NEW etag \in BOOLEAN, Ok(t, body, etag)
       PROVE  SingleFlight'
  BY <1>2, <1>11 DEF Ok
<1> QED
  BY <1>3, <1>4, <1>5, <1>6, <1>7, <1>8, <1>9, <1>10, <1>11 DEF EndpointStep

LEMMA NextFlight == IndInv /\ SingleFlight /\ [Next]_vars => SingleFlight'
<1> SUFFICES ASSUME IndInv, SingleFlight, [Next]_vars PROVE SingleFlight'
  OBVIOUS
<1>1. ASSUME NEW t \in Triggers, Caller(t)
      PROVE  SingleFlight'
  <2>0. run[t] \in RunState
    BY DEF IndInv, TypeOK
  <2>1. CASE ReadRow(t)
    <3> DEFINE new == [run[t] EXCEPT !.pc = "gate",
                          !.row = [enabled |-> src.enabled, settings |-> src.settings,
                                   failures |-> src.failures, until |-> Until(src)]]
    <3>1. new.pc = "gate"
      BY <2>0 DEF RunState
    <3>2. run' = [run EXCEPT ![t] = new] /\ inflight' = inflight /\ ~Active(t)
      BY <2>1 DEF ReadRow, Active
    <3> HIDE DEF new
    <3> QED
      BY <3>1, <3>2, FlightKept
  <2>2. CASE Refuse(t)
    BY <2>2, FlightKept, IdleType DEF Refuse, GoIdle, Active
  <2>3. CASE Begin(t)
    BY <2>3, FlightEntered
  <2>4. CASE EndpointStep(t)
    BY <2>4, EndpointStepFlight
  <2>5. CASE Retire(t)
    <3> DEFINE new == [run[t] EXCEPT !.pc = "finish"]
    <3>1. new.pc = "finish"
      BY <2>0 DEF RunState
    <3>2. run' = [run EXCEPT ![t] = new] /\ inflight' = inflight /\ Active(t)
      BY <2>5 DEF Retire, Active
    <3> HIDE DEF new
    <3> QED
      BY <3>1, <3>2, FlightKept
  <2>6. CASE Finish(t)
    BY <2>6, FlightLeft DEF Finish, Active
  <2>7. CASE RunThrows(t)
    BY <2>7, FlightLeft DEF RunThrows
  <2> QED
    BY <1>1, <2>1, <2>2, <2>3, <2>4, <2>5, <2>6, <2>7 DEF Caller, RunStep
<1>2. CASE Operator \/ Tick \/ UNCHANGED vars
  <2>1. run' = run /\ inflight' = inflight
    BY <1>2, OperatorKeeps DEF Tick, vars
  <2> QED
    BY <2>1 DEF SingleFlight, Active
<1>3. CASE Restart
  BY <1>3, IdleType DEF Restart, AllIdle, SingleFlight, Active
<1> QED
  BY <1>1, <1>2, <1>3 DEF Next

\* However many callers trigger a source, however they interleave with each
\* other, with operators, thrown database errors and restarts, at most one run
\* is past the gate and the inflight set holds the key exactly then
\* (ingest.js:648-649, 687).
THEOREM OneRunAtATime == Spec => []SingleFlight
<1>1. Init => SingleFlight
  BY IdleType DEF Init, AllIdle, SingleFlight, Active
<1> QED
  BY <1>1, InitType, NextType, NextFlight, PTL DEF Spec

------------------------------------------------------------------------------
(* What the store owes to a 304 and to provenance *)

\* While a DELETE is under way, every item names a run that came after the count, or one
\* that was stored after the DELETE had taken the run rows.
Overtaking ==
    /\ okRuns \subseteq 0..lastRun /\ pending.runs \subseteq 0..lastRun
    /\ pending.step = "counted" =>
          \A i \in Identities : items[i].state # "absent" => items[i].run \in overtaken
    /\ pending.step = "deleting" =>
          \A i \in Identities :
              items[i].state # "absent" /\ items[i].run \in pending.runs => items[i].run \in overtaken

StoreInv == ValidatorsBacked /\ ProvenanceUnlessOvertaken /\ Overtaking

\* A step that takes no DELETE further.
NoDelete == pending' = pending \/ (pending'.step \in {"none", "reset"} /\ pending'.runs = {})

\* What every step but a good parse, a change of settings and a delete leaves
\* of the store: no row appears or vanishes, and none changes its run.
ItemsKept ==
    \A i \in Identities :
        /\ items'[i].state = "absent" <=> items[i].state = "absent"
        /\ items'[i].run = items[i].run

LEMMA StoreFrame ==
    ASSUME StoreInv, ItemsKept, UNCHANGED <<validators, lastOk, okRuns, lastRun, overtaken>>,
           NoDelete, IndInv
    PROVE  StoreInv'
<1>1. ValidatorsBacked'
  BY DEF StoreInv, ItemsKept, ValidatorsBacked, IndInv, TypeOK, Validator, Body
<1>2. ProvenanceUnlessOvertaken'
  BY DEF StoreInv, ItemsKept, ProvenanceUnlessOvertaken
<1>3. Overtaking'
  <2>1. CASE pending' = pending
    BY <2>1 DEF StoreInv, ItemsKept, Overtaking
  <2>2. CASE pending' # pending
    BY <2>2 DEF NoDelete, StoreInv, Overtaking
  <2> QED
    BY <2>1, <2>2
<1> QED
  BY <1>1, <1>2, <1>3 DEF StoreInv

\* Steps that leave the four tables of the store alone.
LEMMA StoreUntouched ==
    ASSUME NEW t \in Triggers,
           \/ ReadRow(t) \/ Refuse(t) \/ Begin(t)
           \/ CredentialMissing(t) \/ RobotsDenied(t) \/ ReadValidators(t) \/ Request(t)
           \/ (\E wait \in Waits : TooManyRequests(t, wait) \/ Unavailable(t, wait))
           \/ FetchFailed(t) \/ (\E body \in Body : Unreadable(t, body))
           \/ Finish(t) \/ RunThrows(t)
    PROVE  UNCHANGED <<items, validators, lastOk, okRuns, lastRun, pending, overtaken>>
<1>1. CASE ReadRow(t) \/ Refuse(t) \/ Begin(t)
  BY <1>1 DEF ReadRow, Refuse, Begin, rows, observers
<1>2. CASE CredentialMissing(t) \/ RobotsDenied(t) \/ ReadValidators(t) \/ Request(t)
  BY <1>2 DEF CredentialMissing, RobotsDenied, ReadValidators, Request, rows, observers
<1>3. CASE \E wait \in Waits : TooManyRequests(t, wait) \/ Unavailable(t, wait)
  BY <1>3 DEF TooManyRequests, Unavailable, rows
<1>4. CASE FetchFailed(t) \/ (\E body \in Body : Unreadable(t, body))
  BY <1>4 DEF FetchFailed, Unreadable, rows, observers
<1>5. CASE Finish(t) \/ RunThrows(t)
  BY <1>5 DEF Finish, RunThrows, rows, observers
<1> QED
  BY <1>1, <1>2, <1>3, <1>4, <1>5

\* A 304, a retirement and a takedown touch live rows in place.
LEMMA LiveRowsOnly ==
    ASSUME IndInv,
           \/ \E t \in Triggers : NotModified(t) \/ Retire(t)
           \/ \E i \in Identities : Takedown(i)
    PROVE  ItemsKept /\ UNCHANGED <<validators, lastOk, okRuns, lastRun, pending, overtaken>>
<1>0. items \in [Identities -> ItemRow]
  BY DEF IndInv, TypeOK
<1>1. CASE \E t \in Triggers : NotModified(t)
  <2> PICK t \in Triggers : NotModified(t)
    BY <1>1
  <2>1. items' = SeenAgain(lastOk[run[t].k].id)
    BY DEF NotModified
  <2>2. ItemsKept
    BY <1>0, <2>1 DEF SeenAgain, ItemsKept, ItemRow
  <2> QED
    BY <2>2 DEF NotModified, observers
<1>2. CASE \E t \in Triggers : Retire(t)
  BY <1>0, <1>2 DEF Retire, ItemsKept, Unseen, ItemRow, observers
<1>3. CASE \E i \in Identities : Takedown(i)
  BY <1>0, <1>3 DEF Takedown, ItemsKept, ItemRow, observers
<1> QED
  BY <1>1, <1>2, <1>3

\* A good parse writes the run row, the items and the validators it will be
\* judged by together.
LEMMA OkStore ==
    ASSUME IndInv, StoreInv, NEW t \in Triggers, NEW body \in Body, NEW etag \in BOOLEAN,
           Ok(t, body, etag)
    PROVE  StoreInv'
<1> DEFINE k == run[t].k
           r == lastRun + 1
           kept == IF etag THEN [listed |-> body, settings |-> run[t].row.settings]
                           ELSE NoValidators
<1>0. /\ items \in [Identities -> ItemRow] /\ run[t] \in RunState
      /\ k \in Endpoint /\ lastRun \in Nat
      /\ validators \in [Endpoint -> Validator \cup {NoValidators}]
      /\ lastOk \in [Endpoint -> OkRow]
  BY DEF Ok, IndInv, TypeOK, IndexInRange, RunState, Endpoint
<1>6. /\ lastRun' = r /\ pending' = pending
      /\ overtaken' = IF pending.step = "counted" THEN overtaken \cup {r} ELSE overtaken
  BY DEF Ok
<1>1. /\ items' = Ingested(body, r) /\ okRuns' = okRuns \cup {r}
      /\ lastOk' = [lastOk EXCEPT ![k] = [id |-> r, listed |-> body]]
      /\ validators' = [validators EXCEPT ![k] = kept]
  BY DEF Ok
<1>2. kept # NoValidators => kept.listed = body
  OBVIOUS
<1>3. \A i \in Identities :
        /\ i \in body => items'[i].state # "absent"
        /\ items[i].state # "absent" => items'[i].state # "absent"
        /\ items'[i].state # "absent" =>
              items'[i].run = r \/ (items[i].state # "absent" /\ items'[i].run = items[i].run)
  BY <1>0, <1>1 DEF Ingested, ItemRow
<1>4. ProvenanceUnlessOvertaken'
  BY <1>1, <1>3, <1>6 DEF StoreInv, ProvenanceUnlessOvertaken
<1>7. Overtaking'
  <2>1. r \notin pending.runs /\ okRuns' \subseteq 0..lastRun' /\ pending'.runs \subseteq 0..lastRun'
    BY <1>0, <1>1, <1>6 DEF StoreInv, Overtaking
  <2>2. CASE pending.step = "counted"
    BY <1>3, <1>6, <2>1, <2>2 DEF StoreInv, Overtaking
  <2>3. CASE pending.step # "counted"
    BY <1>3, <1>6, <2>1, <2>3 DEF StoreInv, Overtaking
  <2> QED
    BY <2>2, <2>3
<1>5. ASSUME NEW e \in Endpoint, validators'[e] # NoValidators
      PROVE  /\ lastOk'[e].id \in okRuns'
             /\ lastOk'[e].listed = validators'[e].listed
             /\ \A i \in validators'[e].listed : items'[i].state # "absent"
  <2>1. CASE e = k
    <3>1. validators'[e] = kept /\ lastOk'[e] = [id |-> r, listed |-> body]
      BY <1>0, <1>1, <2>1
    <3> HIDE DEF kept
    <3> QED
      BY <1>1, <1>2, <1>3, <1>5, <3>1 DEF Body
  <2>2. CASE e # k
    <3>1. validators'[e] = validators[e] /\ lastOk'[e] = lastOk[e]
      BY <1>0, <1>1, <2>2
    <3>2. validators[e].listed \subseteq Identities
      BY <1>0, <1>5, <3>1 DEF Validator, Body
    <3> QED
      BY <1>1, <1>3, <1>5, <3>1, <3>2 DEF StoreInv, ValidatorsBacked
  <2> QED
    BY <2>1, <2>2
<1> QED
  BY <1>4, <1>5, <1>7 DEF StoreInv, ValidatorsBacked

\* The statements of a DELETE: nothing is stored when the items are counted, the run rows that
\* it takes are older than every run to come, and what still names one of them was overtaken.
LEMMA DeleteStore ==
    ASSUME IndInv, StoreInv, DeleteCount \/ DeleteRuns \/ DeleteCommit
    PROVE  StoreInv'
<1>1. CASE DeleteCount
  <2>1. /\ \A i \in Identities : items[i].state = "absent"
        /\ pending' = [step |-> "counted", runs |-> {}]
        /\ UNCHANGED <<items, validators, lastOk, okRuns, lastRun, overtaken>>
    BY <1>1 DEF DeleteCount, Step, rows, observers
  <2> QED
    BY <2>1 DEF StoreInv, ValidatorsBacked, ProvenanceUnlessOvertaken, Overtaking
<1>2. CASE DeleteRuns
  <2>1. /\ pending.step = "counted" /\ pending' = [step |-> "deleting", runs |-> okRuns]
        /\ UNCHANGED <<items, validators, lastOk, okRuns, lastRun, overtaken>>
    BY <1>2 DEF DeleteRuns, Step, rows, observers
  <2> QED
    BY <2>1 DEF StoreInv, ValidatorsBacked, ProvenanceUnlessOvertaken, Overtaking
<1>3. CASE DeleteCommit
  <2>1. /\ pending.step = "deleting" /\ pending' = NoRequest
        /\ okRuns' = okRuns \ pending.runs
        /\ validators' = [e \in Endpoint |-> NoValidators]
        /\ UNCHANGED <<items, lastRun, overtaken>>
    BY <1>3 DEF DeleteCommit, observers
  <2>2. ProvenanceUnlessOvertaken'
    BY <2>1 DEF StoreInv, ProvenanceUnlessOvertaken, Overtaking
  <2>3. Overtaking'
    BY <2>1 DEF StoreInv, Overtaking, NoRequest
  <2>4. ValidatorsBacked'
    BY <2>1 DEF ValidatorsBacked
  <2> QED
    BY <2>2, <2>3, <2>4 DEF StoreInv
<1> QED
  BY <1>1, <1>2, <1>3

LEMMA NextStore == IndInv /\ StoreInv /\ [Next]_vars => StoreInv'
<1> SUFFICES ASSUME IndInv, StoreInv, [Next]_vars PROVE StoreInv'
  OBVIOUS
<1>1. ASSUME UNCHANGED <<items, validators, lastOk, okRuns, lastRun, overtaken>>, NoDelete
      PROVE  StoreInv'
  BY <1>1, StoreFrame DEF ItemsKept
<1>2. ASSUME NEW t \in Triggers, Caller(t)
      PROVE  StoreInv'
  <2>1. CASE NotModified(t) \/ Retire(t)
    BY <2>1, LiveRowsOnly, StoreFrame DEF NoDelete
  <2>2. CASE \E body \in Body, etag \in BOOLEAN : Ok(t, body, etag)
    BY <2>2, OkStore
  <2>3. CASE ~(NotModified(t) \/ Retire(t)) /\ ~(\E body \in Body, etag \in BOOLEAN : Ok(t, body, etag))
    BY <1>1, <1>2, <2>3, StoreUntouched DEF Caller, RunStep, EndpointStep, NoDelete
  <2> QED
    BY <2>1, <2>2, <2>3
<1>3. CASE Operator
  <2>1. CASE PatchEnabled \/ RequestFails
    BY <1>1, <2>1 DEF PatchEnabled, RequestFails, NoDelete, NoRequest, rows, observers
  <2>2. CASE \E s \in Settings : PatchEndpoints(s) \/ CreateSource(s)
    BY <1>1, <2>2 DEF PatchEndpoints, CreateSource, Step, NoDelete, observers
  <2>3. CASE ResetValidators
    <3>1. /\ validators' = [e \in Endpoint |-> NoValidators]
          /\ UNCHANGED <<items, okRuns, lastRun, overtaken>> /\ pending' = NoRequest
      BY <2>3 DEF ResetValidators, observers
    <3> QED
      BY <3>1 DEF StoreInv, ValidatorsBacked, ProvenanceUnlessOvertaken, Overtaking, NoRequest
  <2>4. CASE DeleteCount \/ DeleteRuns \/ DeleteCommit
    BY <2>4, DeleteStore
  <2>5. CASE \E i \in Identities : Takedown(i)
    BY <2>5, LiveRowsOnly, StoreFrame DEF NoDelete
  <2> QED
    BY <1>3, <2>1, <2>2, <2>3, <2>4, <2>5 DEF Operator, Statement
<1>4. CASE Restart \/ Tick \/ UNCHANGED vars
  BY <1>1, <1>4 DEF Restart, Tick, vars, rows, observers, NoDelete, NoRequest
<1> QED
  BY <1>2, <1>3, <1>4 DEF Next

LEMMA StoreAlways == Spec => []StoreInv
<1>1. Init => StoreInv
  BY DEF Init, NoItem, NoRequest, StoreInv, ValidatorsBacked, ProvenanceUnlessOvertaken, Overtaking
<1> QED
  BY <1>1, InitType, NextType, NextStore, PTL DEF Spec

\* Whatever interleaves - other callers, new settings, a delete while a run is
\* in flight, restarts - a stored ETag always names the body of the endpoint's
\* newest ok run, and everything that body listed is in the store
\* (ingest.js:16-18, 220-233).
THEOREM NotModifiedIsSafe == Spec => []ValidatorsBacked
<1>1. StoreInv => ValidatorsBacked
  BY DEF StoreInv
<1> QED
  BY <1>1, StoreAlways, PTL

\* Every item's last_fetch_run_id names an ok run row that exists, unless that run was stored
\* after a DELETE of the source had counted the items and before it took the run rows: no other
\* interleaving of runs, PATCHes and DELETEs loses the provenance of an item
\* (api/sources.js:112-119, registry.js:345-353).
THEOREM ProvenanceKept == Spec => []ProvenanceUnlessOvertaken
<1>1. StoreInv => ProvenanceUnlessOvertaken
  BY DEF StoreInv
<1> QED
  BY <1>1, StoreAlways, PTL

------------------------------------------------------------------------------
(* Removal is sticky *)

StaysRemoved == \A i \in Identities : items[i].state = "removed" => items'[i].state = "removed"

LEMMA NextSticky == IndInv /\ [Next]_vars => StaysRemoved
<1> SUFFICES ASSUME IndInv, [Next]_vars PROVE StaysRemoved
  OBVIOUS
<1>0. items \in [Identities -> ItemRow]
  BY DEF IndInv, TypeOK
<1>1. ASSUME items' = items
      PROVE  StaysRemoved
  BY <1>1 DEF StaysRemoved
<1>2. ASSUME NEW t \in Triggers, Caller(t)
      PROVE  StaysRemoved
  <2>1. CASE NotModified(t)
    <3>1. items' = SeenAgain(lastOk[run[t].k].id)
      BY <2>1 DEF NotModified
    <3> QED
      BY <1>0, <3>1 DEF SeenAgain, StaysRemoved, ItemRow
  <2>2. CASE Retire(t)
    BY <1>0, <2>2 DEF Retire, Unseen, StaysRemoved, ItemRow
  <2>3. CASE \E body \in Body, etag \in BOOLEAN : Ok(t, body, etag)
    <3>1. PICK body \in Body, etag \in BOOLEAN : Ok(t, body, etag)
      BY <2>3
    <3>2. items' = Ingested(body, lastRun + 1)
      BY <3>1 DEF Ok
    <3> QED
      BY <1>0, <3>2 DEF Ingested, StaysRemoved, ItemRow
  <2>4. CASE ~(NotModified(t) \/ Retire(t)) /\ ~(\E body \in Body, etag \in BOOLEAN : Ok(t, body, etag))
    BY <1>1, <1>2, <2>4, StoreUntouched DEF Caller, RunStep, EndpointStep
  <2> QED
    BY <2>1, <2>2, <2>3, <2>4
<1>3. CASE Operator
  <2>1. CASE \E i \in Identities : Takedown(i)
    BY <1>0, <2>1 DEF Takedown, StaysRemoved, ItemRow
  <2>2. CASE PatchEnabled \/ \E s \in Settings : PatchEndpoints(s) \/ CreateSource(s)
    BY <1>1, <2>2 DEF PatchEnabled, PatchEndpoints, CreateSource
  <2>3. CASE DeleteCount \/ Statement \/ RequestFails
    BY <1>1, <2>3 DEF DeleteCount, Statement, ResetValidators, DeleteRuns, DeleteCommit, RequestFails, rows
  <2> QED
    BY <1>3, <2>1, <2>2, <2>3 DEF Operator
<1>4. CASE Restart \/ Tick \/ UNCHANGED vars
  BY <1>1, <1>4 DEF Restart, Tick, vars, rows
<1> QED
  BY <1>2, <1>3, <1>4 DEF Next

\* No step of a run, an operator or a restart brings a removed item back
\* (items.js:10-11).
THEOREM RemovalIsSticky == Spec => RemovalSticky
<1>1. IndInv /\ [Next]_vars => [\A i \in Identities : items[i].state = "removed" => items'[i].state = "removed"]_vars
  BY NextSticky DEF StaysRemoved
<1> QED
  BY <1>1, InitType, NextType, PTL DEF Spec, RemovalSticky

------------------------------------------------------------------------------
(* What a step does to the run it belongs to *)

LEMMA Concluded ==
    ASSUME IndInv, NEW t \in Triggers, NEW out \in OutcomeRow, Conclude(t, out)
    PROVE  /\ \A u \in Triggers : u # t => run'[u] = run[u]
           /\ run'[t].pc = IF out.stop \/ run[t].k = NEndpoints THEN "retire" ELSE "endpoint"
           /\ run'[t].k = run[t].k + 1
           /\ run'[t].row = run[t].row
           /\ run'[t].began = run[t].began
           /\ run'[t].notBefore = Larger(run[t].notBefore, out.notBefore)
           /\ run'[t].anyFailure = (run[t].anyFailure \/ out.failed)
           /\ run'[t].allAnswered = (run[t].allAnswered /\ out.success)
<1>1. run' = [run EXCEPT ![t] = Folded(run[t], out)] /\ run \in [Triggers -> RunState]
  BY DEF Conclude, IndInv, TypeOK
<1>2. run'[t] = Folded(run[t], out) /\ \A u \in Triggers : u # t => run'[u] = run[u]
  BY <1>1
<1> QED
  BY <1>2 DEF Folded

\* The steps of a run that ask no endpoint leave its place in the list as it is.
LEMMA RunMoves ==
    ASSUME IndInv, NEW t \in Triggers,
           \/ ReadRow(t) \/ Refuse(t) \/ Finish(t) \/ RunThrows(t)
           \/ ReadValidators(t) \/ Request(t) \/ Retire(t)
    PROVE  /\ clock' = clock /\ lastOk' = lastOk /\ quiet' = quiet
           /\ \A u \in Triggers : u # t => run'[u] = run[u]
           /\ Active(t)' =>
                 /\ Active(t)
                 /\ run'[t].k = run[t].k /\ run'[t].began = run[t].began /\ run'[t].row = run[t].row
                 /\ run'[t].notBefore = run[t].notBefore /\ run'[t].allAnswered = run[t].allAnswered
                 /\ run'[t].pc # "retire"
<1>1. run \in [Triggers -> RunState]
  BY DEF IndInv, TypeOK
<1>2. CASE ReadRow(t) \/ ReadValidators(t) \/ Request(t) \/ Retire(t)
  <2>1. /\ clock' = clock /\ lastOk' = lastOk /\ quiet' = quiet
        /\ \A u \in Triggers : u # t => run'[u] = run[u]
    BY <1>1, <1>2 DEF ReadRow, ReadValidators, Request, Retire, rows, observers
  <2>2. CASE ReadRow(t)
    BY <1>1, <2>1, <2>2 DEF ReadRow, Active, RunState
  <2>3. CASE ReadValidators(t)
    BY <1>1, <2>1, <2>3 DEF ReadValidators, Active, RunState
  <2>4. CASE Request(t)
    BY <1>1, <2>1, <2>4 DEF Request, Active, RunState
  <2>5. CASE Retire(t)
    BY <1>1, <2>1, <2>5 DEF Retire, Active, RunState
  <2> QED
    BY <1>2, <2>2, <2>3, <2>4, <2>5
<1>3. CASE Refuse(t) \/ Finish(t) \/ RunThrows(t)
  BY <1>1, <1>3, IdleType DEF Refuse, Finish, RunThrows, GoIdle, Active, rows, observers
<1> QED
  BY <1>2, <1>3

\* A run that reads validators, sends its request or retires is past its gate and stays so.
LEMMA QuietSteps ==
    ASSUME NEW t \in Triggers, run[t] \in RunState, run \in [Triggers -> RunState],
           ReadValidators(t) \/ Request(t) \/ Retire(t)
    PROVE  run[t].pc \notin {"idle", "gate"} /\ run'[t].pc \notin {"idle", "gate"}
<1>1. CASE ReadValidators(t)
  <2>1. run[t].pc = "endpoint" /\ run'[t].pc = "request"
    BY <1>1 DEF ReadValidators, RunState
  <2> QED
    BY <2>1
<1>2. CASE Request(t)
  <2>1. run[t].pc = "request" /\ run'[t].pc = "await"
    BY <1>2 DEF Request, RunState
  <2> QED
    BY <2>1
<1>3. CASE Retire(t)
  <2>1. run[t].pc = "retire" /\ run'[t].pc = "finish"
    BY <1>3 DEF Retire, RunState
  <2> QED
    BY <2>1
<1> QED
  BY <1>1, <1>2, <1>3

LEMMA BeginMoves ==
    ASSUME IndInv, NEW t \in Triggers, Begin(t)
    PROVE  /\ UNCHANGED <<clock, lastOk, quiet, src, streak, items>>
           /\ \A u \in Triggers : u # t => run'[u] = run[u]
           /\ run'[t].pc = "endpoint" /\ run'[t].k = 1 /\ run'[t].began = clock
           /\ run'[t].row.failures = run[t].row.failures
<1>1. run \in [Triggers -> RunState] /\ run[t].k = 1
  BY DEF IndInv, TypeOK, IndexInRange, Begin
<1>2. UNCHANGED <<clock, lastOk, quiet, src, streak, items>>
  BY DEF Begin, rows, observers
<1> DEFINE spent == [run[t].row EXCEPT !.until = 0]
<1>3. spent.failures = run[t].row.failures
  BY <1>1 DEF RunState, Snapshot
<1>4. run' = [run EXCEPT ![t] = [run[t] EXCEPT !.pc = "endpoint", !.began = clock, !.row = spent]]
  BY DEF Begin
<1> HIDE DEF spent
<1>5. run'[t] = [run[t] EXCEPT !.pc = "endpoint", !.began = clock, !.row = spent]
      /\ \A u \in Triggers : u # t => run'[u] = run[u]
  BY <1>1, <1>4
<1> QED
  BY <1>1, <1>2, <1>3, <1>5 DEF RunState

\* An endpoint's answer, whatever it is, concludes it with one outcome.
Concludes(t, out) ==
    /\ run[t].pc \in {"endpoint", "await"}
    /\ Conclude(t, out)
    /\ UNCHANGED <<clock, src, streak>>
    /\ \A e \in Endpoint :
          \/ quiet'[e] = quiet[e]
          \/ e = run[t].k /\ quiet'[e] = out.notBefore
    /\ \/ ~out.success /\ UNCHANGED <<items, lastOk>>
       \/ out = Answered /\ (NotModified(t) \/ \E body \in Body, etag \in BOOLEAN : Ok(t, body, etag))

LEMMA EndpointOutcome ==
    ASSUME IndInv, NEW t \in Triggers, EndpointStep(t), ~ ReadValidators(t), ~ Request(t)
    PROVE  \E out \in OutcomeRow : Concludes(t, out)
<1>1. quiet \in [Endpoint -> Nat] /\ clock \in Nat
  BY DEF IndInv, TypeOK
<1>2. Answered \in OutcomeRow /\ Answered.success
  BY OutcomeType DEF Answered, Outcome
<1>3. CASE CredentialMissing(t)
  <2> DEFINE out == Outcome(FALSE, FALSE, 0, FALSE)
  <2>1. out \in OutcomeRow /\ ~ out.success
    BY OutcomeType DEF Outcome
  <2>2. Concludes(t, out)
    BY <1>3, <2>1 DEF CredentialMissing, Concludes, rows, observers
  <2> QED
    BY <2>1, <2>2
<1>4. CASE RobotsDenied(t) \/ FetchFailed(t) \/ \E body \in Body : Unreadable(t, body)
  <2>1. Failed(0) \in OutcomeRow /\ ~ Failed(0).success
    BY OutcomeType DEF Outcome, Failed
  <2>2. Concludes(t, Failed(0))
    BY <1>4, <2>1 DEF RobotsDenied, FetchFailed, Unreadable, Concludes, rows, observers
  <2> QED
    BY <2>1, <2>2
<1>5. ASSUME NEW wait \in Waits, TooManyRequests(t, wait)
      PROVE  \E out \in OutcomeRow : Concludes(t, out)
  <2> DEFINE out == Outcome(TRUE, FALSE, clock + wait, TRUE)
  <2>0. clock + wait \in Nat
    BY <1>1, ConstantsAssumption
  <2>1. out \in OutcomeRow /\ ~ out.success /\ out.notBefore = clock + wait
    BY <2>0, OutcomeType DEF Outcome
  <2>2. Concludes(t, out)
    BY <1>1, <1>5, <2>1 DEF TooManyRequests, Concludes, rows
  <2> QED
    BY <2>1, <2>2
<1>6. ASSUME NEW wait \in Waits, Unavailable(t, wait)
      PROVE  \E out \in OutcomeRow : Concludes(t, out)
  <2> DEFINE out == Failed(clock + wait)
  <2>0. clock + wait \in Nat
    BY <1>1, ConstantsAssumption
  <2>1. out \in OutcomeRow /\ ~ out.success /\ out.notBefore = clock + wait
    BY <2>0, OutcomeType DEF Outcome, Failed
  <2>2. Concludes(t, out)
    BY <1>1, <1>6, <2>1 DEF Unavailable, Concludes, rows
  <2> QED
    BY <2>1, <2>2
<1>7. CASE NotModified(t)
  BY <1>2, <1>7 DEF NotModified, Concludes, observers
<1>8. CASE \E body \in Body, etag \in BOOLEAN : Ok(t, body, etag)
  <2>1. PICK body \in Body, etag \in BOOLEAN : Ok(t, body, etag)
    BY <1>8
  <2>2. Concludes(t, Answered)
    BY <2>1 DEF Ok, Concludes, observers
  <2> QED
    BY <1>2, <2>2
<1> QED
  BY <1>3, <1>4, <1>5, <1>6, <1>7, <1>8 DEF EndpointStep

------------------------------------------------------------------------------
(* Retirement takes what no endpoint lists *)

\* No item is listed by two endpoints: otherwise an item names the run of the endpoint that
\* listed it last, and a 304 of the other does not see it again.
ListedOnce == \A e, f \in Endpoint : e # f => Lists[e] \cap Lists[f] = {}

\* What the newest good parse of an endpoint listed names that parse, unless it was removed.
ListingKept ==
    \A e \in Endpoint : \A i \in lastOk[e].listed :
        /\ i \in Lists[e]
        /\ lastOk[e].id # 0
        /\ \/ items[i].state = "removed"
           \/ items[i].state = "live" /\ items[i].run = lastOk[e].id

\* A run whose endpoints answered so far has seen all that these endpoints list.
SeenInRun ==
    \A t \in Triggers : Active(t) =>
        /\ run[t].began <= clock
        /\ run[t].allAnswered /\ run[t].pc = "retire" => run[t].k = NEndpoints + 1
        /\ run[t].allAnswered /\ RetireAfter > 0 =>
              \A e \in Endpoint : e < run[t].k =>
                  \A i \in lastOk[e].listed : items[i].state = "live" => items[i].seenAt >= run[t].began

RetireInv == ListingKept /\ SeenInRun

LEMMA Listed ==
    ASSUME IndInv, NEW e \in Endpoint
    PROVE  lastOk[e] \in OkRow /\ lastOk[e].listed \subseteq Identities
BY DEF IndInv, TypeOK, OkRow, Body

\* Steps that store no parse: every row keeps its run, and a live row was live before.
RowsStay ==
    /\ \A e \in Endpoint : lastOk'[e] = lastOk[e] \/ lastOk'[e].listed = {}
    /\ \A i \in Identities :
          /\ items'[i].run = items[i].run
          /\ items[i].state = "removed" => items'[i].state = "removed"
          /\ items[i].state = "live" => items'[i].state \in {"live", "removed"}
          /\ items'[i].state = "live" =>
                items[i].state = "live" /\ (items'[i].seenAt = items[i].seenAt \/ items'[i].seenAt = clock)

LEMMA ListingStays ==
    ASSUME IndInv, ListingKept, RowsStay
    PROVE  ListingKept'
<1> SUFFICES ASSUME NEW e \in Endpoint, NEW i \in lastOk'[e].listed
             PROVE  /\ i \in Lists[e]
                    /\ lastOk'[e].id # 0
                    /\ \/ items'[i].state = "removed"
                       \/ items'[i].state = "live" /\ items'[i].run = lastOk'[e].id
  BY DEF ListingKept
<1>1. lastOk'[e] = lastOk[e]
  BY DEF RowsStay
<1>2. i \in Identities
  BY <1>1, Listed
<1> QED
  BY <1>1, <1>2 DEF RowsStay, ListingKept

\* What a run has seen stays seen, as long as the clock stands.
LEMMA SeenStays ==
    ASSUME IndInv, SeenInRun, RowsStay, clock' = clock, NEW t \in Triggers, Active(t),
           run'[t].began = run[t].began, run'[t].k = run[t].k, run'[t].allAnswered = run[t].allAnswered,
           run'[t].pc = "retire" => run[t].pc = "retire"
    PROVE  /\ run'[t].began <= clock'
           /\ run'[t].allAnswered /\ run'[t].pc = "retire" => run'[t].k = NEndpoints + 1
           /\ run'[t].allAnswered /\ RetireAfter > 0 =>
                 \A e \in Endpoint : e < run'[t].k =>
                     \A i \in lastOk'[e].listed : items'[i].state = "live" => items'[i].seenAt >= run'[t].began
<1>1. clock \in Nat /\ run[t].began \in Nat
  BY DEF IndInv, TypeOK, RunState
<1>2. /\ run[t].began <= clock
      /\ run[t].allAnswered /\ run[t].pc = "retire" => run[t].k = NEndpoints + 1
  BY DEF SeenInRun
<1>3. ASSUME run[t].allAnswered, RetireAfter > 0, NEW e \in Endpoint, e < run[t].k,
             NEW i \in lastOk'[e].listed, items'[i].state = "live"
      PROVE  items'[i].seenAt >= run[t].began
  <2>1. lastOk'[e] = lastOk[e]
    BY DEF RowsStay
  <2>2. i \in Identities
    BY <2>1, Listed
  <2>3. items[i].state = "live" /\ (items'[i].seenAt = items[i].seenAt \/ items'[i].seenAt = clock)
    BY <1>3, <2>2 DEF RowsStay
  <2>4. items[i].seenAt >= run[t].began
    BY <1>3, <2>1, <2>3 DEF SeenInRun
  <2> QED
    BY <1>1, <1>2, <2>3, <2>4
<1> QED
  BY <1>1, <1>2, <1>3

\* The rows after a step that stores no parse.
LEMMA StepRows ==
    ASSUME IndInv, [Next]_vars, ~ \E t \in Triggers, body \in Body, etag \in BOOLEAN : Ok(t, body, etag)
    PROVE  RowsStay
<1>0. items \in [Identities -> ItemRow]
  BY DEF IndInv, TypeOK
<1>1. ASSUME items' = items, lastOk' = lastOk
      PROVE  RowsStay
  BY <1>0, <1>1 DEF RowsStay, ItemRow
<1>2. ASSUME NEW t \in Triggers, Caller(t)
      PROVE  RowsStay
  <2>1. CASE NotModified(t)
    <3>1. items' = SeenAgain(lastOk[run[t].k].id) /\ lastOk' = lastOk
      BY <2>1 DEF NotModified
    <3> QED
      BY <1>0, <3>1 DEF SeenAgain, RowsStay, ItemRow
  <2>2. CASE Retire(t)
    <3>1. lastOk' = lastOk
      BY <2>2 DEF Retire
    <3> QED
      BY <1>0, <2>2, <3>1 DEF Retire, Unseen, RowsStay, ItemRow
  <2>3. CASE ~ NotModified(t) /\ ~ Retire(t)
    BY <1>1, <1>2, <2>3, StoreUntouched DEF Caller, RunStep, EndpointStep
  <2> QED
    BY <2>1, <2>2, <2>3
<1>3. CASE Operator
  <2>1. CASE \E i \in Identities : Takedown(i)
    <3>1. lastOk' = lastOk
      BY <2>1 DEF Takedown
    <3> QED
      BY <1>0, <2>1, <3>1 DEF Takedown, RowsStay, ItemRow
  <2>2. CASE DeleteCommit
    <3>1. items' = items /\ \A e \in Endpoint : lastOk'[e] = lastOk[e] \/ lastOk'[e].listed = {}
      BY <2>2 DEF DeleteCommit, NoRun
    <3> QED
      BY <1>0, <3>1 DEF RowsStay, ItemRow
  <2>3. CASE PatchEnabled \/ \E s \in Settings : PatchEndpoints(s) \/ CreateSource(s)
    BY <1>1, <2>3 DEF PatchEnabled, PatchEndpoints, CreateSource
  <2>4. CASE DeleteCount \/ DeleteRuns \/ ResetValidators \/ RequestFails
    BY <1>1, <2>4 DEF DeleteCount, DeleteRuns, ResetValidators, RequestFails, rows
  <2> QED
    BY <1>3, <2>1, <2>2, <2>3, <2>4 DEF Operator, Statement
<1>4. CASE Restart \/ Tick \/ UNCHANGED vars
  BY <1>1, <1>4 DEF Restart, Tick, vars, rows
<1> QED
  BY <1>2, <1>3, <1>4 DEF Next

LEMMA OkListing ==
    ASSUME ListedOnce, IndInv, ListingKept, NEW t \in Triggers, NEW body \in Body, NEW etag \in BOOLEAN,
           Ok(t, body, etag)
    PROVE  /\ ListingKept'
           /\ lastOk'[run[t].k].listed = body
           /\ \A i \in body : items'[i].state = "live" => items'[i].seenAt = clock
           /\ \A e \in Endpoint : e # run[t].k =>
                 /\ lastOk'[e] = lastOk[e]
                 /\ \A i \in lastOk[e].listed : items'[i] = items[i]
<1> DEFINE k == run[t].k
           r == lastRun + 1
<1>0. /\ items \in [Identities -> ItemRow] /\ lastOk \in [Endpoint -> OkRow] /\ lastRun \in Nat
      /\ k \in Endpoint
  BY DEF Ok, IndInv, TypeOK, IndexInRange, RunState, Endpoint
<1>1. /\ items' = Ingested(body, r) /\ body \subseteq Lists[k]
      /\ lastOk' = [lastOk EXCEPT ![k] = [id |-> r, listed |-> body]]
  BY DEF Ok
<1> HIDE DEF k
<1>2. /\ lastOk'[k] = [id |-> r, listed |-> body]
      /\ \A e \in Endpoint : e # k => lastOk'[e] = lastOk[e]
  BY <1>0, <1>1
<1>3. ASSUME NEW i \in body
      PROVE  /\ items'[i].state = "removed" \/ (items'[i].state = "live" /\ items'[i].run = r)
             /\ items'[i].state = "live" => items'[i].seenAt = clock
  <2>1. i \in Identities
    BY DEF Body
  <2> QED
    BY <1>0, <1>1, <2>1 DEF Ingested, ItemRow
<1>4. ASSUME NEW e \in Endpoint, e # k, NEW i \in lastOk[e].listed
      PROVE  items'[i] = items[i]
  <2>1. i \in Identities /\ i \in Lists[e]
    BY Listed DEF ListingKept
  <2>2. i \notin body
    BY <1>0, <1>1, <1>4, <2>1 DEF ListedOnce
  <2> QED
    BY <1>1, <2>1, <2>2 DEF Ingested
<1>5. ASSUME NEW e \in Endpoint, NEW i \in lastOk'[e].listed
      PROVE  /\ i \in Lists[e]
             /\ lastOk'[e].id # 0
             /\ \/ items'[i].state = "removed"
                \/ items'[i].state = "live" /\ items'[i].run = lastOk'[e].id
  <2>1. CASE e = k
    BY <1>0, <1>1, <1>2, <1>3, <2>1
  <2>2. CASE e # k
    <3>1. lastOk'[e] = lastOk[e]
      BY <1>2, <2>2
    <3> QED
      BY <1>4, <2>2, <3>1 DEF ListingKept
  <2> QED
    BY <2>1, <2>2
<1>6. ListingKept'
  BY <1>5 DEF ListingKept
<1> QED
  BY <1>2, <1>3, <1>4, <1>6 DEF k

\* One endpoint has answered, or failed to.
LEMMA SeenAtEndpoint ==
    ASSUME ListedOnce, IndInv, SingleFlight, RetireInv, NEW t \in Triggers, NEW out \in OutcomeRow,
           [Next]_vars, Concludes(t, out)
    PROVE  SeenInRun'
<1> DEFINE k == run[t].k
           began == run[t].began
<1>1. /\ run[t] \in RunState /\ clock \in Nat /\ began \in Nat /\ clock' = clock
      /\ k \in Endpoint /\ k \in Nat /\ Active(t)
  BY ConstantsAssumption DEF IndInv, TypeOK, IndexInRange, RunState, Endpoint, Concludes, Active
<1>2. \A u \in Triggers : u # t => run'[u] = run[u] /\ ~ Active(u)
  BY <1>1, Concluded DEF Concludes, SingleFlight
<1>3. /\ run'[t].pc = IF out.stop \/ k = NEndpoints THEN "retire" ELSE "endpoint"
      /\ run'[t].k = k + 1 /\ run'[t].began = began
      /\ run'[t].allAnswered = (run[t].allAnswered /\ out.success)
  BY Concluded DEF Concludes
<1>4. began <= clock
  BY <1>1 DEF RetireInv, SeenInRun
<1>5. ASSUME run[t].allAnswered, out.success
      PROVE  /\ run'[t].pc = "retire" => run'[t].k = NEndpoints + 1
             /\ RetireAfter > 0 =>
                   \A e \in Endpoint : e < run'[t].k =>
                       \A i \in lastOk'[e].listed : items'[i].state = "live" => items'[i].seenAt >= began
  <2>1. ~ out.stop /\ (NotModified(t) \/ \E body \in Body, etag \in BOOLEAN : Ok(t, body, etag))
    BY <1>5 DEF Concludes, Answered, Outcome
  <2>2. ASSUME RetireAfter > 0, NEW e \in Endpoint, e < run'[t].k, NEW i \in lastOk'[e].listed, items'[i].state = "live"
        PROVE  items'[i].seenAt >= began
    <3>1. e = k \/ e < k
      BY <1>1, <1>3, <2>2 DEF Endpoint
    <3>2. CASE NotModified(t)
      <4>1. lastOk' = lastOk /\ items' = SeenAgain(lastOk[k].id)
        BY <3>2 DEF NotModified
      <4>2. i \in Identities /\ items \in [Identities -> ItemRow]
        BY <4>1, Listed DEF IndInv, TypeOK
      <4>3. /\ items[i].state = "live" /\ items[i].run = lastOk[e].id /\ lastOk[e].id # 0
            /\ items'[i].seenAt = clock \/ items'[i].seenAt = items[i].seenAt
            /\ e = k => items'[i].seenAt = clock
        BY <2>2, <4>1, <4>2 DEF SeenAgain, ItemRow, RetireInv, ListingKept
      <4>4. e < k => items[i].seenAt >= began
        BY <1>1, <1>5, <2>2, <4>1, <4>3 DEF RetireInv, SeenInRun
      <4> QED
        BY <1>1, <1>4, <3>1, <4>3, <4>4
    <3>3. CASE \E body \in Body, etag \in BOOLEAN : Ok(t, body, etag)
      <4>1. PICK body \in Body, etag \in BOOLEAN : Ok(t, body, etag)
        BY <3>3
      <4>2. /\ lastOk'[k].listed = body
            /\ \A j \in body : items'[j].state = "live" => items'[j].seenAt = clock
            /\ \A f \in Endpoint : f # k =>
                  lastOk'[f] = lastOk[f] /\ \A j \in lastOk[f].listed : items'[j] = items[j]
        BY <4>1, OkListing DEF RetireInv
      <4>3. CASE e = k
        BY <1>4, <2>2, <4>2, <4>3
      <4>4. CASE e # k
        <5>1. e < k /\ i \in lastOk[e].listed /\ items'[i] = items[i]
          BY <2>2, <3>1, <4>2, <4>4
        <5> QED
          BY <1>1, <1>5, <2>2, <5>1 DEF RetireInv, SeenInRun
      <4> QED
        BY <4>3, <4>4
    <3> QED
      BY <2>1, <3>2, <3>3
  <2>3. run'[t].pc = "retire" => run'[t].k = NEndpoints + 1
    BY <1>3, <2>1
  <2> QED
    BY <2>2, <2>3
<1>6. ASSUME NEW u \in Triggers, Active(u)'
      PROVE  u = t
  BY <1>2, <1>6 DEF Active
<1> QED
  BY <1>1, <1>3, <1>4, <1>5, <1>6 DEF SeenInRun

LEMMA NextRetire == ListedOnce /\ IndInv /\ SingleFlight /\ RetireInv /\ [Next]_vars => RetireInv'
<1> SUFFICES ASSUME ListedOnce, IndInv, SingleFlight, RetireInv, [Next]_vars
             PROVE  RetireInv'
  OBVIOUS
<1>1. ListingKept'
  <2>1. CASE \E t \in Triggers, body \in Body, etag \in BOOLEAN : Ok(t, body, etag)
    BY <2>1, OkListing DEF RetireInv
  <2>2. CASE ~ \E t \in Triggers, body \in Body, etag \in BOOLEAN : Ok(t, body, etag)
    BY <2>2, StepRows, ListingStays DEF RetireInv
  <2> QED
    BY <2>1, <2>2
<1>2. ASSUME NEW t \in Triggers,
             \/ ReadRow(t) \/ Refuse(t) \/ Finish(t) \/ RunThrows(t)
             \/ ReadValidators(t) \/ Request(t) \/ Retire(t)
      PROVE  SeenInRun'
  <2>1. RowsStay
    <3>1. ~ \E u \in Triggers, body \in Body, etag \in BOOLEAN : Ok(u, body, etag)
      <4> SUFFICES ASSUME NEW u \in Triggers, NEW body \in Body, NEW etag \in BOOLEAN, Ok(u, body, etag)
                   PROVE  FALSE
        OBVIOUS
      <4>1. lastRun' # lastRun /\ lastRun \in Nat
        BY DEF Ok, IndInv, TypeOK
      <4> QED
        BY <1>2, <4>1 DEF ReadRow, Refuse, Finish, RunThrows, ReadValidators, Request, Retire, rows
    <3> QED
      BY <3>1, StepRows
  <2>2. /\ clock' = clock
        /\ \A u \in Triggers : u # t => run'[u] = run[u]
        /\ Active(t)' => /\ Active(t) /\ run'[t].k = run[t].k /\ run'[t].began = run[t].began
                         /\ run'[t].allAnswered = run[t].allAnswered /\ run'[t].pc # "retire"
    BY <1>2, RunMoves
  <2>3. ASSUME NEW u \in Triggers, Active(u)'
        PROVE  /\ Active(u) /\ run'[u].k = run[u].k /\ run'[u].began = run[u].began
               /\ run'[u].allAnswered = run[u].allAnswered
               /\ run'[u].pc = "retire" => run[u].pc = "retire"
    BY <2>2, <2>3 DEF Active
  <2> QED
    BY <2>1, <2>2, <2>3, SeenStays DEF RetireInv, SeenInRun
<1>3. ASSUME NEW t \in Triggers, Begin(t)
      PROVE  SeenInRun'
  <2>1. /\ clock' = clock /\ run'[t].pc = "endpoint" /\ run'[t].k = 1 /\ run'[t].began = clock
    BY <1>3, BeginMoves
  <2>2. \A u \in Triggers : Active(u)' => u = t
    <3>1. Active(t)'
      BY <2>1 DEF Active
    <3> QED
      BY <3>1, NextFlight DEF SingleFlight
  <2> QED
    BY <2>1, <2>2, ConstantsAssumption DEF SeenInRun, Endpoint, IndInv, TypeOK
<1>4. ASSUME NEW t \in Triggers, EndpointStep(t), ~ ReadValidators(t), ~ Request(t)
      PROVE  SeenInRun'
  <2>1. PICK out \in OutcomeRow : Concludes(t, out)
    BY <1>4, EndpointOutcome
  <2> QED
    BY <2>1, SeenAtEndpoint
<1>5. ASSUME Operator \/ UNCHANGED vars
      PROVE  SeenInRun'
  <2>1. clock' = clock /\ run' = run
    BY <1>5, OperatorKeeps DEF vars
  <2>2. ~ \E t \in Triggers, body \in Body, etag \in BOOLEAN : Ok(t, body, etag)
    <3> SUFFICES ASSUME NEW u \in Triggers, NEW body \in Body, NEW etag \in BOOLEAN, Ok(u, body, etag)
                 PROVE  FALSE
      OBVIOUS
    <3>1. lastRun' # lastRun /\ lastRun \in Nat
      BY DEF Ok, IndInv, TypeOK
    <3> QED
      BY <1>5, <3>1, OperatorKeeps DEF vars
  <2>3. RowsStay
    BY <2>2, StepRows
  <2>4. ASSUME NEW u \in Triggers, Active(u)'
        PROVE  /\ Active(u) /\ run'[u].k = run[u].k /\ run'[u].began = run[u].began
               /\ run'[u].allAnswered = run[u].allAnswered
               /\ run'[u].pc = "retire" => run[u].pc = "retire"
    BY <2>1, <2>4 DEF Active
  <2>5. clock' = clock
    BY <2>1
  <2> QED
    BY <2>5, <2>3, <2>4, SeenStays DEF RetireInv, SeenInRun
<1>6. ASSUME Restart
      PROVE  SeenInRun'
  <2>1. \A u \in Triggers : run'[u].pc = "idle"
    BY <1>6, IdleType DEF Restart, AllIdle
  <2>2. \A u \in Triggers : ~ Active(u)'
    BY <2>1 DEF Active
  <2> QED
    BY <2>2 DEF SeenInRun
<1>7. ASSUME Tick
      PROVE  SeenInRun'
  <2>1. /\ clock' = clock + 1 /\ clock \in Nat /\ UNCHANGED <<run, items, lastOk>>
        /\ \A t \in Triggers : run[t].began \in Nat
    BY <1>7 DEF Tick, rows, IndInv, TypeOK, RunState
  <2>2. \A t \in Triggers : Active(t) => run[t].began <= clock'
    BY <2>1 DEF RetireInv, SeenInRun
  <2> QED
    <3> SUFFICES ASSUME NEW t \in Triggers, Active(t)
                 PROVE  /\ run[t].began <= clock'
                        /\ run[t].allAnswered /\ run[t].pc = "retire" => run[t].k = NEndpoints + 1
                        /\ run[t].allAnswered /\ RetireAfter > 0 =>
                              \A e \in Endpoint : e < run[t].k =>
                                  \A i \in lastOk[e].listed : items[i].state = "live" => items[i].seenAt >= run[t].began
      <4>1. \A u \in Triggers : Active(u)' => Active(u)
        BY <2>1 DEF Active
      <4> QED
        BY <2>1, <4>1 DEF SeenInRun
    <3> QED
      BY <2>2 DEF RetireInv, SeenInRun
<1>8. ASSUME NEW t \in Triggers, Caller(t)
      PROVE  SeenInRun'
  <2>1. CASE EndpointStep(t) /\ ~ ReadValidators(t) /\ ~ Request(t)
    BY <1>4, <2>1
  <2>2. CASE Begin(t)
    BY <1>3, <2>2
  <2>3. CASE \/ ReadRow(t) \/ Refuse(t) \/ Finish(t) \/ RunThrows(t)
             \/ ReadValidators(t) \/ Request(t) \/ Retire(t)
    BY <1>2, <2>3
  <2> QED
    BY <1>8, <2>1, <2>2, <2>3 DEF Caller, RunStep
<1>9. SeenInRun'
  BY <1>5, <1>6, <1>7, <1>8 DEF Next
<1> QED
  BY <1>1, <1>9 DEF RetireInv

\* Where no item is listed by two endpoints, a run that ends within retire_after_sec of its
\* beginning retires nothing that the newest good parse of an endpoint listed, whether this run
\* read it or had it confirmed by a 304, and whatever operators, other callers, thrown errors
\* and restarts do meanwhile (ingest.js:20-22; items.js:226-257).
THEOREM OnlyUnlistedRetires ==
    ASSUME ListedOnce
    PROVE  Spec => PromptRunsRetireOnlyUnlisted
<1>1. Init => SingleFlight /\ RetireInv
  BY IdleType DEF Init, AllIdle, SingleFlight, Active, RetireInv, ListingKept, SeenInRun, NoRun
<1>2. IndInv /\ SingleFlight /\ RetireInv /\ [Next]_vars => RetireInv'
  BY NextRetire
<1>3. IndInv /\ RetireInv =>
        [\A t \in Triggers : Retire(t) /\ clock - run[t].began <= RetireAfter =>
            \A i \in Identities : items[i].state = "live" /\ items'[i].state = "removed" =>
                \A e \in Endpoint : i \notin lastOk[e].listed]_vars
  <2> SUFFICES ASSUME IndInv, RetireInv, NEW t \in Triggers, Retire(t), clock - run[t].began <= RetireAfter,
                      NEW i \in Identities, items[i].state = "live", items'[i].state = "removed",
                      NEW e \in Endpoint, i \in lastOk[e].listed
               PROVE  FALSE
    OBVIOUS
  <2>1. /\ items \in [Identities -> ItemRow] /\ clock \in Nat /\ run[t].began \in Nat /\ items[i].seenAt \in Nat
    BY DEF IndInv, TypeOK, RunState, ItemRow
  <2>2. RetireAfter > 0 /\ run[t].allAnswered /\ i \in Unseen
    <3> DEFINE retired == [j \in Identities |->
                              IF j \in Unseen THEN [items[j] EXCEPT !.state = "removed"] ELSE items[j]]
    <3>1. items' = IF RetireAfter > 0 /\ run[t].anySuccess /\ run[t].allAnswered /\ ~run[t].anyFailure
                   THEN retired ELSE items
      BY DEF Retire
    <3>2. items' # items
      OBVIOUS
    <3>3. RetireAfter > 0 /\ run[t].allAnswered /\ items' = retired
      BY <3>1, <3>2
    <3> QED
      BY <3>3
  <2>3. items[i].seenAt < clock - RetireAfter
    BY <2>2 DEF Unseen
  <2>4. Active(t) /\ run[t].pc = "retire"
    BY DEF Retire, Active
  <2>5. run[t].k = NEndpoints + 1
    BY <2>2, <2>4 DEF RetireInv, SeenInRun
  <2>6. items[i].seenAt >= run[t].began
    BY <2>2, <2>4, <2>5, ConstantsAssumption DEF RetireInv, SeenInRun, Endpoint
  <2> QED
    BY <2>1, <2>2, <2>3, <2>5, <2>6, ConstantsAssumption
<1> QED
  BY <1>1, <1>2, <1>3, InitType, NextType, NextFlight, PTL DEF Spec, PromptRunsRetireOnlyUnlisted

------------------------------------------------------------------------------
(* One caller: what the row that it read is still worth when it writes *)

\* run() reads the row before it passes the gate.  With a second caller the row may be that
\* of before the run in between, and neither theorem below holds: TLC shows how.

\* The count of the source, of the row that a run has read, and of the runs that ended.
CountInv ==
    /\ src.exists /\ pending.step \in {"none", "reset"}
    /\ src.failures = streak
    /\ \A t \in Triggers : run[t].pc # "idle" => run[t].row.failures = streak

\* Without DELETE only a PATCH can be in flight.
LEMMA NoDeletion ==
    ASSUME "delete" \notin Ops, [Next]_vars, pending.step \in {"none", "reset"}
    PROVE  pending'.step \in {"none", "reset"}
<1>1. ASSUME NEW t \in Triggers, Caller(t)
      PROVE  pending' = pending
  <2>1. CASE NotModified(t) \/ Retire(t)
    BY <2>1 DEF NotModified, Retire
  <2>2. CASE \E body \in Body, etag \in BOOLEAN : Ok(t, body, etag)
    BY <2>2 DEF Ok
  <2>3. CASE ~(NotModified(t) \/ Retire(t)) /\ ~(\E body \in Body, etag \in BOOLEAN : Ok(t, body, etag))
    BY <1>1, <2>3, StoreUntouched DEF Caller, RunStep, EndpointStep
  <2> QED
    BY <2>1, <2>2, <2>3
<1>2. ~ DeleteCount /\ ~ DeleteRuns /\ ~ DeleteCommit /\ ~ \E s \in Settings : CreateSource(s)
  BY DEF DeleteCount, DeleteRuns, DeleteCommit, CreateSource
<1>3. CASE Operator
  <2>1. CASE PatchEnabled \/ RequestFails \/ ResetValidators
    BY <2>1 DEF PatchEnabled, RequestFails, ResetValidators, NoRequest
  <2>2. CASE \E s \in Settings : PatchEndpoints(s)
    BY <2>2 DEF PatchEndpoints, Step
  <2>3. CASE \E i \in Identities : Takedown(i)
    BY <2>3 DEF Takedown
  <2> QED
    BY <1>2, <1>3, <2>1, <2>2, <2>3 DEF Operator, Statement
<1>4. CASE Restart \/ Tick \/ UNCHANGED vars
  BY <1>4 DEF Restart, Tick, vars, NoRequest
<1> QED
  BY <1>1, <1>3, <1>4 DEF Next

LEMMA NextCount ==
    ASSUME NEW only, Triggers = {only}, "delete" \notin Ops, IndInv, CountInv, [Next]_vars
    PROVE  CountInv'
<1> DEFINE r == run[only]
<1>1. /\ only \in Triggers /\ r \in RunState /\ src \in SourceRow
      /\ run \in [Triggers -> RunState] /\ streak \in Nat
  BY DEF IndInv, TypeOK
<1>2. src.exists /\ src.failures = streak /\ (r.pc # "idle" => r.row.failures = streak)
  BY <1>1 DEF CountInv
<1>a. pending'.step \in {"none", "reset"}
  BY NoDeletion DEF CountInv
<1> SUFFICES /\ src'.exists /\ src'.failures = streak'
             /\ run'[only].pc # "idle" => run'[only].row.failures = streak'
  BY <1>a DEF CountInv
<1>3. CASE ReadRow(only)
  <2> DEFINE row == [enabled |-> src.enabled, settings |-> src.settings,
                     failures |-> src.failures, until |-> Until(src)]
  <2>1. run'[only] = [r EXCEPT !.pc = "gate", !.row = row] /\ UNCHANGED <<src, streak>>
    BY <1>1, <1>3 DEF ReadRow, rows, observers
  <2>2. run'[only].row = row
    BY <1>1, <2>1 DEF RunState
  <2> QED
    BY <1>2, <2>1, <2>2
<1>4. CASE Refuse(only) \/ RunThrows(only)
  BY <1>1, <1>2, <1>4, IdleType DEF Refuse, RunThrows, GoIdle, rows, observers
<1>5. CASE Begin(only)
  <2>1. UNCHANGED <<src, streak>> /\ run'[only].row.failures = r.row.failures
    BY <1>1, <1>5, BeginMoves
  <2>2. r.pc # "idle"
    BY <1>5 DEF Begin
  <2> QED
    BY <1>2, <2>1, <2>2
<1>6. CASE ReadValidators(only) \/ Request(only) \/ Retire(only)
  <2>1. Active(only)' => run'[only].row = r.row
    BY <1>1, <1>6, RunMoves
  <2>2. run'[only].pc \notin {"idle", "gate"} /\ r.pc # "idle"
    BY <1>1, <1>6, QuietSteps
  <2>3. src'.exists /\ src'.failures = streak /\ streak' = streak
    BY <1>1, <1>2, <1>6 DEF ReadValidators, Request, Retire, SourceRow, rows, observers
  <2> QED
    BY <1>2, <2>1, <2>2, <2>3 DEF Active
<1>7. CASE EndpointStep(only) /\ ~ ReadValidators(only) /\ ~ Request(only)
  <2>1. PICK out \in OutcomeRow : Concludes(only, out)
    BY <1>1, <1>7, EndpointOutcome
  <2>2. run'[only].row = r.row
    BY <1>1, <2>1, Concluded DEF Concludes
  <2> QED
    BY <1>2, <2>1, <2>2 DEF Concludes
<1>8. CASE Finish(only)
  <2> DEFINE n == NewFailures(r)
             wait == IF r.anyFailure THEN Backoff(n) ELSE Poll
  <2>1. r.pc = "finish" /\ streak' = IF r.anyFailure THEN streak + 1 ELSE 0
    BY <1>8 DEF Finish
  <2>2. src' = [src EXCEPT !.failures = n, !.notBefore = r.notBefore, !.nextDue = clock + wait]
    BY <1>2, <1>8 DEF Finish
  <2>3. n = streak'
    BY <1>2, <2>1 DEF NewFailures
  <2>4. run'[only] = Idle
    BY <1>1, <1>8 DEF Finish, GoIdle
  <2> HIDE DEF n, wait
  <2> QED
    BY <1>1, <1>2, <2>2, <2>3, <2>4, IdleType DEF SourceRow
<1>9. CASE Operator
  <2>1. CASE PatchEnabled \/ \E s \in Settings : PatchEndpoints(s)
    BY <1>1, <1>2, <2>1 DEF PatchEnabled, PatchEndpoints, SourceRow, observers
  <2>2. CASE \E i \in Identities : Takedown(i)
    BY <1>2, <2>2 DEF Takedown, observers
  <2>3. ~ DeleteCount /\ ~ DeleteRuns /\ ~ DeleteCommit /\ ~ \E s \in Settings : CreateSource(s)
    BY DEF DeleteCount, DeleteRuns, DeleteCommit, CreateSource, CountInv
  <2>4. CASE ResetValidators \/ RequestFails
    BY <1>2, <2>4 DEF ResetValidators, RequestFails, rows, observers
  <2> QED
    BY <1>9, <2>1, <2>2, <2>3, <2>4 DEF Operator, Statement
<1>10. CASE Restart
  BY <1>1, <1>2, <1>10, IdleType DEF Restart, AllIdle, rows, observers
<1>11. CASE Tick \/ UNCHANGED vars
  BY <1>2, <1>11 DEF Tick, vars, rows, observers
<1>12. CASE Caller(only)
  BY <1>12, <1>3, <1>4, <1>5, <1>6, <1>7, <1>8 DEF Caller, RunStep
<1> QED
  BY <1>9, <1>10, <1>11, <1>12 DEF Next

\* With one caller, and a source that is not deleted, the stored count is that of the
\* failing runs since the last good one, across PATCHes, takedowns, thrown runs and restarts
\* (ingest.js:676-680).
THEOREM FailuresAreCounted ==
    ASSUME NEW only, Triggers = {only}, "delete" \notin Ops
    PROVE  Spec => []FailuresCounted
<1>1. Init => CountInv
  BY IdleType DEF Init, AllIdle, CountInv, NewSource, NoRequest
<1>2. IndInv /\ CountInv /\ [Next]_vars => CountInv'
  BY NextCount
<1>3. CountInv => FailuresCounted
  BY DEF CountInv, FailuresCounted
<1> QED
  BY <1>1, <1>2, <1>3, InitType, NextType, PTL DEF Spec

\* The wait an endpoint asked for is over, or a run that has been past the endpoint carries
\* it, or the row has it, and then also the row that the caller read.
Over(e) == quiet[e] <= clock
QuietInv ==
    /\ src.exists /\ pending.step \in {"none", "reset"}
    /\ \A t \in Triggers, e \in Endpoint :
          /\ run[t].pc = "idle" => Over(e) \/ quiet[e] <= src.notBefore
          /\ run[t].pc = "gate" =>
                Over(e) \/ (quiet[e] <= src.notBefore /\ quiet[e] <= run[t].row.until)
          /\ Active(t) => Over(e) \/ (e < run[t].k /\ quiet[e] <= run[t].notBefore)

LEMMA NextQuiet ==
    ASSUME NEW only, Triggers = {only}, Ops \subseteq {"patch", "takedown"},
           IndInv, QuietInv, [Next]_vars
    PROVE  QuietInv'
<1> DEFINE r == run[only]
           s == run'[only]
<1>1. /\ only \in Triggers /\ r \in RunState /\ src \in SourceRow
      /\ run \in [Triggers -> RunState] /\ clock \in Nat /\ r.k \in Nat /\ r.notBefore \in Nat
      /\ \A e \in Endpoint : quiet[e] \in Nat /\ e \in Nat
  BY DEF IndInv, TypeOK, RunState, Endpoint
<1>2. /\ src.exists
      /\ \A e \in Endpoint :
            /\ r.pc = "idle" => Over(e) \/ quiet[e] <= src.notBefore
            /\ r.pc = "gate" => Over(e) \/ (quiet[e] <= src.notBefore /\ quiet[e] <= r.row.until)
            /\ r.pc \notin {"idle", "gate"} => Over(e) \/ (e < r.k /\ quiet[e] <= r.notBefore)
  BY <1>1 DEF QuietInv, Active
<1>a. pending'.step \in {"none", "reset"}
  BY NoDeletion DEF QuietInv
<1> SUFFICES /\ src'.exists
             /\ \A e \in Endpoint :
                   /\ s.pc = "idle" => Over(e)' \/ quiet'[e] <= src'.notBefore
                   /\ s.pc = "gate" => Over(e)' \/ (quiet'[e] <= src'.notBefore /\ quiet'[e] <= s.row.until)
                   /\ s.pc \notin {"idle", "gate"} => Over(e)' \/ (e < s.k /\ quiet'[e] <= s.notBefore)
  BY <1>a DEF QuietInv, Active
<1>3. CASE ReadRow(only)
  <2> DEFINE row == [enabled |-> src.enabled, settings |-> src.settings,
                     failures |-> src.failures, until |-> Until(src)]
  <2>1. s = [r EXCEPT !.pc = "gate", !.row = row] /\ UNCHANGED <<src, quiet, clock>> /\ r.pc = "idle"
    BY <1>1, <1>3 DEF ReadRow, rows, observers
  <2>2. s.pc = "gate" /\ s.row = row
    BY <1>1, <2>1 DEF RunState
  <2>3. src.notBefore <= Until(src) /\ src.notBefore \in Nat /\ Until(src) \in Nat
    BY <1>1, ConstantsAssumption, UntilType DEF Until, SourceRow, Larger, Never
  <2>4. s.row.until = Until(src)
    BY <2>2
  <2> QED
    BY <1>1, <1>2, <2>1, <2>2, <2>3, <2>4 DEF Over
<1>4. CASE Refuse(only)
  BY <1>1, <1>2, <1>4, IdleType DEF Refuse, GoIdle, Over, rows, observers
<1>5. CASE Begin(only)
  <2>1. UNCHANGED <<src, quiet, clock>> /\ s.pc = "endpoint"
    BY <1>1, <1>5, BeginMoves
  <2>2. r.pc = "gate" /\ clock >= r.row.until /\ r.row.until \in Nat
    BY <1>1, <1>5 DEF Begin, MayRequest, RunState, Snapshot
  <2>3. \A e \in Endpoint : Over(e)
    BY <1>1, <1>2, <2>2 DEF Over
  <2> QED
    BY <1>2, <2>1, <2>3 DEF Over
<1>6. CASE ReadValidators(only) \/ Request(only) \/ Retire(only)
  <2>1. /\ clock' = clock /\ quiet' = quiet
        /\ Active(only)' => s.k = r.k /\ s.notBefore = r.notBefore
    BY <1>1, <1>6, RunMoves
  <2>2. s.pc \notin {"idle", "gate"} /\ r.pc \notin {"idle", "gate"}
    BY <1>1, <1>6, QuietSteps
  <2>3. src'.exists
    BY <1>1, <1>2, <1>6 DEF ReadValidators, Request, Retire, SourceRow, rows
  <2> QED
    BY <1>2, <2>1, <2>2, <2>3 DEF Active, Over
<1>7. CASE EndpointStep(only) /\ ~ ReadValidators(only) /\ ~ Request(only)
  <2>1. PICK out \in OutcomeRow : Concludes(only, out)
    BY <1>1, <1>7, EndpointOutcome
  <2>2. /\ s.pc \notin {"idle", "gate"} /\ s.k = r.k + 1
        /\ s.notBefore = Larger(r.notBefore, out.notBefore)
    BY <1>1, <2>1, Concluded DEF Concludes
  <2>3. /\ r.pc \notin {"idle", "gate"} /\ UNCHANGED <<clock, src>> /\ out.notBefore \in Nat
        /\ \A e \in Endpoint : quiet'[e] = quiet[e] \/ (e = r.k /\ quiet'[e] = out.notBefore)
    BY <2>1 DEF Concludes, OutcomeRow
  <2>4. s.notBefore \in Nat /\ s.notBefore >= r.notBefore /\ s.notBefore >= out.notBefore
    BY <1>1, <2>2, <2>3 DEF Larger
  <2>5. ASSUME NEW e \in Endpoint
        PROVE  Over(e)' \/ (e < s.k /\ quiet'[e] <= s.notBefore)
    <3>1. CASE quiet'[e] = quiet[e]
      BY <1>1, <1>2, <2>2, <2>3, <2>4, <3>1 DEF Over
    <3>2. CASE e = r.k /\ quiet'[e] = out.notBefore
      BY <1>1, <2>2, <2>4, <3>2
    <3> QED
      BY <2>3, <3>1, <3>2
  <2> QED
    BY <1>2, <2>2, <2>3, <2>5
<1>8. CASE Finish(only)
  <2> DEFINE n == NewFailures(r)
             wait == IF r.anyFailure THEN Backoff(n) ELSE Poll
  <2>1. r.pc = "finish" /\ UNCHANGED <<clock, quiet>> /\ s = Idle
    BY <1>1, <1>8 DEF Finish, GoIdle
  <2>2. src' = [src EXCEPT !.failures = n, !.notBefore = r.notBefore, !.nextDue = clock + wait]
    BY <1>2, <1>8 DEF Finish
  <2> HIDE DEF n, wait
  <2>3. src'.exists /\ src'.notBefore = r.notBefore
    BY <1>1, <1>2, <2>2 DEF SourceRow
  <2> QED
    BY <1>2, <2>1, <2>3, IdleType DEF Over
<1>9. CASE PatchEnabled \/ \E x \in Settings : PatchEndpoints(x)
  <2>1. /\ UNCHANGED <<run, quiet, clock>> /\ src'.exists /\ src'.notBefore = src.notBefore
    BY <1>1, <1>2, <1>9 DEF PatchEnabled, PatchEndpoints, SourceRow, observers
  <2> QED
    BY <1>2, <2>1 DEF Over
<1>10. CASE (\E i \in Identities : Takedown(i)) \/ UNCHANGED vars
  BY <1>2, <1>10 DEF Takedown, vars, observers, Over
<1>11. CASE Tick
  <2>1. UNCHANGED <<run, quiet, src>> /\ clock' = clock + 1
    BY <1>11 DEF Tick, rows, observers
  <2>2. \A e \in Endpoint : Over(e) => Over(e)'
    BY <1>1, <2>1 DEF Over
  <2> QED
    BY <1>2, <2>1, <2>2
<1>12. /\ ~ Restart /\ ~ RunThrows(only) /\ ~ DeleteCount /\ ~ DeleteRuns /\ ~ DeleteCommit
       /\ ~ RequestFails /\ ~ \E x \in Settings : CreateSource(x)
  BY DEF Restart, RunThrows, DeleteCount, DeleteRuns, DeleteCommit, RequestFails, CreateSource, QuietInv
<1>14. CASE ResetValidators
  BY <1>2, <1>14 DEF ResetValidators, observers, Over
<1>13. CASE Caller(only)
  BY <1>12, <1>13, <1>3, <1>4, <1>5, <1>6, <1>7, <1>8 DEF Caller, RunStep
<1> QED
  BY <1>9, <1>10, <1>11, <1>12, <1>13, <1>14 DEF Next, Operator, Statement

\* With one caller, no request is made to an endpoint before the time that its site asked
\* for has come, for any number of endpoints that ask for different waits in one run, as
\* long as no run is lost between the answer and its end (ingest.js:12-13, 615).
THEOREM WaitsAreHonoured ==
    ASSUME NEW only, Triggers = {only}, Ops \subseteq {"patch", "takedown"}
    PROVE  Spec => RetryAfterHonoured
<1>1. Init => QuietInv
  BY IdleType DEF Init, AllIdle, QuietInv, NewSource, NoRequest, Active, Over
<1>2. IndInv /\ QuietInv /\ [Next]_vars => QuietInv'
  BY NextQuiet
<1>3. IndInv /\ QuietInv => [\A t \in Triggers : Request(t) => clock >= quiet[run[t].k]]_vars
  <2> SUFFICES ASSUME IndInv, QuietInv, NEW t \in Triggers, Request(t)
               PROVE  clock >= quiet[run[t].k]
    OBVIOUS
  <2>1. /\ run[t].k \in Endpoint /\ run[t].k \in Nat /\ Active(t)
        /\ clock \in Nat /\ quiet[run[t].k] \in Nat
    BY ConstantsAssumption DEF IndInv, TypeOK, IndexInRange, RunState, Endpoint, Request, Active
  <2> QED
    BY <2>1 DEF QuietInv, Over
<1> QED
  BY <1>1, <1>2, <1>3, InitType, NextType, PTL DEF Spec, RetryAfterHonoured

=============================================================================
