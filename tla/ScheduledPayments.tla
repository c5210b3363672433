---------------------------- MODULE ScheduledPayments ----------------------------
(***************************************************************************)
(* Scheduled and recurring payments.  A plan (table ScheduledPayment) that *)
(* is due gets an occurrence, a PENDING row of table Transaction; its      *)
(* owner approves and submits it; a submission that succeeded advances the *)
(* plan.                                                                   *)
(*                                                                         *)
(* Actors: ticks of the two timers that create occurrences                 *)
(* (processScheduledPayments, processSubscriptionRenewals), each under a   *)
(* Redis lock of its own that only its TTL frees; API handlers submitting  *)
(* occurrences; the owner cancelling a plan.  Every await is a place where *)
(* another actor may step.                                                 *)
(*                                                                         *)
(* Abstractions: time is the flag due[s], which nextRunAt <= now sets; the *)
(* submission keeps only its verdict (module PaymentLifecycle has the      *)
(* envelopes and the ledger).  An occurrence is a classic payment, so the  *)
(* SDK either reports success or throws: it never returns FAILED.          *)
(***************************************************************************)
EXTENDS Naturals, FiniteSets

CONSTANTS
  Schedule,     \* plans
  Count,        \* the values recurring.count may have in a request
  Tick,         \* timer callbacks that may run at the same time
  Handler,      \* API request handlers that may run at the same time
  Take,         \* plans one tick reads (20 in the code)
  MaxOcc,       \* bound: occurrences inserted in one behaviour
  MaxOverruns,  \* bound: locks that lapse under a tick still running
  MaxDeaths,    \* bound: ticks and handlers killed by a restart
  NoPlan          \* no plan

Occ == 1..MaxOcc
Job == {"scheduled", "subscriptions"}

ASSUME PlansAssumption ==
  /\ Count \subseteq Nat \ {0}
  /\ NoPlan \notin Schedule \cup Job

ASSUME BoundsAssumption ==
  /\ Take \in Nat \ {0}
  /\ MaxOcc \in Nat
  /\ MaxOverruns \in Nat
  /\ MaxDeaths \in Nat

VARIABLES
  plan,       \* ScheduledPayment.status of each plan, "ABSENT" before it exists
  recurring,  \* its interval is not NULL
  maxRuns,    \* ScheduledPayment.maxRuns, 0 for NULL
  due,        \* nextRunAt <= now
  totalRuns,  \* ScheduledPayment.totalRuns
  occ,        \* Transaction.status of each occurrence, "ABSENT" before it exists
  of,         \* meta.scheduledId of each occurrence
  lock,       \* the Redis keys lock:scheduler:<job> that are set
  job, tpc, batch, cur,   \* ticks: the job, where it is, the plans left, the plan at hand
  pc, row, runs,          \* submit handlers: where it is, its occurrence, totalRuns as read
  overruns, deaths

termVars    == <<recurring, maxRuns>>
planVars    == <<plan, due, totalRuns, termVars>>
occVars     == <<occ, of>>
tickVars    == <<job, tpc, batch, cur>>
handlerVars == <<pc, row, runs>>
vars == <<planVars, occVars, lock, tickVars, handlerVars, overruns, deaths>>

PlanStatus == {"ABSENT", "ACTIVE", "COMPLETED", "CANCELED"}
OccStatus  == {"ABSENT", "PENDING", "SUBMITTED", "SUCCEEDED"}

\* Plans, rows, locks, ticks and handlers only take the values the code gives them.
TypeOK ==
  /\ plan \in [Schedule -> PlanStatus]
  /\ recurring \in [Schedule -> BOOLEAN]
  /\ maxRuns \in [Schedule -> Count \cup {0}]
  /\ due \in [Schedule -> BOOLEAN]
  /\ totalRuns \in [Schedule -> Nat]
  /\ occ \in [Occ -> OccStatus]
  /\ of \in [Occ -> Schedule \cup {NoPlan}]
  /\ lock \subseteq Job
  /\ job \in [Tick -> Job \cup {NoPlan}]
  /\ tpc \in [Tick -> {"idle", "locked", "looping", "clear"}]
  /\ batch \in [Tick -> SUBSET Schedule]
  /\ cur \in [Tick -> Schedule \cup {NoPlan}]
  /\ pc \in [Handler -> {"idle", "claimed", "succeeded", "advancing"}]
  /\ row \in [Handler -> Occ \cup {0}]
  /\ runs \in [Handler -> Nat]
  /\ overruns \in Nat
  /\ deaths \in Nat

Init ==
  /\ plan = [s \in Schedule |-> "ABSENT"]
  /\ recurring = [s \in Schedule |-> FALSE]
  /\ maxRuns = [s \in Schedule |-> 0]
  /\ due = [s \in Schedule |-> FALSE]
  /\ totalRuns = [s \in Schedule |-> 0]
  /\ occ = [o \in Occ |-> "ABSENT"]
  /\ of = [o \in Occ |-> NoPlan]
  /\ lock = {}
  /\ job = [k \in Tick |-> NoPlan]
  /\ tpc = [k \in Tick |-> "idle"]
  /\ batch = [k \in Tick |-> {}]
  /\ cur = [k \in Tick |-> NoPlan]
  /\ pc = [h \in Handler |-> "idle"]
  /\ row = [h \in Handler |-> 0]
  /\ runs = [h \in Handler |-> 0]
  /\ overruns = 0
  /\ deaths = 0

-----------------------------------------------------------------------------
(* The plan's owner, and the clock.                                         *)

\* SCHEDULED stores no interval, RECURRING the request's; maxRuns is
\* recurring?.count of either.
CreateSchedule(s) ==
  /\ plan[s] = "ABSENT"
  /\ plan' = [plan EXCEPT ![s] = "ACTIVE"]
  /\ \E interval \in BOOLEAN, count \in Count \cup {0} :
       /\ recurring' = [recurring EXCEPT ![s] = interval]
       /\ maxRuns' = [maxRuns EXCEPT ![s] = count]
  /\ UNCHANGED <<due, totalRuns, occVars, lock, tickVars, handlerVars, overruns, deaths>>

ComesDue(s) ==
  /\ plan[s] = "ACTIVE"
  /\ ~due[s]
  /\ due' = [due EXCEPT ![s] = TRUE]
  /\ UNCHANGED <<plan, totalRuns, termVars, occVars, lock, tickVars, handlerVars, overruns, deaths>>

\* cancelScheduled writes whatever the status was, a completed plan's included.
CancelScheduled(s) ==
  /\ plan[s] # "ABSENT"
  /\ plan' = [plan EXCEPT ![s] = "CANCELED"]
  /\ UNCHANGED <<due, totalRuns, termVars, occVars, lock, tickVars, handlerVars, overruns, deaths>>

-----------------------------------------------------------------------------
(* The two timers.                                                          *)

\* The plans each job's query returns, before the limit.
Covered(j) == {s \in Schedule : j = "subscriptions" => recurring[s]}
Due(j) == {s \in Covered(j) : plan[s] = "ACTIVE" /\ due[s]}

LockIgnored(j) == j \in Job   \* a bug: the answer of acquireLock not looked at
LockFree(j) == j \notin lock

AcquireLock(k, j) ==
  /\ tpc[k] = "idle"
  /\ LockFree(j)
  /\ lock' = lock \cup {j}
  /\ tpc' = [tpc EXCEPT ![k] = "locked"]
  /\ job' = [job EXCEPT ![k] = j]
  /\ UNCHANGED <<planVars, occVars, batch, cur, handlerVars, overruns, deaths>>

\* findMany without an order: any Take of the due plans.
ReadDue(k) ==
  /\ tpc[k] = "locked"
  /\ \E B \in SUBSET Due(job[k]) :
       /\ Cardinality(B) <= Take
       /\ B # Due(job[k]) => Cardinality(B) = Take
       /\ batch' = [batch EXCEPT ![k] = B]
  /\ tpc' = [tpc EXCEPT ![k] = "looping"]
  /\ UNCHANGED <<planVars, occVars, lock, job, cur, handlerVars, overruns, deaths>>

EverCreated(s) == \E o \in Occ : of[o] = s   \* a bug: no status in the query
\* createOccurrence, its findFirst: an occurrence already in flight.
InFlight(s) == \E o \in Occ : of[o] = s /\ occ[o] \in {"PENDING", "SUBMITTED"}

SkipInFlight(k, s) ==
  /\ tpc[k] = "looping"
  /\ s \in batch[k]
  /\ InFlight(s)
  /\ batch' = [batch EXCEPT ![k] = @ \ {s}]
  /\ UNCHANGED <<planVars, occVars, lock, job, tpc, cur, handlerVars, overruns, deaths>>

FindNoneInFlight(k, s) ==
  /\ tpc[k] = "looping"
  /\ s \in batch[k]
  /\ ~InFlight(s)
  /\ batch' = [batch EXCEPT ![k] = @ \ {s}]
  /\ cur' = [cur EXCEPT ![k] = s]
  /\ tpc' = [tpc EXCEPT ![k] = "clear"]
  /\ UNCHANGED <<planVars, occVars, lock, job, handlerVars, overruns, deaths>>

CreatedActive == "ACTIVE"   \* a bug: the plan's vocabulary in the row
\* createOccurrence, its create: the row's status and nothing of the plan.
CreatedStatus == "PENDING"

\* Rows are numbered in the order they are inserted.
CreateOccurrence(k, o) ==
  /\ tpc[k] = "clear"
  /\ occ[o] = "ABSENT"
  /\ \A p \in Occ : p < o => occ[p] # "ABSENT"
  /\ occ' = [occ EXCEPT ![o] = CreatedStatus]
  /\ of' = [of EXCEPT ![o] = cur[k]]
  /\ cur' = [cur EXCEPT ![k] = NoPlan]
  /\ tpc' = [tpc EXCEPT ![k] = "looping"]
  /\ UNCHANGED <<planVars, lock, job, batch, handlerVars, overruns, deaths>>

\* Beyond the bound on rows the insert is left out.
CreateBeyondBound(k) ==
  /\ tpc[k] = "clear"
  /\ \A o \in Occ : occ[o] # "ABSENT"
  /\ cur' = [cur EXCEPT ![k] = NoPlan]
  /\ tpc' = [tpc EXCEPT ![k] = "looping"]
  /\ UNCHANGED <<planVars, occVars, lock, job, batch, handlerVars, overruns, deaths>>

TickReturns(k) ==
  /\ tpc[k] = "looping"
  /\ batch[k] = {}
  /\ tpc' = [tpc EXCEPT ![k] = "idle"]
  /\ job' = [job EXCEPT ![k] = NoPlan]
  /\ UNCHANGED <<planVars, occVars, lock, batch, cur, handlerVars, overruns, deaths>>

Running(j) == {k \in Tick : job[k] = j}

\* SET .. EX: the key goes when its TTL is over, and never before.
LockLapses(j) ==
  /\ j \in lock
  /\ lock' = lock \ {j}
  /\ IF Running(j) = {}
     THEN UNCHANGED overruns
     ELSE overruns < MaxOverruns /\ overruns' = overruns + 1
  /\ UNCHANGED <<planVars, occVars, tickVars, handlerVars, deaths>>

\* The process restarts, or an await of the loop rejects: nothing catches it.
TickDies(k) ==
  /\ tpc[k] # "idle"
  /\ deaths < MaxDeaths
  /\ deaths' = deaths + 1
  /\ tpc' = [tpc EXCEPT ![k] = "idle"]
  /\ batch' = [batch EXCEPT ![k] = {}]
  /\ job' = [job EXCEPT ![k] = NoPlan]
  /\ cur' = [cur EXCEPT ![k] = NoPlan]
  /\ UNCHANGED <<planVars, occVars, lock, handlerVars, overruns>>

-----------------------------------------------------------------------------
(* PaymentsService.submit for an occurrence, and the advance of its plan.   *)

Claim(h, o) ==
  /\ pc[h] = "idle"
  /\ occ[o] = "PENDING"
  /\ occ' = [occ EXCEPT ![o] = "SUBMITTED"]
  /\ pc' = [pc EXCEPT ![h] = "claimed"]
  /\ row' = [row EXCEPT ![h] = o]
  /\ UNCHANGED <<planVars, of, lock, tickVars, runs, overruns, deaths>>

PersistSucceeded(h) ==
  /\ pc[h] = "claimed"
  /\ occ' = [occ EXCEPT ![row[h]] = "SUCCEEDED"]
  /\ pc' = [pc EXCEPT ![h] = "succeeded"]
  /\ UNCHANGED <<planVars, of, lock, tickVars, row, runs, overruns, deaths>>

\* The handler answers its request and forgets the row.
HandlerReturns(h) ==
  /\ pc' = [pc EXCEPT ![h] = "idle"]
  /\ row' = [row EXCEPT ![h] = 0]
  /\ runs' = [runs EXCEPT ![h] = 0]

AfterThrowAdvances(h) ==   \* a bug: the side effects in a finally
  pc' = [pc EXCEPT ![h] = "succeeded"] /\ UNCHANGED <<row, runs>>
AfterThrow(h) == HandlerReturns(h)

\* Any throw of the network call puts the row back for another try.
RevertClaim(h) ==
  /\ pc[h] = "claimed"
  /\ occ' = [occ EXCEPT ![row[h]] = IF @ = "SUBMITTED" THEN "PENDING" ELSE @]
  /\ AfterThrow(h)
  /\ UNCHANGED <<planVars, of, lock, tickVars, overruns, deaths>>

\* advanceScheduledPayment, its findUnique: a plan no longer active is left alone.
ReadActivePlan(h) ==
  /\ pc[h] = "succeeded"
  /\ plan[of[row[h]]] = "ACTIVE"
  /\ runs' = [runs EXCEPT ![h] = totalRuns[of[row[h]]]]
  /\ pc' = [pc EXCEPT ![h] = "advancing"]
  /\ UNCHANGED <<planVars, occVars, lock, tickVars, row, overruns, deaths>>

ReadStoppedPlan(h) ==
  /\ pc[h] = "succeeded"
  /\ plan[of[row[h]]] # "ACTIVE"
  /\ HandlerReturns(h)
  /\ UNCHANGED <<planVars, occVars, lock, tickVars, overruns, deaths>>

\* A bug: the comparison off by one.
CompletesEarly(s, n) == maxRuns[s] # 0 /\ n + 1 >= maxRuns[s]
\* A plan without maxRuns, a one-off included, never completes.
Completes(s, n) == maxRuns[s] # 0 /\ n >= maxRuns[s]

AnyPlan(s) == plan[s] \in PlanStatus   \* a bug: update by id alone
\* advanceScheduledPayment, its updateMany: WHERE status = ACTIVE.
StillActive(s) == plan[s] = "ACTIVE"

Advance(h) ==
  /\ pc[h] = "advancing"
  /\ LET s == of[row[h]]
         n == runs[h] + 1
     IN  IF StillActive(s)
         THEN /\ plan' = [plan EXCEPT ![s] = IF Completes(s, n) THEN "COMPLETED" ELSE "ACTIVE"]
              /\ totalRuns' = [totalRuns EXCEPT ![s] = n]
              /\ due' = [due EXCEPT ![s] = Completes(s, n)]
         ELSE UNCHANGED <<plan, totalRuns, due>>
  /\ HandlerReturns(h)
  /\ UNCHANGED <<termVars, occVars, lock, tickVars, overruns, deaths>>

HandlerDies(h) ==
  /\ pc[h] # "idle"
  /\ deaths < MaxDeaths
  /\ deaths' = deaths + 1
  /\ HandlerReturns(h)
  /\ UNCHANGED <<planVars, occVars, lock, tickVars, overruns>>

-----------------------------------------------------------------------------
OwnerStep == \E s \in Schedule : CreateSchedule(s) \/ ComesDue(s) \/ CancelScheduled(s)

TickAdvances(k) ==
  \/ ReadDue(k)
  \/ \E s \in Schedule : SkipInFlight(k, s) \/ FindNoneInFlight(k, s)
  \/ \E o \in Occ : CreateOccurrence(k, o)
  \/ CreateBeyondBound(k)
  \/ TickReturns(k)

HandlerStep(h) ==
  \/ \E o \in Occ : Claim(h, o)
  \/ PersistSucceeded(h)
  \/ RevertClaim(h)
  \/ ReadActivePlan(h)
  \/ ReadStoppedPlan(h)
  \/ Advance(h)
  \/ HandlerDies(h)

Next ==
  \/ OwnerStep
  \/ \E k \in Tick, j \in Job : AcquireLock(k, j)
  \/ \E k \in Tick : TickAdvances(k) \/ TickDies(k)
  \/ \E j \in Job : LockLapses(j)
  \/ \E h \in Handler : HandlerStep(h)

Spec == Init /\ [][Next]_vars

\* setInterval keeps firing each job, a callback that started runs on, and a
\* Redis key with a TTL goes.  Nothing is assumed of the owner or of handlers.
Fairness ==
  /\ \A j \in Job : WF_vars(\E k \in Tick : AcquireLock(k, j))
  /\ \A k \in Tick : WF_vars(TickAdvances(k))
  /\ \A j \in Job : WF_vars(LockLapses(j))

FairSpec == Spec /\ Fairness

-----------------------------------------------------------------------------
(* Properties.                                                              *)

OpenRows(s) == {o \in Occ : of[o] = s /\ occ[o] \in {"PENDING", "SUBMITTED"}}
Paid(s)     == {o \in Occ : of[o] = s /\ occ[o] = "SUCCEEDED"}
Covering(s) == {j \in Job : s \in Covered(j)}

\* How far the in-flight check and the locks bound a plan's unpaid occurrences:
\* one for each job that covers the plan and one for each lock that lapsed
\* under a running tick, however ticks, restarts and submissions interleave.
OpenRowsBounded ==
  \A s \in Schedule : Cardinality(OpenRows(s)) <= Cardinality(Covering(s)) + overruns

\* "The schedule is advanced only when that occurrence's transaction is
\* confirmed": totalRuns never counts more runs than occurrences succeeded, in
\* spite of the read and the write of the advance being two statements.
RunsAreConfirmed == \A s \in Schedule : totalRuns[s] <= Cardinality(Paid(s))

\* A plan is COMPLETED only with exactly maxRuns runs counted, and a count that
\* reached maxRuns never leaves the plan active for another occurrence.
CompletedIsEarned ==
  \A s \in Schedule :
    /\ plan[s] = "COMPLETED" => maxRuns[s] # 0 /\ totalRuns[s] = maxRuns[s]
    /\ plan[s] = "ACTIVE" /\ maxRuns[s] # 0 => totalRuns[s] < maxRuns[s]

\* "A schedule can never go backwards from a terminal state": an advance that
\* read the plan before it was cancelled or completed does not revive it, nor
\* move its run count.
StoppedStaysStopped ==
  [][\A s \in Schedule : plan[s] \in {"COMPLETED", "CANCELED"} =>
       plan'[s] \in {"COMPLETED", "CANCELED"} /\ totalRuns'[s] = totalRuns[s]]_vars

\* A due plan with nothing in flight gets an occurrence in the end, whatever
\* ticks died holding the lock (or it is cancelled, or advanced by a handler
\* that was still at it, or the bound on rows is reached).
DueIsServed ==
  \A s \in Schedule :
    plan[s] = "ACTIVE" /\ due[s] /\ OpenRows(s) = {}
      ~> \/ plan[s] # "ACTIVE" \/ ~due[s]
         \/ OpenRows(s) # {}
         \/ \A o \in Occ : occ[o] # "ABSENT"

\* scheduler.service.ts:87-88: "the overlapping scheduled/subscription ticks can
\* never double-create".
NeverDoubleCreated == \A s \in Schedule : Cardinality(OpenRows(s)) <= 1

\* README.md:74 and schema.prisma:380: a plan without an interval is a
\* "one-time", "one-off" transfer; once it is paid and counted it never comes
\* due again.
OneOffRunsOnce ==
  \A s \in Schedule :
    ~recurring[s] /\ totalRuns[s] > 0 => ~(plan[s] = "ACTIVE" /\ due[s])
=============================================================================
