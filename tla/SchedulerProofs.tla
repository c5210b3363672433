---------------------------- MODULE SchedulerProofs ----------------------------
(***************************************************************************)
(* Proofs about the scheduler's timers: ScheduledPayments, for any number  *)
(* of plans, ticks and handlers and any bounds, and WebhookDelivery, for   *)
(* any number of deliveries, retry ticks and attempts. The two share no    *)
(* state and no name.                                                      *)
(***************************************************************************)
EXTENDS ScheduledPayments, WebhookDelivery, FiniteSetTheorems, TLAPS

(* The handler's submission succeeded and its plan's run is not counted yet. *)
Confirming(h) == pc[h] \in {"succeeded", "advancing"}

(* What ties the tables, the ticks and the handlers together: a row belongs to
   a plan that exists, a tick looks at plans that exist, and a busy handler
   owns its row, in the status its progress says.                           *)
RowsBelong == \A o \in Occ : occ[o] # "ABSENT" => of[o] \in Schedule /\ plan[of[o]] # "ABSENT"
BatchesExist == \A k \in Tick : \A s \in batch[k] : plan[s] # "ABSENT"
CurrentExists == \A k \in Tick : tpc[k] = "clear" => cur[k] \in Schedule /\ plan[cur[k]] # "ABSENT"
RowHeld ==
  \A h \in Handler :
    /\ pc[h] # "idle" => row[h] \in Occ
    /\ pc[h] = "claimed" => occ[row[h]] = "SUBMITTED"
    /\ Confirming(h) => occ[row[h]] = "SUCCEEDED"
RowOwned ==
  \A h, g \in Handler : pc[h] # "idle" /\ pc[g] # "idle" /\ h # g => row[h] # row[g]

Links == RowsBelong /\ BatchesExist /\ CurrentExists /\ RowHeld /\ RowOwned

LEMMA PlanOfHandler ==
  ASSUME TypeOK, Links, NEW h \in Handler, pc[h] # "idle"
  PROVE  row[h] \in Occ /\ of[row[h]] \in Schedule /\ plan[of[row[h]]] # "ABSENT"
  BY DEF TypeOK, Links, RowHeld, RowsBelong, Confirming

-----------------------------------------------------------------------------
(* Type correctness.                                                        *)

LEMMA InitTyped == Init => TypeOK /\ Links
  BY DEF Init, TypeOK, PlanStatus, OccStatus, Links, RowsBelong, BatchesExist, CurrentExists,
         RowHeld, RowOwned, Confirming

LEMMA ReturnsTyped ==
  ASSUME TypeOK, NEW h \in Handler, HandlerReturns(h)
  PROVE  /\ pc' \in [Handler -> {"idle", "claimed", "succeeded", "advancing"}]
         /\ row' \in [Handler -> Occ \cup {0}]
         /\ runs' \in [Handler -> Nat]
  BY DEF TypeOK, HandlerReturns

LEMMA StepTyped == TypeOK /\ Links /\ [Next]_vars => TypeOK'
  <1> SUFFICES ASSUME TypeOK, Links, [Next]_vars PROVE TypeOK'
    OBVIOUS
  <1> USE DEF vars, termVars, planVars, occVars, tickVars, handlerVars
  <1>1. ASSUME NEW s \in Schedule, CreateSchedule(s) PROVE TypeOK'
    BY <1>1 DEF CreateSchedule, TypeOK, PlanStatus
  <1>2. ASSUME NEW s \in Schedule, ComesDue(s) PROVE TypeOK'
    BY <1>2 DEF ComesDue, TypeOK
  <1>3. ASSUME NEW s \in Schedule, CancelScheduled(s) PROVE TypeOK'
    BY <1>3 DEF CancelScheduled, TypeOK, PlanStatus
  <1>4. ASSUME NEW k \in Tick, NEW j \in Job, AcquireLock(k, j) PROVE TypeOK'
    BY <1>4 DEF AcquireLock, TypeOK
  <1>5. ASSUME NEW k \in Tick, ReadDue(k) PROVE TypeOK'
    BY <1>5 DEF ReadDue, Due, Covered, TypeOK
  <1>6. ASSUME NEW k \in Tick, NEW s \in Schedule,
               SkipInFlight(k, s) \/ FindNoneInFlight(k, s)
        PROVE  TypeOK'
    BY <1>6 DEF SkipInFlight, FindNoneInFlight, TypeOK
  <1>7. ASSUME NEW k \in Tick, NEW o \in Occ, CreateOccurrence(k, o) PROVE TypeOK'
    BY <1>7 DEF CreateOccurrence, CreatedStatus, TypeOK, OccStatus
  <1>8. ASSUME NEW k \in Tick, CreateBeyondBound(k) \/ TickReturns(k) \/ TickDies(k)
        PROVE  TypeOK'
    BY <1>8 DEF CreateBeyondBound, TickReturns, TickDies, TypeOK
  <1>9. ASSUME NEW j \in Job, LockLapses(j) PROVE TypeOK'
    BY <1>9 DEF LockLapses, TypeOK
  <1>10. ASSUME NEW h \in Handler, NEW o \in Occ, Claim(h, o) PROVE TypeOK'
    BY <1>10 DEF Claim, TypeOK, OccStatus
  <1>11. ASSUME NEW h \in Handler, PersistSucceeded(h) PROVE TypeOK'
    BY <1>11 DEF PersistSucceeded, TypeOK, OccStatus
  <1>12. ASSUME NEW h \in Handler, RevertClaim(h) PROVE TypeOK'
    <2>1. occ' \in [Occ -> OccStatus]
      BY <1>12 DEF RevertClaim, TypeOK, OccStatus
    <2>2. QED
      BY <1>12, <2>1, ReturnsTyped DEF RevertClaim, AfterThrow, TypeOK
  <1>13. ASSUME NEW h \in Handler, ReadActivePlan(h) PROVE TypeOK'
    <2>1. of[row[h]] \in Schedule
      BY <1>13, PlanOfHandler DEF ReadActivePlan
    <2>2. QED
      BY <1>13, <2>1 DEF ReadActivePlan, TypeOK
  <1>14. ASSUME NEW h \in Handler, ReadStoppedPlan(h) PROVE TypeOK'
    BY <1>14, ReturnsTyped DEF ReadStoppedPlan, TypeOK
  <1>15. ASSUME NEW h \in Handler, Advance(h) PROVE TypeOK'
    <2> DEFINE s == of[row[h]]
               n == runs[h] + 1
    <2>1. n \in Nat /\ Completes(s, n) \in BOOLEAN
      BY DEF TypeOK, Completes
    <2>2. /\ plan' \in [Schedule -> PlanStatus]
          /\ totalRuns' \in [Schedule -> Nat]
          /\ due' \in [Schedule -> BOOLEAN]
      BY <1>15, <2>1 DEF Advance, TypeOK, PlanStatus
    <2>3. QED
      BY <1>15, <2>2, ReturnsTyped DEF Advance, TypeOK
  <1>16. ASSUME NEW h \in Handler, HandlerDies(h) PROVE TypeOK'
    BY <1>16, ReturnsTyped DEF HandlerDies, TypeOK
  <1>17. CASE UNCHANGED vars
    BY <1>17 DEF TypeOK
  <1>18. QED
    BY <1>1, <1>2, <1>3, <1>4, <1>5, <1>6, <1>7, <1>8, <1>9, <1>10, <1>11, <1>12, <1>13,
       <1>14, <1>15, <1>16, <1>17
    DEF Next, OwnerStep, TickAdvances, HandlerStep

-----------------------------------------------------------------------------
(* Rows, ticks and handlers stay tied together.                             *)

LEMMA StepRowsBelong == TypeOK /\ Links /\ [Next]_vars => RowsBelong'
  <1> SUFFICES ASSUME TypeOK, Links, [Next]_vars PROVE RowsBelong'
    OBVIOUS
  <1> USE DEF vars, termVars, planVars, occVars, tickVars, handlerVars, RowsBelong
  <1> RowsBelong
    BY DEF Links
  <1>1. ASSUME NEW s \in Schedule, CreateSchedule(s) PROVE RowsBelong'
    BY <1>1 DEF CreateSchedule, TypeOK
  <1>2. ASSUME NEW s \in Schedule, ComesDue(s) PROVE RowsBelong'
    BY <1>2 DEF ComesDue
  <1>3. ASSUME NEW s \in Schedule, CancelScheduled(s) PROVE RowsBelong'
    BY <1>3 DEF CancelScheduled, TypeOK
  <1>4. ASSUME NEW k \in Tick, NEW j \in Job, AcquireLock(k, j) PROVE RowsBelong'
    BY <1>4 DEF AcquireLock
  <1>5. ASSUME NEW k \in Tick, ReadDue(k) PROVE RowsBelong'
    BY <1>5 DEF ReadDue
  <1>6. ASSUME NEW k \in Tick, NEW s \in Schedule,
               SkipInFlight(k, s) \/ FindNoneInFlight(k, s)
        PROVE  RowsBelong'
    BY <1>6 DEF SkipInFlight, FindNoneInFlight
  <1>7. ASSUME NEW k \in Tick, NEW o \in Occ, CreateOccurrence(k, o) PROVE RowsBelong'
    BY <1>7 DEF CreateOccurrence, CreatedStatus, TypeOK, Links, CurrentExists
  <1>8. ASSUME NEW k \in Tick, CreateBeyondBound(k) \/ TickReturns(k) \/ TickDies(k)
        PROVE  RowsBelong'
    BY <1>8 DEF CreateBeyondBound, TickReturns, TickDies
  <1>9. ASSUME NEW j \in Job, LockLapses(j) PROVE RowsBelong'
    BY <1>9 DEF LockLapses
  <1>10. ASSUME NEW h \in Handler, NEW o \in Occ, Claim(h, o) PROVE RowsBelong'
    BY <1>10 DEF Claim, TypeOK
  <1>11. ASSUME NEW h \in Handler, PersistSucceeded(h) PROVE RowsBelong'
    BY <1>11, PlanOfHandler DEF PersistSucceeded, TypeOK
  <1>12. ASSUME NEW h \in Handler, RevertClaim(h) PROVE RowsBelong'
    BY <1>12, PlanOfHandler DEF RevertClaim, TypeOK
  <1>13. ASSUME NEW h \in Handler, ReadActivePlan(h) \/ ReadStoppedPlan(h) \/ HandlerDies(h)
         PROVE  RowsBelong'
    BY <1>13 DEF ReadActivePlan, ReadStoppedPlan, HandlerDies
  <1>14. ASSUME NEW h \in Handler, Advance(h) PROVE RowsBelong'
    BY <1>14 DEF Advance, TypeOK
  <1>15. CASE UNCHANGED vars
    BY <1>15
  <1>16. QED
    BY <1>1, <1>2, <1>3, <1>4, <1>5, <1>6, <1>7, <1>8, <1>9, <1>10, <1>11, <1>12, <1>13,
       <1>14, <1>15
    DEF Next, OwnerStep, TickAdvances, HandlerStep

(* No action makes a plan absent again.                                     *)
LEMMA PlansStay ==
  ASSUME TypeOK, [Next]_vars, NEW s \in Schedule, plan[s] # "ABSENT"
  PROVE  /\ plan'[s] # "ABSENT"
         /\ maxRuns'[s] = maxRuns[s]
  <1> USE DEF vars, termVars, planVars, occVars, tickVars, handlerVars
  <1>1. CASE OwnerStep
    BY <1>1 DEF OwnerStep, CreateSchedule, ComesDue, CancelScheduled, TypeOK
  <1>2. ASSUME NEW h \in Handler, Advance(h) PROVE plan'[s] # "ABSENT" /\ UNCHANGED maxRuns
    BY <1>2 DEF Advance, TypeOK
  <1>3. ASSUME \/ \E k \in Tick, j \in Job : AcquireLock(k, j)
               \/ \E k \in Tick : TickAdvances(k) \/ TickDies(k)
               \/ \E j \in Job : LockLapses(j)
        PROVE  UNCHANGED <<plan, maxRuns>>
    BY <1>3
    DEF AcquireLock, TickAdvances, ReadDue, SkipInFlight, FindNoneInFlight, CreateOccurrence,
        CreateBeyondBound, TickReturns, TickDies, LockLapses
  <1>4. ASSUME NEW h \in Handler, HandlerStep(h), ~Advance(h) PROVE UNCHANGED <<plan, maxRuns>>
    BY <1>4
    DEF HandlerStep, Claim, PersistSucceeded, RevertClaim, ReadActivePlan, ReadStoppedPlan,
        HandlerDies
  <1>5. QED
    BY <1>1, <1>2, <1>3, <1>4 DEF Next

LEMMA StepTicksLinked == TypeOK /\ Links /\ [Next]_vars => BatchesExist' /\ CurrentExists'
  <1> SUFFICES ASSUME TypeOK, Links, [Next]_vars PROVE BatchesExist' /\ CurrentExists'
    OBVIOUS
  <1> USE DEF vars, termVars, planVars, occVars, tickVars, handlerVars, BatchesExist, CurrentExists
  <1>1. BatchesExist /\ CurrentExists
    BY DEF Links
  <1>2. \A s \in Schedule : plan[s] # "ABSENT" => plan'[s] # "ABSENT"
    BY PlansStay
  <1>3. CASE UNCHANGED tickVars
    BY <1>1, <1>2, <1>3 DEF TypeOK
  <1>4. ASSUME NEW k \in Tick, NEW j \in Job, AcquireLock(k, j)
        PROVE  BatchesExist' /\ CurrentExists'
    BY <1>1, <1>4 DEF AcquireLock, TypeOK
  <1>5. ASSUME NEW k \in Tick, ReadDue(k) PROVE BatchesExist' /\ CurrentExists'
    BY <1>1, <1>5 DEF ReadDue, Due, Covered, TypeOK
  <1>6. ASSUME NEW k \in Tick, NEW s \in Schedule,
               SkipInFlight(k, s) \/ FindNoneInFlight(k, s)
        PROVE  BatchesExist' /\ CurrentExists'
    BY <1>1, <1>6 DEF SkipInFlight, FindNoneInFlight, TypeOK
  <1>7. ASSUME NEW k \in Tick,
               \/ \E o \in Occ : CreateOccurrence(k, o)
               \/ CreateBeyondBound(k)
               \/ TickReturns(k)
               \/ TickDies(k)
        PROVE  BatchesExist' /\ CurrentExists'
    BY <1>1, <1>7 DEF CreateOccurrence, CreateBeyondBound, TickReturns, TickDies, TypeOK
  <1>8. CASE OwnerStep \/ (\E j \in Job : LockLapses(j)) \/ (\E h \in Handler : HandlerStep(h))
    BY <1>3, <1>8
    DEF OwnerStep, CreateSchedule, ComesDue, CancelScheduled, LockLapses, HandlerStep, Claim,
        PersistSucceeded, RevertClaim, ReadActivePlan, ReadStoppedPlan, Advance, HandlerDies
  <1>9. QED
    BY <1>3, <1>4, <1>5, <1>6, <1>7, <1>8 DEF Next, TickAdvances

LEMMA StepHandlersLinked == TypeOK /\ Links /\ [Next]_vars => RowHeld' /\ RowOwned'
  <1> SUFFICES ASSUME TypeOK, Links, [Next]_vars PROVE RowHeld' /\ RowOwned'
    OBVIOUS
  <1> USE DEF vars, termVars, planVars, occVars, tickVars, handlerVars, RowHeld, RowOwned,
              Confirming
  <1>1. RowHeld /\ RowOwned
    BY DEF Links
  <1>2. ASSUME NEW k \in Tick, NEW o \in Occ, CreateOccurrence(k, o) PROVE RowHeld' /\ RowOwned'
    BY <1>1, <1>2 DEF CreateOccurrence, CreatedStatus, TypeOK
  <1>3. ASSUME NEW h \in Handler, NEW o \in Occ, Claim(h, o) PROVE RowHeld' /\ RowOwned'
    BY <1>1, <1>3 DEF Claim, TypeOK
  <1>4. ASSUME NEW h \in Handler, PersistSucceeded(h) PROVE RowHeld' /\ RowOwned'
    BY <1>1, <1>4 DEF PersistSucceeded, TypeOK
  <1>5. ASSUME NEW h \in Handler, RevertClaim(h) PROVE RowHeld' /\ RowOwned'
    BY <1>1, <1>5 DEF RevertClaim, AfterThrow, HandlerReturns, TypeOK
  <1>6. ASSUME NEW h \in Handler, ReadActivePlan(h) PROVE RowHeld' /\ RowOwned'
    BY <1>1, <1>6 DEF ReadActivePlan, TypeOK
  <1>7. ASSUME NEW h \in Handler, ReadStoppedPlan(h) \/ Advance(h) \/ HandlerDies(h)
        PROVE  RowHeld' /\ RowOwned'
    <2>1. HandlerReturns(h) /\ UNCHANGED occVars
      BY <1>7 DEF ReadStoppedPlan, Advance, HandlerDies
    <2>2. QED
      BY <1>1, <2>1 DEF HandlerReturns, TypeOK
  <1>8. CASE UNCHANGED <<occVars, handlerVars>>
    BY <1>1, <1>8
  <1>9. ASSUME NEW k \in Tick,
               \/ \E j \in Job : AcquireLock(k, j)
               \/ ReadDue(k)
               \/ \E s \in Schedule : SkipInFlight(k, s) \/ FindNoneInFlight(k, s)
               \/ CreateBeyondBound(k)
               \/ TickReturns(k)
               \/ TickDies(k)
        PROVE  UNCHANGED <<occVars, handlerVars>>
    BY <1>9
    DEF AcquireLock, ReadDue, SkipInFlight, FindNoneInFlight, CreateBeyondBound, TickReturns,
        TickDies
  <1>10. CASE OwnerStep \/ \E j \in Job : LockLapses(j)
    BY <1>8, <1>10 DEF OwnerStep, CreateSchedule, ComesDue, CancelScheduled, LockLapses
  <1>11. QED
    BY <1>2, <1>3, <1>4, <1>5, <1>6, <1>7, <1>8, <1>9, <1>10 DEF Next, TickAdvances, HandlerStep

LEMMA StepLinks == TypeOK /\ Links /\ [Next]_vars => Links'
  BY StepRowsBelong, StepTicksLinked, StepHandlersLinked DEF Links

(* Plans, rows, ticks and handlers only ever hold values the code gives
   them.                                                                    *)
THEOREM PlanTypesCorrect == Spec => []TypeOK
  <1>1. Init => TypeOK /\ Links
    BY InitTyped
  <1>2. TypeOK /\ Links /\ [Next]_vars => TypeOK' /\ Links'
    BY StepTyped, StepLinks
  <1>3. QED
    BY <1>1, <1>2, PTL DEF Spec

-----------------------------------------------------------------------------
(* A stopped plan stays stopped.                                            *)

LEMMA StepStopped ==
  ASSUME TypeOK, [Next]_vars, NEW s \in Schedule, plan[s] \in {"COMPLETED", "CANCELED"}
  PROVE  plan'[s] \in {"COMPLETED", "CANCELED"} /\ totalRuns'[s] = totalRuns[s]
  <1> USE DEF vars, termVars, planVars, occVars, tickVars, handlerVars
  <1>1. ASSUME NEW h \in Handler, Advance(h)
        PROVE  plan'[s] = plan[s] /\ totalRuns'[s] = totalRuns[s]
    BY <1>1 DEF Advance, StillActive, TypeOK
  <1>2. CASE OwnerStep
    BY <1>2 DEF OwnerStep, CreateSchedule, ComesDue, CancelScheduled, TypeOK
  <1>3. CASE \/ \E k \in Tick, j \in Job : AcquireLock(k, j)
             \/ \E k \in Tick : TickAdvances(k) \/ TickDies(k)
             \/ \E j \in Job : LockLapses(j)
    BY <1>3
    DEF AcquireLock, TickAdvances, ReadDue, SkipInFlight, FindNoneInFlight, CreateOccurrence,
        CreateBeyondBound, TickReturns, TickDies, LockLapses
  <1>4. ASSUME NEW h \in Handler, HandlerStep(h), ~Advance(h)
        PROVE  UNCHANGED <<plan, totalRuns>>
    BY <1>4
    DEF HandlerStep, Claim, PersistSucceeded, RevertClaim, ReadActivePlan, ReadStoppedPlan,
        HandlerDies
  <1>5. QED
    BY <1>1, <1>2, <1>3, <1>4 DEF Next

(* "A schedule can never go backwards from a terminal state": no advance that
   read the plan earlier revives it or moves its count.                     *)
THEOREM StoppedStaysStoppedHolds == Spec => StoppedStaysStopped
  <1> DEFINE Kept == \A s \in Schedule :
               plan[s] \in {"COMPLETED", "CANCELED"} =>
                 plan'[s] \in {"COMPLETED", "CANCELED"} /\ totalRuns'[s] = totalRuns[s]
  <1>1. TypeOK /\ [Next]_vars => [Kept]_vars
    BY StepStopped
  <1>2. QED
    BY <1>1, PlanTypesCorrect, PTL DEF Spec, StoppedStaysStopped

-----------------------------------------------------------------------------
(* A plan completes with exactly maxRuns runs.                              *)

(* A handler that read a bounded plan read a count below the bound; a plan
   that does not exist has no runs.                                         *)
BelowMax ==
  \A h \in Handler :
    pc[h] = "advancing" /\ maxRuns[of[row[h]]] # 0 => runs[h] < maxRuns[of[row[h]]]
NoRunsBefore == \A s \in Schedule : plan[s] = "ABSENT" => totalRuns[s] = 0

Earned == CompletedIsEarned /\ BelowMax /\ NoRunsBefore

LEMMA MaxRunsIsNat == ASSUME TypeOK, NEW s \in Schedule PROVE maxRuns[s] \in Nat
  <1>1. \A c \in Count : c \in Nat
    BY PlansAssumption
  <1>2. maxRuns[s] \in Count \cup {0}
    BY DEF TypeOK
  <1>3. QED
    BY <1>1, <1>2

LEMMA InitEarned == Init => Earned
  BY DEF Init, Earned, CompletedIsEarned, BelowMax, NoRunsBefore

(* The row of a handler in the middle of its advance keeps its plan.        *)
LEMMA PlanOfRowStays ==
  ASSUME TypeOK, Links, [Next]_vars, NEW o \in Occ, occ[o] # "ABSENT"
  PROVE  of'[o] = of[o]
  <1> USE DEF vars, termVars, planVars, occVars, tickVars, handlerVars
  <1>1. ASSUME NEW k \in Tick, NEW p \in Occ, CreateOccurrence(k, p) PROVE of'[o] = of[o]
    BY <1>1 DEF CreateOccurrence, TypeOK
  <1>2. ASSUME NEW k \in Tick,
               \/ \E j \in Job : AcquireLock(k, j)
               \/ ReadDue(k)
               \/ \E s \in Schedule : SkipInFlight(k, s) \/ FindNoneInFlight(k, s)
               \/ CreateBeyondBound(k)
               \/ TickReturns(k)
               \/ TickDies(k)
        PROVE  UNCHANGED of
    BY <1>2
    DEF AcquireLock, ReadDue, SkipInFlight, FindNoneInFlight, CreateBeyondBound, TickReturns,
        TickDies
  <1>3. CASE OwnerStep \/ (\E j \in Job : LockLapses(j)) \/ (\E h \in Handler : HandlerStep(h))
    BY <1>3
    DEF OwnerStep, CreateSchedule, ComesDue, CancelScheduled, LockLapses, HandlerStep, Claim,
        PersistSucceeded, RevertClaim, ReadActivePlan, ReadStoppedPlan, Advance, HandlerDies
  <1>4. QED
    BY <1>1, <1>2, <1>3 DEF Next, TickAdvances

(* A handler is in the middle of its advance because it just read the plan, or
   because it was before, with the same row and the same count.             *)
LEMMA AdvancingBefore ==
  ASSUME TypeOK, [Next]_vars, NEW h \in Handler, pc'[h] = "advancing", ~ReadActivePlan(h)
  PROVE  pc[h] = "advancing" /\ row'[h] = row[h] /\ runs'[h] = runs[h]
  <1> USE DEF vars, termVars, planVars, occVars, tickVars, handlerVars
  <1>1. CASE OwnerStep \/ \E j \in Job : LockLapses(j)
    BY <1>1 DEF OwnerStep, CreateSchedule, ComesDue, CancelScheduled, LockLapses
  <1>2. CASE \/ \E k \in Tick, j \in Job : AcquireLock(k, j)
             \/ \E k \in Tick : TickAdvances(k) \/ TickDies(k)
    BY <1>2
    DEF AcquireLock, TickAdvances, ReadDue, SkipInFlight, FindNoneInFlight, CreateOccurrence,
        CreateBeyondBound, TickReturns, TickDies
  <1>3. ASSUME NEW g \in Handler, NEW o \in Occ, Claim(g, o)
        PROVE  pc[h] = "advancing" /\ row'[h] = row[h] /\ runs'[h] = runs[h]
    BY <1>3 DEF Claim, TypeOK
  <1>4. ASSUME NEW g \in Handler, PersistSucceeded(g) \/ ReadActivePlan(g)
        PROVE  pc[h] = "advancing" /\ row'[h] = row[h] /\ runs'[h] = runs[h]
    BY <1>4 DEF PersistSucceeded, ReadActivePlan, TypeOK
  <1>5. ASSUME NEW g \in Handler,
               RevertClaim(g) \/ ReadStoppedPlan(g) \/ Advance(g) \/ HandlerDies(g)
        PROVE  pc[h] = "advancing" /\ row'[h] = row[h] /\ runs'[h] = runs[h]
    <2>1. HandlerReturns(g)
      BY <1>5 DEF RevertClaim, AfterThrow, ReadStoppedPlan, Advance, HandlerDies
    <2>2. QED
      BY <2>1 DEF HandlerReturns, TypeOK
  <1>6. QED
    BY <1>1, <1>2, <1>3, <1>4, <1>5 DEF Next, HandlerStep

LEMMA StepBelowMax == TypeOK /\ Links /\ Earned /\ [Next]_vars => BelowMax'
  <1> SUFFICES ASSUME TypeOK, Links, Earned, [Next]_vars,
                      NEW h \in Handler, pc'[h] = "advancing", maxRuns'[of'[row'[h]]] # 0
               PROVE  runs'[h] < maxRuns'[of'[row'[h]]]
    BY DEF BelowMax
  <1>1. CASE ReadActivePlan(h)
    <2>1. row[h] \in Occ /\ of[row[h]] \in Schedule
      BY <1>1, PlanOfHandler DEF ReadActivePlan
    <2>2. UNCHANGED <<of, row, maxRuns>> /\ runs'[h] = totalRuns[of[row[h]]]
      BY <1>1 DEF ReadActivePlan, occVars, planVars, termVars, TypeOK
    <2>3. QED
      BY <1>1, <2>1, <2>2 DEF Earned, CompletedIsEarned, ReadActivePlan
  <1>2. CASE ~ReadActivePlan(h)
    <2>1. pc[h] = "advancing" /\ row'[h] = row[h] /\ runs'[h] = runs[h]
      BY <1>2, AdvancingBefore
    <2>2. row[h] \in Occ /\ of[row[h]] \in Schedule /\ plan[of[row[h]]] # "ABSENT"
      BY <2>1, PlanOfHandler
    <2>3. of'[row[h]] = of[row[h]]
      BY <2>1, <2>2, PlanOfRowStays DEF Links, RowHeld, Confirming
    <2>4. maxRuns'[of[row[h]]] = maxRuns[of[row[h]]]
      BY <2>2, PlansStay
    <2>5. QED
      BY <2>1, <2>3, <2>4 DEF Earned, BelowMax
  <1>3. QED
    BY <1>1, <1>2

LEMMA StepCompleted ==
  TypeOK /\ Links /\ Earned /\ [Next]_vars => CompletedIsEarned' /\ NoRunsBefore'
  <1> SUFFICES ASSUME TypeOK, Links, Earned, [Next]_vars
               PROVE  CompletedIsEarned' /\ NoRunsBefore'
    OBVIOUS
  <1> USE DEF vars, termVars, planVars, occVars, tickVars, handlerVars, CompletedIsEarned,
              NoRunsBefore
  <1>1. CompletedIsEarned /\ NoRunsBefore
    BY DEF Earned
  <1>2. ASSUME NEW s \in Schedule, CreateSchedule(s) PROVE CompletedIsEarned' /\ NoRunsBefore'
    BY <1>1, <1>2, PlansAssumption DEF CreateSchedule, TypeOK
  <1>3. ASSUME NEW s \in Schedule, ComesDue(s) \/ CancelScheduled(s)
        PROVE  CompletedIsEarned' /\ NoRunsBefore'
    BY <1>1, <1>3 DEF ComesDue, CancelScheduled, TypeOK
  <1>4. ASSUME NEW h \in Handler, Advance(h) PROVE CompletedIsEarned' /\ NoRunsBefore'
    <2> DEFINE s == of[row[h]]
               n == runs[h] + 1
    <2>1. s \in Schedule /\ plan[s] # "ABSENT"
      BY <1>4, PlanOfHandler DEF Advance
    <2>2. maxRuns[s] \in Nat /\ n \in Nat /\ (maxRuns[s] # 0 => n <= maxRuns[s])
      <3>1. maxRuns[s] \in Nat /\ runs[h] \in Nat
        BY <2>1, MaxRunsIsNat DEF TypeOK
      <3>2. maxRuns[s] # 0 => runs[h] < maxRuns[s]
        BY <1>4 DEF Advance, Earned, BelowMax
      <3>3. QED
        BY <3>1, <3>2
    <2>3. CASE StillActive(s)
      <3>1. /\ plan' = [plan EXCEPT ![s] = IF Completes(s, n) THEN "COMPLETED" ELSE "ACTIVE"]
            /\ totalRuns' = [totalRuns EXCEPT ![s] = n]
            /\ UNCHANGED maxRuns
        BY <1>4, <2>3 DEF Advance
      <3>2. \A x \in Schedule \ {s} : plan'[x] = plan[x] /\ totalRuns'[x] = totalRuns[x]
        BY <3>1 DEF TypeOK
      <3>3. /\ plan'[s] \in {"COMPLETED", "ACTIVE"}
            /\ plan'[s] = "COMPLETED" => maxRuns[s] # 0 /\ n = maxRuns[s]
            /\ plan'[s] = "ACTIVE" /\ maxRuns[s] # 0 => n < maxRuns[s]
            /\ totalRuns'[s] = n
        BY <2>1, <2>2, <3>1 DEF TypeOK, Completes
      <3>4. QED
        BY <1>1, <2>1, <3>1, <3>2, <3>3
    <2>4. CASE ~StillActive(s)
      BY <1>1, <1>4, <2>4 DEF Advance
    <2>5. QED
      BY <2>3, <2>4
  <1>5. CASE UNCHANGED <<plan, maxRuns, totalRuns>>
    BY <1>1, <1>5
  <1>6. CASE \/ \E k \in Tick, j \in Job : AcquireLock(k, j)
             \/ \E k \in Tick : TickAdvances(k) \/ TickDies(k)
             \/ \E j \in Job : LockLapses(j)
    BY <1>5, <1>6
    DEF AcquireLock, TickAdvances, ReadDue, SkipInFlight, FindNoneInFlight, CreateOccurrence,
        CreateBeyondBound, TickReturns, TickDies, LockLapses
  <1>7. ASSUME NEW h \in Handler, HandlerStep(h), ~Advance(h)
        PROVE  UNCHANGED <<plan, maxRuns, totalRuns>>
    BY <1>7
    DEF HandlerStep, Claim, PersistSucceeded, RevertClaim, ReadActivePlan, ReadStoppedPlan,
        HandlerDies
  <1>8. QED
    BY <1>2, <1>3, <1>4, <1>5, <1>6, <1>7 DEF Next, OwnerStep

(* A plan is COMPLETED with exactly maxRuns runs counted, and one that counted
   them is not active, though the advance reads the count in one statement and
   writes it in another.                                                    *)
THEOREM CompletedIsEarnedHolds == Spec => []CompletedIsEarned
  <1>1. Init => TypeOK /\ Links /\ Earned
    BY InitTyped, InitEarned
  <1>2. TypeOK /\ Links /\ Earned /\ [Next]_vars => TypeOK' /\ Links' /\ Earned'
    BY StepTyped, StepLinks, StepBelowMax, StepCompleted DEF Earned
  <1>3. Earned => CompletedIsEarned
    BY DEF Earned
  <1>4. QED
    BY <1>1, <1>2, <1>3, PTL DEF Spec

-----------------------------------------------------------------------------
(* No run is counted that was not paid.                                     *)

(* The paid occurrences of a plan that no handler is still going to count.
   Two advances that read the same count write the same count, so a run may go
   uncounted; a count never gets ahead of these.                            *)
Counted(s) == {o \in Paid(s) : \A h \in Handler : Confirming(h) => row[h] # o}

RunsCounted ==
  /\ \A s \in Schedule : totalRuns[s] <= Cardinality(Counted(s))
  /\ \A h \in Handler : pc[h] = "advancing" => runs[h] <= Cardinality(Counted(of[row[h]]))

LEMMA OccurrencesFinite == ASSUME NEW S \in SUBSET Occ PROVE IsFiniteSet(S) /\ Cardinality(S) \in Nat
  <1>1. IsFiniteSet(Occ)
    BY FS_Interval, BoundsAssumption DEF Occ
  <1>2. IsFiniteSet(S)
    BY <1>1, FS_Subset
  <1>3. QED
    BY <1>2, FS_CardinalityType

LEMMA CountedFinite ==
  ASSUME NEW s PROVE IsFiniteSet(Counted(s)) /\ Cardinality(Counted(s)) \in Nat
  <1>1. Counted(s) \in SUBSET Occ
    BY DEF Counted, Paid
  <1>2. QED
    BY <1>1, OccurrencesFinite

LEMMA CountedFiniteNext ==
  ASSUME NEW s PROVE IsFiniteSet(Counted(s)') /\ Cardinality(Counted(s)') \in Nat
  <1>1. Counted(s)' \in SUBSET Occ
    BY DEF Counted, Paid
  <1>2. QED
    BY <1>1, OccurrencesFinite

(* A succeeded occurrence stays so.                                         *)
LEMMA SucceededStays ==
  ASSUME TypeOK, Links, [Next]_vars, NEW o \in Occ, occ[o] = "SUCCEEDED"
  PROVE  occ'[o] = "SUCCEEDED"
  <1> USE DEF vars, termVars, planVars, occVars, tickVars, handlerVars
  <1>1. ASSUME NEW k \in Tick, NEW p \in Occ, CreateOccurrence(k, p) PROVE occ'[o] = occ[o]
    BY <1>1 DEF CreateOccurrence, TypeOK
  <1>2. ASSUME NEW k \in Tick,
               \/ \E j \in Job : AcquireLock(k, j)
               \/ ReadDue(k)
               \/ \E s \in Schedule : SkipInFlight(k, s) \/ FindNoneInFlight(k, s)
               \/ CreateBeyondBound(k)
               \/ TickReturns(k)
               \/ TickDies(k)
        PROVE  UNCHANGED occ
    BY <1>2
    DEF AcquireLock, ReadDue, SkipInFlight, FindNoneInFlight, CreateBeyondBound, TickReturns,
        TickDies
  <1>3. ASSUME NEW h \in Handler, NEW p \in Occ, Claim(h, p) PROVE occ'[o] = occ[o]
    BY <1>3 DEF Claim, TypeOK
  <1>4. ASSUME NEW h \in Handler, PersistSucceeded(h) \/ RevertClaim(h)
        PROVE  occ'[o] = "SUCCEEDED"
    BY <1>4 DEF PersistSucceeded, RevertClaim, TypeOK
  <1>5. ASSUME NEW h \in Handler,
               ReadActivePlan(h) \/ ReadStoppedPlan(h) \/ Advance(h) \/ HandlerDies(h)
        PROVE  UNCHANGED occ
    BY <1>5 DEF ReadActivePlan, ReadStoppedPlan, Advance, HandlerDies
  <1>6. CASE OwnerStep \/ \E j \in Job : LockLapses(j)
    BY <1>6 DEF OwnerStep, CreateSchedule, ComesDue, CancelScheduled, LockLapses
  <1>7. QED
    BY <1>1, <1>2, <1>3, <1>4, <1>5, <1>6 DEF Next, TickAdvances, HandlerStep

(* A handler whose submission has succeeded had claimed its row before.     *)
LEMMA ConfirmingBefore ==
  ASSUME TypeOK, [Next]_vars, NEW h \in Handler, Confirming(h)'
  PROVE  row'[h] = row[h] /\ (pc[h] = "claimed" \/ Confirming(h))
  <1> USE DEF vars, termVars, planVars, occVars, tickVars, handlerVars, Confirming
  <1>1. CASE OwnerStep \/ \E j \in Job : LockLapses(j)
    BY <1>1 DEF OwnerStep, CreateSchedule, ComesDue, CancelScheduled, LockLapses
  <1>2. CASE \/ \E k \in Tick, j \in Job : AcquireLock(k, j)
             \/ \E k \in Tick : TickAdvances(k) \/ TickDies(k)
    BY <1>2
    DEF AcquireLock, TickAdvances, ReadDue, SkipInFlight, FindNoneInFlight, CreateOccurrence,
        CreateBeyondBound, TickReturns, TickDies
  <1>3. ASSUME NEW g \in Handler, NEW o \in Occ, Claim(g, o)
        PROVE  row'[h] = row[h] /\ (pc[h] = "claimed" \/ Confirming(h))
    BY <1>3 DEF Claim, TypeOK
  <1>4. ASSUME NEW g \in Handler, PersistSucceeded(g) \/ ReadActivePlan(g)
        PROVE  row'[h] = row[h] /\ (pc[h] = "claimed" \/ Confirming(h))
    BY <1>4 DEF PersistSucceeded, ReadActivePlan, TypeOK
  <1>5. ASSUME NEW g \in Handler,
               RevertClaim(g) \/ ReadStoppedPlan(g) \/ Advance(g) \/ HandlerDies(g)
        PROVE  row'[h] = row[h] /\ (pc[h] = "claimed" \/ Confirming(h))
    <2>1. HandlerReturns(g)
      BY <1>5 DEF RevertClaim, AfterThrow, ReadStoppedPlan, Advance, HandlerDies
    <2>2. QED
      BY <2>1 DEF HandlerReturns, TypeOK
  <1>6. CASE UNCHANGED vars
    BY <1>6
  <1>7. QED
    BY <1>1, <1>2, <1>3, <1>4, <1>5, <1>6 DEF Next, HandlerStep

LEMMA CountedGrows ==
  ASSUME TypeOK, Links, [Next]_vars, NEW s
  PROVE  /\ Counted(s) \subseteq Counted(s)'
         /\ Cardinality(Counted(s)) <= Cardinality(Counted(s)')
  <1>1. ASSUME NEW o \in Counted(s) PROVE o \in Counted(s)'
    <2>1. o \in Occ /\ of[o] = s /\ occ[o] = "SUCCEEDED"
      BY DEF Counted, Paid
    <2>2. of'[o] = s /\ occ'[o] = "SUCCEEDED"
      BY <2>1, PlanOfRowStays, SucceededStays
    <2>3. ASSUME NEW h \in Handler, Confirming(h)' PROVE row'[h] # o
      <3>1. row'[h] = row[h] /\ (pc[h] = "claimed" \/ Confirming(h))
        BY <2>3, ConfirmingBefore
      <3>2. pc[h] = "claimed" => occ[row[h]] = "SUBMITTED"
        BY DEF Links, RowHeld
      <3>3. Confirming(h) => row[h] # o
        BY DEF Counted
      <3>4. QED
        BY <2>1, <3>1, <3>2, <3>3
    <2>4. QED
      BY <2>1, <2>2, <2>3 DEF Counted, Paid
  <1>2. Counted(s) \subseteq Counted(s)'
    BY <1>1
  <1>3. QED
    BY <1>2, CountedFiniteNext, FS_Subset

(* An advance adds the handler's own row to what is counted.                *)
LEMMA AdvanceCounts ==
  ASSUME TypeOK, Links, [Next]_vars, NEW h \in Handler, Advance(h), NEW s, s = of[row[h]]
  PROVE  Cardinality(Counted(s)) + 1 <= Cardinality(Counted(s)')
  <1> DEFINE o == row[h]
  <1>1. pc[h] = "advancing" /\ UNCHANGED <<occ, of>> /\ HandlerReturns(h)
    BY DEF Advance, occVars
  <1>2. o \in Occ /\ occ[o] = "SUCCEEDED"
    BY <1>1 DEF Links, RowHeld, Confirming
  <1>3. o \notin Counted(s)
    BY <1>1 DEF Counted, Confirming
  <1>4. o \in Counted(s)'
    <2>1. ASSUME NEW g \in Handler, Confirming(g)' PROVE row'[g] # o
      <3>1. g # h
        BY <1>1, <2>1 DEF HandlerReturns, Confirming, TypeOK
      <3>2. row'[g] = row[g] /\ pc[g] # "idle"
        BY <2>1, ConfirmingBefore DEF Confirming
      <3>3. QED
        BY <1>1, <3>1, <3>2 DEF Links, RowOwned
    <2>2. QED
      BY <1>1, <1>2, <2>1 DEF Counted, Paid
  <1>5. Cardinality(Counted(s) \cup {o}) = Cardinality(Counted(s)) + 1
    BY <1>3, CountedFinite, FS_AddElement
  <1>6. Counted(s) \cup {o} \in SUBSET Counted(s)'
    BY <1>4, CountedGrows
  <1>7. Cardinality(Counted(s) \cup {o}) <= Cardinality(Counted(s)')
    BY <1>6, CountedFiniteNext, FS_Subset
  <1>8. QED
    BY <1>5, <1>7

(* A run count moves only when a handler advances the plan of its row.      *)
LEMMA CountMoves ==
  ASSUME TypeOK, [Next]_vars, NEW s \in Schedule, totalRuns'[s] # totalRuns[s]
  PROVE  \E h \in Handler :
           Advance(h) /\ s = of[row[h]] /\ totalRuns'[s] = runs[h] + 1
  <1> USE DEF vars, termVars, planVars, occVars, tickVars, handlerVars
  <1>1. CASE OwnerStep
    BY <1>1 DEF OwnerStep, CreateSchedule, ComesDue, CancelScheduled
  <1>2. CASE \/ \E k \in Tick, j \in Job : AcquireLock(k, j)
             \/ \E k \in Tick : TickAdvances(k) \/ TickDies(k)
             \/ \E j \in Job : LockLapses(j)
    BY <1>2
    DEF AcquireLock, TickAdvances, ReadDue, SkipInFlight, FindNoneInFlight, CreateOccurrence,
        CreateBeyondBound, TickReturns, TickDies, LockLapses
  <1>3. ASSUME NEW h \in Handler, HandlerStep(h)
        PROVE  Advance(h)
    BY <1>3
    DEF HandlerStep, Claim, PersistSucceeded, RevertClaim, ReadActivePlan, ReadStoppedPlan,
        HandlerDies
  <1>4. ASSUME NEW h \in Handler, Advance(h)
        PROVE  s = of[row[h]] /\ totalRuns'[s] = runs[h] + 1
    BY <1>4 DEF Advance, TypeOK
  <1>5. QED
    BY <1>1, <1>2, <1>3, <1>4 DEF Next

LEMMA InitRunsCounted == Init => RunsCounted
  BY CountedFinite DEF Init, RunsCounted

LEMMA StepRunsCounted == TypeOK /\ Links /\ RunsCounted /\ [Next]_vars => RunsCounted'
  <1> SUFFICES ASSUME TypeOK, Links, RunsCounted, [Next]_vars PROVE RunsCounted'
    OBVIOUS
  <1>1. ASSUME NEW s \in Schedule PROVE totalRuns'[s] <= Cardinality(Counted(s)')
    <2>1. /\ Cardinality(Counted(s)) \in Nat
          /\ Cardinality(Counted(s)') \in Nat
          /\ Cardinality(Counted(s)) <= Cardinality(Counted(s)')
      BY CountedFinite, CountedFiniteNext, CountedGrows
    <2>2. CASE totalRuns'[s] = totalRuns[s]
      <3>1. totalRuns[s] <= Cardinality(Counted(s)) /\ totalRuns[s] \in Nat
        BY DEF RunsCounted, TypeOK
      <3>2. QED
        BY <2>1, <2>2, <3>1
    <2>3. CASE totalRuns'[s] # totalRuns[s]
      <3>1. PICK h \in Handler : Advance(h) /\ s = of[row[h]] /\ totalRuns'[s] = runs[h] + 1
        BY <2>3, CountMoves
      <3>2. runs[h] <= Cardinality(Counted(s)) /\ runs[h] \in Nat
        BY <3>1 DEF Advance, RunsCounted, TypeOK
      <3>3. Cardinality(Counted(s)) + 1 <= Cardinality(Counted(s)')
        BY <3>1, AdvanceCounts
      <3>4. QED
        BY <2>1, <3>1, <3>2, <3>3
    <2>4. QED
      BY <2>2, <2>3
  <1>2. ASSUME NEW h \in Handler, pc'[h] = "advancing", NEW s \in Schedule, s = of[row[h]],
               pc[h] # "idle"
        PROVE  runs'[h] <= Cardinality(Counted(s)')
    <2>1. /\ Cardinality(Counted(s)) \in Nat
          /\ Cardinality(Counted(s)') \in Nat
          /\ Cardinality(Counted(s)) <= Cardinality(Counted(s)')
      BY CountedFinite, CountedFiniteNext, CountedGrows
    <2>2. runs'[h] \in Nat /\ runs'[h] <= Cardinality(Counted(s))
      <3>1. CASE ReadActivePlan(h)
        BY <1>2, <3>1 DEF ReadActivePlan, RunsCounted, TypeOK
      <3>2. CASE ~ReadActivePlan(h)
        BY <1>2, <3>2, AdvancingBefore DEF RunsCounted, TypeOK
      <3>3. QED
        BY <3>1, <3>2
    <2>3. QED
      BY <2>1, <2>2
  <1>3. ASSUME NEW h \in Handler, pc'[h] = "advancing"
        PROVE  runs'[h] <= Cardinality(Counted(of[row[h]])')
    <2>1. row'[h] = row[h] /\ pc[h] # "idle"
      BY <1>3, ConfirmingBefore DEF Confirming
    <2>2. row[h] \in Occ /\ of[row[h]] \in Schedule /\ occ[row[h]] # "ABSENT"
      BY <2>1, PlanOfHandler DEF Links, RowHeld, Confirming, TypeOK
    <2>3. of'[row'[h]] = of[row[h]]
      BY <2>1, <2>2, PlanOfRowStays
    <2>4. PICK s \in Schedule : s = of[row[h]]
      BY <2>2
    <2>5. runs'[h] <= Cardinality(Counted(s)')
      BY <1>2, <1>3, <2>1, <2>4
    <2>6. Counted(of[row[h]])' = Counted(s)'
      BY <2>3, <2>4 DEF Counted, Paid
    <2>7. QED
      BY <2>5, <2>6
  <1>4. QED
    BY <1>1, <1>3 DEF RunsCounted

(* "The schedule is advanced only when that occurrence's transaction is
   confirmed": a plan never counts more runs than occurrences that were paid.
   Reading and writing the count in two statements can lose a run, never
   invent one.                                                              *)
THEOREM RunsAreConfirmedHolds == Spec => []RunsAreConfirmed
  <1>1. Init => TypeOK /\ Links /\ RunsCounted
    BY InitTyped, InitRunsCounted
  <1>2. TypeOK /\ Links /\ RunsCounted /\ [Next]_vars => TypeOK' /\ Links' /\ RunsCounted'
    BY StepTyped, StepLinks, StepRunsCounted
  <1>3. TypeOK /\ RunsCounted => RunsAreConfirmed
    <2> SUFFICES ASSUME TypeOK, RunsCounted, NEW s \in Schedule
                 PROVE  totalRuns[s] <= Cardinality(Paid(s))
      BY DEF RunsAreConfirmed
    <2>1. Paid(s) \in SUBSET Occ /\ Counted(s) \in SUBSET Paid(s)
      BY DEF Paid, Counted
    <2>2. Cardinality(Counted(s)) <= Cardinality(Paid(s))
      BY <2>1, OccurrencesFinite, FS_Subset
    <2>3. /\ totalRuns[s] \in Nat
          /\ totalRuns[s] <= Cardinality(Counted(s))
          /\ Cardinality(Counted(s)) \in Nat
          /\ Cardinality(Paid(s)) \in Nat
      BY <2>1, OccurrencesFinite, CountedFinite DEF TypeOK, RunsCounted
    <2>4. QED
      BY <2>2, <2>3
  <1>4. QED
    BY <1>1, <1>2, <1>3, PTL DEF Spec

-----------------------------------------------------------------------------
(* How many unpaid occurrences a plan can have.                             *)

(* The ticks that found nothing in flight for s and have still to insert.   *)
Making(s) == {k \in Tick : cur[k] = s}

(* A tick works for one job, on plans that job covers; a plan that does not
   exist yet has no interval.                                               *)
TickAtWork ==
  \A k \in Tick :
    /\ job[k] = NoPlan <=> tpc[k] = "idle"
    /\ cur[k] # NoPlan <=> tpc[k] = "clear"
    /\ job[k] = NoPlan => batch[k] = {}
    /\ \A s \in batch[k] : job[k] = "subscriptions" => recurring[s]
    /\ cur[k] # NoPlan /\ job[k] = "subscriptions" => recurring[cur[k]]
NoTermsBefore == \A s \in Schedule : plan[s] = "ABSENT" => ~recurring[s]

(* One tick of a job holds its lock; every other one lost it while running. *)
HoldersWith(lost) ==
  /\ lost["scheduled"] + lost["subscriptions"] <= overruns
  /\ \A j \in Job : /\ IsFiniteSet(Running(j))
                    /\ Cardinality(Running(j)) <= lost[j] + (IF j \in lock THEN 1 ELSE 0)
LocksCounted == \E lost \in [Job -> Nat] : HoldersWith(lost)

(* A tick about to insert counts like the occurrence it will insert.        *)
OpenCounted ==
  \A s \in Schedule :
    /\ IsFiniteSet(Making(s))
    /\ Cardinality(OpenRows(s)) + Cardinality(Making(s)) <= Cardinality(Covering(s)) + overruns

InFlightInv == TickAtWork /\ NoTermsBefore /\ LocksCounted /\ OpenCounted

LEMMA JobsCounted ==
  ASSUME NEW R \in BOOLEAN
  PROVE  Cardinality({j \in Job : j = "subscriptions" => R}) = IF R THEN 2 ELSE 1
  <1>1. CASE R
    <2>1. {j \in Job : j = "subscriptions" => R} = {"scheduled"} \cup {"subscriptions"}
      BY <1>1 DEF Job
    <2>2. IsFiniteSet({"scheduled"}) /\ Cardinality({"scheduled"}) = 1
      BY FS_Singleton
    <2>3. QED
      BY <1>1, <2>1, <2>2, FS_AddElement
  <1>2. CASE ~R
    <2>1. {j \in Job : j = "subscriptions" => R} = {"scheduled"}
      BY <1>2 DEF Job
    <2>2. QED
      BY <1>2, <2>1, FS_Singleton
  <1>3. QED
    BY <1>1, <1>2

LEMMA CoveringCount ==
  ASSUME TypeOK, NEW s \in Schedule
  PROVE  Cardinality(Covering(s)) = IF recurring[s] THEN 2 ELSE 1
  <1>1. recurring[s] \in BOOLEAN
    BY DEF TypeOK
  <1>2. Covering(s) = {j \in Job : j = "subscriptions" => recurring[s]}
    BY DEF Covering, Covered
  <1>3. QED
    BY <1>1, <1>2, JobsCounted

LEMMA CoveringCountNext ==
  ASSUME TypeOK', NEW s \in Schedule
  PROVE  Cardinality(Covering(s)') = IF recurring'[s] THEN 2 ELSE 1
  <1>1. recurring'[s] \in BOOLEAN
    BY DEF TypeOK
  <1>2. Covering(s)' = {j \in Job : j = "subscriptions" => recurring'[s]}
    BY DEF Covering, Covered
  <1>3. QED
    BY <1>1, <1>2, JobsCounted

LEMMA OpenFinite ==
  ASSUME NEW s
  PROVE  /\ IsFiniteSet(OpenRows(s)) /\ Cardinality(OpenRows(s)) \in Nat
         /\ IsFiniteSet(OpenRows(s)') /\ Cardinality(OpenRows(s)') \in Nat
  <1>1. OpenRows(s) \in SUBSET Occ /\ OpenRows(s)' \in SUBSET Occ
    BY DEF OpenRows
  <1>2. QED
    BY <1>1, OccurrencesFinite

LEMMA InitInFlight == Init => InFlightInv
  <1> SUFFICES ASSUME Init PROVE InFlightInv
    OBVIOUS
  <1>1. TypeOK
    BY InitTyped
  <1>2. TickAtWork /\ NoTermsBefore
    BY PlansAssumption DEF Init, TickAtWork, NoTermsBefore
  <1>3. LocksCounted
    <2>1. \A j \in Job : Running(j) = {}
      BY PlansAssumption DEF Init, Running
    <2>2. PICK lost \in [Job -> Nat] : lost = [j \in Job |-> 0]
      OBVIOUS
    <2>3. lost["scheduled"] = 0 /\ lost["subscriptions"] = 0 /\ overruns = 0 /\ lock = {}
      BY <2>2 DEF Init, Job
    <2>4. \A j \in Job : lost[j] = 0
      BY <2>2
    <2>5. HoldersWith(lost)
      BY <2>1, <2>3, <2>4, FS_EmptySet DEF HoldersWith
    <2>6. QED
      BY <2>5 DEF LocksCounted
  <1>4. OpenCounted
    <2> SUFFICES ASSUME NEW s \in Schedule
                 PROVE  /\ IsFiniteSet(Making(s))
                        /\ Cardinality(OpenRows(s)) + Cardinality(Making(s))
                             <= Cardinality(Covering(s)) + overruns
      BY DEF OpenCounted
    <2>1. Making(s) = {} /\ OpenRows(s) = {} /\ overruns = 0
      BY PlansAssumption DEF Init, Making, OpenRows
    <2>2. Cardinality(Covering(s)) \in Nat
      BY <1>1, CoveringCount
    <2>3. QED
      BY <2>1, <2>2, FS_EmptySet
  <1>5. QED
    BY <1>2, <1>3, <1>4 DEF InFlightInv

(* An interval is given once, when the plan is made.                        *)
LEMMA IntervalStays ==
  ASSUME TypeOK, [Next]_vars, NEW s \in Schedule
  PROVE  recurring'[s] = recurring[s] \/ CreateSchedule(s)
  <1> USE DEF vars, termVars, planVars, occVars, tickVars, handlerVars
  <1>1. CASE OwnerStep
    BY <1>1 DEF OwnerStep, CreateSchedule, ComesDue, CancelScheduled, TypeOK
  <1>2. CASE \/ \E k \in Tick, j \in Job : AcquireLock(k, j)
             \/ \E k \in Tick : TickAdvances(k) \/ TickDies(k)
             \/ \E j \in Job : LockLapses(j)
    BY <1>2
    DEF AcquireLock, TickAdvances, ReadDue, SkipInFlight, FindNoneInFlight, CreateOccurrence,
        CreateBeyondBound, TickReturns, TickDies, LockLapses
  <1>3. ASSUME NEW h \in Handler, HandlerStep(h) PROVE UNCHANGED recurring
    BY <1>3
    DEF HandlerStep, Claim, PersistSucceeded, RevertClaim, ReadActivePlan, ReadStoppedPlan,
        Advance, HandlerDies
  <1>4. QED
    BY <1>1, <1>2, <1>3 DEF Next

LEMMA StepNoTermsBefore == TypeOK /\ NoTermsBefore /\ [Next]_vars => NoTermsBefore'
  <1> SUFFICES ASSUME TypeOK, NoTermsBefore, [Next]_vars,
                      NEW s \in Schedule, plan'[s] = "ABSENT"
               PROVE  ~recurring'[s]
    BY DEF NoTermsBefore
  <1>1. plan[s] = "ABSENT"
    BY PlansStay
  <1>2. ~CreateSchedule(s)
    BY DEF CreateSchedule, TypeOK
  <1>3. QED
    BY <1>1, <1>2, IntervalStays DEF NoTermsBefore

LEMMA StepTickAtWork == TypeOK /\ Links /\ TickAtWork /\ [Next]_vars => TickAtWork'
  <1> SUFFICES ASSUME TypeOK, Links, TickAtWork, [Next]_vars PROVE TickAtWork'
    OBVIOUS
  <1> USE DEF vars, termVars, planVars, occVars, tickVars, handlerVars
  <1>1. \A s \in Schedule : plan[s] # "ABSENT" => recurring'[s] = recurring[s]
    BY IntervalStays DEF CreateSchedule
  <1>2. \A k \in Tick : /\ \A s \in batch[k] : s \in Schedule /\ recurring'[s] = recurring[s]
                        /\ cur[k] # NoPlan => cur[k] \in Schedule /\ recurring'[cur[k]] = recurring[cur[k]]
    BY <1>1 DEF TypeOK, Links, BatchesExist, CurrentExists, TickAtWork
  <1>3. CASE UNCHANGED tickVars
    BY <1>2, <1>3 DEF TickAtWork
  <1>4. ASSUME NEW k \in Tick, NEW j \in Job, AcquireLock(k, j) PROVE TickAtWork'
    BY <1>2, <1>4, PlansAssumption DEF AcquireLock, TypeOK, TickAtWork
  <1>5. ASSUME NEW k \in Tick, ReadDue(k) PROVE TickAtWork'
    BY <1>2, <1>5 DEF ReadDue, Due, Covered, TypeOK, TickAtWork
  <1>6. ASSUME NEW k \in Tick, NEW s \in Schedule, SkipInFlight(k, s) PROVE TickAtWork'
    BY <1>2, <1>6 DEF SkipInFlight, TypeOK, TickAtWork
  <1>7. ASSUME NEW k \in Tick, NEW s \in Schedule, FindNoneInFlight(k, s) PROVE TickAtWork'
    BY <1>2, <1>7, PlansAssumption DEF FindNoneInFlight, TypeOK, TickAtWork
  <1>8. ASSUME NEW k \in Tick, (\E o \in Occ : CreateOccurrence(k, o)) \/ CreateBeyondBound(k)
        PROVE  TickAtWork'
    BY <1>2, <1>8 DEF CreateOccurrence, CreateBeyondBound, TypeOK, TickAtWork
  <1>9. ASSUME NEW k \in Tick, TickReturns(k) \/ TickDies(k) PROVE TickAtWork'
    BY <1>2, <1>9 DEF TickReturns, TickDies, TypeOK, TickAtWork
  <1>10. CASE OwnerStep \/ (\E j \in Job : LockLapses(j)) \/ (\E h \in Handler : HandlerStep(h))
    BY <1>3, <1>10
    DEF OwnerStep, CreateSchedule, ComesDue, CancelScheduled, LockLapses, HandlerStep, Claim,
        PersistSucceeded, RevertClaim, ReadActivePlan, ReadStoppedPlan, Advance, HandlerDies
  <1>11. QED
    BY <1>3, <1>4, <1>5, <1>6, <1>7, <1>8, <1>9, <1>10 DEF Next, TickAdvances

LEMMA StepLocksCounted ==
  TypeOK /\ TickAtWork /\ LocksCounted /\ [Next]_vars => LocksCounted'
  <1> SUFFICES ASSUME TypeOK, TickAtWork, LocksCounted, [Next]_vars PROVE LocksCounted'
    OBVIOUS
  <1> USE DEF vars, termVars, planVars, occVars, tickVars, handlerVars
  <1>1. PICK lost \in [Job -> Nat] : HoldersWith(lost)
    BY DEF LocksCounted
  <1>2. /\ lost["scheduled"] \in Nat /\ lost["subscriptions"] \in Nat /\ overruns \in Nat
        /\ lost["scheduled"] + lost["subscriptions"] <= overruns
        /\ \A j \in Job : /\ IsFiniteSet(Running(j)) /\ Cardinality(Running(j)) \in Nat /\ lost[j] \in Nat
                          /\ Cardinality(Running(j)) <= lost[j] + (IF j \in lock THEN 1 ELSE 0)
    BY <1>1, FS_CardinalityType DEF HoldersWith, TypeOK, Job
  <1>3. CASE UNCHANGED <<job, lock, overruns>>
    BY <1>1, <1>3 DEF LocksCounted, HoldersWith, Running
  <1>4. ASSUME NEW k \in Tick, NEW j \in Job, AcquireLock(k, j) PROVE LocksCounted'
    <2>1. /\ job' = [job EXCEPT ![k] = j] /\ job[k] = NoPlan /\ lock' = lock \cup {j} /\ j \notin lock
          /\ overruns' = overruns
      BY <1>4 DEF AcquireLock, LockFree, TickAtWork
    <2>2. Running(j)' = Running(j) \cup {k} /\ k \notin Running(j)
      BY <2>1, PlansAssumption DEF Running, TypeOK
    <2>3. IsFiniteSet(Running(j)') /\ Cardinality(Running(j)') <= lost[j] + 1
      <3>1. /\ IsFiniteSet(Running(j) \cup {k})
            /\ Cardinality(Running(j) \cup {k}) = Cardinality(Running(j)) + 1
        BY <1>2, <2>2, FS_AddElement
      <3>2. Cardinality(Running(j)) <= lost[j] /\ Cardinality(Running(j)) \in Nat /\ lost[j] \in Nat
        BY <1>2, <2>1
      <3>3. QED
        BY <2>2, <3>1, <3>2
    <2>4. ASSUME NEW i \in Job, i # j
          PROVE  Running(i)' = Running(i) /\ (i \in lock' <=> i \in lock)
      BY <2>1, <2>4, PlansAssumption DEF Running, TypeOK
    <2>5. \A i \in Job : /\ IsFiniteSet(Running(i)')
                         /\ Cardinality(Running(i)') <= lost[i] + (IF i \in lock' THEN 1 ELSE 0)
      BY <1>2, <2>1, <2>3, <2>4
    <2>6. QED
      BY <1>2, <2>1, <2>5 DEF LocksCounted, HoldersWith
  <1>5. ASSUME NEW k \in Tick, TickReturns(k) \/ TickDies(k) PROVE LocksCounted'
    <2>1. job' = [job EXCEPT ![k] = NoPlan] /\ UNCHANGED <<lock, overruns>>
      BY <1>5 DEF TickReturns, TickDies
    <2>2. ASSUME NEW i \in Job
          PROVE  /\ IsFiniteSet(Running(i)')
                 /\ Cardinality(Running(i)') <= lost[i] + (IF i \in lock' THEN 1 ELSE 0)
      <3>1. Running(i)' \in SUBSET Running(i)
        BY <2>1, PlansAssumption DEF Running, TypeOK
      <3>2. /\ IsFiniteSet(Running(i)') /\ Cardinality(Running(i)') <= Cardinality(Running(i))
            /\ Cardinality(Running(i)') \in Nat
        BY <1>2, <3>1, FS_Subset, FS_CardinalityType
      <3>3. QED
        BY <1>2, <2>1, <3>2
    <2>3. QED
      BY <1>2, <2>1, <2>2 DEF LocksCounted, HoldersWith
  <1>6. ASSUME NEW j \in Job, LockLapses(j) PROVE LocksCounted'
    <2>1. /\ lock' = lock \ {j} /\ job' = job
          /\ IF Running(j) = {} THEN overruns' = overruns ELSE overruns' = overruns + 1
      BY <1>6 DEF LockLapses
    <2>2. \A i \in Job : Running(i)' = Running(i)
      BY <2>1 DEF Running
    <2>3. CASE Running(j) = {}
      <3>1. Cardinality(Running(j)) = 0
        BY <2>3, FS_EmptySet
      <3>2. \A i \in Job : Cardinality(Running(i)) <= lost[i] + (IF i \in lock' THEN 1 ELSE 0)
        BY <1>2, <2>1, <3>1
      <3>3. QED
        BY <1>2, <2>1, <2>2, <2>3, <3>2 DEF LocksCounted, HoldersWith
    <2>4. CASE Running(j) # {}
      <3>1. PICK more \in [Job -> Nat] : more = [lost EXCEPT ![j] = @ + 1]
        <4>1. lost[j] + 1 \in Nat
          BY <1>2
        <4>2. [lost EXCEPT ![j] = lost[j] + 1] \in [Job -> Nat]
          BY <4>1
        <4>3. QED
          BY <4>2
      <3>2. more[j] = lost[j] + 1 /\ \A i \in Job : i # j => more[i] = lost[i]
        BY <3>1
      <3>3. more["scheduled"] + more["subscriptions"] <= overruns + 1
        BY <1>2, <3>2 DEF Job
      <3>4. \A i \in Job : Cardinality(Running(i)) <= more[i] + (IF i \in lock' THEN 1 ELSE 0)
        BY <1>2, <2>1, <3>2
      <3>5. HoldersWith(more)'
        BY <1>2, <2>1, <2>2, <2>4, <3>3, <3>4 DEF HoldersWith
      <3>6. QED
        BY <3>5 DEF LocksCounted
    <2>5. QED
      BY <2>3, <2>4
  <1>7. CASE OwnerStep \/ \E h \in Handler : HandlerStep(h)
    BY <1>3, <1>7
    DEF OwnerStep, CreateSchedule, ComesDue, CancelScheduled, HandlerStep, Claim,
        PersistSucceeded, RevertClaim, ReadActivePlan, ReadStoppedPlan, Advance, HandlerDies
  <1>8. ASSUME NEW k \in Tick, TickAdvances(k), ~TickReturns(k)
        PROVE  UNCHANGED <<job, lock, overruns>>
    BY <1>8
    DEF TickAdvances, ReadDue, SkipInFlight, FindNoneInFlight, CreateOccurrence, CreateBeyondBound
  <1>9. QED
    BY <1>3, <1>4, <1>5, <1>6, <1>7, <1>8 DEF Next

(* The ticks working on a plan are as many as the jobs that cover it and the
   locks that lapsed.                                                       *)
LEMMA WorkersBounded ==
  ASSUME TypeOK, LocksCounted, NEW s \in Schedule, NEW S,
         \A k \in S : \E j \in Covering(s) : k \in Running(j)
  PROVE  /\ IsFiniteSet(S) /\ Cardinality(S) \in Nat
         /\ Cardinality(S) <= Cardinality(Covering(s)) + overruns
  <1> DEFINE A == Running("scheduled")
             B == Running("subscriptions")
  <1>1. PICK lost \in [Job -> Nat] : HoldersWith(lost)
    BY DEF LocksCounted
  <1>2. PICK a \in Nat : a = lost["scheduled"]
    BY DEF Job
  <1>3. PICK b \in Nat : b = lost["subscriptions"]
    BY DEF Job
  <1>4. /\ IsFiniteSet(A) /\ Cardinality(A) \in Nat /\ Cardinality(A) <= a + 1
        /\ IsFiniteSet(B) /\ Cardinality(B) \in Nat /\ Cardinality(B) <= b + 1
        /\ a + b <= overruns /\ overruns \in Nat
    BY <1>1, <1>2, <1>3, FS_CardinalityType DEF HoldersWith, TypeOK, Job
  <1> HIDE DEF A, B
  <1>5. CASE recurring[s]
    <2>1. S \in SUBSET (A \cup B)
      BY DEF Covering, Job, A, B
    <2>2. /\ IsFiniteSet(A \cup B) /\ Cardinality(A \cup B) \in Nat
          /\ Cardinality(A \cup B) <= Cardinality(A) + Cardinality(B)
      <3>1. IsFiniteSet(A \cap B) /\ Cardinality(A \cap B) \in Nat
        BY <1>4, FS_Intersection, FS_CardinalityType
      <3>2. /\ IsFiniteSet(A \cup B)
            /\ Cardinality(A \cup B) = Cardinality(A) + Cardinality(B) - Cardinality(A \cap B)
        BY <1>4, FS_Union
      <3>3. QED
        BY <1>4, <3>1, <3>2, FS_CardinalityType
    <2>3. IsFiniteSet(S) /\ Cardinality(S) <= Cardinality(A \cup B) /\ Cardinality(S) \in Nat
      BY <2>1, <2>2, FS_Subset, FS_CardinalityType
    <2>4. QED
      BY <1>4, <1>5, <2>2, <2>3, CoveringCount
  <1>6. CASE ~recurring[s]
    <2>1. S \in SUBSET A
      BY <1>6 DEF Covering, Covered, Job, A
    <2>2. IsFiniteSet(S) /\ Cardinality(S) <= Cardinality(A) /\ Cardinality(S) \in Nat
      BY <1>4, <2>1, FS_Subset, FS_CardinalityType
    <2>3. QED
      BY <1>2, <1>3, <1>4, <1>6, <2>2, CoveringCount
  <1>7. QED
    BY <1>5, <1>6

(* Nobody else adds to what is open or about to be.                         *)
LEMMA OpenShrinks ==
  ASSUME TypeOK, Links, TickAtWork, [Next]_vars, NEW s \in Schedule,
         \A k \in Tick, o \in Occ : CreateOccurrence(k, o) => cur[k] # s,
         \A k \in Tick : ~FindNoneInFlight(k, s)
  PROVE  /\ OpenRows(s)' \subseteq OpenRows(s) /\ Making(s)' \subseteq Making(s)
         /\ overruns' \in Nat /\ overruns <= overruns'
  <1> USE DEF vars, termVars, planVars, occVars, tickVars, handlerVars
  <1> overruns \in Nat /\ s # NoPlan
    BY PlansAssumption DEF TypeOK
  <1>1. ASSUME NEW k \in Tick, NEW o \in Occ, CreateOccurrence(k, o)
        PROVE  OpenRows(s)' \subseteq OpenRows(s) /\ Making(s)' \subseteq Making(s) /\ overruns' = overruns
    <2>1. cur[k] # s /\ of' = [of EXCEPT ![o] = cur[k]] /\ occ' = [occ EXCEPT ![o] = "PENDING"]
          /\ cur' = [cur EXCEPT ![k] = NoPlan] /\ overruns' = overruns
      BY <1>1 DEF CreateOccurrence, CreatedStatus
    <2>2. QED
      BY <2>1 DEF OpenRows, Making, TypeOK
  <1>2. ASSUME NEW k \in Tick, NEW q \in Schedule, FindNoneInFlight(k, q)
        PROVE  OpenRows(s)' \subseteq OpenRows(s) /\ Making(s)' \subseteq Making(s) /\ overruns' = overruns
    BY <1>2 DEF FindNoneInFlight, OpenRows, Making, TypeOK
  <1>3. ASSUME NEW k \in Tick, CreateBeyondBound(k) \/ TickDies(k)
        PROVE  OpenRows(s)' \subseteq OpenRows(s) /\ Making(s)' \subseteq Making(s) /\ overruns' = overruns
    BY <1>3 DEF CreateBeyondBound, TickDies, OpenRows, Making, TypeOK
  <1>4. ASSUME NEW k \in Tick,
               \/ \E j \in Job : AcquireLock(k, j)
               \/ ReadDue(k)
               \/ \E q \in Schedule : SkipInFlight(k, q)
               \/ TickReturns(k)
        PROVE  OpenRows(s)' \subseteq OpenRows(s) /\ Making(s)' \subseteq Making(s) /\ overruns' = overruns
    BY <1>4 DEF AcquireLock, ReadDue, SkipInFlight, TickReturns, OpenRows, Making
  <1>5. ASSUME NEW j \in Job, LockLapses(j)
        PROVE  /\ OpenRows(s)' \subseteq OpenRows(s) /\ Making(s)' \subseteq Making(s)
               /\ overruns' \in Nat /\ overruns <= overruns'
    BY <1>5 DEF LockLapses, OpenRows, Making
  <1>6. ASSUME NEW h \in Handler, NEW o \in Occ, Claim(h, o)
        PROVE  OpenRows(s)' \subseteq OpenRows(s) /\ Making(s)' \subseteq Making(s) /\ overruns' = overruns
    BY <1>6 DEF Claim, OpenRows, Making, TypeOK
  <1>7. ASSUME NEW h \in Handler, PersistSucceeded(h) \/ RevertClaim(h)
        PROVE  OpenRows(s)' \subseteq OpenRows(s) /\ Making(s)' \subseteq Making(s) /\ overruns' = overruns
    <2>1. /\ \A o \in Occ : occ'[o] \in {"PENDING", "SUBMITTED"} => occ[o] \in {"PENDING", "SUBMITTED"}
          /\ UNCHANGED <<of, cur, overruns>>
      BY <1>7 DEF PersistSucceeded, RevertClaim, TypeOK
    <2>2. QED
      BY <2>1 DEF OpenRows, Making
  <1>8. ASSUME NEW h \in Handler,
               ReadActivePlan(h) \/ ReadStoppedPlan(h) \/ Advance(h) \/ HandlerDies(h)
        PROVE  OpenRows(s)' \subseteq OpenRows(s) /\ Making(s)' \subseteq Making(s) /\ overruns' = overruns
    BY <1>8 DEF ReadActivePlan, ReadStoppedPlan, Advance, HandlerDies, OpenRows, Making
  <1>9. CASE OwnerStep \/ UNCHANGED vars
    BY <1>9 DEF OwnerStep, CreateSchedule, ComesDue, CancelScheduled, OpenRows, Making
  <1>10. QED
    BY <1>1, <1>2, <1>3, <1>4, <1>5, <1>6, <1>7, <1>8, <1>9 DEF Next, TickAdvances, HandlerStep

LEMMA StepOpenCounted ==
  TypeOK /\ TypeOK' /\ Links /\ InFlightInv /\ TickAtWork' /\ [Next]_vars => OpenCounted'
  <1> SUFFICES ASSUME TypeOK, TypeOK', Links, InFlightInv, TickAtWork', [Next]_vars, NEW s \in Schedule
               PROVE  /\ IsFiniteSet(Making(s)')
                      /\ Cardinality(OpenRows(s)') + Cardinality(Making(s)')
                           <= Cardinality(Covering(s)') + overruns'
    BY DEF OpenCounted
  <1>1. /\ TickAtWork /\ LocksCounted /\ overruns \in Nat /\ overruns' \in Nat
        /\ IsFiniteSet(Making(s)) /\ Cardinality(Making(s)) \in Nat
        /\ Cardinality(OpenRows(s)) + Cardinality(Making(s)) <= Cardinality(Covering(s)) + overruns
    BY FS_CardinalityType DEF InFlightInv, OpenCounted, TypeOK
  <1>2. /\ Cardinality(Covering(s)) \in Nat /\ Cardinality(Covering(s)') \in Nat
        /\ Cardinality(Covering(s)) <= Cardinality(Covering(s)')
    <2>1. recurring[s] => recurring'[s]
      BY IntervalStays DEF InFlightInv, NoTermsBefore, CreateSchedule
    <2>2. QED
      BY <2>1, CoveringCount, CoveringCountNext
  <1>3. ASSUME NEW k \in Tick, NEW o \in Occ, CreateOccurrence(k, o), cur[k] = s
        PROVE  /\ IsFiniteSet(Making(s)')
               /\ Cardinality(OpenRows(s)') + Cardinality(Making(s)')
                    <= Cardinality(Covering(s)') + overruns'
    <2>1. /\ of' = [of EXCEPT ![o] = s] /\ occ' = [occ EXCEPT ![o] = "PENDING"] /\ occ[o] = "ABSENT"
          /\ cur' = [cur EXCEPT ![k] = NoPlan] /\ overruns' = overruns
      BY <1>3 DEF CreateOccurrence, CreatedStatus
    <2>2. OpenRows(s)' = OpenRows(s) \cup {o} /\ o \notin OpenRows(s)
      BY <2>1 DEF OpenRows, TypeOK
    <2>3. Making(s)' = Making(s) \ {k} /\ k \in Making(s)
      BY <1>3, <2>1, PlansAssumption DEF Making, TypeOK
    <2>4. Cardinality(OpenRows(s)') = Cardinality(OpenRows(s)) + 1
      BY <2>2, OpenFinite, FS_AddElement
    <2>5. IsFiniteSet(Making(s)') /\ Cardinality(Making(s)') = Cardinality(Making(s)) - 1
      BY <1>1, <2>3, FS_RemoveElement
    <2>6. QED
      BY <1>1, <1>2, <2>1, <2>4, <2>5, OpenFinite
  <1>4. ASSUME NEW k \in Tick, FindNoneInFlight(k, s)
        PROVE  /\ IsFiniteSet(Making(s)')
               /\ Cardinality(OpenRows(s)') + Cardinality(Making(s)')
                    <= Cardinality(Covering(s)') + overruns'
    <2>1. OpenRows(s)' = {} /\ job' = job /\ recurring' = recurring /\ overruns' = overruns
      BY <1>4 DEF FindNoneInFlight, InFlight, OpenRows, planVars, termVars, occVars
    <2>2. \A q \in Making(s)' : \E j \in Covering(s) : q \in Running(j)
      <3> SUFFICES ASSUME NEW q \in Tick, cur'[q] = s PROVE \E j \in Covering(s) : q \in Running(j)
        BY DEF Making
      <3>1. s # NoPlan /\ tpc'[q] = "clear"
        BY PlansAssumption DEF TickAtWork
      <3>2. job[q] \in Job /\ (job[q] = "subscriptions" => recurring[s])
        BY <2>1, <3>1 DEF TickAtWork, TypeOK
      <3>3. QED
        BY <3>2 DEF Covering, Covered, Running
    <2>3. /\ IsFiniteSet(Making(s)') /\ Cardinality(Making(s)') \in Nat
          /\ Cardinality(Making(s)') <= Cardinality(Covering(s)) + overruns
      BY <1>1, <2>2, WorkersBounded
    <2>4. Cardinality(OpenRows(s)') = 0
      BY <2>1, FS_EmptySet
    <2>5. QED
      BY <1>1, <1>2, <2>1, <2>3, <2>4
  <1>5. CASE /\ \A k \in Tick, o \in Occ : CreateOccurrence(k, o) => cur[k] # s
             /\ \A k \in Tick : ~FindNoneInFlight(k, s)
    <2>1. OpenRows(s)' \in SUBSET OpenRows(s) /\ Making(s)' \in SUBSET Making(s) /\ overruns <= overruns'
      BY <1>1, <1>5, OpenShrinks
    <2>2. /\ Cardinality(OpenRows(s)') <= Cardinality(OpenRows(s))
          /\ IsFiniteSet(Making(s)') /\ Cardinality(Making(s)') <= Cardinality(Making(s))
          /\ Cardinality(Making(s)') \in Nat
      BY <1>1, <2>1, OpenFinite, FS_Subset, FS_CardinalityType
    <2>3. QED
      BY <1>1, <1>2, <2>1, <2>2, OpenFinite
  <1>6. QED
    BY <1>3, <1>4, <1>5

(* How far the in-flight check and the locks bound a plan's unpaid occurrences:
   one for each job that covers the plan and one for each lock that lapsed under
   a running tick (createOccurrence's findFirst and create are two statements,
   and the locks of the two timers do not exclude each other).               *)
THEOREM OpenRowsBoundedHolds == Spec => []OpenRowsBounded
  <1>1. Init => TypeOK /\ Links /\ InFlightInv
    BY InitTyped, InitInFlight
  <1>2. TypeOK /\ Links /\ InFlightInv /\ [Next]_vars => TypeOK' /\ Links' /\ InFlightInv'
    BY StepTyped, StepLinks, StepTickAtWork, StepNoTermsBefore, StepLocksCounted, StepOpenCounted
    DEF InFlightInv
  <1>3. TypeOK /\ InFlightInv => OpenRowsBounded
    <2> SUFFICES ASSUME TypeOK, InFlightInv, NEW s \in Schedule
                 PROVE  Cardinality(OpenRows(s)) <= Cardinality(Covering(s)) + overruns
      BY DEF OpenRowsBounded
    <2>1. /\ Cardinality(Making(s)) \in Nat /\ overruns \in Nat
          /\ Cardinality(OpenRows(s)) + Cardinality(Making(s)) <= Cardinality(Covering(s)) + overruns
      BY FS_CardinalityType DEF InFlightInv, OpenCounted, TypeOK
    <2>2. QED
      BY <2>1, OpenFinite, CoveringCount
  <1>4. QED
    BY <1>1, <1>2, <1>3, PTL DEF Spec

-----------------------------------------------------------------------------
(* The retry timer: the budget of a delivery.                               *)

Early == {"checking", "posting"}
Late == {"ok", "refused", "threw"}

(* Who has a request for d still before him, and who has only its outcome to write. *)
Flies(d, a, stages) == \E f \in flying : f.for = d /\ f.by = a /\ f.at \in stages
Waits(d, a) == a \in Worker /\ d \in queue[a]
Before(d) == {a \in Worker \cup {d} : Waits(d, a) \/ Flies(d, a, Early)}
After(d) == {a \in Worker \cup {d} : Flies(d, a, Late)}

(* An actor attempts one row at a time, and one it is attempting is not among
   those it has still to attempt. Only the first attempt is by a row itself. *)
Alone ==
  /\ \A f, g \in flying : f.by = g.by => f = g
  /\ \A f \in flying : f.by = f.for \/ f.by \in Worker
  /\ \A f \in flying : ~Waits(f.for, f.by)

(* Before the first attempt is written no tick has the row.                 *)
Unread(d) == Before(d) \cup After(d) \subseteq {d}
FirstOf(d) ==
  /\ delivery[d].status = "ABSENT" => Before(d) \cup After(d) = {} /\ posts[d] = 0
  /\ delivery[d].status \in {"ABSENT", "PENDING"} => Unread(d) /\ delivery[d].attempts = 0
  /\ d \in Before(d) \cup After(d) => Unread(d) /\ delivery[d].status \in {"PENDING", "REMOVED"}
FirstAttempt == \A d \in Delivery : FirstOf(d)

Slack == upsets * Cardinality(Worker)

(* Whoever has the row, once more than the budget at most; what a merchant received
   was counted, is about to be counted, or was lost to an upset.            *)
BudgetOf(d) ==
  /\ delivery[d].attempts + Cardinality(Before(d)) + Cardinality(After(d))
       <= MaxAttempts + Cardinality(Worker) - 1
  /\ Exists(d) => posts[d] <= delivery[d].attempts + Cardinality(After(d)) + Slack
  /\ posts[d] + Cardinality(Before(d)) <= MaxAttempts + Cardinality(Worker) - 1 + Slack
Budget == \A d \in Delivery : BudgetOf(d)

RetryInv == DeliveryTypeOK /\ Alone /\ FirstAttempt /\ Budget

\* Those who have a row are finitely many, and no more than the ticks.
LEMMA HoldersCounted ==
  ASSUME Alone, FirstAttempt, NEW d \in Delivery
  PROVE  /\ IsFiniteSet(Before(d)) /\ IsFiniteSet(After(d)) /\ Before(d) \cap After(d) = {}
         /\ Cardinality(Before(d)) \in Nat /\ Cardinality(After(d)) \in Nat
         /\ Cardinality(Worker) \in Nat \ {0}
         /\ Cardinality(Before(d)) + Cardinality(After(d)) <= Cardinality(Worker)
  <1>1. /\ IsFiniteSet(Worker) /\ Worker # {} /\ d \notin Worker
        /\ IsFiniteSet(Worker \cup {d})
    BY FS_AddElement, DeliveryAssumption
  <1>2. IsFiniteSet(Before(d)) /\ IsFiniteSet(After(d))
    BY <1>1, FS_Subset DEF Before, After
  <1>3. Before(d) \cap After(d) = {}
    BY DEF Before, After, Flies, Alone, Early, Late
  <1>4. Cardinality(Worker) \in Nat \ {0}
    BY <1>1, FS_CardinalityType, FS_EmptySet
  <1>5. /\ IsFiniteSet(Before(d) \cup After(d))
        /\ Cardinality(Before(d) \cup After(d)) = Cardinality(Before(d)) + Cardinality(After(d))
    <2>1. Cardinality(Before(d) \cap After(d)) = 0
      BY <1>3, FS_EmptySet
    <2>2. Cardinality(Before(d)) \in Nat /\ Cardinality(After(d)) \in Nat
      BY <1>2, FS_CardinalityType
    <2>3. /\ IsFiniteSet(Before(d) \cup After(d))
          /\ Cardinality(Before(d) \cup After(d))
               = Cardinality(Before(d)) + Cardinality(After(d)) - Cardinality(Before(d) \cap After(d))
      BY <1>2, FS_Union
    <2>4. QED
      BY <2>1, <2>2, <2>3
  <1>6. /\ Cardinality(Before(d)) \in Nat /\ Cardinality(After(d)) \in Nat
    BY <1>2, FS_CardinalityType
  <1>7. Cardinality(Before(d) \cup After(d)) <= Cardinality(Worker)
    <2>1. CASE d \in Before(d) \cup After(d)
      <3>1. Before(d) \cup After(d) \subseteq {d}
        BY <2>1 DEF FirstAttempt, FirstOf, Unread
      <3>2. IsFiniteSet({d}) /\ Cardinality({d}) = 1
        BY FS_Singleton
      <3>3. Cardinality(Before(d) \cup After(d)) <= 1
        BY <3>1, <3>2, FS_Subset
      <3>4. QED
        BY <1>4, <1>5, <1>6, <3>3
    <2>2. CASE d \notin Before(d) \cup After(d)
      <3>1. Before(d) \cup After(d) \subseteq Worker
        BY <2>2 DEF Before, After
      <3>2. QED
        BY <1>1, <3>1, FS_Subset
    <2>3. QED
      BY <2>1, <2>2
  <1>8. QED
    BY <1>2, <1>3, <1>4, <1>5, <1>6, <1>7

\* The slack is a number, and an upset widens it by an attempt of every tick.
LEMMA SlackTyped ==
  ASSUME DeliveryTypeOK
  PROVE  Slack \in Nat /\ (upsets' = upsets + 1 => Slack' = Slack + Cardinality(Worker))
  <1>1. Cardinality(Worker) \in Nat /\ upsets \in Nat
    BY FS_CardinalityType, DeliveryAssumption DEF DeliveryTypeOK
  <1>2. QED
    BY <1>1 DEF Slack


\* A step of an attempt stays the attempt of the same actor on the same row.
LEMMA FlightMoves ==
  ASSUME DeliveryTypeOK, Alone, NEW f \in flying, NEW s \in Early \cup Late,
         f.at \in Late => s \in Late, Moves(f, s), UNCHANGED queue
  PROVE  /\ Alone'
         /\ \A d \in Delivery :
              LET moved == IF d = f.for /\ s \in Late THEN {f.by} ELSE {} IN
              Before(d)' = Before(d) \ moved /\ After(d)' = After(d) \cup moved
  <1> DEFINE g == [f EXCEPT !.at = s]
  <1>1. flying' = (flying \ {f}) \cup {g} /\ g.for = f.for /\ g.by = f.by /\ g.at = s
    <2>1. f \in [for : Delivery, by : Delivery \cup Worker, at : Stage]
      BY DEF DeliveryTypeOK, Attempt
    <2>2. QED
      BY <2>1 DEF Moves
  <1> HIDE DEF g
  <1>2. Alone'
    BY <1>1 DEF Alone, Waits
  <1>3. \A e \in flying : e.at \in Early \cup Late /\ (e.by = f.by => e = f)
    BY DEF Alone, DeliveryTypeOK, Attempt, Stage, Early, Late
  <1>4. ASSUME NEW d \in Delivery
        PROVE  LET moved == IF d = f.for /\ s \in Late THEN {f.by} ELSE {} IN
               Before(d)' = Before(d) \ moved /\ After(d)' = After(d) \cup moved
    <2>1. ASSUME NEW a, a # f.by \/ d # f.for
          PROVE  /\ Flies(d, a, Early)' <=> Flies(d, a, Early)
                 /\ Flies(d, a, Late)' <=> Flies(d, a, Late)
      BY <1>1, <2>1 DEF Flies
    <2>2. /\ f.by \in Worker \cup {f.for} /\ ~Waits(f.for, f.by)
          /\ \A a : Waits(d, a)' <=> Waits(d, a)
      BY DEF Alone, Waits
    <2>3. CASE d = f.for /\ s \in Late
      <3>1. /\ ~Flies(d, f.by, Early)' /\ Flies(d, f.by, Late)'
        BY <1>1, <1>3, <2>3 DEF Flies, Early, Late
      <3>2. QED
        BY <2>1, <2>2, <2>3, <3>1 DEF Before, After
    <2>4. CASE d = f.for /\ s \notin Late
      <3>1. f.at \in Early /\ s \in Early
        BY <1>3, <2>4
      <3>2. /\ Flies(d, f.by, Early)' /\ Flies(d, f.by, Early)
            /\ ~Flies(d, f.by, Late)' /\ ~Flies(d, f.by, Late)
        BY <1>1, <1>3, <2>4, <3>1 DEF Flies, Early, Late
      <3>3. QED
        BY <2>1, <2>2, <2>4, <3>2 DEF Before, After
    <2>5. CASE d # f.for
      BY <2>1, <2>2, <2>5 DEF Before, After
    <2>6. QED
      BY <2>3, <2>4, <2>5
  <1>5. QED
    BY <1>2, <1>4

\* An attempt that ends leaves its row to the others.
LEMMA FlightEnds ==
  ASSUME DeliveryTypeOK, Alone, NEW f \in flying, flying' = flying \ {f}, UNCHANGED queue
  PROVE  /\ Alone'
         /\ f.for \in Delivery /\ f.by \in Worker \cup {f.for}
         /\ f.at \in Early => f.by \in Before(f.for)
         /\ f.at \in Late => f.by \in After(f.for)
         /\ f.at \in Early \cup Late
         /\ \A d \in Delivery :
              LET gone == IF d = f.for THEN {f.by} ELSE {} IN
              Before(d)' = Before(d) \ gone /\ After(d)' = After(d) \ gone
  <1>1. Alone'
    BY DEF Alone, Waits
  <1>2. /\ f.for \in Delivery /\ f.by \in Worker \cup {f.for}
        /\ ~Waits(f.for, f.by) /\ \A e \in flying : e.by = f.by => e = f
    BY DEF DeliveryTypeOK, Attempt, Alone
  <1>3. f.at \in Early \cup Late
    BY DEF DeliveryTypeOK, Attempt, Stage, Early, Late
  <1>4. /\ f.at \in Early => f.by \in Before(f.for)
        /\ f.at \in Late => f.by \in After(f.for)
    BY <1>2 DEF Before, After, Flies
  <1>5. ASSUME NEW d \in Delivery
        PROVE  LET gone == IF d = f.for THEN {f.by} ELSE {} IN
               Before(d)' = Before(d) \ gone /\ After(d)' = After(d) \ gone
    <2>1. ASSUME NEW a, a # f.by \/ d # f.for
          PROVE  /\ Flies(d, a, Early)' <=> Flies(d, a, Early)
                 /\ Flies(d, a, Late)' <=> Flies(d, a, Late)
      BY <2>1 DEF Flies
    <2>2. \A a : Waits(d, a)' <=> Waits(d, a)
      BY DEF Waits
    <2>3. CASE d = f.for
      <3>1. ~Flies(d, f.by, Early)' /\ ~Flies(d, f.by, Late)'
        BY <1>2 DEF Flies
      <3>2. QED
        BY <1>2, <2>1, <2>2, <2>3, <3>1 DEF Before, After
    <2>4. CASE d # f.for
      BY <2>1, <2>2, <2>4 DEF Before, After
    <2>5. QED
      BY <2>3, <2>4
  <1>6. QED
    BY <1>1, <1>2, <1>3, <1>4, <1>5

\* What an attempt writes: one of those who had the row is gone, and it is counted.
LEMMA StepWrites ==
  ASSUME RetryInv, NEW f \in flying, NEW status \in {"DELIVERED", "FAILED"}, NEW at,
         Writes(f, status, at), UNCHANGED <<queue, posts, upsets>>
  PROVE  Alone' /\ FirstAttempt' /\ Budget'
  <1> DEFINE d == f.for  a == f.by
  <1>1. /\ DeliveryTypeOK /\ Alone /\ FirstAttempt /\ Budget
        /\ flying' = flying \ {f} /\ Slack' = Slack /\ Slack \in Nat
    BY SlackTyped DEF RetryInv, Writes, Slack
  <1>2. /\ Alone' /\ d \in Delivery /\ a \in Worker \cup {d}
        /\ f.at \in Early => a \in Before(d)
        /\ f.at \in Late => a \in After(d)
        /\ f.at \in Early \cup Late
        /\ \A e \in Delivery :
             LET gone == IF e = d THEN {a} ELSE {} IN
             Before(e)' = Before(e) \ gone /\ After(e)' = After(e) \ gone
    BY <1>1, FlightEnds
  <1>3. /\ \A e \in Delivery : e # d => delivery'[e] = delivery[e]
        /\ delivery[d].attempts \in Nat /\ delivery'[d].attempts \in Nat
        /\ Exists(d) => /\ delivery'[d].attempts = delivery[d].attempts + 1
                                 /\ delivery'[d].status = status
        /\ ~Exists(d) => delivery'[d] = delivery[d]
    BY <1>1, <1>2 DEF Writes, Attempted, DeliveryTypeOK
  <1>4. a \in Before(d) \cup After(d)
    BY <1>2
  <1> HIDE DEF d, a
  <1>5. FirstAttempt'
    <2> SUFFICES ASSUME NEW e \in Delivery PROVE FirstOf(e)'
      BY DEF FirstAttempt
    <2> USE DEF FirstOf
    <2>1. FirstOf(e)
      BY <1>1 DEF FirstAttempt
    <2>2. CASE e # d
      <3>1. Before(e)' = Before(e) /\ After(e)' = After(e) /\ delivery'[e] = delivery[e]
        BY <1>2, <1>3, <2>2
      <3>2. QED
        BY <2>1, <3>1 DEF Unread
    <2>3. CASE e = d
      <3>1. Before(e)' = Before(e) \ {a} /\ After(e)' = After(e) \ {a}
        BY <1>2, <2>3
      <3>2. Unread(e) => Unread(e)'
        BY <3>1 DEF Unread
      <3>3. CASE Exists(d)
        <4>1. delivery'[d].status = status
          BY <1>3, <3>3
        <4>2. e \notin Before(e)' \cup After(e)'
          BY <1>4, <2>1, <2>3, <3>1 DEF Unread
        <4>3. QED
          BY <2>3, <4>1, <4>2
      <3>4. CASE ~Exists(d)
        BY <1>3, <2>1, <2>3, <3>1, <3>2, <3>4
      <3>5. QED
        BY <3>3, <3>4
    <2>4. QED
      BY <2>2, <2>3
  <1>6. ASSUME NEW e \in Delivery PROVE BudgetOf(e)'
    <2> USE DEF BudgetOf
    <2>1. BudgetOf(e)
      BY <1>1 DEF Budget
    <2>2. CASE e # d
      <3>1. Before(e)' = Before(e) /\ After(e)' = After(e) /\ delivery'[e] = delivery[e]
        BY <1>2, <1>3, <2>2
      <3>2. QED
        BY <1>1, <2>1, <3>1 DEF Exists
    <2>3. CASE e = d
      <3>1. Before(e)' = Before(e) \ {a} /\ After(e)' = After(e) \ {a}
        BY <1>2, <2>3
      <3>2. /\ IsFiniteSet(Before(e)) /\ IsFiniteSet(After(e)) /\ Before(e) \cap After(e) = {}
            /\ Cardinality(Before(e)) \in Nat /\ Cardinality(After(e)) \in Nat
            /\ Cardinality(Worker) \in Nat \ {0}
        BY <1>1, HoldersCounted
      <3>3. /\ Cardinality(Before(e)')
               = IF a \in Before(e) THEN Cardinality(Before(e)) - 1 ELSE Cardinality(Before(e))
            /\ Cardinality(After(e)')
               = IF a \in After(e) THEN Cardinality(After(e)) - 1 ELSE Cardinality(After(e))
        BY <3>1, <3>2, FS_RemoveElement
      <3>4. \/ a \in Before(e) /\ a \notin After(e)
            \/ a \notin Before(e) /\ a \in After(e)
        BY <1>4, <2>3, <3>2
      <3>5. posts'[e] = posts[e] /\ posts[e] \in Nat /\ MaxAttempts \in Nat
        BY <1>1, DeliveryAssumption DEF DeliveryTypeOK
      <3>6. CASE Exists(e)
        <4>1. delivery'[e].attempts = delivery[e].attempts + 1 /\ delivery[e].attempts \in Nat
          BY <1>3, <2>3, <3>6
        <4>2. QED
          BY <1>1, <2>1, <3>2, <3>3, <3>4, <3>5, <3>6, <4>1
      <3>7. CASE ~Exists(e)
        <4>1. delivery'[e] = delivery[e] /\ delivery[e].attempts \in Nat /\ ~Exists(e)'
          BY <1>3, <2>3, <3>7 DEF Exists
        <4>2. QED
          BY <1>1, <2>1, <3>2, <3>3, <3>4, <3>5, <4>1
      <3>8. QED
        BY <3>6, <3>7
    <2>4. QED
      BY <2>2, <2>3
  <1>7. Budget'
    BY <1>6 DEF Budget, BudgetOf
  <1>8. QED
    BY <1>2, <1>5, <1>7

\* An attempt that ends unwritten: the upset pays for what the merchant may have.
LEMMA StepLost ==
  ASSUME RetryInv, NEW f \in flying, AttemptLost(f)
  PROVE  Alone' /\ FirstAttempt' /\ Budget'
  <1> DEFINE d == f.for  a == f.by
  <1>1. /\ DeliveryTypeOK /\ Alone /\ FirstAttempt /\ Budget
        /\ flying' = flying \ {f} /\ UNCHANGED <<queue, delivery, posts>>
        /\ Slack \in Nat /\ Slack' = Slack + Cardinality(Worker)
    BY SlackTyped DEF RetryInv, AttemptLost, Upset
  <1>2. /\ Alone'
        /\ \A e \in Delivery :
             LET gone == IF e = d THEN {a} ELSE {} IN
             Before(e)' = Before(e) \ gone /\ After(e)' = After(e) \ gone
    BY <1>1, FlightEnds
  <1> HIDE DEF d, a
  <1>3. FirstAttempt'
    BY <1>1, <1>2 DEF FirstAttempt, FirstOf, Unread
  <1>4. ASSUME NEW e \in Delivery PROVE BudgetOf(e)'
    <2> USE DEF BudgetOf
    <2>1. BudgetOf(e)
      BY <1>1 DEF Budget
    <2>2. /\ IsFiniteSet(Before(e)) /\ IsFiniteSet(After(e))
          /\ Cardinality(Before(e)) \in Nat /\ Cardinality(After(e)) \in Nat
          /\ Cardinality(Worker) \in Nat \ {0}
      BY <1>1, HoldersCounted
    <2>3. /\ Cardinality(Before(e) \ {a})
               = IF a \in Before(e) THEN Cardinality(Before(e)) - 1 ELSE Cardinality(Before(e))
          /\ Cardinality(After(e) \ {a})
               = IF a \in After(e) THEN Cardinality(After(e)) - 1 ELSE Cardinality(After(e))
      BY <2>2, FS_RemoveElement
    <2>4. /\ Cardinality(Before(e)') \in {Cardinality(Before(e)), Cardinality(Before(e)) - 1}
          /\ Cardinality(After(e)') \in {Cardinality(After(e)), Cardinality(After(e)) - 1}
      <3>1. /\ Before(e)' \in {Before(e), Before(e) \ {a}}
            /\ After(e)' \in {After(e), After(e) \ {a}}
        BY <1>2
      <3>2. QED
        BY <2>3, <3>1
    <2>5. delivery[e].attempts \in Nat /\ posts[e] \in Nat /\ MaxAttempts \in Nat
      BY <1>1, DeliveryAssumption DEF DeliveryTypeOK
    <2>6. delivery'[e] = delivery[e] /\ posts'[e] = posts[e] /\ (Exists(e)' <=> Exists(e))
      BY <1>1 DEF Exists
    <2>7. /\ Cardinality(Before(e)') \in Int /\ Cardinality(Before(e)') <= Cardinality(Before(e))
          /\ Cardinality(After(e)') \in Int /\ Cardinality(After(e)') <= Cardinality(After(e))
          /\ Cardinality(After(e)) <= Cardinality(After(e)') + 1
      BY <2>2, <2>4
    <2>8. /\ delivery'[e].attempts = delivery[e].attempts
          /\ Slack' >= Slack + 1 /\ Slack' \in Nat
      BY <1>1, <2>2, <2>6
    <2>9. delivery'[e].attempts + Cardinality(Before(e)') + Cardinality(After(e)')
            <= MaxAttempts + Cardinality(Worker) - 1
      BY <2>1, <2>2, <2>5, <2>7, <2>8
    <2>10. Exists(e)' => posts'[e] <= delivery'[e].attempts + Cardinality(After(e)') + Slack'
      BY <1>1, <2>1, <2>2, <2>5, <2>6, <2>7, <2>8
    <2>11. posts'[e] + Cardinality(Before(e)') <= MaxAttempts + Cardinality(Worker) - 1 + Slack'
      BY <1>1, <2>1, <2>2, <2>5, <2>6, <2>7, <2>8
    <2>12. QED
      BY <2>9, <2>10, <2>11
  <1>5. Budget'
    BY <1>4 DEF Budget, BudgetOf
  <1>6. QED
    BY <1>2, <1>3, <1>5

\* An attempt that goes on: what it has sent moves from those before to those after.
LEMMA StepMoves ==
  ASSUME RetryInv, NEW f \in flying, NEW s \in Early \cup Late, Moves(f, s),
         f.at \in Late => s \in Late, UNCHANGED <<delivery, queue>>,
         \/ UNCHANGED posts
         \/ /\ f.at \in Early /\ s \in Late
            /\ posts' = [posts EXCEPT ![f.for] = @ + 1],
         \/ UNCHANGED upsets
         \/ upsets' = upsets + 1
  PROVE  Alone' /\ FirstAttempt' /\ Budget'
  <1> DEFINE d == f.for  a == f.by
  <1>1. /\ DeliveryTypeOK /\ Alone /\ FirstAttempt /\ Budget
        /\ UNCHANGED <<queue, delivery>> /\ Slack \in Nat
    BY SlackTyped DEF RetryInv
  <1>2. /\ Alone'
        /\ \A e \in Delivery :
             LET moved == IF e = d /\ s \in Late THEN {a} ELSE {} IN
             Before(e)' = Before(e) \ moved /\ After(e)' = After(e) \cup moved
    BY <1>1, FlightMoves
  <1>3. /\ f.at \in Early => a \in Before(d)
        /\ f.at \in Late => a \in After(d)
        /\ d \in Delivery
        /\ f.at \in Early \cup Late
    BY <1>1 DEF Before, After, Flies, Alone, DeliveryTypeOK, Attempt, Stage,
      Early, Late
  <1>4. Slack' \in Nat /\ Slack' >= Slack
    <2>1. CASE upsets' = upsets
      BY <1>1, <2>1 DEF Slack
    <2>2. CASE upsets' = upsets + 1
      <3>1. Cardinality(Worker) \in Nat
        BY FS_CardinalityType, DeliveryAssumption
      <3>2. Slack' = Slack + Cardinality(Worker)
        BY <1>1, <2>2, SlackTyped
      <3>3. QED
        BY <1>1, <3>1, <3>2
    <2>3. QED
      BY <2>1, <2>2
  <1>5. \A e \in Delivery :
          \/ posts'[e] = posts[e]
          \/ e = d /\ f.at \in Early /\ s \in Late /\ posts'[e] = posts[e] + 1
    BY <1>1, <1>3 DEF DeliveryTypeOK
  <1> HIDE DEF d, a
  <1>6. FirstAttempt'
    <2> SUFFICES ASSUME NEW e \in Delivery PROVE FirstOf(e)'
      BY DEF FirstAttempt
    <2> USE DEF FirstOf
    <2>1. FirstOf(e)
      BY <1>1 DEF FirstAttempt
    <2>2. e = d => a \in Before(e) \cup After(e)
      BY <1>3
    <2>3. Before(e)' \cup After(e)' = Before(e) \cup After(e)
      BY <1>2, <2>2
    <2>4. Unread(e)' <=> Unread(e)
      BY <2>3 DEF Unread
    <2>5. delivery[e].status = "ABSENT" => posts'[e] = posts[e]
      BY <1>5, <2>1, <2>2
    <2>6. QED
      BY <1>1, <2>1, <2>3, <2>4, <2>5
  <1>7. ASSUME NEW e \in Delivery PROVE BudgetOf(e)'
    <2> USE DEF BudgetOf
    <2>1. BudgetOf(e)
      BY <1>1 DEF Budget
    <2>2. /\ IsFiniteSet(Before(e)) /\ IsFiniteSet(After(e)) /\ Before(e) \cap After(e) = {}
          /\ Cardinality(Before(e)) \in Nat /\ Cardinality(After(e)) \in Nat
          /\ Cardinality(Worker) \in Nat \ {0}
      BY <1>1, HoldersCounted
    <2>3. delivery[e].attempts \in Nat /\ posts[e] \in Nat /\ MaxAttempts \in Nat
      BY <1>1, DeliveryAssumption DEF DeliveryTypeOK
    <2>4. delivery'[e] = delivery[e] /\ (Exists(e)' <=> Exists(e))
      BY <1>1 DEF Exists
    <2>5. CASE e = d /\ f.at \in Early /\ s \in Late
      <3>1. /\ Before(e)' = Before(e) \ {a} /\ After(e)' = After(e) \cup {a}
            /\ a \in Before(e) /\ a \notin After(e)
        BY <1>2, <1>3, <2>2, <2>5
      <3>2. /\ Cardinality(Before(e)') = Cardinality(Before(e)) - 1
            /\ Cardinality(After(e)') = Cardinality(After(e)) + 1
        <4>1. Cardinality(Before(e) \ {a}) = Cardinality(Before(e)) - 1
          BY <2>2, <3>1, FS_RemoveElement
        <4>2. Cardinality(After(e) \cup {a}) = Cardinality(After(e)) + 1
          BY <2>2, <3>1, FS_AddElement
        <4>3. QED
          BY <3>1, <4>1, <4>2
      <3>3. posts'[e] = posts[e] \/ posts'[e] = posts[e] + 1
        BY <1>5
      <3>4. QED
        BY <1>1, <1>4, <2>1, <2>2, <2>3, <2>4, <3>2, <3>3
    <2>6. CASE ~(e = d /\ f.at \in Early /\ s \in Late)
      <3>1. posts'[e] = posts[e]
        BY <1>5, <2>6
      <3>2. Before(e)' = Before(e) /\ After(e)' = After(e)
        BY <1>2, <1>3, <2>2, <2>6
      <3>3. QED
        BY <1>1, <1>4, <2>1, <2>2, <2>3, <2>4, <3>1, <3>2
    <2>7. QED
      BY <2>5, <2>6
  <1>8. Budget'
    BY <1>7 DEF Budget, BudgetOf
  <1>9. QED
    BY <1>2, <1>6, <1>8

\* Time and the removal of a webhook touch neither who has a row nor what was counted.
LEMMA StepRows ==
  ASSUME RetryInv, UNCHANGED <<flying, queue, posts, upsets>>,
         \A e \in Delivery :
           /\ delivery'[e].attempts = delivery[e].attempts
           /\ \/ delivery'[e].status = delivery[e].status
              \/ Exists(e) /\ delivery'[e].status = "REMOVED"
  PROVE  Alone' /\ FirstAttempt' /\ Budget'
  <1>1. Alone /\ FirstAttempt /\ Budget /\ Slack' = Slack
    BY DEF RetryInv, Slack
  <1>2. Alone' /\ \A e \in Delivery : Before(e)' = Before(e) /\ After(e)' = After(e)
    BY <1>1 DEF Alone, Waits, Before, After, Flies
  <1>3. FirstAttempt'
    BY <1>1, <1>2 DEF FirstAttempt, FirstOf, Unread, Exists
  <1>4. Budget'
    BY <1>1, <1>2 DEF Budget, BudgetOf, Exists
  <1>5. QED
    BY <1>2, <1>3, <1>4

\* A restart forgets everyone: there were no more of them than ticks.
LEMMA StepRestart ==
  ASSUME RetryInv, Restart
  PROVE  Alone' /\ FirstAttempt' /\ Budget'
  <1>1. /\ DeliveryTypeOK /\ Alone /\ FirstAttempt /\ Budget
        /\ flying' = {} /\ queue' = [w \in Worker |-> {}] /\ UNCHANGED <<delivery, posts>>
        /\ Slack \in Nat /\ Slack' = Slack + Cardinality(Worker)
    BY SlackTyped DEF RetryInv, Restart, Upset
  <1>2. Alone' /\ \A e : Before(e)' = {} /\ After(e)' = {}
    BY <1>1 DEF Alone, Before, After, Flies, Waits
  <1>3. FirstAttempt'
    BY <1>1, <1>2 DEF FirstAttempt, FirstOf, Unread
  <1>4. ASSUME NEW e \in Delivery PROVE BudgetOf(e)'
    <2> USE DEF BudgetOf
    <2>1. BudgetOf(e)
      BY <1>1 DEF Budget
    <2>2. /\ Cardinality(Before(e)) \in Nat /\ Cardinality(After(e)) \in Nat
          /\ Cardinality(Worker) \in Nat \ {0}
          /\ Cardinality(Before(e)) + Cardinality(After(e)) <= Cardinality(Worker)
      BY <1>1, HoldersCounted
    <2>3. Cardinality(Before(e)') = 0 /\ Cardinality(After(e)') = 0
      BY <1>2, FS_EmptySet
    <2>4. delivery[e].attempts \in Nat /\ posts[e] \in Nat /\ MaxAttempts \in Nat
      BY <1>1, DeliveryAssumption DEF DeliveryTypeOK
    <2>5. delivery'[e] = delivery[e] /\ posts'[e] = posts[e] /\ (Exists(e)' <=> Exists(e))
      BY <1>1 DEF Exists
    <2>6. QED
      BY <1>1, <2>1, <2>2, <2>3, <2>4, <2>5
  <1>5. Budget'
    BY <1>4 DEF Budget, BudgetOf
  <1>6. QED
    BY <1>2, <1>3, <1>5

\* The first attempt starts on a row nobody has.
LEMMA StepDispatch ==
  ASSUME RetryInv, NEW d \in Delivery, Dispatch(d)
  PROVE  Alone' /\ FirstAttempt' /\ Budget'
  <1> DEFINE g == [for |-> d, by |-> d, at |-> "checking"]
  <1>1. /\ DeliveryTypeOK /\ Alone /\ FirstAttempt /\ Budget
        /\ flying' = flying \cup {g} /\ UNCHANGED <<queue, posts, upsets>>
        /\ delivery[d].status = "ABSENT" /\ d \notin Worker
        /\ Slack \in Nat /\ Slack' = Slack
    BY SlackTyped, DeliveryAssumption DEF RetryInv, Dispatch, Slack
  <1>2. Before(d) = {} /\ After(d) = {} /\ posts[d] = 0 /\ delivery[d].attempts = 0
    BY <1>1 DEF FirstAttempt, FirstOf
  <1>3. /\ delivery'[d].status = "PENDING" /\ delivery'[d].attempts = 0
        /\ \A e \in Delivery : e # d => delivery'[e] = delivery[e]
    BY <1>1, <1>2 DEF Dispatch, DeliveryTypeOK
  <1>4. \A f \in flying : f.for # d /\ f.by # d
    <2>1. \A f \in flying : f.at \in Early \cup Late /\ (f.by = f.for \/ f.by \in Worker)
      BY <1>1 DEF Alone, DeliveryTypeOK, Attempt, Stage, Early, Late
    <2>2. \A f \in flying : f.for # d
      BY <1>2, <2>1 DEF Before, After, Flies
    <2>3. QED
      BY <1>1, <2>1, <2>2
  <1>5. g.for = d /\ g.by = d /\ g.at \in Early /\ g.at \notin Late
    BY DEF Early, Late
  <1> HIDE DEF g
  <1>6. Alone'
    BY <1>1, <1>4, <1>5 DEF Alone, Waits
  <1>7. Before(d)' = {d} /\ After(d)' = {}
    BY <1>1, <1>2, <1>5 DEF Before, After, Flies, Waits
  <1>8. \A e \in Delivery : e # d => Before(e)' = Before(e) /\ After(e)' = After(e)
    BY <1>1, <1>5 DEF Before, After, Flies, Waits
  <1>9. FirstAttempt'
    <2> SUFFICES ASSUME NEW e \in Delivery PROVE FirstOf(e)'
      BY DEF FirstAttempt
    <2> USE DEF FirstOf
    <2>1. CASE e = d
      BY <1>3, <1>7, <2>1 DEF Unread
    <2>2. CASE e # d
      BY <1>1, <1>3, <1>8, <2>2 DEF FirstAttempt, FirstOf, Unread
    <2>3. QED
      BY <2>1, <2>2
  <1>10. ASSUME NEW e \in Delivery PROVE BudgetOf(e)'
    <2> USE DEF BudgetOf
    <2>1. CASE e # d
      BY <1>1, <1>3, <1>8, <2>1 DEF Budget, BudgetOf, Exists
    <2>2. CASE e = d
      <3>1. Cardinality({d}) = 1 /\ Cardinality({}) = 0
        BY FS_Singleton, FS_EmptySet
      <3>2. /\ Cardinality(Worker) \in Nat \ {0} /\ MaxAttempts \in Nat \ {0}
        BY <1>1, HoldersCounted, DeliveryAssumption
      <3>3. /\ Cardinality(Before(e)') = 1 /\ Cardinality(After(e)') = 0
            /\ delivery'[e].attempts = 0 /\ posts'[e] = 0
        BY <1>1, <1>2, <1>3, <1>7, <2>2, <3>1
      <3>4. /\ 0 + 1 + 0 <= MaxAttempts + Cardinality(Worker) - 1
            /\ 0 <= 0 + 0 + Slack
            /\ 0 + 1 <= MaxAttempts + Cardinality(Worker) - 1 + Slack
        BY <1>1, <3>2
      <3>5. QED
        BY <1>1, <3>3, <3>4
    <2>3. QED
      BY <2>1, <2>2
  <1>11. QED
    BY <1>6, <1>9, <1>10 DEF Budget, BudgetOf

\* A tick reads rows that are not used up, and is one of finitely many.
LEMMA StepTickStarts ==
  ASSUME RetryInv, NEW w \in Worker, TickStarts(w)
  PROVE  Alone' /\ FirstAttempt' /\ Budget'
  <1>1. /\ DeliveryTypeOK /\ Alone /\ FirstAttempt /\ Budget
        /\ UNCHANGED <<flying, delivery, posts, upsets>> /\ Slack \in Nat /\ Slack' = Slack
        /\ queue[w] = {} /\ \A f \in flying : f.by # w
    BY SlackTyped DEF RetryInv, TickStarts, Busy, Slack
  <1>2. PICK S \in SUBSET DueDeliveries : queue' = [queue EXCEPT ![w] = S]
    BY DEF TickStarts
  <1>3. /\ S \subseteq Delivery
        /\ \A e \in S : delivery[e].status = "FAILED" /\ delivery[e].attempts < MaxAttempts
    BY DEF DueDeliveries, Within
  <1>4. \A e \in Delivery : \A a : Waits(e, a)' <=> (Waits(e, a) \/ (a = w /\ e \in S))
    BY <1>1, <1>2 DEF Waits, DeliveryTypeOK
  <1>5. Alone'
    <2>1. \A f \in flying : f.for \in Delivery
      BY <1>1 DEF DeliveryTypeOK, Attempt
    <2>2. QED
      BY <1>1, <1>4, <2>1 DEF Alone
  <1>6. \A e \in Delivery :
          /\ Before(e)' = IF e \in S THEN Before(e) \cup {w} ELSE Before(e)
          /\ After(e)' = After(e)
          /\ w \notin Before(e) /\ w \notin After(e)
    BY <1>1, <1>4 DEF Before, After, Flies, Waits
  <1>7. \A e \in S : e \notin Before(e) \cup After(e) /\ e # w
    BY <1>1, <1>3, DeliveryAssumption DEF FirstAttempt, FirstOf
  <1>8. FirstAttempt'
    <2> SUFFICES ASSUME NEW e \in Delivery PROVE FirstOf(e)'
      BY DEF FirstAttempt
    <2> USE DEF FirstOf
    <2>1. CASE e \in S
      <3>1. delivery'[e].status = "FAILED" /\ e \notin Before(e)' \cup After(e)'
        BY <1>1, <1>3, <1>6, <1>7, <2>1
      <3>2. QED
        BY <3>1
    <2>2. CASE e \notin S
      BY <1>1, <1>6, <2>2 DEF FirstAttempt, FirstOf, Unread
    <2>3. QED
      BY <2>1, <2>2
  <1>9. ASSUME NEW e \in Delivery PROVE BudgetOf(e)'
    <2> USE DEF BudgetOf
    <2>1. BudgetOf(e)
      BY <1>1 DEF Budget
    <2>2. CASE e \notin S
      <3>1. /\ Before(e)' = Before(e) /\ After(e)' = After(e) /\ delivery'[e] = delivery[e]
            /\ posts'[e] = posts[e] /\ (Exists(e)' <=> Exists(e))
        BY <1>1, <1>6, <2>2 DEF Exists
      <3>2. QED
        BY <1>1, <2>1, <3>1
    <2>3. CASE e \in S
      <3>1. /\ IsFiniteSet(Before(e)) /\ IsFiniteSet(After(e)) /\ Before(e) \cap After(e) = {}
            /\ Cardinality(Before(e)) \in Nat /\ Cardinality(After(e)) \in Nat
            /\ Cardinality(Worker) \in Nat \ {0}
        BY <1>1, HoldersCounted
      <3>2. /\ Before(e)' = Before(e) \cup {w} /\ After(e)' = After(e)
            /\ Before(e)' \cup After(e)' \subseteq Worker /\ Before(e)' \cap After(e)' = {}
        BY <1>6, <1>7, <2>3, <3>1 DEF Before, After
      <3>3. IsFiniteSet(Before(e)') /\ IsFiniteSet(After(e)') /\ IsFiniteSet(Worker)
        BY <3>1, <3>2, FS_AddElement, DeliveryAssumption
      <3>4. Cardinality(Before(e)') \in Nat /\ Cardinality(After(e)') = Cardinality(After(e))
        BY <3>2, <3>3, FS_CardinalityType
      <3>5. Cardinality(Before(e)') + Cardinality(After(e)') <= Cardinality(Worker)
        <4>1. Cardinality(Before(e)' \cup After(e)')
                = Cardinality(Before(e)') + Cardinality(After(e)') - Cardinality(Before(e)' \cap After(e)')
          BY <3>3, FS_Union
        <4>2. Cardinality(Before(e)' \cap After(e)') = 0
          BY <3>2, FS_EmptySet
        <4>3. Cardinality(Before(e)' \cup After(e)') <= Cardinality(Worker)
          BY <3>2, <3>3, FS_Subset
        <4>4. QED
          BY <3>1, <3>4, <4>1, <4>2, <4>3
      <3>6. /\ delivery'[e] = delivery[e] /\ posts'[e] = posts[e]
            /\ delivery[e].attempts < MaxAttempts /\ Exists(e)
            /\ delivery[e].attempts \in Nat /\ posts[e] \in Nat /\ MaxAttempts \in Nat
        BY <1>1, <1>3, <2>3, DeliveryAssumption DEF Exists, DeliveryTypeOK
      <3>7. posts[e] <= delivery[e].attempts + Cardinality(After(e)) + Slack
        BY <2>1, <3>6
      <3>8. QED
        BY <1>1, <3>1, <3>4, <3>5, <3>6, <3>7
    <2>4. QED
      BY <2>2, <2>3
  <1>10. QED
    BY <1>5, <1>8, <1>9 DEF Budget, BudgetOf

\* A tick takes the next of its rows, or skips it when it is gone.
LEMMA StepTickNext ==
  ASSUME RetryInv, NEW w \in Worker, TickNext(w)
  PROVE  Alone' /\ FirstAttempt' /\ Budget'
  <1>1. /\ DeliveryTypeOK /\ Alone /\ FirstAttempt /\ Budget
        /\ UNCHANGED <<delivery, posts, upsets>> /\ Slack \in Nat /\ Slack' = Slack
        /\ \A f \in flying : f.by # w
    BY SlackTyped DEF RetryInv, TickNext, Slack
  <1>2. PICK d \in queue[w] :
          /\ Begin(d, w)
          /\ queue' = [queue EXCEPT ![w] = @ \ {d}]
    BY DEF TickNext
  <1>3. d \in Delivery /\ d \notin Worker
    BY <1>1, <1>2, DeliveryAssumption DEF DeliveryTypeOK
  <1>4. \A e, a : Waits(e, a)' <=> (Waits(e, a) /\ ~(a = w /\ e = d))
    BY <1>1, <1>2 DEF Waits, DeliveryTypeOK
  <1>5. /\ Alone'
        /\ \A e \in Delivery :
             /\ Before(e)' = Before(e) \/ Before(e)' = Before(e) \ {w}
             /\ After(e)' = After(e)
    <2>1. CASE Exists(d)
      <3> DEFINE g == [for |-> d, by |-> w, at |-> "checking"]
      <3>1. flying' = flying \cup {g}
        BY <1>2, <2>1 DEF Begin
      <3>2. g.for = d /\ g.by = w /\ g.at \in Early /\ g.at \notin Late
        BY DEF Early, Late
      <3> HIDE DEF g
      <3>3. Alone'
        BY <1>1, <1>4, <3>1, <3>2 DEF Alone
      <3>4. ASSUME NEW e \in Delivery PROVE Before(e)' = Before(e) /\ After(e)' = After(e)
        <4>1. /\ Flies(e, w, Early)' <=> e = d
              /\ ~Flies(e, w, Late)' /\ ~Flies(e, w, Late) /\ ~Flies(e, w, Early)
          BY <1>1, <3>1, <3>2 DEF Flies
        <4>2. \A a : a # w => (Flies(e, a, Early)' <=> Flies(e, a, Early))
                              /\ (Flies(e, a, Late)' <=> Flies(e, a, Late))
          BY <3>1, <3>2 DEF Flies
        <4>3. Waits(d, w)
          BY <1>2 DEF Waits
        <4>4. QED
          BY <1>4, <4>1, <4>2, <4>3 DEF Before, After
      <3>5. QED
        BY <3>3, <3>4
    <2>2. CASE ~Exists(d)
      <3>1. flying' = flying
        BY <1>2, <2>2 DEF Begin
      <3>2. Alone'
        BY <1>1, <1>4, <3>1 DEF Alone
      <3>3. ASSUME NEW e \in Delivery
            PROVE  (Before(e)' = Before(e) \/ Before(e)' = Before(e) \ {w}) /\ After(e)' = After(e)
        <4>1. \A a : (Flies(e, a, Early)' <=> Flies(e, a, Early))
                     /\ (Flies(e, a, Late)' <=> Flies(e, a, Late))
          BY <3>1 DEF Flies
        <4>2. ~Flies(e, w, Early)
          BY <1>1 DEF Flies
        <4>3. QED
          BY <1>4, <4>1, <4>2 DEF Before, After
      <3>4. QED
        BY <3>2, <3>3
    <2>3. QED
      BY <2>1, <2>2
  <1>6. FirstAttempt'
    <2>1. \A e \in Delivery : Before(e)' \cup After(e)' \subseteq Before(e) \cup After(e)
      BY <1>5
    <2>2. QED
      BY <1>1, <2>1 DEF FirstAttempt, FirstOf, Unread
  <1>7. ASSUME NEW e \in Delivery PROVE BudgetOf(e)'
    <2> USE DEF BudgetOf
    <2>1. BudgetOf(e)
      BY <1>1 DEF Budget
    <2>2. /\ IsFiniteSet(Before(e))
          /\ Cardinality(Before(e)) \in Nat /\ Cardinality(After(e)) \in Nat
          /\ Cardinality(Worker) \in Nat \ {0}
      BY <1>1, HoldersCounted
    <2>3. /\ Cardinality(Before(e)') \in Int /\ Cardinality(Before(e)') <= Cardinality(Before(e))
      <3>1. Cardinality(Before(e) \ {w}) \in {Cardinality(Before(e)), Cardinality(Before(e)) - 1}
        BY <2>2, FS_RemoveElement
      <3>2. Cardinality(Before(e)') \in {Cardinality(Before(e)), Cardinality(Before(e)) - 1}
        BY <1>5, <3>1
      <3>3. QED
        BY <2>2, <3>2
    <2>4. /\ delivery'[e] = delivery[e] /\ posts'[e] = posts[e] /\ After(e)' = After(e)
          /\ Exists(e)' <=> Exists(e)
          /\ delivery[e].attempts \in Nat /\ posts[e] \in Nat /\ MaxAttempts \in Nat
      BY <1>1, <1>5, DeliveryAssumption DEF Exists, DeliveryTypeOK
    <2>5. QED
      BY <1>1, <2>1, <2>2, <2>3, <2>4
  <1>8. QED
    BY <1>5, <1>6, <1>7 DEF Budget, BudgetOf

\* Every step keeps the types.
LEMMA RetryTyped == DeliveryTypeOK /\ [DeliveryNext]_deliveryVars => DeliveryTypeOK'
  <1> SUFFICES ASSUME DeliveryTypeOK, [DeliveryNext]_deliveryVars PROVE DeliveryTypeOK'
    OBVIOUS
  <1> USE DEF DeliveryTypeOK
  <1>1. CASE UNCHANGED deliveryVars
    BY <1>1 DEF deliveryVars
  <1>2. ASSUME NEW d \in Delivery, Dispatch(d) \/ TimePasses(d) PROVE DeliveryTypeOK'
    BY <1>2 DEF Dispatch, TimePasses, Attempt, Stage
  <1>3. ASSUME NEW f \in flying
        PROVE  /\ f \in Attempt /\ f.for \in Delivery
               /\ \A s \in Stage : [f EXCEPT !.at = s] \in Attempt
    BY DEF Attempt
  <1>4. ASSUME NEW f \in flying, NEW status \in {"DELIVERED", "FAILED"},
               NEW at \in {"never", "due", "later"}, Writes(f, status, at),
               UNCHANGED <<queue, retryLock, posts, upsets>>
        PROVE  DeliveryTypeOK'
    BY <1>3, <1>4 DEF Writes, Attempted
  <1>5. ASSUME NEW f \in flying, Progress(f) PROVE DeliveryTypeOK'
    <2>1. CASE Blocked(f)
      BY <1>4, <2>1 DEF Blocked
    <2>2. CASE Passes(f)
      BY <1>3, <2>2 DEF Passes, Moves, Stage
    <2>3. CASE Post(f)
      <3>1. PICK s \in Stage :
              /\ Moves(f, s)
              /\ UNCHANGED posts \/ posts' = [posts EXCEPT ![f.for] = @ + 1]
        BY <2>3 DEF Post, Stage
      <3>2. posts' \in [Delivery -> Nat]
        BY <3>1
      <3>3. flying' \subseteq Attempt
        BY <1>3, <3>1 DEF Moves
      <3>4. UNCHANGED <<delivery, queue, retryLock, upsets>>
        BY <2>3 DEF Post
      <3>5. QED
        BY <3>2, <3>3, <3>4
    <2>4. CASE Answered(f)
      <3>1. delivery[f.for].retryAt \in {"never", "due", "later"}
        BY <1>3
      <3>2. QED
        BY <1>4, <2>4, <3>1 DEF Answered
    <2>5. CASE GaveUp(f)
      BY <1>4, <2>5 DEF GaveUp
    <2>6. QED
      BY <1>5, <2>1, <2>2, <2>3, <2>4, <2>5 DEF Progress
  <1>6. ASSUME NEW f \in flying, AnswerNotWritten(f) \/ AttemptLost(f)
        PROVE  DeliveryTypeOK'
    <2>1. flying' \subseteq Attempt
      BY <1>3, <1>6 DEF AnswerNotWritten, AttemptLost, Moves, Stage
    <2>2. upsets' \in Nat /\ UNCHANGED <<delivery, queue, retryLock, posts>>
      BY <1>6 DEF AnswerNotWritten, AttemptLost, Upset
    <2>3. QED
      BY <2>1, <2>2
  <1>7. ASSUME NEW w \in Worker, TickStarts(w) PROVE DeliveryTypeOK'
    BY <1>7 DEF TickStarts, DueDeliveries, Within
  <1>8. ASSUME NEW w \in Worker, TickNext(w) PROVE DeliveryTypeOK'
    BY <1>8 DEF TickNext, Begin, Attempt, Stage
  <1>9. CASE RemoveWebhook
    BY <1>9 DEF RemoveWebhook
  <1>10. CASE RetryLockLapses
    BY <1>10 DEF RetryLockLapses
  <1>11. CASE Restart
    BY <1>11 DEF Restart, Upset
  <1>12. QED
    BY <1>1, <1>2, <1>5, <1>6, <1>7, <1>8, <1>9, <1>10, <1>11 DEF DeliveryNext

\* At first nobody has a row.
LEMMA InitRetry == DeliveryInit => RetryInv
  <1> SUFFICES ASSUME DeliveryInit PROVE RetryInv
    OBVIOUS
  <1>1. DeliveryTypeOK
    BY DEF DeliveryInit, DeliveryTypeOK
  <1>2. Alone /\ \A e : Before(e) = {} /\ After(e) = {}
    BY DEF DeliveryInit, Alone, Before, After, Flies, Waits
  <1>3. FirstAttempt
    BY <1>2 DEF DeliveryInit, FirstAttempt, FirstOf, Unread
  <1>4. ASSUME NEW e \in Delivery PROVE BudgetOf(e)
    <2> USE DEF BudgetOf
    <2>1. Cardinality(Before(e)) = 0 /\ Cardinality(After(e)) = 0
      BY <1>2, FS_EmptySet
    <2>2. /\ Cardinality(Worker) \in Nat \ {0} /\ MaxAttempts \in Nat \ {0} /\ Slack \in Nat
      BY <1>1, <1>2, <1>3, HoldersCounted, SlackTyped, DeliveryAssumption
    <2>3. delivery[e].attempts = 0 /\ posts[e] = 0
      BY DEF DeliveryInit
    <2>4. QED
      BY <2>1, <2>2, <2>3
  <1>5. QED
    BY <1>1, <1>2, <1>3, <1>4 DEF RetryInv, Budget, BudgetOf

\* Every step keeps the budget.
LEMMA StepRetry == RetryInv /\ [DeliveryNext]_deliveryVars => RetryInv'
  <1> SUFFICES ASSUME RetryInv, [DeliveryNext]_deliveryVars PROVE RetryInv'
    OBVIOUS
  <1>1. DeliveryTypeOK /\ DeliveryTypeOK'
    BY RetryTyped DEF RetryInv
  <1>2. CASE UNCHANGED deliveryVars
    BY <1>2, StepRows, <1>1 DEF deliveryVars, RetryInv
  <1>3. ASSUME NEW d \in Delivery, Dispatch(d) PROVE RetryInv'
    BY <1>1, <1>3, StepDispatch DEF RetryInv
  <1>4. ASSUME NEW d \in Delivery, TimePasses(d) PROVE RetryInv'
    <2>1. \A e \in Delivery : /\ delivery'[e].attempts = delivery[e].attempts
                              /\ delivery'[e].status = delivery[e].status
      BY <1>1, <1>4 DEF TimePasses, DeliveryTypeOK
    <2>2. UNCHANGED <<flying, queue, posts, upsets>>
      BY <1>4 DEF TimePasses
    <2>3. QED
      BY <1>1, <2>1, <2>2, StepRows DEF RetryInv
  <1>5. ASSUME NEW f \in flying, Progress(f) PROVE RetryInv'
    <2>1. CASE Blocked(f)
      BY <1>1, <2>1, StepWrites DEF Blocked, RetryInv
    <2>2. CASE Passes(f)
      BY <1>1, <2>2, StepMoves DEF Passes, RetryInv, Early, Late
    <2>3. CASE Post(f)
      <3>1. PICK s \in Late :
              /\ Moves(f, s)
              /\ UNCHANGED posts \/ posts' = [posts EXCEPT ![f.for] = @ + 1]
        BY <2>3 DEF Post, Late
      <3>2. f.at \in Early /\ f.at \notin Late /\ UNCHANGED <<delivery, queue, upsets>>
        BY <2>3 DEF Post, Early, Late
      <3>3. QED
        BY <1>1, <3>1, <3>2, StepMoves DEF RetryInv
    <2>4. CASE Answered(f)
      BY <1>1, <2>4, StepWrites DEF Answered, RetryInv
    <2>5. CASE GaveUp(f)
      BY <1>1, <2>5, StepWrites DEF GaveUp, RetryInv
    <2>6. QED
      BY <1>5, <2>1, <2>2, <2>3, <2>4, <2>5 DEF Progress
  <1>6. ASSUME NEW f \in flying, AnswerNotWritten(f) PROVE RetryInv'
    BY <1>1, <1>6, StepMoves DEF AnswerNotWritten, Upset, RetryInv, Early, Late
  <1>7. ASSUME NEW f \in flying, AttemptLost(f) PROVE RetryInv'
    BY <1>1, <1>7, StepLost DEF RetryInv
  <1>8. ASSUME NEW w \in Worker, TickStarts(w) PROVE RetryInv'
    BY <1>1, <1>8, StepTickStarts DEF RetryInv
  <1>9. ASSUME NEW w \in Worker, TickNext(w) PROVE RetryInv'
    BY <1>1, <1>9, StepTickNext DEF RetryInv
  <1>10. CASE RemoveWebhook
    <2>1. \A e \in Delivery :
            /\ delivery'[e].attempts = delivery[e].attempts
            /\ \/ delivery'[e].status = delivery[e].status
               \/ Exists(e) /\ delivery'[e].status = "REMOVED"
      BY <1>1, <1>10 DEF RemoveWebhook, DeliveryTypeOK
    <2>2. UNCHANGED <<flying, queue, posts, upsets>>
      BY <1>10 DEF RemoveWebhook
    <2>3. QED
      BY <1>1, <2>1, <2>2, StepRows DEF RetryInv
  <1>11. CASE RetryLockLapses
    BY <1>1, <1>11, StepRows DEF RetryLockLapses, RetryInv
  <1>12. CASE Restart
    BY <1>1, <1>12, StepRestart DEF RetryInv
  <1>13. QED
    BY <1>2, <1>3, <1>4, <1>5, <1>6, <1>7, <1>8, <1>9, <1>10, <1>11, <1>12 DEF DeliveryNext

\* The budget bounds attempts and requests.
LEMMA BudgetBounds == RetryInv => ResendsBounded
  <1> SUFFICES ASSUME RetryInv PROVE ResendsBounded
    OBVIOUS
  <1>1. ASSUME NEW d \in Delivery
        PROVE  /\ delivery[d].attempts <= MaxAttempts + Cardinality(Worker) - 1
               /\ posts[d] <= MaxAttempts + Cardinality(Worker) - 1 + Slack
    <2>1. /\ delivery[d].attempts + Cardinality(Before(d)) + Cardinality(After(d))
               <= MaxAttempts + Cardinality(Worker) - 1
          /\ posts[d] + Cardinality(Before(d)) <= MaxAttempts + Cardinality(Worker) - 1 + Slack
      BY DEF RetryInv, Budget, BudgetOf
    <2>2. /\ Cardinality(Before(d)) \in Nat /\ Cardinality(After(d)) \in Nat
          /\ Cardinality(Worker) \in Nat
      BY HoldersCounted DEF RetryInv
    <2>3. Slack \in Nat
      BY SlackTyped DEF RetryInv
    <2>4. delivery[d].attempts \in Nat /\ posts[d] \in Nat /\ MaxAttempts \in Nat
      BY DeliveryAssumption DEF RetryInv, DeliveryTypeOK
    <2>5. QED
      BY <2>1, <2>2, <2>3, <2>4
  <1>2. QED
    BY <1>1, Zenon DEF ResendsBounded, Slack

(* However many deliveries, ticks and upsets: a row is attempted as often as its budget
   says and once more for each other tick, and a merchant receives no more than that
   and what the upsets left uncounted, one attempt of every tick for each.  *)
THEOREM ResendsBoundedHolds == DeliverySpec => []ResendsBounded
  <1>1. DeliveryInit => RetryInv
    BY InitRetry
  <1>2. RetryInv /\ [DeliveryNext]_deliveryVars => RetryInv'
    BY StepRetry
  <1>3. RetryInv => ResendsBounded
    BY BudgetBounds
  <1>4. QED
    BY <1>1, <1>2, <1>3, PTL DEF DeliverySpec
================================================================================
