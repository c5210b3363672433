------------------------- MODULE PaymentLifecycleProofs -------------------------
(***************************************************************************)
(* Proofs about PaymentLifecycle, for any number of rows, handlers, ticks  *)
(* and envelopes and any bounds.                                           *)
(***************************************************************************)
EXTENDS PaymentLifecycle, FiniteSetTheorems, TLAPS

(* A busy handler works on a row, with an envelope.                         *)
RowHeld ==
  \A h \in Handler : pc[h] # "idle" => row[h] \in Rows /\ xdr[h] \in Envelope

Typed == TypeOK /\ RowHeld

LEMMA OneIsAnEnvelope == 1 \in Env
  BY BoundsAssumption DEF Env

LEMMA EnvelopeParts ==
  ASSUME NEW e \in Envelope
  PROVE  e[1] \in Source /\ e[2] \in Env /\ e = <<e[1], e[2]>>
  BY DEF Envelope

LEMMA ConsumedIsNat == ASSUME NEW t \in Source PROVE Consumed(t) \in Nat
  <1> DEFINE S == {n \in Env : net[t][n] \in {"applied", "reverted"}}
  <1>1. IsFiniteSet(Env)
    BY FS_Interval, BoundsAssumption DEF Env
  <1>2. IsFiniteSet(S)
    BY <1>1, FS_Subset
  <1>3. QED
    BY <1>2, FS_CardinalityType DEF Consumed

LEMMA BuildTyped ==
  ASSUME TypeOK, NEW t \in Source, NEW n \in Env, Build(t, n)
  PROVE  /\ net' \in [Source -> [Env -> NetState]]
         /\ seqno' \in [Source -> [Env -> Nat]]
  <1>1. Consumed(t) + 1 \in Nat
    BY ConsumedIsNat
  <1>2. QED
    BY <1>1 DEF TypeOK, Build, NetState

LEMMA FinishTyped ==
  ASSUME Typed, NEW h \in Handler, Finish(h)
  PROVE  /\ pc' \in [Handler -> HandlerPc]
         /\ row' \in [Handler -> Rows \cup {None}]
         /\ xdr' \in [Handler -> Envelope \cup {None}]
         /\ RowHeld'
  BY DEF Typed, TypeOK, RowHeld, Finish, HandlerPc

LEMMA TickFinishTyped ==
  ASSUME Typed, NEW k \in Tick, TickFinish(k)
  PROVE  /\ tpc' \in [Tick -> TickPc]
         /\ batch' \in [Tick -> SUBSET Contract]
         /\ trow' \in [Tick -> Rows \cup {None}]
         /\ tnext' \in [Tick -> Nat]
         /\ tlast' \in [Tick -> Nat]
  BY DEF Typed, TypeOK, TickFinish, TickPc

LEMMA NotifyTyped ==
  ASSUME NEW count \in [Rows -> Nat], NEW t
  PROVE  Notify(count, t) \in [Rows -> Nat]
  <1>1. \A u \in Rows : Notify(count, t)[u] = IF u = t THEN count[u] + 1 ELSE count[u]
    BY DEF Notify
  <1>2. \A u \in Rows : Notify(count, t)[u] \in Nat
    BY <1>1
  <1>3. QED
    BY <1>2 DEF Notify

LEMMA InitTyped == Init => Typed
  <1> SUFFICES ASSUME Init PROVE Typed
    OBVIOUS
  <1>1. /\ hash \in [Rows -> Envelope \cup {None}]
        /\ xdr \in [Handler -> Envelope \cup {None}]
    BY DEF Init
  <1>2. /\ net \in [Source -> [Env -> NetState]]
        /\ seqno \in [Source -> [Env -> Nat]]
        /\ log \in Seq(Contract)
        /\ credited \subseteq Envelope
    BY DEF Init, NetState
  <1>3. /\ status \in [Rows -> Status]
        /\ pc \in [Handler -> HandlerPc]
        /\ tpc \in [Tick -> TickPc]
    BY DEF Init, Status, HandlerPc, TickPc
  <1>4. QED
    BY <1>1, <1>2, <1>3 DEF Init, Typed, TypeOK, RowHeld

(* Every step keeps the types.                                              *)
LEMMA StepTyped == Typed /\ [Next]_vars => Typed'
  <1> SUFFICES ASSUME Typed, [Next]_vars PROVE Typed'
    OBVIOUS
  <1> USE DEF vars, dbVars, netVars, handlerVars, tickVars, noticeVars
  <1>1. ASSUME NEW t \in Rows, CreateIntent(t) PROVE Typed'
    BY <1>1, BuildTyped, OneIsAnEnvelope
    DEF CreateIntent, Insert, Typed, TypeOK, RowHeld, Status, Source
  <1>2. ASSUME NEW t \in Rows, CreateOccurrence(t) PROVE Typed'
    BY <1>2 DEF CreateOccurrence, Insert, Typed, TypeOK, RowHeld, Status
  <1>3. ASSUME NEW t \in Rows, ApproveOccurrence(t) PROVE Typed'
    BY <1>3, BuildTyped DEF ApproveOccurrence, Typed, TypeOK, RowHeld, Source
  <1>4. ASSUME NEW t \in Source, NEW n \in Env, LedgerApplies(t, n) PROVE Typed'
    <2>1. net' \in [Source -> [Env -> NetState]]
      BY <1>4 DEF LedgerApplies, Typed, TypeOK, NetState
    <2>2. log' \in Seq(Contract)
      BY <1>4 DEF LedgerApplies, Typed, TypeOK
    <2>3. QED
      BY <1>4, <2>1, <2>2 DEF LedgerApplies, Typed, TypeOK, RowHeld
  <1>5. ASSUME NEW t \in Source, NEW n \in Env, LedgerReverts(t, n) \/ PostElsewhere(t, n)
        PROVE  Typed'
    <2>1. PICK v \in NetState : net' = [net EXCEPT ![t][n] = v]
      BY <1>5 DEF LedgerReverts, PostElsewhere, NetState
    <2>2. net' \in [Source -> [Env -> NetState]]
      BY <2>1 DEF Typed, TypeOK
    <2>3. QED
      BY <1>5, <2>2 DEF LedgerReverts, PostElsewhere, Typed, TypeOK, RowHeld
  <1>6. ASSUME NEW t \in Source, NEW n \in Env, InboundTakesHash(<<t, n>>) PROVE Typed'
    BY <1>6 DEF InboundTakesHash, Typed, TypeOK, RowHeld, Envelope
  <1>7. ASSUME NEW h \in Handler, SubmitRead(h) PROVE Typed'
    BY <1>7 DEF SubmitRead, Typed, TypeOK, RowHeld, HandlerPc
  <1>8. ASSUME NEW h \in Handler, SubmitClaim(h) PROVE Typed'
    BY <1>8 DEF SubmitClaim, SetStatus, Goto, Typed, TypeOK, RowHeld, HandlerPc, Status
  <1>9. ASSUME NEW h \in Handler, SubmitClaimLost(h) PROVE Typed'
    BY <1>9, FinishTyped DEF SubmitClaimLost, Typed, TypeOK
  <1>10. ASSUME NEW h \in Handler, CallNetwork(h) PROVE Typed'
    <2>1. row[h] \in Rows /\ xdr[h] \in Envelope
      BY <1>10 DEF CallNetwork, Typed, TypeOK, RowHeld
    <2>2. net' \in [Source -> [Env -> NetState]]
      <3>1. xdr[h][1] \in Source /\ xdr[h][2] \in Env
        BY <2>1, EnvelopeParts
      <3>2. [net EXCEPT ![xdr[h][1]][xdr[h][2]] = "queued"] \in [Source -> [Env -> NetState]]
        BY <3>1 DEF Typed, TypeOK, NetState
      <3>3. \/ net' = net
            \/ net' = [net EXCEPT ![xdr[h][1]][xdr[h][2]] = "queued"]
        BY <1>10, Zenon DEF CallNetwork
      <3>4. QED
        BY <3>2, <3>3 DEF Typed, TypeOK
    <2>3. pc' \in [Handler -> HandlerPc] /\ RowHeld'
      BY <1>10, <2>1 DEF CallNetwork, Goto, Typed, TypeOK, RowHeld, HandlerPc
    <2>4. QED
      BY <1>10, <2>2, <2>3 DEF CallNetwork, Goto, Typed, TypeOK
  <1>11. ASSUME NEW h \in Handler,
                AnswerSuccess(h) \/ AnswerThrows(h) \/ PollFailed(h) \/ PollDeadline(h)
         PROVE  Typed'
    BY <1>11
    DEF AnswerSuccess, AnswerThrows, PollFailed, PollDeadline, Goto, Typed, TypeOK, RowHeld,
        HandlerPc
  <1>12. ASSUME NEW h \in Handler, PersistSuccess(h) PROVE Typed'
    <2>1. status' \in [Rows -> Status] /\ hash' \in [Rows -> Envelope \cup {None}]
      <3>1. xdr[h] \in Envelope
        BY <1>12 DEF PersistSuccess, Typed, RowHeld
      <3>2. PersistedStatus(row[h]) \in Status
        BY DEF PersistedStatus, Status
      <3>3. QED
        BY <1>12, <3>1, <3>2 DEF PersistSuccess, SetStatus, Typed, TypeOK
    <2>2. CASE row[h] \in Contract
      BY <1>12, <2>1, <2>2, FinishTyped DEF PersistSuccess, Typed, TypeOK
    <2>3. CASE row[h] \notin Contract
      BY <1>12, <2>1, <2>3 DEF PersistSuccess, Goto, Typed, TypeOK, RowHeld, HandlerPc
    <2>4. QED
      BY <2>2, <2>3
  <1>13. ASSUME NEW h \in Handler, PersistThrows(h) PROVE Typed'
    BY <1>13, FinishTyped DEF PersistThrows, Typed, TypeOK
  <1>14. ASSUME NEW h \in Handler, PersistFailure(h) PROVE Typed'
    <2>1. status' \in [Rows -> Status] /\ hash' \in [Rows -> Envelope \cup {None}]
      <3>1. xdr[h] \in Envelope
        BY <1>14 DEF PersistFailure, Typed, RowHeld
      <3>2. RejectedStatus \in Status
        BY DEF RejectedStatus, Status
      <3>3. QED
        BY <1>14, <3>1, <3>2 DEF PersistFailure, SetStatus, Typed, TypeOK
    <2>2. QED
      BY <1>14, <2>1 DEF PersistFailure, Goto, Typed, TypeOK, RowHeld, HandlerPc
  <1>15. ASSUME NEW h \in Handler, RevertClaim(h) PROVE Typed'
    <2>1. row[h] \in Rows
      BY <1>15 DEF RevertClaim, Typed, RowHeld
    <2>2. status' \in [Rows -> Status]
      BY <1>15, <2>1 DEF RevertClaim, SetStatus, AfterThrow, Typed, TypeOK, Status
    <2>3. QED
      BY <1>15, <2>2, FinishTyped DEF RevertClaim, Typed, TypeOK
  <1>16. ASSUME NEW h \in Handler, AfterSuccess(h) \/ AfterFailure(h) PROVE Typed'
    <2>1. \/ sent' = Notify(sent, row[h]) /\ refused' = refused
          \/ sent' = sent /\ refused' = Notify(refused, row[h])
      BY <1>16 DEF AfterSuccess, AfterFailure
    <2>2. sent' \in [Rows -> Nat] /\ refused' \in [Rows -> Nat]
      <3>1. sent \in [Rows -> Nat] /\ refused \in [Rows -> Nat]
        BY DEF Typed, TypeOK
      <3>2. Notify(sent, row[h]) \in [Rows -> Nat] /\ Notify(refused, row[h]) \in [Rows -> Nat]
        BY <3>1, NotifyTyped
      <3>3. QED
        BY <2>1, <3>1, <3>2
    <2>3. QED
      BY <1>16, <2>2, FinishTyped DEF AfterSuccess, AfterFailure, Typed, TypeOK
  <1>17. ASSUME NEW k \in Tick, TickStart(k) PROVE Typed'
    BY <1>17 DEF TickStart, TickGoto, Unconfirmed, Typed, TypeOK, RowHeld, TickPc
  <1>18. ASSUME NEW k \in Tick, TickCheck(k) PROVE Typed'
    <2>1. PICK t \in batch[k] :
             /\ trow' = [trow EXCEPT ![k] = t]
             /\ batch' = [batch EXCEPT ![k] = @ \ {t}]
             /\ \/ Settle(k, t, "CONFIRMED", "confirmed", "confirming")
                \/ Settle(k, t, "FAILED", "failed", "confirming")
                \/ UNCHANGED <<status, tpc>>
      BY <1>18 DEF TickCheck
    <2>2. t \in Rows
      BY <2>1 DEF Typed, TypeOK, Rows
    <2>3. trow' \in [Tick -> Rows \cup {None}] /\ batch' \in [Tick -> SUBSET Contract]
      BY <2>1, <2>2 DEF Typed, TypeOK
    <2>4. status' \in [Rows -> Status] /\ tpc' \in [Tick -> TickPc]
      BY <2>1, <2>2 DEF Settle, SetStatus, TickGoto, Typed, TypeOK, Status, TickPc
    <2>5. QED
      BY <1>18, <2>3, <2>4 DEF TickCheck, Typed, TypeOK, RowHeld
  <1>19. ASSUME NEW k \in Tick, TickNotifySent(k) \/ TickNotifyFailed(k) \/ TickNotifyEvent(k)
         PROVE  Typed'
    <2>1. \/ sent' = Notify(sent, trow[k]) /\ refused' = refused
          \/ sent' = sent /\ refused' = Notify(refused, trow[k])
      BY <1>19 DEF TickNotifySent, TickNotifyFailed, TickNotifyEvent
    <2>2. sent' \in [Rows -> Nat] /\ refused' \in [Rows -> Nat]
      <3>1. sent \in [Rows -> Nat] /\ refused \in [Rows -> Nat]
        BY DEF Typed, TypeOK
      <3>2. Notify(sent, trow[k]) \in [Rows -> Nat] /\ Notify(refused, trow[k]) \in [Rows -> Nat]
        BY <3>1, NotifyTyped
      <3>3. QED
        BY <2>1, <3>1, <3>2
    <2>3. QED
      BY <1>19, <2>2
      DEF TickNotifySent, TickNotifyFailed, TickNotifyEvent, TickGoto, Typed, TypeOK, RowHeld,
          TickPc
  <1>20. ASSUME NEW k \in Tick, TickReadPage(k) PROVE Typed'
    BY <1>20 DEF TickReadPage, TickGoto, Typed, TypeOK, RowHeld, TickPc
  <1>21. ASSUME NEW k \in Tick, TickEvent(k) PROVE Typed'
    <2>1. log[tnext[k]] \in Rows
      BY <1>21 DEF TickEvent, Typed, TypeOK, Rows
    <2>2. /\ trow' \in [Tick -> Rows \cup {None}]
          /\ tnext' \in [Tick -> Nat]
      BY <1>21, <2>1 DEF TickEvent, Typed, TypeOK
    <2>3. status' \in [Rows -> Status] /\ tpc' \in [Tick -> TickPc]
      BY <1>21, <2>1 DEF TickEvent, Settle, SetStatus, TickGoto, Typed, TypeOK, Status, TickPc
    <2>4. QED
      BY <1>21, <2>2, <2>3 DEF TickEvent, Typed, TypeOK, RowHeld
  <1>22. ASSUME NEW k \in Tick, TickSaveCursor(k) PROVE Typed'
    BY <1>22, TickFinishTyped DEF TickSaveCursor, Typed, TypeOK, RowHeld
  <1>23. ASSUME NEW h \in Handler, HandlerDies(h) PROVE Typed'
    <2>1. deaths' \in Nat
      BY <1>23 DEF HandlerDies, Typed, TypeOK
    <2>2. Finish(h)
      BY <1>23 DEF HandlerDies
    <2>3. QED
      BY <1>23, <2>1, <2>2, FinishTyped DEF HandlerDies, Typed, TypeOK
  <1>24. ASSUME NEW k \in Tick, TickDies(k) PROVE Typed'
    <2>1. deaths' \in Nat
      BY <1>24 DEF TickDies, Typed, TypeOK
    <2>2. TickFinish(k)
      BY <1>24 DEF TickDies
    <2>3. QED
      BY <1>24, <2>1, <2>2, TickFinishTyped DEF TickDies, Typed, TypeOK, RowHeld
  <1>25. ASSUME NEW k \in Tick, TickCheckFails(k) PROVE Typed'
    <2>1. deaths' \in Nat /\ batch' \in [Tick -> SUBSET Contract]
      BY <1>25 DEF TickCheckFails, Typed, TypeOK
    <2>2. QED
      BY <1>25, <2>1 DEF TickCheckFails, Typed, TypeOK, RowHeld
  <1>26. CASE UNCHANGED vars
    BY <1>26 DEF Typed, TypeOK, RowHeld
  <1>27. ASSUME NEW t \in Source, SignElsewhere(t) PROVE Typed'
    BY <1>27, BuildTyped, OneIsAnEnvelope DEF SignElsewhere, Typed, TypeOK, RowHeld
  <1>28. QED
    BY <1>1, <1>2, <1>3, <1>4, <1>5, <1>6, <1>7, <1>8, <1>9, <1>10, <1>11, <1>12, <1>13,
       <1>14, <1>15, <1>16, <1>17, <1>18, <1>19, <1>20, <1>21, <1>22, <1>23, <1>24, <1>25,
       <1>26, <1>27
    DEF Next, HandlerStep, TickStep

(* Every variable always has its type, whatever interleaving of requests,
   ticks, ledger steps and restarts led there.                              *)
THEOREM TypeCorrect == Spec => []TypeOK
  <1>1. Typed => TypeOK
    BY DEF Typed
  <1>2. QED
    BY InitTyped, StepTyped, <1>1, PTL DEF Spec
-----------------------------------------------------------------------------
(* The inductive invariant behind the safety properties.                    *)

\* A row with a request in flight still holds the claim, or the indexer has
\* confirmed it meanwhile from its contract event; its hash is not yet stored.
ClaimHeld ==
  \A h \in Handler : InFlight(h) =>
    /\ \/ status[row[h]] = "SUBMITTED"
       \/ status[row[h]] = "CONFIRMED" /\ row[h] \in Contract
    /\ hash[row[h]] = None

OneInFlight ==
  \A h1, h2 \in Handler : InFlight(h1) /\ InFlight(h2) /\ row[h1] = row[h2] => h1 = h2

\* Only a submission that was answered leaves a hash, and never gives it back.
HashAfterClaim == \A t \in Rows : hash[t] # None => status[t] \notin {"ABSENT", "PENDING"}

BatchHashed == \A k \in Tick : \A t \in batch[k] : hash[t] # None

\* No envelope is counted for two rows, or for a row and a credit.
CountedOnce ==
  \A t \in Rows : hash[t] # None =>
    hash[t] \notin credited /\ \A u \in Rows : hash[u] = hash[t] => u = t

AbsentUnbuilt ==
  \A t \in Rows, n \in Env : status[t] = "ABSENT" => net[t][n] = "unbuilt"

ContractHasOneEnvelope ==
  \A t \in Contract, n \in Env : n # 1 => net[t][n] = "unbuilt"

EventsApplied == \A i \in 1..Len(log) : OwnApplied(log[i])

\* What a handler was told is what the ledger holds, of an envelope that passed.
AnswersTrue ==
  \A h \in Handler :
    /\ pc[h] # "idle" => Passes(row[h], xdr[h])
    /\ pc[h] = "succeeded" /\ row[h] \in Classic => Fate(xdr[h]) = "applied"
    /\ pc[h] = "rejected" => row[h] \in Contract /\ Fate(xdr[h]) = "reverted"

\* The stored envelope of a row succeeded or failed on the ledger.
StoredApplied(t)  == hash[t] # None /\ Fate(hash[t]) = "applied"
StoredReverted(t) == hash[t] # None /\ Fate(hash[t]) = "reverted"

PaidApplied ==
  \A t \in Rows :
    /\ status[t] = "SUCCEEDED" => StoredApplied(t) /\ Passes(t, hash[t])
    /\ status[t] = "CONFIRMED" => OwnApplied(t) \/ StoredApplied(t)

FailedReverted ==
  \A t \in Rows : status[t] = "FAILED" => t \in Contract /\ StoredReverted(t)

Claims == ClaimHeld /\ OneInFlight /\ HashAfterClaim /\ BatchHashed /\ CountedOnce

LedgerTruth ==
  AbsentUnbuilt /\ ContractHasOneEnvelope /\ EventsApplied /\ AnswersTrue /\
  PaidApplied /\ FailedReverted

LEMMA InitClaims == Init => Claims
  BY DEF Init, Claims, ClaimHeld, OneInFlight, HashAfterClaim, BatchHashed, CountedOnce, InFlight

\* A step that leaves the rows, the requests and the batches alone.
LEMMA ClaimsUnchanged ==
  Claims /\ UNCHANGED <<status, hash, credited, pc, row, batch>> => Claims'
  BY DEF Claims, ClaimHeld, OneInFlight, HashAfterClaim, BatchHashed, CountedOnce, InFlight

\* A request that gives up its row, and changes no row, disturbs nobody.
LEMMA ClaimsFinish ==
  ASSUME Typed, Claims, NEW h \in Handler, Finish(h), UNCHANGED <<status, hash, credited, batch>>
  PROVE  Claims'
  BY DEF Claims, ClaimHeld, OneInFlight, HashAfterClaim, BatchHashed, CountedOnce, InFlight,
         Finish, Typed, TypeOK

LEMMA StepClaims == Typed /\ Claims /\ [Next]_vars => Claims'
  <1> SUFFICES ASSUME Typed, Claims, [Next]_vars PROVE Claims'
    OBVIOUS
  <1> USE DEF vars, dbVars, netVars, handlerVars, tickVars, noticeVars
  <1>1. ASSUME NEW t \in Rows, CreateIntent(t) \/ CreateOccurrence(t) PROVE Claims'
    <2>1. /\ status[t] = "ABSENT"
          /\ status' = [status EXCEPT ![t] = "PENDING"]
          /\ UNCHANGED <<hash, credited, pc, row, batch>>
      BY <1>1 DEF CreateIntent, CreateOccurrence, Insert
    <2>2. QED
      BY <2>1 DEF Claims, ClaimHeld, OneInFlight, HashAfterClaim, BatchHashed, CountedOnce, InFlight,
                  Typed, TypeOK, RowHeld
  <1>2. ASSUME NEW t \in Source, NEW n \in Env,
               \/ ApproveOccurrence(t) \/ SignElsewhere(t) \/ PostElsewhere(t, n)
               \/ LedgerApplies(t, n) \/ LedgerReverts(t, n)
        PROVE  Claims'
    BY <1>2, ClaimsUnchanged
    DEF ApproveOccurrence, SignElsewhere, PostElsewhere, LedgerApplies, LedgerReverts
  <1>17. ASSUME NEW e \in Envelope, InboundTakesHash(e) PROVE Claims'
    BY <1>17
    DEF InboundTakesHash, Claims, ClaimHeld, OneInFlight, HashAfterClaim, BatchHashed,
        CountedOnce, InFlight
  <1>3. ASSUME NEW h \in Handler, SubmitRead(h) PROVE Claims'
    BY <1>3
    DEF SubmitRead, Claims, ClaimHeld, OneInFlight, HashAfterClaim, BatchHashed, CountedOnce, InFlight,
        Typed, TypeOK
  <1>4. ASSUME NEW h \in Handler, SubmitClaim(h) PROVE Claims'
    <2>1. /\ row[h] \in Rows
          /\ status[row[h]] = "PENDING"
          /\ status' = [status EXCEPT ![row[h]] = "SUBMITTED"]
          /\ pc' = [pc EXCEPT ![h] = "claimed"]
          /\ UNCHANGED <<hash, credited, row, batch>>
      BY <1>4 DEF SubmitClaim, Claimable, SetStatus, Goto, Typed, RowHeld
    <2>2. \A g \in Handler : InFlight(g) => row[g] # row[h]
      BY <2>1 DEF Claims, ClaimHeld
    <2>3. hash[row[h]] = None
      BY <2>1 DEF Claims, HashAfterClaim
    <2>4. ClaimHeld' /\ OneInFlight'
      BY <2>1, <2>2, <2>3
      DEF Claims, ClaimHeld, OneInFlight, InFlight, Typed, TypeOK, RowHeld
    <2>5. HashAfterClaim' /\ BatchHashed' /\ CountedOnce'
      BY <2>1 DEF Claims, HashAfterClaim, BatchHashed, CountedOnce, Typed, TypeOK
    <2>6. QED
      BY <2>4, <2>5 DEF Claims
  <1>5. ASSUME NEW h \in Handler, SubmitClaimLost(h) \/ PersistThrows(h) PROVE Claims'
    BY <1>5, ClaimsFinish DEF SubmitClaimLost, PersistThrows
  <1>6. ASSUME NEW h \in Handler,
               \/ CallNetwork(h) \/ AnswerSuccess(h) \/ AnswerThrows(h) \/ PollFailed(h)
               \/ PollDeadline(h)
        PROVE  Claims'
    <2>1. /\ InFlight(h)
          /\ \E label \in {"waiting", "threw", "succeeded", "rejected"} :
               pc' = [pc EXCEPT ![h] = label]
          /\ UNCHANGED <<status, hash, credited, row, batch>>
      BY <1>6 DEF CallNetwork, AnswerSuccess, AnswerThrows, PollFailed, PollDeadline, Goto,
                  InFlight
    <2>2. \A g \in Handler : InFlight(g)' => InFlight(g)
      BY <2>1 DEF InFlight, Typed, TypeOK
    <2>3. QED
      BY <2>1, <2>2 DEF Claims, ClaimHeld, OneInFlight, HashAfterClaim, BatchHashed, CountedOnce
  <1>7. ASSUME NEW h \in Handler, PersistSuccess(h) \/ PersistFailure(h) PROVE Claims'
    <2>1. /\ InFlight(h)
          /\ row[h] \in Rows
          /\ xdr[h] # None
          /\ ~HashTaken(h)
      BY <1>7, RowsAssumption
      DEF PersistSuccess, PersistFailure, InFlight, Typed, TypeOK, RowHeld
    <2>2. /\ \E s \in {"SUBMITTED", "SUCCEEDED", "FAILED"} :
               status' = [status EXCEPT ![row[h]] = s]
          /\ hash' = [hash EXCEPT ![row[h]] = xdr[h]]
          /\ UNCHANGED <<batch, credited>>
      BY <1>7
      DEF PersistSuccess, PersistFailure, SetStatus, PersistedStatus, RejectedStatus
    <2>3. \A g \in Handler : g # h => pc'[g] = pc[g] /\ row'[g] = row[g]
      BY <1>7 DEF PersistSuccess, PersistFailure, Finish, Goto, Typed, TypeOK
    <2>4. ~InFlight(h)'
      BY <1>7 DEF PersistSuccess, PersistFailure, Finish, Goto, InFlight, Typed, TypeOK
    <2>5. \A g \in Handler : InFlight(g)' => g # h /\ InFlight(g) /\ row[g] # row[h]
      BY <2>1, <2>3, <2>4 DEF InFlight, Claims, OneInFlight
    <2>6. ClaimHeld' /\ OneInFlight'
      BY <2>1, <2>2, <2>3, <2>5 DEF Claims, ClaimHeld, OneInFlight, Typed, TypeOK, RowHeld
    <2>7. HashAfterClaim' /\ BatchHashed'
      BY <2>1, <2>2 DEF Claims, HashAfterClaim, BatchHashed, Typed, TypeOK, Rows
    <2>8. CountedOnce'
      BY <2>1, <2>2 DEF Claims, CountedOnce, HashTaken, Typed, TypeOK
    <2>9. QED
      BY <2>6, <2>7, <2>8 DEF Claims
  <1>8. ASSUME NEW h \in Handler, RevertClaim(h) PROVE Claims'
    <2>1. /\ InFlight(h)
          /\ row[h] \in Rows
          /\ status' = [status EXCEPT ![row[h]] = AfterThrow(row[h])]
          /\ Finish(h)
          /\ UNCHANGED <<hash, credited, batch>>
      BY <1>8 DEF RevertClaim, SetStatus, InFlight, Typed, RowHeld
    <2>2. \A g \in Handler : InFlight(g)' => g # h /\ InFlight(g) /\ row'[g] = row[g]
      BY <2>1 DEF Finish, InFlight, Typed, TypeOK
    <2>3. \A g \in Handler : InFlight(g)' => row[g] # row[h]
      BY <2>1, <2>2 DEF Claims, OneInFlight
    <2>4. ClaimHeld' /\ OneInFlight'
      BY <2>1, <2>2, <2>3 DEF Claims, ClaimHeld, OneInFlight, Typed, TypeOK, RowHeld
    <2>5. hash[row[h]] = None
      BY <2>1 DEF Claims, ClaimHeld
    <2>6. HashAfterClaim' /\ BatchHashed' /\ CountedOnce'
      BY <2>1, <2>5 DEF Claims, HashAfterClaim, BatchHashed, CountedOnce, Typed, TypeOK
    <2>7. QED
      BY <2>4, <2>6 DEF Claims
  <1>9. ASSUME NEW h \in Handler, AfterSuccess(h) \/ AfterFailure(h) \/ HandlerDies(h)
        PROVE  Claims'
    BY <1>9, ClaimsFinish DEF AfterSuccess, AfterFailure, HandlerDies
  <1>10. ASSUME NEW k \in Tick, TickStart(k) PROVE Claims'
    BY <1>10
    DEF TickStart, Unconfirmed, Claims, ClaimHeld, OneInFlight, HashAfterClaim, BatchHashed,
        CountedOnce, InFlight, Typed, TypeOK
  <1>11. ASSUME NEW k \in Tick, TickCheck(k) PROVE Claims'
    <2>1. PICK t \in batch[k] :
             /\ batch' = [batch EXCEPT ![k] = @ \ {t}]
             /\ \/ status[t] = "SUBMITTED" /\ \E s \in {"CONFIRMED", "FAILED"} :
                     status' = [status EXCEPT ![t] = s]
                \/ status' = status
             /\ UNCHANGED <<hash, credited, pc, row>>
      BY <1>11 DEF TickCheck, Settle, SetStatus
    <2>2. t \in Rows /\ hash[t] # None
      BY <2>1 DEF Typed, TypeOK, Rows, Claims, BatchHashed
    <2>3. ClaimHeld' /\ OneInFlight'
      BY <2>1, <2>2
      DEF Claims, ClaimHeld, OneInFlight, InFlight, Typed, TypeOK, RowHeld
    <2>4. HashAfterClaim' /\ BatchHashed' /\ CountedOnce'
      BY <2>1, <2>2 DEF Claims, HashAfterClaim, BatchHashed, CountedOnce, Typed, TypeOK
    <2>5. QED
      BY <2>3, <2>4 DEF Claims
  <1>12. ASSUME NEW k \in Tick, TickEvent(k) PROVE Claims'
    <2> DEFINE t == log[tnext[k]]
    <2>1. /\ \/ status[t] = "SUBMITTED" /\ status' = [status EXCEPT ![t] = "CONFIRMED"]
             \/ status' = status
          /\ UNCHANGED <<hash, credited, pc, row, batch>>
      BY <1>12 DEF TickEvent, Settle, SetStatus
    <2>2. t \in Contract /\ t \in Rows
      BY <1>12 DEF TickEvent, Typed, TypeOK, Rows
    <2> HIDE DEF t
    <2>3. QED
      BY <2>1, <2>2
      DEF Claims, ClaimHeld, OneInFlight, HashAfterClaim, BatchHashed, CountedOnce, InFlight, Typed,
          TypeOK, RowHeld
  <1>13. ASSUME NEW k \in Tick,
                \/ TickNotifySent(k) \/ TickNotifyFailed(k) \/ TickNotifyEvent(k)
                \/ TickReadPage(k)
         PROVE  Claims'
    BY <1>13, ClaimsUnchanged
    DEF TickNotifySent, TickNotifyFailed, TickNotifyEvent, TickReadPage
  <1>14. ASSUME NEW k \in Tick, TickSaveCursor(k) \/ TickDies(k) PROVE Claims'
    BY <1>14
    DEF TickSaveCursor, TickDies, TickFinish, Claims, ClaimHeld, OneInFlight, HashAfterClaim,
        BatchHashed, CountedOnce, InFlight, Typed, TypeOK
  <1>15. ASSUME NEW k \in Tick, TickCheckFails(k) PROVE Claims'
    <2>1. \A j \in Tick : batch'[j] \subseteq batch[j]
      BY <1>15 DEF TickCheckFails, Typed, TypeOK
    <2>2. UNCHANGED <<dbVars, netVars, handlerVars>>
      BY <1>15 DEF TickCheckFails
    <2>3. QED
      BY <2>1, <2>2
      DEF dbVars, netVars, handlerVars, Claims, ClaimHeld, OneInFlight, HashAfterClaim,
          BatchHashed, CountedOnce, InFlight
  <1>16. CASE UNCHANGED vars
    BY <1>16, ClaimsUnchanged
  <1>18. QED
    BY <1>1, <1>2, <1>3, <1>4, <1>5, <1>6, <1>7, <1>8, <1>9, <1>10, <1>11, <1>12, <1>13,
       <1>14, <1>15, <1>16, <1>17, OneIsAnEnvelope
    DEF Next, HandlerStep, TickStep, Source, Envelope

LEMMA ClaimsAlways == Spec => [](Typed /\ Claims)
  BY InitTyped, StepTyped, InitClaims, StepClaims, PTL DEF Spec

(* Two requests never carry the same row to the network.                    *)
THEOREM SingleFlightHolds == Spec => []SingleFlight
  <1>1. Typed /\ Claims => SingleFlight
    BY DEF Claims, ClaimHeld, OneInFlight, SingleFlight
  <1>2. QED
    BY ClaimsAlways, <1>1, PTL

-----------------------------------------------------------------------------
(* SUCCEEDED and FAILED are never overwritten.                              *)
LEMMA StepFinal ==
  Typed /\ Claims /\ [Next]_vars =>
    \A t \in Rows : status[t] \in {"SUCCEEDED", "FAILED"} => status'[t] = status[t]
  <1> SUFFICES ASSUME Typed, Claims, [Next]_vars, NEW u \in Rows,
                      status[u] \in {"SUCCEEDED", "FAILED"}
               PROVE  status'[u] = status[u]
    OBVIOUS
  <1> USE DEF vars, dbVars, netVars, handlerVars, tickVars, noticeVars
  <1>1. ASSUME NEW t \in Rows, CreateIntent(t) \/ CreateOccurrence(t)
        PROVE  status'[u] = status[u]
    BY <1>1 DEF CreateIntent, CreateOccurrence, Insert, Typed, TypeOK
  <1>2. ASSUME NEW h \in Handler,
               \/ SubmitClaim(h) \/ PersistSuccess(h) \/ PersistFailure(h) \/ RevertClaim(h)
        PROVE  status'[u] = status[u]
    <2>1. \E s : status' = [status EXCEPT ![row[h]] = s]
      BY <1>2 DEF SubmitClaim, PersistSuccess, PersistFailure, RevertClaim, SetStatus
    <2>2. status[row[h]] \notin {"SUCCEEDED", "FAILED"}
      BY <1>2
      DEF SubmitClaim, Claimable, PersistSuccess, PersistFailure, RevertClaim, Claims,
          ClaimHeld, InFlight
    <2>3. QED
      BY <2>1, <2>2 DEF Typed, TypeOK
  <1>3. ASSUME NEW k \in Tick, TickCheck(k) \/ TickEvent(k) PROVE status'[u] = status[u]
    <2>1. \/ status' = status
          \/ \E t, s : status[t] = "SUBMITTED" /\ status' = [status EXCEPT ![t] = s]
      BY <1>3 DEF TickCheck, TickEvent, Settle, SetStatus
    <2>2. QED
      BY <2>1 DEF Typed, TypeOK
  <1>4. CASE UNCHANGED status
    BY <1>4
  <1>5. QED
    BY <1>1, <1>2, <1>3, <1>4
    DEF Next, HandlerStep, TickStep, ApproveOccurrence, SignElsewhere, PostElsewhere, LedgerApplies,
        LedgerReverts, InboundTakesHash, SubmitRead, SubmitClaimLost, CallNetwork, AnswerSuccess,
        AnswerThrows, PollFailed, PollDeadline, PersistThrows, AfterSuccess, AfterFailure,
        HandlerDies, TickStart, TickNotifySent, TickNotifyFailed, TickReadPage,
        TickNotifyEvent, TickSaveCursor, TickDies, TickCheckFails

THEOREM TerminalIsFinalHolds == Spec => TerminalIsFinal
  <1>1. Typed /\ Claims /\ [Next]_vars =>
          [\A t \in Rows : status[t] \in {"SUCCEEDED", "FAILED"} => status'[t] = status[t]]_vars
    BY StepFinal
  <1>2. QED
    BY ClaimsAlways, <1>1, PTL DEF Spec, TerminalIsFinal

-----------------------------------------------------------------------------
(* What a row claims is what the ledger did.                                *)
LEMMA InitLedgerTruth == Init => LedgerTruth
  BY DEF Init, LedgerTruth, AbsentUnbuilt, ContractHasOneEnvelope, EventsApplied,
         AnswersTrue, PaidApplied, FailedReverted, Rows, Source

\* The only moves of an envelope.
EnvelopeMoves ==
  {<<"unbuilt", "built">>, <<"built", "queued">>, <<"queued", "applied">>,
   <<"queued", "reverted">>}

LEMMA NetStep ==
  ASSUME Typed, LedgerTruth, [Next]_vars, NEW t \in Source, NEW n \in Env
  PROVE  /\ net'[t][n] = net[t][n] \/ <<net[t][n], net'[t][n]>> \in EnvelopeMoves
         /\ net[t][n] = "unbuilt" /\ net'[t][n] # "unbuilt" =>
              (t \in Rows => status'[t] # "ABSENT") /\ (t \in Contract => n = 1)
  <1> DEFINE Moves == /\ net'[t][n] = net[t][n] \/ <<net[t][n], net'[t][n]>> \in EnvelopeMoves
                      /\ net[t][n] = "unbuilt" /\ net'[t][n] # "unbuilt" =>
                           /\ t \in Rows => status'[t] # "ABSENT"
                           /\ t \in Contract => n = 1
  <1> USE DEF vars, dbVars, netVars, handlerVars, tickVars, noticeVars
  <1>1. ASSUME NEW u \in Rows, CreateIntent(u) PROVE Moves
    <2>1. /\ \A m \in Env : net[u][m] = "unbuilt"
          /\ status'[u] # "ABSENT"
          /\ net' = [net EXCEPT ![u][1] = "built"]
      BY <1>1 DEF CreateIntent, Insert, Build, LedgerTruth, AbsentUnbuilt, Typed, TypeOK
    <2>2. QED
      BY <2>1, OneIsAnEnvelope DEF EnvelopeMoves, Typed, TypeOK
  <1>2. ASSUME NEW u \in Rows, ApproveOccurrence(u) PROVE Moves
    <2>1. /\ u \notin Contract
          /\ status'[u] = "PENDING"
          /\ \E m \in Env : net[u][m] = "unbuilt" /\ net' = [net EXCEPT ![u][m] = "built"]
      BY <1>2, RowsAssumption DEF ApproveOccurrence, Build
    <2>2. QED
      BY <2>1 DEF EnvelopeMoves, Typed, TypeOK
  <1>3. ASSUME NEW u \in Source, NEW m \in Env,
               LedgerApplies(u, m) \/ LedgerReverts(u, m) \/ PostElsewhere(u, m)
        PROVE  Moves
    <2>1. \E v : <<net[u][m], v>> \in EnvelopeMoves \ {<<"unbuilt", "built">>}
                 /\ net' = [net EXCEPT ![u][m] = v]
      BY <1>3 DEF LedgerApplies, LedgerReverts, PostElsewhere, Includable, EnvelopeMoves
    <2>2. QED
      BY <2>1 DEF EnvelopeMoves, Typed, TypeOK
  <1>4. ASSUME NEW h \in Handler, CallNetwork(h) PROVE Moves
    <2>1. \/ net' = net
          \/ /\ Fate(xdr[h]) = "built"
             /\ net' = [net EXCEPT ![xdr[h][1]][xdr[h][2]] = "queued"]
      <3>1. PICK reached \in BOOLEAN :
               net' = IF reached /\ Fate(xdr[h]) = "built"
                      THEN [net EXCEPT ![xdr[h][1]][xdr[h][2]] = "queued"]
                      ELSE net
        BY <1>4, Zenon DEF CallNetwork
      <3>2. QED
        BY <3>1, Zenon
    <2>2. xdr[h][1] \in Source /\ xdr[h][2] \in Env
      BY <1>4, EnvelopeParts DEF CallNetwork, Typed, RowHeld
    <2>3. PICK u \in Source, m \in Env :
             \/ net' = net
             \/ net[u][m] = "built" /\ net' = [net EXCEPT ![u][m] = "queued"]
      BY <2>1, <2>2 DEF Fate
    <2>4. CASE net' = net
      BY <2>4
    <2>5. CASE net[u][m] = "built" /\ net' = [net EXCEPT ![u][m] = "queued"]
      <3>1. net'[t][n] = IF t = u /\ n = m THEN "queued" ELSE net[t][n]
        BY <2>5 DEF Typed, TypeOK
      <3>2. QED
        BY <2>5, <3>1 DEF EnvelopeMoves
    <2>6. QED
      BY <2>3, <2>4, <2>5
  <1>5. ASSUME NEW u \in Source, SignElsewhere(u) PROVE Moves
    <2>1. /\ u \notin Rows
          /\ net[u][1] = "unbuilt"
          /\ net' = [net EXCEPT ![u][1] = "built"]
      BY <1>5, RowsAssumption DEF SignElsewhere, Build
    <2>2. QED
      BY <2>1, OneIsAnEnvelope DEF EnvelopeMoves, Typed, TypeOK, Rows
  <1>6. CASE UNCHANGED net
    BY <1>6
  <1>7. QED
    BY <1>1, <1>2, <1>3, <1>4, <1>5, <1>6
    DEF Next, HandlerStep, TickStep, CreateOccurrence, InboundTakesHash, SubmitRead,
        SubmitClaim, SubmitClaimLost, AnswerSuccess, AnswerThrows, PollFailed,
        PollDeadline, PersistSuccess, PersistThrows, PersistFailure, RevertClaim,
        AfterSuccess, AfterFailure, HandlerDies, TickStart, TickCheck, TickNotifySent,
        TickNotifyFailed, TickReadPage, TickEvent, TickNotifyEvent, TickSaveCursor, TickDies, TickCheckFails

\* The ledger's decision on an envelope stands.
LEMMA DecisionsStand ==
  ASSUME Typed, LedgerTruth, [Next]_vars, NEW t \in Source, NEW n \in Env,
         net[t][n] \in {"applied", "reverted"}
  PROVE  net'[t][n] = net[t][n]
  BY NetStep DEF EnvelopeMoves

LEMMA FateStands ==
  ASSUME Typed, LedgerTruth, [Next]_vars, NEW e \in Envelope,
         Fate(e) \in {"applied", "reverted"}
  PROVE  Fate(e)' = Fate(e)
  BY EnvelopeParts, DecisionsStand DEF Fate

\* The hash of a row, once stored, is never replaced.
LEMMA HashKept ==
  ASSUME Typed, Claims, [Next]_vars, NEW t \in Rows, hash[t] # None
  PROVE  hash'[t] = hash[t]
  <1> USE DEF vars, dbVars, netVars, handlerVars, tickVars, noticeVars
  <1>1. ASSUME NEW h \in Handler, PersistSuccess(h) \/ PersistFailure(h)
        PROVE  hash'[t] = hash[t]
    <2>1. hash' = [hash EXCEPT ![row[h]] = xdr[h]] /\ hash[row[h]] = None
      BY <1>1 DEF PersistSuccess, PersistFailure, Claims, ClaimHeld, InFlight
    <2>2. QED
      BY <2>1 DEF Typed, TypeOK
  <1>2. CASE UNCHANGED hash
    BY <1>2
  <1>3. QED
    BY <1>1, <1>2
    DEF Next, HandlerStep, TickStep, CreateIntent, CreateOccurrence, ApproveOccurrence,
        SignElsewhere, PostElsewhere, LedgerApplies, LedgerReverts, InboundTakesHash,
        SubmitRead, SubmitClaim, SubmitClaimLost, CallNetwork, AnswerSuccess, AnswerThrows,
        PollFailed, PollDeadline, PersistThrows, RevertClaim, AfterSuccess, AfterFailure,
        HandlerDies, TickStart, TickCheck, TickNotifySent, TickNotifyFailed, TickReadPage,
        TickEvent, TickNotifyEvent, TickSaveCursor, TickDies, TickCheckFails

\* So what is known of a row's own payment, and of its stored envelope, stands.
LEMMA EvidenceStands ==
  ASSUME Typed, Claims, LedgerTruth, [Next]_vars, NEW t \in Rows
  PROVE  /\ OwnApplied(t) => OwnApplied(t)'
         /\ StoredApplied(t) => StoredApplied(t)' /\ hash'[t] = hash[t]
         /\ StoredReverted(t) => StoredReverted(t)' /\ hash'[t] = hash[t]
  <1>1. OwnApplied(t) => OwnApplied(t)'
    BY DecisionsStand DEF OwnApplied, Source
  <1>2. hash[t] # None => hash[t] \in Envelope /\ hash'[t] = hash[t]
    BY HashKept DEF Typed, TypeOK
  <1>3. ASSUME hash[t] # None, Fate(hash[t]) \in {"applied", "reverted"}
        PROVE  Fate(hash[t])' = Fate(hash[t])
    BY <1>2, <1>3, FateStands DEF Fate
  <1>4. QED
    BY <1>1, <1>2, <1>3 DEF StoredApplied, StoredReverted

\* A row is never removed.
LEMMA NeverAbsentAgain ==
  ASSUME Typed, Claims, [Next]_vars, NEW u \in Rows, status[u] # "ABSENT"
  PROVE  status'[u] # "ABSENT"
  <1> USE DEF vars, dbVars, netVars, handlerVars, tickVars, noticeVars
  <1>1. ASSUME NEW t \in Rows, CreateIntent(t) \/ CreateOccurrence(t)
        PROVE  status'[u] # "ABSENT"
    BY <1>1 DEF CreateIntent, CreateOccurrence, Insert, Typed, TypeOK
  <1>2. ASSUME NEW h \in Handler,
               \/ SubmitClaim(h) \/ PersistSuccess(h) \/ PersistFailure(h) \/ RevertClaim(h)
        PROVE  status'[u] # "ABSENT"
    <2>1. \/ \E s \in {"SUBMITTED", "SUCCEEDED", "FAILED", "PENDING"} :
               status' = [status EXCEPT ![row[h]] = s]
          \/ status' = [status EXCEPT ![row[h]] = status[row[h]]]
      BY <1>2 DEF SubmitClaim, PersistSuccess, PersistFailure, RevertClaim, SetStatus,
                  PersistedStatus, RejectedStatus, AfterThrow
    <2>2. QED
      BY <2>1 DEF Typed, TypeOK
  <1>3. ASSUME NEW k \in Tick, TickCheck(k) \/ TickEvent(k) PROVE status'[u] # "ABSENT"
    <2>1. \/ status' = status
          \/ \E t, s : s # "ABSENT" /\ status' = [status EXCEPT ![t] = s]
      BY <1>3 DEF TickCheck, TickEvent, Settle, SetStatus
    <2>2. QED
      BY <2>1 DEF Typed, TypeOK
  <1>4. CASE UNCHANGED status
    BY <1>4
  <1>5. QED
    BY <1>1, <1>2, <1>3, <1>4
    DEF Next, HandlerStep, TickStep, ApproveOccurrence, SignElsewhere, PostElsewhere, LedgerApplies,
        LedgerReverts, InboundTakesHash, SubmitRead, SubmitClaimLost, CallNetwork, AnswerSuccess,
        AnswerThrows, PollFailed, PollDeadline, PersistThrows, AfterSuccess, AfterFailure,
        HandlerDies, TickStart, TickNotifySent, TickNotifyFailed, TickReadPage,
        TickNotifyEvent, TickSaveCursor, TickDies, TickCheckFails

LEMMA StepEvents ==
  ASSUME Typed, LedgerTruth, [Next]_vars PROVE EventsApplied'
  <1> USE DEF vars, dbVars, netVars, handlerVars, tickVars, noticeVars
  <1>1. \A i \in 1..Len(log) : log[i] \in Rows /\ OwnApplied(log[i])
    BY DEF LedgerTruth, EventsApplied, Typed, TypeOK, Rows
  <1>2. \A i \in 1..Len(log) : \E n \in Env : net'[log[i]][n] = "applied"
    BY <1>1, DecisionsStand DEF OwnApplied, Source
  <1>3. ASSUME NEW t \in Source, NEW n \in Env, LedgerApplies(t, n) PROVE EventsApplied'
    <2>1. net'[t][n] = "applied"
      BY <1>3 DEF LedgerApplies, Typed, TypeOK
    <2>2. CASE t \in Contract
      <3>1. log' = Append(log, t) /\ log \in Seq(Contract)
        BY <1>3, <2>2 DEF LedgerApplies, Typed, TypeOK
      <3>2. /\ Len(log') = Len(log) + 1
            /\ \A i \in 1..Len(log) : log'[i] = log[i]
            /\ log'[Len(log) + 1] = t
        BY <3>1, <2>2
      <3>3. QED
        BY <3>1, <3>2, <1>2, <2>1 DEF EventsApplied, OwnApplied
    <2>3. CASE t \notin Contract
      BY <1>3, <2>3, <1>2 DEF LedgerApplies, EventsApplied, OwnApplied
    <2>4. QED
      BY <2>2, <2>3
  <1>4. CASE UNCHANGED log
    BY <1>4, <1>2 DEF EventsApplied, OwnApplied
  <1>5. QED
    BY <1>3, <1>4
    DEF Next, HandlerStep, TickStep, CreateIntent, CreateOccurrence, ApproveOccurrence,
        SignElsewhere, PostElsewhere, LedgerReverts, InboundTakesHash, SubmitRead,
        SubmitClaim, SubmitClaimLost,
        CallNetwork, AnswerSuccess, AnswerThrows, PollFailed, PollDeadline, PersistSuccess,
        PersistThrows, PersistFailure, RevertClaim, AfterSuccess, AfterFailure,
        HandlerDies, TickStart, TickCheck, TickNotifySent, TickNotifyFailed, TickReadPage,
        TickEvent, TickNotifyEvent, TickSaveCursor, TickDies, TickCheckFails

\* What a handler was told stays true, and what it is told now is true.
LEMMA StepAnswers ==
  ASSUME Typed, LedgerTruth, [Next]_vars PROVE AnswersTrue'
  <1> USE DEF vars, dbVars, netVars, handlerVars, tickVars, noticeVars
  <1> DEFINE True(h) ==
        /\ pc[h] # "idle" => Passes(row[h], xdr[h])
        /\ pc[h] = "succeeded" /\ row[h] \in Classic => Fate(xdr[h]) = "applied"
        /\ pc[h] = "rejected" => row[h] \in Contract /\ Fate(xdr[h]) = "reverted"
  <1>1. ASSUME NEW h \in Handler, pc[h] # "idle", UNCHANGED xdr[h],
               Fate(xdr[h]) \in {"applied", "reverted"}
        PROVE  Fate(xdr[h])' = Fate(xdr[h])
    <2>1. xdr[h] \in Envelope
      BY <1>1 DEF Typed, RowHeld
    <2>2. QED
      BY <1>1, <2>1, FateStands DEF Fate
  <1>2. ASSUME NEW h \in Handler, UNCHANGED <<pc[h], row[h], xdr[h]>> PROVE True(h)'
    <2>1. pc'[h] \in {"succeeded", "rejected"} /\ Fate(xdr[h]) \in {"applied", "reverted"} =>
            Fate(xdr[h])' = Fate(xdr[h])
      BY <1>1, <1>2
    <2>2. True(h)
      BY DEF LedgerTruth, AnswersTrue
    <2>3. Passes(row[h], xdr[h])' <=> Passes(row[h], xdr[h])
      BY <1>2 DEF Passes
    <2>4. QED
      BY <1>2, <2>1, <2>2, <2>3
  <1>3. ASSUME NEW h \in Handler, SubmitRead(h) PROVE AnswersTrue'
    <2>1. pc'[h] = "checked" /\ Passes(row'[h], xdr'[h])
      BY <1>3 DEF SubmitRead, Typed, TypeOK
    <2>2. \A g \in Handler : g # h => UNCHANGED <<pc[g], row[g], xdr[g]>>
      BY <1>3 DEF SubmitRead, Typed, TypeOK
    <2>3. QED
      BY <2>1, <2>2, <1>2 DEF AnswersTrue, Passes
  <1>4. ASSUME NEW h \in Handler, \/ SubmitClaim(h) \/ CallNetwork(h) \/ AnswerThrows(h)
               \/ PollDeadline(h) \/ AnswerSuccess(h) \/ PollFailed(h) \/ PersistFailure(h)
        PROVE  AnswersTrue'
    <2>1. \/ pc'[h] \in {"claimed", "waiting", "threw", "unpaid"}
          \/ pc'[h] = "succeeded" /\ row'[h] \in Contract
          \/ pc'[h] = "succeeded" /\ Fate(xdr[h]) = "applied"
          \/ pc'[h] = "rejected" /\ row[h] \in Contract /\ Fate(xdr[h]) = "reverted"
      BY <1>4 DEF SubmitClaim, CallNetwork, AnswerThrows, PollDeadline, AnswerSuccess,
                  PollFailed, PersistFailure, Goto, Typed, TypeOK
    <2>2. UNCHANGED <<row, xdr>> /\ pc[h] # "idle"
      BY <1>4 DEF SubmitClaim, CallNetwork, AnswerThrows, PollDeadline, AnswerSuccess,
                  PollFailed, PersistFailure, Goto
    <2>3. Passes(row[h], xdr[h])'
      BY <2>2 DEF LedgerTruth, AnswersTrue, Passes
    <2>4. Fate(xdr[h]) \in {"applied", "reverted"} => Fate(xdr[h])' = Fate(xdr[h])
      BY <2>2, <1>1
    <2>5. True(h)'
      BY <2>1, <2>2, <2>3, <2>4, RowsAssumption
    <2>6. \A g \in Handler : g # h => UNCHANGED <<pc[g], row[g], xdr[g]>>
      BY <1>4 DEF SubmitClaim, CallNetwork, AnswerThrows, PollDeadline, AnswerSuccess,
                  PollFailed, PersistFailure, Goto, Typed, TypeOK
    <2>7. QED
      BY <2>5, <2>6, <1>2 DEF AnswersTrue
  <1>5. ASSUME NEW h \in Handler,
               \/ SubmitClaimLost(h) \/ PersistSuccess(h) \/ PersistThrows(h)
               \/ RevertClaim(h) \/ AfterSuccess(h) \/ AfterFailure(h) \/ HandlerDies(h)
        PROVE  AnswersTrue'
    <2>1. Finish(h) \/ Goto(h, "paid")
      BY <1>5 DEF SubmitClaimLost, PersistSuccess, PersistThrows, RevertClaim, AfterSuccess,
                  AfterFailure, HandlerDies
    <2>2. \/ pc'[h] = "idle"
          \/ pc'[h] = "paid" /\ pc[h] # "idle" /\ UNCHANGED <<row, xdr>>
      BY <1>5, <2>1 DEF PersistSuccess, SubmitClaimLost, PersistThrows, RevertClaim, AfterSuccess,
                  AfterFailure, HandlerDies, Finish, Goto, Typed, TypeOK
    <2>3. \A g \in Handler : g # h => UNCHANGED <<pc[g], row[g], xdr[g]>>
      BY <2>1 DEF Finish, Goto, Typed, TypeOK
    <2>4. QED
      BY <2>2, <2>3, <1>2 DEF AnswersTrue, LedgerTruth, Passes
  <1>6. CASE UNCHANGED handlerVars
    BY <1>6, <1>2 DEF AnswersTrue
  <1>7. QED
    BY <1>3, <1>4, <1>5, <1>6
    DEF Next, HandlerStep, TickStep, CreateIntent, CreateOccurrence, ApproveOccurrence,
        SignElsewhere, PostElsewhere, LedgerApplies, LedgerReverts, InboundTakesHash, TickStart, TickCheck,
        TickNotifySent, TickNotifyFailed, TickReadPage, TickEvent, TickNotifyEvent,
        TickSaveCursor, TickDies, TickCheckFails

LEMMA StepVerdicts ==
  ASSUME Typed, Claims, LedgerTruth, [Next]_vars PROVE PaidApplied' /\ FailedReverted'
  <1> USE DEF vars, dbVars, netVars, handlerVars, tickVars, noticeVars
  <1> DEFINE Paid(t)   == StoredApplied(t) /\ Passes(t, hash[t])
             Seen(t)   == OwnApplied(t) \/ StoredApplied(t)
             Failed(t) == t \in Contract /\ StoredReverted(t)
             Told(t)   == /\ status[t] = "SUCCEEDED" => Paid(t)
                          /\ status[t] = "CONFIRMED" => Seen(t)
                          /\ status[t] = "FAILED" => Failed(t)
  <1>1. \A t \in Rows :
           (Paid(t) => Paid(t)') /\ (Seen(t) => Seen(t)') /\ (Failed(t) => Failed(t)')
    BY EvidenceStands DEF Passes
  <1>2. ASSUME NEW t \in Rows, status'[t] = status[t] PROVE Told(t)'
    BY <1>1, <1>2 DEF LedgerTruth, PaidApplied, FailedReverted
  <1>3. SUFFICES \A t \in Rows : Told(t)'
    BY DEF PaidApplied, FailedReverted
  <1>4. ASSUME NEW t \in Rows, CreateIntent(t) \/ CreateOccurrence(t)
        PROVE  \A u \in Rows : Told(u)'
    <2>1. status'[t] = "PENDING" /\ \A u \in Rows : u # t => status'[u] = status[u]
      BY <1>4 DEF CreateIntent, CreateOccurrence, Insert, Typed, TypeOK
    <2>2. QED
      BY <2>1, <1>2
  <1>5. ASSUME NEW h \in Handler, SubmitClaim(h) \/ RevertClaim(h)
        PROVE  \A u \in Rows : Told(u)'
    <2>1. \A u \in Rows : status'[u] = status[u] \/ status'[u] \in {"PENDING", "SUBMITTED"}
      BY <1>5 DEF SubmitClaim, RevertClaim, SetStatus, AfterThrow, Typed, TypeOK
    <2>2. QED
      BY <2>1, <1>2
  <1>6. ASSUME NEW h \in Handler, PersistSuccess(h) \/ PersistFailure(h)
        PROVE  \A u \in Rows : Told(u)'
    <2>1. PICK t \in Rows : t = row[h]
      BY <1>6 DEF PersistSuccess, PersistFailure, Typed, RowHeld
    <2>2. /\ xdr[h] \in Envelope /\ xdr[h] # None
          /\ Passes(t, xdr[h])
      BY <1>6, <2>1, RowsAssumption
      DEF PersistSuccess, PersistFailure, Typed, RowHeld, LedgerTruth, AnswersTrue
    <2>3. /\ \A u \in Rows : u # t => status'[u] = status[u]
          /\ hash'[t] = xdr[h]
      BY <1>6, <2>1 DEF PersistSuccess, PersistFailure, SetStatus, Typed, TypeOK
    <2>4. Fate(xdr[h]) \in {"applied", "reverted"} =>
             hash'[t] # None /\ (Fate(hash[t]))' = Fate(xdr[h])
      BY <2>2, <2>3, FateStands DEF Fate
    <2>5. ASSUME PersistSuccess(h) PROVE Told(t)'
      <3>1. t \notin Contract => Fate(xdr[h]) = "applied"
        BY <2>1, <2>5 DEF PersistSuccess, LedgerTruth, AnswersTrue, Rows
      <3>2. status'[t] = IF t \in Contract THEN "SUBMITTED" ELSE "SUCCEEDED"
        BY <2>1, <2>5 DEF PersistSuccess, SetStatus, PersistedStatus, Typed, TypeOK
      <3>3. QED
        BY <2>2, <2>3, <2>4, <3>1, <3>2 DEF StoredApplied, Passes, Fate
    <2>6. ASSUME PersistFailure(h) PROVE Told(t)'
      <3>1. t \in Contract /\ Fate(xdr[h]) = "reverted"
        BY <2>1, <2>6 DEF PersistFailure, LedgerTruth, AnswersTrue
      <3>2. status'[t] = "FAILED"
        BY <2>1, <2>6 DEF PersistFailure, SetStatus, RejectedStatus, Typed, TypeOK
      <3>3. QED
        BY <2>4, <3>1, <3>2 DEF StoredReverted, Fate
    <2>7. Told(t)'
      BY <1>6, <2>5, <2>6
    <2>8. QED
      BY <2>3, <2>7, <1>2
  <1>7. ASSUME NEW k \in Tick, TickCheck(k) PROVE \A u \in Rows : Told(u)'
    <2>1. PICK t \in batch[k] :
             \/ Fate(hash[t]) = "applied" /\ status' = [status EXCEPT ![t] = "CONFIRMED"]
             \/ Fate(hash[t]) = "reverted" /\ status' = [status EXCEPT ![t] = "FAILED"]
             \/ status' = status
      BY <1>7 DEF TickCheck, Settle, SetStatus, SuccessSettles, FailureSettles
    <2>2. t \in Contract /\ t \in Rows /\ hash[t] # None
      BY <2>1 DEF Claims, BatchHashed, Typed, TypeOK, Rows
    <2>3. Fate(hash[t]) = "applied" => Seen(t)'
      BY <2>2, <1>1 DEF StoredApplied
    <2>4. Fate(hash[t]) = "reverted" => Failed(t)'
      BY <2>2, <1>1 DEF StoredReverted
    <2>5. \A u \in Rows : u # t => status'[u] = status[u]
      BY <2>1 DEF Typed, TypeOK
    <2>6. \/ Fate(hash[t]) = "applied" /\ status'[t] = "CONFIRMED"
          \/ Fate(hash[t]) = "reverted" /\ status'[t] = "FAILED"
          \/ status'[t] = status[t]
      BY <2>1, <2>2 DEF Typed, TypeOK
    <2>7. Told(t)'
      BY <2>2, <2>3, <2>4, <2>6, <1>2
    <2>8. QED
      BY <2>5, <2>7, <1>2
  <1>8. ASSUME NEW k \in Tick, TickEvent(k) PROVE \A u \in Rows : Told(u)'
    <2>1. tnext[k] \in 1..Len(log)
      BY <1>8 DEF TickEvent, Typed, TypeOK
    <2>2. PICK t \in Contract : t = log[tnext[k]]
      BY <2>1 DEF Typed, TypeOK
    <2>3. Seen(t)'
      BY <2>1, <2>2, <1>1 DEF LedgerTruth, EventsApplied, Rows
    <2>4. status' = status \/ status' = [status EXCEPT ![t] = "CONFIRMED"]
      BY <1>8, <2>2 DEF TickEvent, Settle, SetStatus
    <2>5. \A u \in Rows : u # t => status'[u] = status[u]
      BY <2>4 DEF Typed, TypeOK
    <2>6. t \in Rows /\ (status'[t] = status[t] \/ status'[t] = "CONFIRMED")
      BY <2>4 DEF Typed, TypeOK, Rows
    <2>7. QED
      BY <2>3, <2>5, <2>6, <1>2
  <1>9. CASE UNCHANGED status
    BY <1>9, <1>2
  <1>10. QED
    BY <1>4, <1>5, <1>6, <1>7, <1>8, <1>9
    DEF Next, HandlerStep, TickStep, ApproveOccurrence, SignElsewhere, PostElsewhere, LedgerApplies,
        LedgerReverts, InboundTakesHash, SubmitRead, SubmitClaimLost, CallNetwork, AnswerSuccess,
        AnswerThrows, PollFailed, PollDeadline, PersistThrows, AfterSuccess, AfterFailure,
        HandlerDies, TickStart, TickNotifySent, TickNotifyFailed, TickReadPage,
        TickNotifyEvent, TickSaveCursor, TickDies, TickCheckFails

LEMMA StepLedgerTruth == Typed /\ Claims /\ LedgerTruth /\ [Next]_vars => LedgerTruth'
  <1> SUFFICES ASSUME Typed, Claims, LedgerTruth, [Next]_vars PROVE LedgerTruth'
    OBVIOUS
  <1>1. AbsentUnbuilt'
    <2> SUFFICES ASSUME NEW t \in Rows, NEW n \in Env, status'[t] = "ABSENT"
                 PROVE  net'[t][n] = "unbuilt"
      BY DEF AbsentUnbuilt
    <2>1. status[t] = "ABSENT"
      BY NeverAbsentAgain
    <2>2. net[t][n] = "unbuilt"
      BY <2>1 DEF LedgerTruth, AbsentUnbuilt
    <2>3. QED
      BY <2>2, NetStep DEF Source
  <1>2. ContractHasOneEnvelope'
    BY NetStep DEF LedgerTruth, ContractHasOneEnvelope, Rows, Source
  <1>3. QED
    BY <1>1, <1>2, StepEvents, StepAnswers, StepVerdicts DEF LedgerTruth

(* What a row claims is what the ledger did: SUCCEEDED means a stored, applied
   envelope that passed the check, CONFIRMED the row's own payment or its stored
   envelope applied, FAILED the stored envelope reverted; and no envelope is
   counted twice.                                                            *)
THEOREM StatusMatchesLedgerHolds == Spec => []StatusMatchesLedger
  <1>1. Claims /\ LedgerTruth => StatusMatchesLedger
    BY DEF Claims, CountedOnce, LedgerTruth, PaidApplied, FailedReverted, StoredApplied,
           StoredReverted, StatusMatchesLedger
  <1>2. QED
    BY InitTyped, StepTyped, InitClaims, StepClaims, InitLedgerTruth, StepLedgerTruth, <1>1,
       PTL DEF Spec
-----------------------------------------------------------------------------
(* One verdict.  Whoever is about to announce one made the row's status
   terminal, alone, and nobody has announced it before; an indexer that announces
   success has seen the row's own payment applied, or its stored envelope.    *)
PaidSeen(t) == OwnApplied(t) \/ StoredApplied(t)

RefusalsDue ==
  /\ \A h \in Handler : pc[h] = "unpaid" =>
       row[h] \in Rows /\ status[row[h]] = "FAILED" /\ refused[row[h]] = 0
  /\ \A k \in Tick : tpc[k] = "failed" =>
       trow[k] \in Rows /\ status[trow[k]] = "FAILED" /\ refused[trow[k]] = 0
  /\ \A g, h \in Handler : pc[g] = "unpaid" /\ pc[h] = "unpaid" /\ row[g] = row[h] => g = h
  /\ \A j, k \in Tick : tpc[j] = "failed" /\ tpc[k] = "failed" /\ trow[j] = trow[k] => j = k
  /\ \A h \in Handler, k \in Tick : pc[h] = "unpaid" /\ tpc[k] = "failed" => row[h] # trow[k]

SuccessesDue ==
  /\ \A h \in Handler : pc[h] = "paid" =>
       row[h] \in Classic /\ status[row[h]] = "SUCCEEDED" /\ sent[row[h]] = 0
  /\ \A g, h \in Handler : pc[g] = "paid" /\ pc[h] = "paid" /\ row[g] = row[h] => g = h
  /\ \A k \in Tick : tpc[k] \in {"confirmed", "eventConfirmed"} =>
       trow[k] \in Contract /\ PaidSeen(trow[k])

Announced ==
  \A t \in Rows :
    /\ t \in Classic /\ sent[t] # 0 => status[t] = "SUCCEEDED" /\ sent[t] = 1
    /\ t \in Contract /\ sent[t] # 0 => PaidSeen(t)
    /\ refused[t] # 0 => status[t] = "FAILED" /\ refused[t] = 1

Verdicts == RefusalsDue /\ SuccessesDue /\ Announced

LEMMA InitVerdicts == Init => Verdicts
  BY DEF Init, Verdicts, RefusalsDue, SuccessesDue, Announced

\* Terminal statuses and the evidence of a payment stay what they are.
Stands ==
  /\ \A t \in Rows : status[t] \in {"SUCCEEDED", "FAILED"} => status'[t] = status[t]
  /\ \A t \in Rows : PaidSeen(t) => PaidSeen(t)'

LEMMA StepStands == ASSUME Typed, Claims, LedgerTruth, [Next]_vars PROVE Stands
  BY StepFinal, EvidenceStands DEF Stands, PaidSeen

\* A request other than h keeps its place, a tick other than k keeps its place.
HandlersKept(h) == \A g \in Handler : g # h => pc'[g] = pc[g] /\ row'[g] = row[g]
TicksKept(k) == \A j \in Tick : j # k => tpc'[j] = tpc[j] /\ trow'[j] = trow[j]

\* A step after which nobody new has something to announce.
LEMMA NothingToAnnounce ==
  ASSUME Typed, Verdicts, Stands, UNCHANGED <<sent, refused>>,
         \A h \in Handler : pc'[h] \in {"paid", "unpaid"} => pc'[h] = pc[h] /\ row'[h] = row[h],
         \A k \in Tick : tpc'[k] \in {"confirmed", "eventConfirmed", "failed"} =>
                           tpc'[k] = tpc[k] /\ trow'[k] = trow[k]
  PROVE  Verdicts'
  <1>1. RefusalsDue'
    BY DEF Verdicts, RefusalsDue, Stands
  <1>2. SuccessesDue'
    BY DEF Verdicts, SuccessesDue, Stands, Rows
  <1>3. Announced'
    BY DEF Verdicts, Announced, Stands
  <1>4. QED
    BY <1>1, <1>2, <1>3 DEF Verdicts

\* An outcome written by submit: the row was SUBMITTED or CONFIRMED before.
LEMMA OutcomeWritten ==
  ASSUME Typed, Claims, LedgerTruth, LedgerTruth', Verdicts, Stands, UNCHANGED tickVars,
         UNCHANGED noticeVars,
         NEW h \in Handler, PersistSuccess(h) \/ PersistFailure(h)
  PROVE  Verdicts'
  <1>1. /\ row[h] \in Rows
        /\ status[row[h]] \in {"SUBMITTED", "CONFIRMED"}
        /\ HandlersKept(h)
    BY DEF PersistSuccess, PersistFailure, InFlight, Claims, ClaimHeld, Typed, TypeOK, RowHeld,
           Finish, Goto, HandlersKept
  <1>2. \A g \in Handler : pc[g] \in {"paid", "unpaid"} => row[g] # row[h]
    BY <1>1 DEF Verdicts, RefusalsDue, SuccessesDue
  <1>3. \A k \in Tick : tpc[k] = "failed" => trow[k] # row[h]
    BY <1>1 DEF Verdicts, RefusalsDue
  <1>4. /\ refused[row[h]] = 0
        /\ row[h] \in Classic => sent[row[h]] = 0
    BY <1>1 DEF Verdicts, Announced
  <1>5. pc'[h] \in {"paid", "unpaid"} => row'[h] = row[h]
    BY DEF PersistSuccess, PersistFailure, Finish, Goto, Typed, TypeOK
  <1>6. pc'[h] = "paid" => row[h] \in Classic /\ status'[row[h]] = "SUCCEEDED"
    BY <1>1 DEF PersistSuccess, PersistFailure, PersistedStatus, SetStatus, Finish, Goto, Typed,
                TypeOK, Rows
  <1>7. pc'[h] = "unpaid" => status'[row[h]] = "FAILED"
    BY <1>1 DEF PersistSuccess, PersistFailure, RejectedStatus, SetStatus, Finish, Goto, Typed,
                TypeOK
  <1>8. RefusalsDue'
    BY <1>1, <1>2, <1>3, <1>4, <1>5, <1>7
    DEF Verdicts, RefusalsDue, HandlersKept, Stands, tickVars, noticeVars
  <1>9. SuccessesDue'
    BY <1>1, <1>2, <1>4, <1>5, <1>6
    DEF Verdicts, SuccessesDue, HandlersKept, Stands, tickVars, noticeVars, Rows
  <1>10. Announced'
    BY DEF Verdicts, Announced, Stands, noticeVars
  <1>11. QED
    BY <1>8, <1>9, <1>10 DEF Verdicts

\* A verdict of the indexer: the row was SUBMITTED before.
LEMMA RowSettled ==
  ASSUME Typed, LedgerTruth, LedgerTruth', Verdicts, Stands,
         UNCHANGED <<netVars, handlerVars, noticeVars>>,
         NEW k \in Tick, TicksKept(k), NEW t \in Contract, trow'[k] = t, status[t] = "SUBMITTED",
         \/ status' = [status EXCEPT ![t] = "FAILED"] /\ tpc'[k] = "failed"
         \/ /\ status' = [status EXCEPT ![t] = "CONFIRMED"]
            /\ tpc'[k] \in {"confirmed", "eventConfirmed"}
  PROVE  Verdicts'
  <1>1. t \in Rows /\ \A h \in Handler : pc[h] = "unpaid" => row[h] # t
    BY DEF Verdicts, RefusalsDue, Rows
  <1>2. \A j \in Tick : tpc[j] = "failed" => trow[j] # t
    BY DEF Verdicts, RefusalsDue
  <1>3. refused[t] = 0
    BY <1>1 DEF Verdicts, Announced
  <1>4. status'[t] = "FAILED" \/ PaidSeen(t)'
    BY <1>1 DEF LedgerTruth, PaidApplied, PaidSeen, Typed, TypeOK
  <1>5. (tpc'[k] = "failed") <=> (status'[t] = "FAILED")
    BY <1>1 DEF Typed, TypeOK
  <1>6. RefusalsDue'
    BY <1>1, <1>2, <1>3, <1>5
    DEF Verdicts, RefusalsDue, TicksKept, Stands, handlerVars, noticeVars
  <1>7. SuccessesDue'
    BY <1>4, <1>5
    DEF Verdicts, SuccessesDue, TicksKept, Stands, netVars, handlerVars, noticeVars, Rows
  <1>8. Announced'
    BY DEF Verdicts, Announced, Stands, noticeVars
  <1>9. QED
    BY <1>6, <1>7, <1>8 DEF Verdicts

\* The announcement itself.
LEMMA VerdictAnnounced ==
  ASSUME Typed, Verdicts, Stands, UNCHANGED <<dbVars, netVars>>,
         \/ \E h \in Handler : AfterSuccess(h) \/ AfterFailure(h)
         \/ \E k \in Tick : TickNotifySent(k) \/ TickNotifyEvent(k) \/ TickNotifyFailed(k)
  PROVE  Verdicts'
  <1>1. ASSUME NEW h \in Handler, AfterSuccess(h) PROVE Verdicts'
    <2>1. /\ row[h] \in Classic /\ sent[row[h]] = 0
          /\ pc[h] = "paid" /\ pc'[h] = "idle" /\ HandlersKept(h)
          /\ UNCHANGED <<refused, tpc, trow>>
          /\ \A t \in Rows : sent'[t] = IF t = row[h] THEN 1 ELSE sent[t]
      BY <1>1 DEF AfterSuccess, Notify, Finish, HandlersKept, Verdicts, SuccessesDue, Typed, TypeOK,
                  tickVars
    <2>2. QED
      BY <2>1, RowsAssumption
      DEF Verdicts, RefusalsDue, SuccessesDue, Announced, HandlersKept, Stands, dbVars, Rows
  <1>2. ASSUME NEW h \in Handler, AfterFailure(h) PROVE Verdicts'
    <2>1. /\ row[h] \in Rows /\ refused[row[h]] = 0
          /\ pc[h] = "unpaid" /\ pc'[h] = "idle" /\ HandlersKept(h)
          /\ UNCHANGED <<sent, tpc, trow>>
          /\ \A t \in Rows : refused'[t] = IF t = row[h] THEN 1 ELSE refused[t]
      BY <1>2 DEF AfterFailure, Notify, Finish, HandlersKept, Verdicts, RefusalsDue, Typed, TypeOK,
                  tickVars
    <2>2. QED
      BY <2>1
      DEF Verdicts, RefusalsDue, SuccessesDue, Announced, HandlersKept, Stands, dbVars, Rows
  <1>3. ASSUME NEW k \in Tick, TickNotifySent(k) \/ TickNotifyEvent(k) PROVE Verdicts'
    <2>1. /\ trow[k] \in Contract /\ PaidSeen(trow[k])
          /\ tpc'[k] \in {"confirming", "ingesting"} /\ TicksKept(k)
          /\ UNCHANGED <<refused, pc, row>>
          /\ \A t \in Rows : t # trow[k] => sent'[t] = sent[t]
      BY <1>3 DEF TickNotifySent, TickNotifyEvent, TickGoto, Notify, TicksKept, Verdicts,
                  SuccessesDue, Typed, TypeOK, handlerVars
    <2>2. QED
      BY <2>1, RowsAssumption
      DEF Verdicts, RefusalsDue, SuccessesDue, Announced, TicksKept, Stands, dbVars, Rows
  <1>4. ASSUME NEW k \in Tick, TickNotifyFailed(k) PROVE Verdicts'
    <2>1. /\ trow[k] \in Rows /\ refused[trow[k]] = 0 /\ tpc[k] = "failed"
          /\ tpc'[k] = "confirming" /\ TicksKept(k)
          /\ UNCHANGED <<sent, pc, row>>
          /\ \A t \in Rows : refused'[t] = IF t = trow[k] THEN 1 ELSE refused[t]
      BY <1>4 DEF TickNotifyFailed, TickGoto, Notify, TicksKept, Verdicts, RefusalsDue, Typed,
                  TypeOK, handlerVars
    <2>2. QED
      BY <2>1
      DEF Verdicts, RefusalsDue, SuccessesDue, Announced, TicksKept, Stands, dbVars, Rows
  <1>5. QED
    BY <1>1, <1>2, <1>3, <1>4

LEMMA StepVerdict ==
  ASSUME Typed, Claims, LedgerTruth, LedgerTruth', Verdicts, [Next]_vars PROVE Verdicts'
  <1>1. Stands
    BY StepStands
  <1> USE DEF vars, dbVars, netVars, handlerVars, tickVars, noticeVars
  <1>2. ASSUME NEW t \in Source, NEW n \in Env,
               \/ CreateIntent(t) \/ CreateOccurrence(t) \/ ApproveOccurrence(t)
               \/ SignElsewhere(t) \/ PostElsewhere(t, n)
               \/ LedgerApplies(t, n) \/ LedgerReverts(t, n) \/ InboundTakesHash(<<t, n>>)
        PROVE  Verdicts'
    BY <1>1, <1>2, NothingToAnnounce
    DEF CreateIntent, CreateOccurrence, ApproveOccurrence, SignElsewhere, PostElsewhere,
        LedgerApplies, LedgerReverts, InboundTakesHash
  <1>3. ASSUME NEW h \in Handler,
               \/ SubmitRead(h) \/ SubmitClaim(h) \/ SubmitClaimLost(h) \/ CallNetwork(h)
               \/ AnswerSuccess(h) \/ AnswerThrows(h) \/ PollFailed(h) \/ PollDeadline(h)
               \/ PersistThrows(h) \/ RevertClaim(h) \/ HandlerDies(h)
        PROVE  Verdicts'
    <2>1. \E label \in HandlerPc \ {"paid", "unpaid"} : pc' = [pc EXCEPT ![h] = label]
      BY <1>3 DEF SubmitRead, SubmitClaim, SubmitClaimLost, CallNetwork, AnswerSuccess, AnswerThrows,
                  PollFailed, PollDeadline, PersistThrows, RevertClaim, HandlerDies, Goto, Finish,
                  HandlerPc
    <2>2. /\ \/ row' = row
             \/ \E t : row' = [row EXCEPT ![h] = t]
          /\ UNCHANGED <<sent, refused, tpc, trow>>
      BY <1>3 DEF SubmitRead, SubmitClaim, SubmitClaimLost, CallNetwork, AnswerSuccess, AnswerThrows,
                  PollFailed, PollDeadline, PersistThrows, RevertClaim, HandlerDies, Goto, Finish
    <2>3. \A g \in Handler : pc'[g] \in {"paid", "unpaid"} => pc'[g] = pc[g] /\ row'[g] = row[g]
      BY <2>1, <2>2 DEF Typed, TypeOK
    <2>4. QED
      BY <1>1, <2>2, <2>3, NothingToAnnounce
  <1>4. ASSUME NEW h \in Handler, PersistSuccess(h) \/ PersistFailure(h) PROVE Verdicts'
    <2>1. UNCHANGED <<tickVars, noticeVars>>
      BY <1>4 DEF PersistSuccess, PersistFailure
    <2>2. QED
      BY <1>1, <1>4, <2>1, OutcomeWritten
  <1>5. ASSUME NEW h \in Handler, AfterSuccess(h) \/ AfterFailure(h) PROVE Verdicts'
    <2>1. UNCHANGED <<dbVars, netVars>>
      BY <1>5 DEF AfterSuccess, AfterFailure
    <2>2. QED
      BY <1>1, <1>5, <2>1, VerdictAnnounced
  <1>6. ASSUME NEW k \in Tick, TickNotifySent(k) \/ TickNotifyEvent(k) \/ TickNotifyFailed(k)
        PROVE  Verdicts'
    <2>1. UNCHANGED <<dbVars, netVars>>
      BY <1>6 DEF TickNotifySent, TickNotifyEvent, TickNotifyFailed
    <2>2. QED
      BY <1>1, <1>6, <2>1, VerdictAnnounced
  <1>7. ASSUME NEW k \in Tick,
               \/ TickStart(k) \/ TickReadPage(k) \/ TickSaveCursor(k) \/ TickDies(k)
               \/ TickCheckFails(k)
        PROVE  Verdicts'
    <2>1. /\ UNCHANGED <<sent, refused, pc, row>>
          /\ \A j \in Tick : tpc'[j] \in {"confirmed", "eventConfirmed", "failed"} =>
                               tpc'[j] = tpc[j] /\ trow'[j] = trow[j]
      BY <1>7 DEF TickStart, TickReadPage, TickSaveCursor, TickDies, TickCheckFails, TickFinish,
                  TickGoto, Typed, TypeOK
    <2>2. QED
      BY <1>1, <2>1, NothingToAnnounce
  <1>8. ASSUME NEW k \in Tick, NEW t \in Contract, NEW s, NEW won, NEW otherwise,
               Settle(k, t, s, won, otherwise), tpc[k] = otherwise, otherwise \in {"confirming", "ingesting"},
               trow' = [trow EXCEPT ![k] = t], UNCHANGED <<netVars, handlerVars, noticeVars>>,
               \/ s = "FAILED" /\ won = "failed"
               \/ s = "CONFIRMED" /\ won \in {"confirmed", "eventConfirmed"}
        PROVE  Verdicts'
    <2>1. trow'[k] = t /\ TicksKept(k)
      BY <1>8 DEF Settle, TickGoto, TicksKept, Typed, TypeOK
    <2>2. CASE status[t] = "SUBMITTED"
      <3>1. status' = [status EXCEPT ![t] = s] /\ tpc'[k] = won
        BY <1>8, <2>2 DEF Settle, SetStatus, TickGoto, Typed, TypeOK
      <3>2. QED
        BY <1>1, <1>8, <2>1, <2>2, <3>1, RowSettled
    <2>3. CASE status[t] # "SUBMITTED"
      <3>1. tpc'[k] = otherwise
        BY <1>8, <2>3 DEF Settle, TickGoto, Typed, TypeOK
      <3>2. QED
        BY <1>1, <1>8, <2>1, <3>1, NothingToAnnounce DEF TicksKept
    <2>4. QED
      BY <2>2, <2>3
  <1>9. ASSUME NEW k \in Tick, TickCheck(k) PROVE Verdicts'
    <2>1. PICK t \in batch[k] :
             /\ trow' = [trow EXCEPT ![k] = t]
             /\ \/ Settle(k, t, "CONFIRMED", "confirmed", "confirming")
                \/ Settle(k, t, "FAILED", "failed", "confirming")
                \/ UNCHANGED <<status, tpc>>
      BY <1>9 DEF TickCheck
    <2>2. t \in Contract /\ tpc[k] = "confirming" /\ UNCHANGED <<netVars, handlerVars, noticeVars>>
      BY <1>9, <2>1 DEF TickCheck, Typed, TypeOK
    <2>3. CASE UNCHANGED tpc
      <3>1. \A j \in Tick : tpc'[j] \in {"confirmed", "eventConfirmed", "failed"} =>
                              tpc'[j] = tpc[j] /\ trow'[j] = trow[j]
        BY <2>1, <2>2, <2>3 DEF Typed, TypeOK
      <3>2. QED
        BY <1>1, <2>2, <2>3, <3>1, NothingToAnnounce
    <2>4. QED
      BY <1>8, <2>1, <2>2, <2>3
  <1>10. ASSUME NEW k \in Tick, TickEvent(k) PROVE Verdicts'
    <2>1. /\ log[tnext[k]] \in Contract /\ tpc[k] = "ingesting"
          /\ trow' = [trow EXCEPT ![k] = log[tnext[k]]]
          /\ Settle(k, log[tnext[k]], "CONFIRMED", "eventConfirmed", "ingesting")
          /\ UNCHANGED <<netVars, handlerVars, noticeVars>>
      BY <1>10 DEF TickEvent, Typed, TypeOK
    <2>2. QED
      BY <1>8, <2>1
  <1>11. CASE UNCHANGED vars
    BY <1>1, <1>11, NothingToAnnounce
  <1>12. QED
    BY <1>2, <1>3, <1>4, <1>5, <1>6, <1>7, <1>9, <1>10, <1>11, OneIsAnEnvelope
    DEF Next, HandlerStep, TickStep, Source

(* The payer hears failure at most once, success of a classic payment at most once,
   and never both of one payment while the row stores no foreign envelope: the
   only envelope of a contract row cannot be both applied and reverted.       *)
THEOREM OneVerdictHolds == Spec => []OneVerdict
  <1>1. Typed /\ LedgerTruth /\ Verdicts => OneVerdict
    <2> SUFFICES ASSUME Typed, LedgerTruth, Verdicts, NEW t \in Rows
                 PROVE  /\ \/ sent[t] = 0 \/ refused[t] = 0
                           \/ hash[t] # None /\ hash[t][1] # t
                        /\ refused[t] <= 1
                        /\ t \in Classic => sent[t] <= 1
      BY DEF OneVerdict
    <2>1. refused[t] # 0 =>
            status[t] = "FAILED" /\ t \in Contract /\ StoredReverted(t) /\ refused[t] = 1
      BY DEF Verdicts, Announced, LedgerTruth, FailedReverted
    <2>2. ASSUME refused[t] # 0, sent[t] # 0 PROVE hash[t] # None /\ hash[t][1] # t
      <3>1. OwnApplied(t) /\ hash[t] \in Envelope /\ Fate(hash[t]) = "reverted"
        BY <2>1, <2>2
        DEF Verdicts, Announced, PaidSeen, StoredApplied, StoredReverted, Typed, TypeOK
      <3>2. net[t][1] = "applied"
        BY <2>1, <2>2, <3>1 DEF OwnApplied, LedgerTruth, ContractHasOneEnvelope
      <3>3. hash[t][1] = t => hash[t][2] = 1
        BY <2>1, <2>2, <3>1, EnvelopeParts DEF Fate, LedgerTruth, ContractHasOneEnvelope
      <3>4. QED
        BY <3>1, <3>2, <3>3, RowsAssumption DEF Fate
    <2>3. QED
      BY <2>1, <2>2 DEF Verdicts, Announced
  <1>2. Init => Typed /\ Claims /\ LedgerTruth /\ Verdicts
    BY InitTyped, InitClaims, InitLedgerTruth, InitVerdicts
  <1>3. Typed /\ Claims /\ LedgerTruth /\ Verdicts /\ [Next]_vars
          => Typed' /\ Claims' /\ LedgerTruth' /\ Verdicts'
    BY StepTyped, StepClaims, StepLedgerTruth, StepVerdict
  <1>4. QED
    BY <1>1, <1>2, <1>3, PTL DEF Spec

-----------------------------------------------------------------------------
(* Claims without a hash.  The condition is inductive once a held claim is known
   to be held by one request alone; what explains a lost claim, a death or a
   passing envelope whose hash is stored elsewhere, is never undone.         *)
StoredFirst(t) ==
  \E e \in Envelope :
    Passes(t, e) /\ (e \in credited \/ \E u \in Rows \ {t} : hash[u] = e)

Explained(t) ==
  status[t] = "SUBMITTED" /\ hash[t] = None =>
    \/ \E h \in Handler : InFlight(h) /\ row[h] = t
    \/ deaths > 0
    \/ StoredFirst(t)

LEMMA ExcusesStand ==
  ASSUME Typed, Claims, [Next]_vars, NEW t \in Rows
  PROVE  (StoredFirst(t) => StoredFirst(t)') /\ (deaths > 0 => deaths' > 0)
  <1>1. /\ credited' = credited \/ \E e : credited' = credited \cup {e}
        /\ deaths' = deaths \/ deaths' = deaths + 1
    BY DEF Next, HandlerStep, TickStep, vars, dbVars, CreateIntent, CreateOccurrence,
           ApproveOccurrence, SignElsewhere, PostElsewhere, LedgerApplies, LedgerReverts, InboundTakesHash, SubmitRead,
           SubmitClaim, SubmitClaimLost, CallNetwork, AnswerSuccess, AnswerThrows, PollFailed,
           PollDeadline, PersistSuccess, PersistThrows, PersistFailure, RevertClaim,
           AfterSuccess, AfterFailure, HandlerDies, TickStart, TickCheck, TickNotifySent,
           TickNotifyFailed, TickReadPage, TickEvent, TickNotifyEvent, TickSaveCursor, TickDies,
           TickCheckFails
  <1>2. StoredFirst(t) => StoredFirst(t)'
    <2> SUFFICES ASSUME NEW e \in Envelope, Passes(t, e),
                        e \in credited \/ \E u \in Rows \ {t} : hash[u] = e
                 PROVE  e \in credited' \/ \E u \in Rows \ {t} : hash'[u] = e
      BY DEF StoredFirst, Passes
    <2>1. \A u \in Rows : hash[u] = e => hash'[u] = e
      BY HashKept, RowsAssumption
    <2>2. QED
      BY <1>1, <2>1
  <1>3. QED
    BY <1>1, <1>2 DEF Typed, TypeOK

\* A row that did not become a claim without a hash, and whose request, if it has
\* one, is still in flight.
LEMMA StaysExplained ==
  ASSUME Typed, Claims, [Next]_vars, NEW t \in Rows, Explained(t),
         status'[t] = "SUBMITTED" /\ hash'[t] = None => status[t] = "SUBMITTED" /\ hash[t] = None,
         \A h \in Handler : InFlight(h) /\ row[h] = t => InFlight(h)' /\ row'[h] = t
  PROVE  Explained(t)'
  BY ExcusesStand DEF Explained

LEMMA StepExplained ==
  ASSUME Typed, Claims, AnswersTrue, \A t \in Rows : Explained(t), [Next]_vars
  PROVE  \A t \in Rows : Explained(t)'
  <1> USE DEF vars, dbVars, netVars, handlerVars, tickVars, noticeVars
  <1>1. ASSUME NEW u \in Source, NEW n \in Env,
               \/ CreateIntent(u) \/ CreateOccurrence(u) \/ ApproveOccurrence(u)
               \/ SignElsewhere(u) \/ PostElsewhere(u, n)
               \/ LedgerApplies(u, n) \/ LedgerReverts(u, n) \/ InboundTakesHash(<<u, n>>)
        PROVE  \A t \in Rows : Explained(t)'
    <2>1. /\ UNCHANGED <<hash, pc, row>>
          /\ status' = status \/ status' = [status EXCEPT ![u] = "PENDING"]
      BY <1>1 DEF CreateIntent, CreateOccurrence, ApproveOccurrence, Insert, SignElsewhere,
                  PostElsewhere, LedgerApplies, LedgerReverts, InboundTakesHash
    <2>2. \A t \in Rows : status'[t] = "SUBMITTED" => status[t] = "SUBMITTED"
      BY <2>1 DEF Typed, TypeOK
    <2>3. QED
      BY <2>1, <2>2, StaysExplained DEF InFlight
  <1>2. ASSUME NEW h \in Handler, SubmitClaim(h) PROVE \A t \in Rows : Explained(t)'
    <2> SUFFICES ASSUME NEW t \in Rows PROVE Explained(t)'
      OBVIOUS
    <2>1. /\ InFlight(h)' /\ row' = row /\ hash' = hash
          /\ \A g \in Handler : InFlight(g) => InFlight(g)'
      BY <1>2 DEF SubmitClaim, Goto, InFlight, Typed, TypeOK
    <2>2. CASE row[h] = t
      BY <2>1, <2>2 DEF Explained
    <2>3. CASE row[h] # t
      <3>1. status'[t] = status[t]
        BY <1>2, <2>3 DEF SubmitClaim, SetStatus, Typed, TypeOK
      <3>2. QED
        BY <2>1, <3>1, StaysExplained
    <2>4. QED
      BY <2>2, <2>3
  <1>3. ASSUME NEW h \in Handler,
               \/ SubmitRead(h) \/ SubmitClaimLost(h) \/ CallNetwork(h) \/ AnswerSuccess(h)
               \/ AnswerThrows(h) \/ PollFailed(h) \/ PollDeadline(h)
               \/ AfterSuccess(h) \/ AfterFailure(h)
        PROVE  \A t \in Rows : Explained(t)'
    <2>1. UNCHANGED <<status, hash>>
      BY <1>3 DEF SubmitRead, SubmitClaimLost, CallNetwork, AnswerSuccess, AnswerThrows, PollFailed,
                  PollDeadline, AfterSuccess, AfterFailure
    <2>2. \A g \in Handler : InFlight(g) => InFlight(g)' /\ row'[g] = row[g]
      BY <1>3 DEF SubmitRead, SubmitClaimLost, CallNetwork, AnswerSuccess, AnswerThrows, PollFailed,
                  PollDeadline, AfterSuccess, AfterFailure, InFlight, Goto, Finish, Typed, TypeOK
    <2>3. QED
      BY <2>1, <2>2, StaysExplained
  <1>4. ASSUME NEW h \in Handler, PersistSuccess(h) \/ PersistFailure(h) \/ RevertClaim(h)
        PROVE  \A t \in Rows : Explained(t)'
    <2> SUFFICES ASSUME NEW t \in Rows PROVE Explained(t)'
      OBVIOUS
    <2>1. InFlight(h) /\ xdr[h] # None /\ row[h] \in Rows
      BY <1>4, RowsAssumption
      DEF PersistSuccess, PersistFailure, RevertClaim, InFlight, Typed, TypeOK, RowHeld
    <2>2. CASE row[h] = t
      <3>1. hash'[t] # None \/ status'[t] # "SUBMITTED"
        BY <1>4, <2>1, <2>2
        DEF PersistSuccess, PersistFailure, RevertClaim, SetStatus, AfterThrow, Typed, TypeOK
      <3>2. QED
        BY <3>1 DEF Explained
    <2>3. CASE row[h] # t
      <3>1. status'[t] = status[t] /\ hash'[t] = hash[t]
        BY <1>4, <2>1, <2>3
        DEF PersistSuccess, PersistFailure, RevertClaim, SetStatus, Typed, TypeOK
      <3>2. \A g \in Handler : InFlight(g) /\ row[g] = t => InFlight(g)' /\ row'[g] = t
        BY <1>4, <2>3
        DEF PersistSuccess, PersistFailure, RevertClaim, InFlight, Goto, Finish, Typed, TypeOK
      <3>3. QED
        BY <3>1, <3>2, StaysExplained
    <2>4. QED
      BY <2>2, <2>3
  <1>5. ASSUME NEW h \in Handler, PersistThrows(h) PROVE \A t \in Rows : Explained(t)'
    <2> SUFFICES ASSUME NEW t \in Rows PROVE Explained(t)'
      OBVIOUS
    <2>1. /\ UNCHANGED <<status, hash, credited>>
          /\ xdr[h] \in Envelope /\ Passes(row[h], xdr[h]) /\ HashTaken(h)
      BY <1>5 DEF PersistThrows, Typed, RowHeld, AnswersTrue
    <2>2. CASE row[h] = t
      <3>1. StoredFirst(t)
        BY <2>1, <2>2 DEF StoredFirst, HashTaken
      <3>2. QED
        BY <3>1, ExcusesStand DEF Explained
    <2>3. CASE row[h] # t
      <3>1. \A g \in Handler : InFlight(g) /\ row[g] = t => InFlight(g)' /\ row'[g] = t
        BY <1>5, <2>3 DEF PersistThrows, InFlight, Finish, Typed, TypeOK
      <3>2. QED
        BY <2>1, <3>1, StaysExplained
    <2>4. QED
      BY <2>2, <2>3
  <1>6. ASSUME NEW h \in Handler, HandlerDies(h) PROVE \A t \in Rows : Explained(t)'
    <2>1. deaths' > 0
      BY <1>6 DEF HandlerDies, Typed, TypeOK
    <2>2. QED
      BY <2>1 DEF Explained
  <1>7. ASSUME NEW k \in Tick, TickStep(k) \/ TickCheckFails(k) \/ TickDies(k)
        PROVE  \A t \in Rows : Explained(t)'
    <2>1. UNCHANGED <<hash, pc, row>>
      BY <1>7 DEF TickStep, TickStart, TickCheck, TickNotifySent, TickNotifyFailed, TickReadPage,
                  TickEvent, TickNotifyEvent, TickSaveCursor, TickDies, TickCheckFails
    <2>2. \/ status' = status
          \/ \E u, s : s \in {"CONFIRMED", "FAILED"} /\ status' = [status EXCEPT ![u] = s]
      BY <1>7 DEF TickStep, TickStart, TickCheck, TickNotifySent, TickNotifyFailed, TickReadPage,
                  TickEvent, TickNotifyEvent, TickSaveCursor, TickDies, TickCheckFails, Settle,
                  SetStatus
    <2>3. \A t \in Rows : status'[t] = "SUBMITTED" => status[t] = "SUBMITTED"
      BY <2>2 DEF Typed, TypeOK
    <2>4. QED
      BY <2>1, <2>3, StaysExplained DEF InFlight
  <1>8. CASE UNCHANGED vars
    BY <1>8, StaysExplained DEF InFlight
  <1>9. QED
    BY <1>1, <1>2, <1>3, <1>4, <1>5, <1>6, <1>7, <1>8, OneIsAnEnvelope
    DEF Next, HandlerStep, Source

(* A row left SUBMITTED without a hash, with no request in flight, was left by a
   death, or because the hash of an envelope that passes for it was stored first:
   nothing else loses a claim.                                               *)
THEOREM LostClaimIsExplainedHolds == Spec => []LostClaimIsExplained
  <1> DEFINE AllExplained == \A t \in Rows : Explained(t)
  <1>1. AllExplained => LostClaimIsExplained
    BY DEF LostClaimIsExplained, Explained, StoredFirst
  <1>2. Init => AllExplained
    BY DEF Init, Explained
  <1>3. Typed /\ Claims /\ LedgerTruth /\ AllExplained /\ [Next]_vars => AllExplained'
    BY StepExplained DEF LedgerTruth
  <1> HIDE DEF AllExplained
  <1>4. QED
    BY InitTyped, StepTyped, InitClaims, StepClaims, InitLedgerTruth, StepLedgerTruth, <1>1,
       <1>2, <1>3, PTL DEF Spec
=================================================================================
