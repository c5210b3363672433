----------------------------- MODULE EscrowLifecycle -----------------------------
(***************************************************************************)
(* The escrow feature end to end: EscrowsService (API requests), the       *)
(* escrow contract (EscrowContract) and the indexer that brings contract   *)
(* events back to the Escrow table through ContractReconciliationService.  *)
(*                                                                         *)
(* Every await of a request or of an indexer tick is a place where any     *)
(* other actor may step.  The parties may also call the contract directly, *)
(* without the API.                                                        *)
(*                                                                         *)
(* Abstractions: every row has the same terms (Payer, Payee, Price,        *)
(* Release time, no explicit expiry); the wallet signs the envelope that   *)
(* was prepared for the row; a party that prepares the same call twice     *)
(* gets the same envelope.                                                 *)
(***************************************************************************)
EXTENDS EscrowContract

CONSTANTS
  Row,         \* rows of the Escrow table
  Payer,       \* initiatorPublicKey
  Payee,       \* counterpartyPublicKey
  Caller,      \* the parties that settle through the API
  Price,       \* amount
  Due,         \* releaseTime
  Handler,     \* API request handlers that may run at the same time
  Tick,        \* indexer ticks that may run at the same time (TTL-only lock)
  Foreign,     \* a transaction the API never saw
  MaxUpsets    \* bound: contract calls without the API, restarts, database errors

\* A signed envelope: the row it was prepared for, the contract call, its caller.
Tx == [row : Row, call : {"create"}, caller : {Payer}]
        \cup [row : Row, call : {"release", "refund"}, caller : Caller]
CreateTx(r) == [row |-> r, call |-> "create", caller |-> Payer]

ASSUME LifecycleAssumption ==
  /\ Payer \in Party /\ Payee \in Party /\ Caller \subseteq {Payer, Payee}
  /\ Price \in Amount
  /\ Due \in ReleaseTime
  /\ MaxUpsets \in Nat
  /\ {None, Foreign} \cap Tx = {} /\ Foreign # None

VARIABLES
  status,       \* Escrow.status, "ABSENT" before the row is inserted
  contractId,   \* Escrow.contractId
  hash,         \* Escrow.hash
  releaseHash,  \* Escrow.releaseHash, Foreign for a transaction the API never saw
  refundHash,   \* Escrow.refundHash
  fate,         \* what became of each envelope
  origin,       \* transaction of each contract event, in step with events
  cursor,       \* the indexer's Redis cursor: events already paged past
  pc, job,      \* request handlers, the envelope each one carries
  tpc, tnext, tlast,   \* indexer ticks
  overtaken,    \* history: rows funded by a tick that was already behind
  deaths, drops

rowVars     == <<status, contractId, hash, releaseHash, refundHash>>
netVars     == <<contractVars, fate, origin>>
handlerVars == <<pc, job>>
tickVars    == <<tpc, tnext, tlast, cursor, overtaken>>
faultVars   == <<deaths, drops>>
vars == <<rowVars, netVars, handlerVars, tickVars, faultVars>>

Status == {"ABSENT", "AWAITING_SIGN", "SUBMITTED", "FUNDED", "RELEASED", "REFUNDED", "FAILED"}
Fate   == {"none", "prepared", "queued", "applied", "reverted"}

TypeOK ==
  /\ ContractTypeOK
  /\ status \in [Row -> Status]
  /\ contractId \in [Row -> Id \cup {None}]
  /\ hash \in [Row -> Tx \cup {None}]
  /\ releaseHash \in [Row -> Tx \cup {None, Foreign}]
  /\ refundHash \in [Row -> Tx \cup {None, Foreign}]
  /\ fate \in [Tx -> Fate]
  /\ origin \in Seq(Tx \cup {Foreign})
  /\ cursor \in Nat
  /\ pc \in [Handler -> {"idle", "read", "calling", "waiting", "ok", "failed", "threw"}]
  /\ job \in [Handler -> Tx \cup {None}]
  /\ tpc \in [Tick -> {"idle", "ingesting"}]
  /\ tnext \in [Tick -> Nat]
  /\ tlast \in [Tick -> Nat]
  /\ overtaken \subseteq Row
  /\ deaths \in Nat
  /\ drops \in Nat

Init ==
  /\ ContractInit
  /\ status = [r \in Row |-> "ABSENT"]
  /\ contractId = [r \in Row |-> None]
  /\ hash = [r \in Row |-> None]
  /\ releaseHash = [r \in Row |-> None]
  /\ refundHash = [r \in Row |-> None]
  /\ fate = [x \in Tx |-> "none"]
  /\ origin = <<>>
  /\ cursor = 0
  /\ pc = [h \in Handler |-> "idle"]
  /\ job = [h \in Handler |-> None]
  /\ tpc = [k \in Tick |-> "idle"]
  /\ tnext = [k \in Tick |-> 1]
  /\ tlast = [k \in Tick |-> 0]
  /\ overtaken = {}
  /\ deaths = 0
  /\ drops = 0

-----------------------------------------------------------------------------
(* The network.                                                             *)

\* The contract call an envelope carries.
Invoke(x) ==
  CASE x.call = "create"  -> Create(Payer, Payee, None, Price, Due, None)
    [] x.call = "release" -> Release(contractId[x.row], x.caller)
    [] x.call = "refund"  -> Refund(contractId[x.row], x.caller)

TxApplies(x) ==
  /\ fate[x] = "queued"
  /\ Invoke(x)
  /\ fate' = [fate EXCEPT ![x] = "applied"]
  /\ origin' = Append(origin, x)
  /\ UNCHANGED <<rowVars, handlerVars, tickVars, faultVars>>

\* The contract refused, or the invocation failed for a reason not modelled
\* (balance, footprint, fee).
TxReverts(x) ==
  /\ fate[x] = "queued"
  /\ fate' = [fate EXCEPT ![x] = "reverted"]
  /\ UNCHANGED <<contractVars, origin, rowVars, handlerVars, tickVars, faultVars>>

Upsets == Cardinality({k \in DOMAIN origin : origin[k] = Foreign}) + deaths + drops

DirectCall ==
  /\ Upsets < MaxUpsets
  /\ origin' = Append(origin, Foreign)

\* A party settles an escrow without the API.
DirectSettle(d, a) ==
  /\ DirectCall
  /\ Release(d, a) \/ Refund(d, a)
  /\ UNCHANGED <<fate, rowVars, handlerVars, tickVars, faultVars>>

\* Somebody uses the contract for an escrow of their own.
DirectCreate ==
  /\ DirectCall
  /\ Create(Payer, Payee, None, Price, Due, None)
  /\ UNCHANGED <<fate, rowVars, handlerVars, tickVars, faultVars>>

Environment ==
  /\ Initialize(Deployer) \/ LedgerCloses
  /\ UNCHANGED <<fate, origin, rowVars, handlerVars, tickVars, faultVars>>

-----------------------------------------------------------------------------
(* EscrowsService.                                                          *)

\* create: the call is simulated and prepared, then the row is inserted.
CreateRow(r) ==
  /\ status[r] = "ABSENT"
  /\ InitFirst => admin # None
  /\ balance[Payer] >= Price
  /\ status' = [status EXCEPT ![r] = "AWAITING_SIGN"]
  /\ fate' = [fate EXCEPT ![CreateTx(r)] = "prepared"]
  /\ UNCHANGED <<contractId, hash, releaseHash, refundHash, contractVars, origin, handlerVars,
                 tickVars, faultVars>>

\* The column that records an action's transaction.
ActionHash(x) == IF x.call = "release" THEN releaseHash[x.row] ELSE refundHash[x.row]

\* release and refund: nothing is written; the simulation runs the contract's checks.
PrepareAction(x) ==
  /\ x.call # "create"
  /\ fate[x] = "none"
  /\ contractId[x.row] # None
  /\ ActionHash(x) = None
  /\ Unsettled(contractId[x.row])
  /\ IF x.call = "release" THEN MayRelease(contractId[x.row], x.caller)
                           ELSE MayRefund(contractId[x.row], x.caller)
  /\ fate' = [fate EXCEPT ![x] = "prepared"]
  /\ UNCHANGED <<contractVars, origin, rowVars, handlerVars, tickVars, faultVars>>

Goto(h, label) == pc' = [pc EXCEPT ![h] = label] /\ UNCHANGED job

Finish(h) ==
  /\ pc' = [pc EXCEPT ![h] = "idle"]
  /\ job' = [job EXCEPT ![h] = None]

\* submit: findFirst and the status check.
SubmitRead(h, r) ==
  /\ pc[h] = "idle"
  /\ status[r] = "AWAITING_SIGN"
  /\ pc' = [pc EXCEPT ![h] = "read"]
  /\ job' = [job EXCEPT ![h] = CreateTx(r)]
  /\ UNCHANGED <<rowVars, netVars, tickVars, faultVars>>

\* The claim's WHERE clause.  (Mutant: by id alone.)
ClaimBlind(r) == status[r] # "ABSENT"
Claimable(r) == status[r] = "AWAITING_SIGN"

SubmitClaim(h) ==
  /\ pc[h] = "read"
  /\ Claimable(job[h].row)
  /\ status' = [status EXCEPT ![job[h].row] = "SUBMITTED"]
  /\ Goto(h, "calling")
  /\ UNCHANGED <<contractId, hash, releaseHash, refundHash, netVars, tickVars, faultVars>>

SubmitClaimLost(h) ==
  /\ pc[h] = "read"
  /\ ~Claimable(job[h].row)
  /\ Finish(h)
  /\ UNCHANGED <<rowVars, netVars, tickVars, faultVars>>

\* confirmAction: the row is read and checked, never claimed.
ConfirmRead(h, x) ==
  /\ pc[h] = "idle"
  /\ x.call # "create"
  /\ fate[x] # "none"
  /\ status[x.row] = "FUNDED"
  /\ ActionHash(x) = None
  /\ pc' = [pc EXCEPT ![h] = "calling"]
  /\ job' = [job EXCEPT ![h] = x]
  /\ UNCHANGED <<rowVars, netVars, tickVars, faultVars>>

\* submitContractCall: the envelope may or may not reach the network, and the
\* call may throw in either case.
CallNetwork(h) ==
  /\ pc[h] = "calling"
  /\ \E reached \in BOOLEAN, next \in {"waiting", "threw"} :
       /\ fate' = IF reached /\ fate[job[h]] = "prepared"
                  THEN [fate EXCEPT ![job[h]] = "queued"]
                  ELSE fate
       /\ Goto(h, next)
  /\ UNCHANGED <<contractVars, origin, rowVars, tickVars, faultVars>>

\* The poll sees SUCCESS, or 90 s pass and SUCCEEDED is returned all the same.
PollEnds(h) ==
  /\ pc[h] = "waiting"
  /\ Goto(h, "ok")
  /\ UNCHANGED <<rowVars, netVars, tickVars, faultVars>>

PollFailed(h) ==
  /\ pc[h] = "waiting"
  /\ fate[job[h]] = "reverted"
  /\ Goto(h, "failed")
  /\ UNCHANGED <<rowVars, netVars, tickVars, faultVars>>

\* submit, after an accepted call: an update by id alone.
SubmittedStatus == "SUBMITTED"

PersistSubmitted(h) ==
  /\ pc[h] = "ok"
  /\ job[h].call = "create"
  /\ status' = [status EXCEPT ![job[h].row] = SubmittedStatus]
  /\ hash' = [hash EXCEPT ![job[h].row] = job[h]]
  /\ Finish(h)
  /\ UNCHANGED <<contractId, releaseHash, refundHash, netVars, tickVars, faultVars>>

PersistFailed(h) ==
  /\ pc[h] = "failed"
  /\ job[h].call = "create"
  /\ status' = [status EXCEPT ![job[h].row] = "FAILED"]
  /\ hash' = [hash EXCEPT ![job[h].row] = job[h]]
  /\ Finish(h)
  /\ UNCHANGED <<contractId, releaseHash, refundHash, netVars, tickVars, faultVars>>

RevertClaim(h) ==
  /\ pc[h] = "threw"
  /\ job[h].call = "create"
  /\ status' = [status EXCEPT ![job[h].row] = IF @ = "SUBMITTED" THEN "AWAITING_SIGN" ELSE @]
  /\ Finish(h)
  /\ UNCHANGED <<contractId, hash, releaseHash, refundHash, netVars, tickVars, faultVars>>

\* confirmAction, after an accepted call: the hash column, by id alone.
PersistAction(h) ==
  /\ pc[h] = "ok"
  /\ IF job[h].call = "release"
     THEN releaseHash' = [releaseHash EXCEPT ![job[h].row] = job[h]] /\ UNCHANGED refundHash
     ELSE refundHash' = [refundHash EXCEPT ![job[h].row] = job[h]] /\ UNCHANGED releaseHash
  /\ job[h].call # "create"
  /\ Finish(h)
  /\ UNCHANGED <<status, contractId, hash, netVars, tickVars, faultVars>>

\* confirmAction: a revert or an error is reported and leaves no trace.
ActionRefused(h) ==
  /\ pc[h] \in {"failed", "threw"}
  /\ job[h].call # "create"
  /\ Finish(h)
  /\ UNCHANGED <<rowVars, netVars, tickVars, faultVars>>

-----------------------------------------------------------------------------
(* The indexer and ContractReconciliationService.                           *)

TickReadPage(k) ==
  /\ tpc[k] = "idle"
  /\ tpc' = [tpc EXCEPT ![k] = "ingesting"]
  /\ tnext' = [tnext EXCEPT ![k] = cursor + 1]
  /\ tlast' = [tlast EXCEPT ![k] = Len(events)]
  /\ UNCHANGED <<cursor, overtaken, rowVars, netVars, handlerVars, faultVars>>

\* The rows an event's updateMany matches.  (Mutants: the status guard dropped;
\* the event's id not compared.)
FundsAnyStatus(r, k) == hash[r] = origin[k]
SettlesAnyRow(r, k) == contractId[r] # None
FundsRow(r, k) == hash[r] = origin[k] /\ status[r] = "SUBMITTED"
Settles(r, k) == contractId[r] = events[k].id /\ status[r] = "FUNDED"

OnEscrowCreated(k) ==
  LET matched == {r \in Row : FundsRow(r, k)}
  IN  /\ status' = [r \in Row |-> IF r \in matched THEN "FUNDED" ELSE status[r]]
      /\ contractId' = [r \in Row |-> IF r \in matched THEN events[k].id ELSE contractId[r]]
      /\ UNCHANGED <<hash, releaseHash, refundHash>>

OnEscrowAction(k) ==
  LET matched == {r \in Row : Settles(r, k)}
      Stamp(column) == [r \in Row |-> IF r \in matched THEN origin[k] ELSE column[r]]
      released == events[k].topic = "released"
  IN  /\ status' = [r \in Row |-> IF r \notin matched THEN status[r]
                                  ELSE IF released THEN "RELEASED" ELSE "REFUNDED"]
      /\ releaseHash' = IF released THEN Stamp(releaseHash) ELSE releaseHash
      /\ refundHash' = IF released THEN refundHash ELSE Stamp(refundHash)
      /\ UNCHANGED <<contractId, hash>>

HasEvent(k) == tpc[k] = "ingesting" /\ tnext[k] <= tlast[k]
NextEvent(k) == tnext' = [tnext EXCEPT ![k] = @ + 1] /\ UNCHANGED <<tpc, tlast, cursor>>

\* Another tick, or the cursor it saved, is already past the event tick k handles:
\* the lock lapsed under k and the next tick read the same page.
Behind(k) ==
  \/ cursor >= tnext[k]
  \/ \E t \in Tick : tpc[t] = "ingesting" /\ tnext[t] > tnext[k]

TickEvent(k) ==
  /\ HasEvent(k)
  /\ IF events[tnext[k]].topic = "created"
     THEN OnEscrowCreated(tnext[k])
     ELSE OnEscrowAction(tnext[k])
  /\ overtaken' = overtaken \cup
       {r \in Row : Behind(k) /\ status[r] # "FUNDED" /\ status'[r] = "FUNDED"}
  /\ NextEvent(k)
  /\ UNCHANGED <<netVars, handlerVars, faultVars>>

\* A database error: reconcile logs it and the page goes on.
TickEventDropped(k) ==
  /\ HasEvent(k)
  /\ Upsets < MaxUpsets
  /\ drops' = drops + 1
  /\ NextEvent(k)
  /\ UNCHANGED <<overtaken, deaths, rowVars, netVars, handlerVars>>

TickOver(k) ==
  /\ tpc' = [tpc EXCEPT ![k] = "idle"]
  /\ tnext' = [tnext EXCEPT ![k] = 1]
  /\ tlast' = [tlast EXCEPT ![k] = 0]

\* The page's own cursor.  (Mutant: the end of the log at the time of saving.)
LogEnd(k) == Len(events)
PageEnd(k) == tlast[k]

TickSaveCursor(k) ==
  /\ tpc[k] = "ingesting"
  /\ tnext[k] > tlast[k]
  /\ cursor' = PageEnd(k)
  /\ TickOver(k)
  /\ UNCHANGED <<overtaken, rowVars, netVars, handlerVars, faultVars>>

-----------------------------------------------------------------------------
(* A restart of the API process: what handlers and ticks held in memory is gone. *)

Restart ==
  /\ \/ \E h \in Handler : pc[h] # "idle"
     \/ \E k \in Tick : tpc[k] # "idle"
  /\ Upsets < MaxUpsets
  /\ deaths' = deaths + 1
  /\ pc' = [h \in Handler |-> "idle"]
  /\ job' = [h \in Handler |-> None]
  /\ tpc' = [k \in Tick |-> "idle"]
  /\ tnext' = [k \in Tick |-> 1]
  /\ tlast' = [k \in Tick |-> 0]
  /\ UNCHANGED <<drops, cursor, overtaken, rowVars, netVars>>

-----------------------------------------------------------------------------
HandlerStep(h) ==
  \/ SubmitClaim(h) \/ SubmitClaimLost(h) \/ CallNetwork(h) \/ PollEnds(h) \/ PollFailed(h)
  \/ PersistSubmitted(h) \/ PersistFailed(h) \/ RevertClaim(h)
  \/ PersistAction(h) \/ ActionRefused(h)

TickStep(k) == TickReadPage(k) \/ TickEvent(k) \/ TickSaveCursor(k)

Next ==
  \/ Environment \/ DirectCreate
  \/ \E d \in Id, a \in {Payer, Payee} : DirectSettle(d, a)
  \/ \E x \in Tx : TxApplies(x) \/ TxReverts(x) \/ PrepareAction(x)
  \/ \E r \in Row : CreateRow(r) \/ \E h \in Handler : SubmitRead(h, r)
  \/ \E h \in Handler : HandlerStep(h) \/ \E x \in Tx : ConfirmRead(h, x)
  \/ \E k \in Tick : TickStep(k) \/ TickEventDropped(k)
  \/ Restart

Spec == Init /\ [][Next]_vars

(* The event loop runs every handler that has something to do, and setInterval
   starts tick after tick.  Users, the ledger, restarts and database errors owe
   nothing.                                                                 *)
Fairness ==
  /\ \A h \in Handler : WF_vars(HandlerStep(h))
  /\ \A k \in Tick : WF_vars(TickStep(k))

FairSpec == Spec /\ Fairness

-----------------------------------------------------------------------------
\* The escrow on the ledger that row r's create envelope made.
MadeBy(r, d) == \E k \in DOMAIN events :
  events[k] = [topic |-> "created", id |-> d] /\ origin[k] = CreateTx(r)

(* docs/api.md, "status values advance only on on-chain evidence": a row shows
   FUNDED, RELEASED or REFUNDED only of the very escrow its own envelope made,
   and only when the contract says so; FAILED only if nothing was locked.   *)
StatusOnEvidence ==
  \A r \in Row :
    /\ status[r] \in {"FUNDED", "RELEASED", "REFUNDED"} =>
         contractId[r] # None /\ MadeBy(r, contractId[r])
    /\ status[r] = "RELEASED" => escrow[contractId[r]].released
    /\ status[r] = "REFUNDED" => escrow[contractId[r]].refunded
    /\ status[r] = "FAILED" => ~\E d \in Id : MadeBy(r, d)

Settled == {"RELEASED", "REFUNDED", "FAILED"}

(* A row never goes back: settled is final, FUNDED only settles, and the contract
   id never changes, although submit writes by row id and events are replayed
   after a restart.                                                         *)
StatusForward ==
  [][\A r \in Row :
       /\ status[r] \in Settled => status'[r] = status[r]
       /\ status[r] = "FUNDED" => status'[r] \in {"FUNDED", "RELEASED", "REFUNDED"}
       /\ contractId[r] # None => contractId'[r] = contractId[r]]_vars

(* Once a row is FUNDED no outcome is missed: an outcome the cursor has passed is
   shown, whatever restarts, replays, late hashes and overlapping ticks come in
   between, with two exceptions: a database error that hid it was swallowed, or the
   tick that funded the row had been overtaken by another one, which may have paged
   past the outcome before there was a FUNDED row to apply it to (see NoGap).  Every
   other outcome is still to be paged, by a tick that is running or by the next. *)
NoOutcomeMissed ==
  \A r \in Row \ overtaken, k \in DOMAIN events :
    status[r] = "FUNDED" /\ events[k].id = contractId[r] /\ events[k].topic # "created" =>
      \/ k > cursor
      \/ drops > 0

(* Claimed by indexer.service.ts of the cursor: "the next poll resumes exactly
   where this one stopped (no replay, no gap under normal operation)".  At rest and
   with no database error, no FUNDED row's outcome lies behind the cursor.  Not true
   when a tick outlives its lock and the next one runs beside it.           *)
NoGap ==
  (\A t \in Tick : tpc[t] = "idle") /\ drops = 0 =>
    \A r \in Row, k \in DOMAIN events :
      status[r] = "FUNDED" /\ events[k].id = contractId[r] /\ events[k].topic # "created" =>
        k > cursor

(* Claimed by contract-integration.service.ts: "the event indexer observes the
   contract's event and advances the record".  Not true of an event that is
   indexed before submit stores the hash: see the findings.                 *)
FundingIsShown ==
  \A r \in Row :
    status[r] = "SUBMITTED" /\ hash[r] # None /\ fate[CreateTx(r)] = "applied"
      ~> status[r] \in {"FUNDED", "RELEASED", "REFUNDED"}
=================================================================================
