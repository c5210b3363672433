---------------------------- MODULE PaymentLifecycle ----------------------------
(***************************************************************************)
(* The life of a payment row (table Transaction): created by the API,      *)
(* claimed by a submit request, sent to Stellar, persisted by the request, *)
(* and, for the contract route, confirmed by the indexer.                  *)
(*                                                                         *)
(* Actors: API request handlers running PaymentsService.submit, ticks of   *)
(* the indexer (SchedulerService.pollIndexer -> IndexerService.syncOnce),  *)
(* the Horizon inbound listener, the Stellar network.  Every await of the  *)
(* code is a place where any other actor may step; the database row is the *)
(* only state they share.  A handler or a tick may die at any await, which *)
(* is what a process restart does to it.                                   *)
(*                                                                         *)
(* The envelope a request carries is whichever one its wallet signed: the  *)
(* one built for the row, one built for another row, or one of no row.  A  *)
(* classic single payment is compared with the row before any write; a     *)
(* contract payment, a batch and a split are not, and their hash is stored *)
(* whatever they pay.                                                      *)
(*                                                                         *)
(* Abstractions: recipient, amount, asset and memo are one value, Terms.   *)
(* Each source of envelopes pays from an account of its own, so that       *)
(* sequence numbers only tie together the envelopes of one source.         *)
(***************************************************************************)
EXTENDS Naturals, Sequences, FiniteSets

CONSTANTS
  Classic,     \* rows paid by a classic payment operation through Horizon
  Occurrence,  \* the classic rows the scheduler creates, approved on demand
  Multi,       \* the classic rows of kind "batch" or "split"
  Contract,    \* rows of kind "contract_send", paid through the Soroban contract
  Elsewhere,   \* envelopes a wallet signs that no row was created for
  Terms,       \* what the envelopes of a row, or one of no row, pay
  Handler,     \* API request handlers that may run at the same time
  Tick,        \* indexer ticks that may run at the same time (TTL-only lock)
  Take,        \* rows one tick reads for confirmation (20 in the code)
  MaxRows,     \* bound: rows inserted in one behaviour
  MaxEnv,      \* bound: envelopes built for one occurrence
  MaxDeaths,   \* bound: handlers and ticks killed, RPC calls of a tick that throw
  None         \* no row, no envelope

Rows   == Classic \cup Contract
Source == Rows \cup Elsewhere
Env    == 1..MaxEnv

\* An envelope is the n-th one built for its source; two have different hashes.
Envelope == Source \X Env

ASSUME RowsAssumption ==
  /\ Occurrence \subseteq Classic
  /\ Multi \subseteq Classic
  /\ Classic \cap Contract = {}
  /\ Rows \cap Elsewhere = {}
  /\ None \notin Rows
  /\ None \notin Envelope

ASSUME BoundsAssumption ==
  /\ Take \in Nat \ {0}
  /\ MaxRows \in Nat
  /\ MaxEnv \in Nat \ {0}
  /\ MaxDeaths \in Nat

VARIABLES
  status,    \* Transaction.status of each row, "ABSENT" before it is inserted
  hash,      \* Transaction.hash: the envelope whose hash is stored, None for NULL
  net,       \* each envelope: unbuilt, built, queued, applied or reverted on the ledger
  seqno,     \* account sequence number each envelope was built with
  log,       \* `payment` events of the Soroban contract, in ledger order
  cursor,    \* the indexer's Redis cursor: events already paged past
  credited,  \* envelopes whose hash an inbound credit row already holds
  pc, row, xdr,              \* submit handlers
  tpc, batch, trow, tnext, tlast,   \* indexer ticks
  sent,      \* "Payment sent" notifications the payer got for each row
  refused,   \* "Transaction failed" notifications
  deaths

dbVars      == <<status, hash, credited>>
netVars     == <<net, seqno, log>>
handlerVars == <<pc, row, xdr>>
tickVars    == <<tpc, batch, trow, tnext, tlast, cursor>>
noticeVars  == <<sent, refused>>
vars == <<dbVars, netVars, handlerVars, tickVars, noticeVars, deaths>>

Status  == {"ABSENT", "PENDING", "SUBMITTED", "CONFIRMED", "SUCCEEDED", "FAILED"}
NetState == {"unbuilt", "built", "queued", "applied", "reverted"}
HandlerPc == {"idle", "checked", "claimed", "waiting", "succeeded", "rejected",
              "threw", "paid", "unpaid"}
TickPc == {"idle", "confirming", "confirmed", "failed", "ingesting", "eventConfirmed"}

TypeOK ==
  /\ status \in [Rows -> Status]
  /\ hash \in [Rows -> Envelope \cup {None}]
  /\ net \in [Source -> [Env -> NetState]]
  /\ seqno \in [Source -> [Env -> Nat]]
  /\ log \in Seq(Contract)
  /\ cursor \in Nat
  /\ credited \subseteq Envelope
  /\ pc \in [Handler -> HandlerPc]
  /\ row \in [Handler -> Rows \cup {None}]
  /\ xdr \in [Handler -> Envelope \cup {None}]
  /\ tpc \in [Tick -> TickPc]
  /\ batch \in [Tick -> SUBSET Contract]
  /\ trow \in [Tick -> Rows \cup {None}]
  /\ tnext \in [Tick -> Nat]
  /\ tlast \in [Tick -> Nat]
  /\ sent \in [Rows -> Nat]
  /\ refused \in [Rows -> Nat]
  /\ deaths \in Nat

Init ==
  /\ status = [t \in Rows |-> "ABSENT"]
  /\ hash = [t \in Rows |-> None]
  /\ net = [s \in Source |-> [n \in Env |-> "unbuilt"]]
  /\ seqno = [s \in Source |-> [n \in Env |-> 0]]
  /\ log = <<>>
  /\ cursor = 0
  /\ credited = {}
  /\ pc = [h \in Handler |-> "idle"]
  /\ row = [h \in Handler |-> None]
  /\ xdr = [h \in Handler |-> None]
  /\ tpc = [k \in Tick |-> "idle"]
  /\ batch = [k \in Tick |-> {}]
  /\ trow = [k \in Tick |-> None]
  /\ tnext = [k \in Tick |-> 1]
  /\ tlast = [k \in Tick |-> 0]
  /\ sent = [t \in Rows |-> 0]
  /\ refused = [t \in Rows |-> 0]
  /\ deaths = 0

-----------------------------------------------------------------------------
(* The Stellar network, as the SDK and the indexer use it.                  *)

\* The sequence numbers the source's account has consumed so far.
Consumed(s) == Cardinality({n \in Env : net[s][n] \in {"applied", "reverted"}})

\* The ledger takes an envelope only if it carries the account's next number.
Includable(s, n) == net[s][n] = "queued" /\ seqno[s][n] = Consumed(s) + 1

LedgerApplies(s, n) ==
  /\ Includable(s, n)
  /\ net' = [net EXCEPT ![s][n] = "applied"]
  /\ log' = IF s \in Contract THEN Append(log, s) ELSE log
  /\ UNCHANGED <<seqno, dbVars, handlerVars, tickVars, noticeVars, deaths>>

LedgerReverts(s, n) ==
  /\ Includable(s, n)
  /\ net' = [net EXCEPT ![s][n] = "reverted"]
  /\ UNCHANGED <<seqno, log, dbVars, handlerVars, tickVars, noticeVars, deaths>>

\* What the network knows of an envelope.
Fate(e) == net[e[1]][e[2]]

\* Build envelope n of source s with the account's current sequence number.
Build(s, n) ==
  /\ net' = [net EXCEPT ![s][n] = "built"]
  /\ seqno' = [seqno EXCEPT ![s][n] = Consumed(s) + 1]

\* A wallet signs an envelope that no row was created for.
SignElsewhere(s) ==
  /\ s \in Elsewhere
  /\ net[s][1] = "unbuilt"
  /\ Build(s, 1)
  /\ UNCHANGED <<log, dbVars, handlerVars, tickVars, noticeVars, deaths>>

\* And it may post that envelope itself.  The envelopes of a row are only signed:
\* the wallet hands them back to the page, which submits them to the API.
PostElsewhere(s, n) ==
  /\ s \in Elsewhere
  /\ net[s][n] = "built"
  /\ net' = [net EXCEPT ![s][n] = "queued"]
  /\ UNCHANGED <<seqno, log, dbVars, handlerVars, tickVars, noticeVars, deaths>>

-----------------------------------------------------------------------------
(* Creating the row and the envelope the wallet signs.                      *)

Insert(t) ==
  /\ status[t] = "ABSENT"
  /\ Cardinality({u \in Rows : status[u] # "ABSENT"}) < MaxRows
  /\ status' = [status EXCEPT ![t] = "PENDING"]

\* POST /payments: the envelope is built first and the row inserted with it.
CreateIntent(t) ==
  /\ t \in Rows \ Occurrence
  /\ Insert(t)
  /\ Build(t, 1)
  /\ UNCHANGED <<hash, credited, log, handlerVars, tickVars, noticeVars, deaths>>

\* The scheduler inserts an occurrence without an envelope: it has no wallet.
CreateOccurrence(t) ==
  /\ t \in Occurrence
  /\ Insert(t)
  /\ UNCHANGED <<hash, credited, netVars, handlerVars, tickVars, noticeVars, deaths>>

\* approveOccurrence: the row is only read; each call builds a fresh envelope.
ApproveOccurrence(t) ==
  /\ t \in Occurrence
  /\ status[t] = "PENDING"
  /\ \E n \in Env :
       /\ net[t][n] = "unbuilt"
       /\ \A m \in 1..(n - 1) : net[t][m] # "unbuilt"
       /\ Build(t, n)
  /\ UNCHANGED <<log, dbVars, handlerVars, tickVars, noticeVars, deaths>>

-----------------------------------------------------------------------------
(* PaymentsService.submit, one action per await.                            *)

Goto(h, label) == pc' = [pc EXCEPT ![h] = label] /\ UNCHANGED <<row, xdr>>

\* The request is answered, or its process is gone.
Finish(h) ==
  /\ pc' = [pc EXCEPT ![h] = "idle"]
  /\ row' = [row EXCEPT ![h] = None]
  /\ xdr' = [xdr EXCEPT ![h] = None]

SetStatus(t, s) == status' = [status EXCEPT ![t] = s]

\* verifySignedPaymentMatchesIntent: one payment operation with the row's recipient,
\* amount, asset and memo.  Contract, batch and split rows skip it.
Passes(t, e) ==
  \/ t \in Contract \cup Multi
  \/ e[1] \notin Contract /\ Terms[e[1]] = Terms[t]

\* findFirst, status check, envelope check.
SubmitRead(h) ==
  /\ pc[h] = "idle"
  /\ \E t \in Rows, e \in Envelope :
       /\ status[t] = "PENDING"
       /\ Fate(e) # "unbuilt"
       /\ Passes(t, e)
       /\ row' = [row EXCEPT ![h] = t]
       /\ xdr' = [xdr EXCEPT ![h] = e]
  /\ pc' = [pc EXCEPT ![h] = "checked"]
  /\ UNCHANGED <<dbVars, netVars, tickVars, noticeVars, deaths>>

\* The WHERE clause of the claim: updateMany matches a PENDING row only.
\* (Mutant: a claim by id alone.)
ClaimBlind(t) == status[t] # "ABSENT"
Claimable(t) == status[t] = "PENDING"

SubmitClaim(h) ==
  /\ pc[h] = "checked"
  /\ Claimable(row[h])
  /\ SetStatus(row[h], "SUBMITTED")
  /\ Goto(h, "claimed")
  /\ UNCHANGED <<hash, credited, netVars, tickVars, noticeVars, deaths>>

SubmitClaimLost(h) ==
  /\ pc[h] = "checked"
  /\ ~Claimable(row[h])
  /\ Finish(h)
  /\ UNCHANGED <<dbVars, netVars, tickVars, noticeVars, deaths>>

\* Horizon takes no Soroban envelope: submitSignedTransaction throws at once.
Carried(t, e) == t \in Contract \/ e[1] \notin Contract

\* submitSignedTransaction / submitSorobanSendTransaction: the request (with the
\* SDK's transport retries, which resend the same envelope) may or may not
\* reach the network, and the call may throw in either case.
CallNetwork(h) ==
  /\ pc[h] = "claimed"
  /\ \E reached \in BOOLEAN, next \in {"waiting", "threw"} :
       /\ reached \/ next = "waiting" => Carried(row[h], xdr[h])
       /\ net' = IF reached /\ Fate(xdr[h]) = "built"
                 THEN [net EXCEPT ![xdr[h][1]][xdr[h][2]] = "queued"]
                 ELSE net
       /\ Goto(h, next)
  /\ UNCHANGED <<seqno, log, dbVars, tickVars, noticeVars, deaths>>

\* Horizon answers a classic payment, or the RPC poll sees SUCCESS.
AnswerSuccess(h) ==
  /\ pc[h] = "waiting"
  /\ Fate(xdr[h]) = "applied"
  /\ Goto(h, "succeeded")
  /\ UNCHANGED <<dbVars, netVars, tickVars, noticeVars, deaths>>

\* Horizon's answer is an error: every one of them throws (rejection, timeout).
AnswerThrows(h) ==
  /\ pc[h] = "waiting"
  /\ row[h] \in Classic
  /\ Goto(h, "threw")
  /\ UNCHANGED <<dbVars, netVars, tickVars, noticeVars, deaths>>

\* The RPC poll sees FAILED: a definitive on-chain revert.
PollFailed(h) ==
  /\ pc[h] = "waiting"
  /\ row[h] \in Contract
  /\ Fate(xdr[h]) = "reverted"
  /\ Goto(h, "rejected")
  /\ UNCHANGED <<dbVars, netVars, tickVars, noticeVars, deaths>>

\* 90 s without a terminal result: SUCCEEDED is returned with the hash.
PollDeadline(h) ==
  /\ pc[h] = "waiting"
  /\ row[h] \in Contract
  /\ Goto(h, "succeeded")
  /\ UNCHANGED <<dbVars, netVars, tickVars, noticeVars, deaths>>

\* The update after the call names the row by id alone; Transaction.hash is
\* unique, so it throws when an inbound credit or another row stored that hash.
\* (Mutant: no unique index, only the listener's look before it inserts.)
HashTakenByCredit(h) == xdr[h] \in credited
HashTaken(h) ==
  \/ xdr[h] \in credited
  \/ \E u \in Rows \ {row[h]} : hash[u] = xdr[h]

\* (Mutants: the terminal status at once for both routes; a status outside the enum.)
PersistedEagerly(t) == "SUCCEEDED"
PersistedUnknown(t) == IF t \in Contract THEN "SETTLED" ELSE "SUCCEEDED"
PersistedStatus(t) == IF t \in Contract THEN "SUBMITTED" ELSE "SUCCEEDED"

PersistSuccess(h) ==
  /\ pc[h] = "succeeded"
  /\ ~HashTaken(h)
  /\ SetStatus(row[h], PersistedStatus(row[h]))
  /\ hash' = [hash EXCEPT ![row[h]] = xdr[h]]
  /\ IF row[h] \in Contract THEN Finish(h) ELSE Goto(h, "paid")
  /\ UNCHANGED <<credited, netVars, tickVars, noticeVars, deaths>>

PersistThrows(h) ==
  /\ pc[h] \in {"succeeded", "rejected"}
  /\ HashTaken(h)
  /\ Finish(h)
  /\ UNCHANGED <<dbVars, netVars, tickVars, noticeVars, deaths>>

\* (Mutant: the success branch's status for a revert.)
RejectedAsSubmitted == "SUBMITTED"
RejectedStatus == "FAILED"

PersistFailure(h) ==
  /\ pc[h] = "rejected"
  /\ ~HashTaken(h)
  /\ SetStatus(row[h], RejectedStatus)
  /\ hash' = [hash EXCEPT ![row[h]] = xdr[h]]
  /\ Goto(h, "unpaid")
  /\ UNCHANGED <<credited, netVars, tickVars, noticeVars, deaths>>

\* The catch block: updateMany gives the claim back if the row is still SUBMITTED.
\* (Mutant: no give-back.)
AfterThrowKeeps(t) == status[t]
AfterThrow(t) == IF status[t] = "SUBMITTED" THEN "PENDING" ELSE status[t]

RevertClaim(h) ==
  /\ pc[h] = "threw"
  /\ SetStatus(row[h], AfterThrow(row[h]))
  /\ Finish(h)
  /\ UNCHANGED <<hash, credited, netVars, tickVars, noticeVars, deaths>>

Notify(count, t) == [count EXCEPT ![t] = @ + 1]

\* afterSuccess and afterFailure: the payer is notified.  What afterSuccess does
\* to invoices, links and schedules is the subject of other modules.
AfterSuccess(h) ==
  /\ pc[h] = "paid"
  /\ sent' = Notify(sent, row[h])
  /\ Finish(h)
  /\ UNCHANGED <<refused, dbVars, netVars, tickVars, deaths>>

AfterFailure(h) ==
  /\ pc[h] = "unpaid"
  /\ refused' = Notify(refused, row[h])
  /\ Finish(h)
  /\ UNCHANGED <<sent, dbVars, netVars, tickVars, deaths>>

\* A listener credits a payment whose hash no row holds yet.  The event of a
\* contract row's own payment is never a credit: its memo names the row.
InboundTakesHash(e) ==
  /\ e[1] \notin Contract
  /\ Fate(e) = "applied"
  /\ e \notin credited
  /\ \A t \in Rows : hash[t] # e
  /\ credited' = credited \cup {e}
  /\ UNCHANGED <<status, hash, netVars, handlerVars, tickVars, noticeVars, deaths>>

-----------------------------------------------------------------------------
(* IndexerService.syncOnce: confirmSubmittedTransactions, then the events.  *)

TickGoto(k, label) == tpc' = [tpc EXCEPT ![k] = label]

\* The tick is over, or its process is gone.
TickFinish(k) ==
  /\ tpc' = [tpc EXCEPT ![k] = "idle"]
  /\ batch' = [batch EXCEPT ![k] = {}]
  /\ trow' = [trow EXCEPT ![k] = None]
  /\ tnext' = [tnext EXCEPT ![k] = 1]
  /\ tlast' = [tlast EXCEPT ![k] = 0]

\* The rows of findMany(kind contract_send, status SUBMITTED, hash not null).
Unconfirmed == {t \in Contract : status[t] = "SUBMITTED" /\ hash[t] # None}

\* At most Take of them, in no particular order.
TickStart(k) ==
  /\ tpc[k] = "idle"
  /\ \E B \in SUBSET Unconfirmed :
       /\ Cardinality(B) <= Take
       /\ B = Unconfirmed \/ Cardinality(B) = Take
       /\ batch' = [batch EXCEPT ![k] = B]
  /\ TickGoto(k, "confirming")
  /\ UNCHANGED <<trow, tnext, tlast, cursor, dbVars, netVars, handlerVars, noticeVars, deaths>>

\* confirm and fail move the row only if it is still SUBMITTED, and only the
\* transition that moved it notifies.
Settle(k, t, s, won, otherwise) ==
  IF status[t] = "SUBMITTED"
  THEN SetStatus(t, s) /\ TickGoto(k, won)
  ELSE TickGoto(k, otherwise) /\ UNCHANGED status

\* getTransaction(hash) for one row of the batch, then confirm or fail; nothing
\* while the answer is NOT_FOUND.
\* (Mutant: FAILED treated like NOT_FOUND.)
SuccessSettles(t) == Fate(hash[t]) = "applied"
FailureIgnored(t) == FALSE
FailureSettles(t) == Fate(hash[t]) = "reverted"

TickCheck(k) ==
  /\ tpc[k] = "confirming"
  /\ \E t \in batch[k] :
       /\ trow' = [trow EXCEPT ![k] = t]
       /\ batch' = [batch EXCEPT ![k] = @ \ {t}]
       /\ \/ SuccessSettles(t) /\ Settle(k, t, "CONFIRMED", "confirmed", "confirming")
          \/ FailureSettles(t) /\ Settle(k, t, "FAILED", "failed", "confirming")
          \/ ~SuccessSettles(t) /\ ~FailureSettles(t) /\ UNCHANGED <<status, tpc>>
  /\ UNCHANGED <<tnext, tlast, cursor, hash, credited, netVars, handlerVars,
                 noticeVars, deaths>>

\* The RPC call for one row throws: logged, and left for a later tick.
TickCheckFails(k) ==
  /\ tpc[k] = "confirming"
  /\ deaths < MaxDeaths
  /\ deaths' = deaths + 1
  /\ \E t \in batch[k] : batch' = [batch EXCEPT ![k] = @ \ {t}]
  /\ UNCHANGED <<trow, tpc, tnext, tlast, cursor, dbVars, netVars, handlerVars, noticeVars>>

TickNotifySent(k) ==
  /\ tpc[k] = "confirmed"
  /\ sent' = Notify(sent, trow[k])
  /\ TickGoto(k, "confirming")
  /\ UNCHANGED <<refused, batch, trow, tnext, tlast, cursor, dbVars, netVars, handlerVars, deaths>>

TickNotifyFailed(k) ==
  /\ tpc[k] = "failed"
  /\ refused' = Notify(refused, trow[k])
  /\ TickGoto(k, "confirming")
  /\ UNCHANGED <<sent, batch, trow, tnext, tlast, cursor, dbVars, netVars, handlerVars, deaths>>

\* Redis cursor, then getEvents: the page holds what the ledger has so far.
TickReadPage(k) ==
  /\ tpc[k] = "confirming"
  /\ batch[k] = {}
  /\ tnext' = [tnext EXCEPT ![k] = cursor + 1]
  /\ tlast' = [tlast EXCEPT ![k] = Len(log)]
  /\ TickGoto(k, "ingesting")
  /\ UNCHANGED <<batch, trow, cursor, dbVars, netVars, handlerVars, noticeVars, deaths>>

\* handleContractEvent for a `payment` event whose memo names row t: confirm
\* it if SUBMITTED, otherwise drop the event.
TickEvent(k) ==
  /\ tpc[k] = "ingesting"
  /\ tnext[k] \in 1..tlast[k]
  /\ tlast[k] <= Len(log)
  /\ trow' = [trow EXCEPT ![k] = log[tnext[k]]]
  /\ tnext' = [tnext EXCEPT ![k] = @ + 1]
  /\ Settle(k, log[tnext[k]], "CONFIRMED", "eventConfirmed", "ingesting")
  /\ UNCHANGED <<batch, tlast, cursor, hash, credited, netVars, handlerVars, noticeVars,
                 deaths>>

TickNotifyEvent(k) ==
  /\ tpc[k] = "eventConfirmed"
  /\ sent' = Notify(sent, trow[k])
  /\ TickGoto(k, "ingesting")
  /\ UNCHANGED <<refused, batch, trow, tnext, tlast, cursor, dbVars, netVars, handlerVars, deaths>>

TickSaveCursor(k) ==
  /\ tpc[k] = "ingesting"
  /\ tnext[k] > tlast[k]
  /\ cursor' = tlast[k]
  /\ TickFinish(k)
  /\ UNCHANGED <<dbVars, netVars, handlerVars, noticeVars, deaths>>

-----------------------------------------------------------------------------
(* Restarts: what a handler or a tick held in memory is gone.  The exception
   of an RPC or database call that ends a tick does the same to it.         *)

HandlerDies(h) ==
  /\ pc[h] # "idle"
  /\ deaths < MaxDeaths
  /\ deaths' = deaths + 1
  /\ Finish(h)
  /\ UNCHANGED <<dbVars, netVars, tickVars, noticeVars>>

TickDies(k) ==
  /\ tpc[k] # "idle"
  /\ deaths < MaxDeaths
  /\ deaths' = deaths + 1
  /\ TickFinish(k)
  /\ UNCHANGED <<cursor, dbVars, netVars, handlerVars, noticeVars>>

-----------------------------------------------------------------------------
HandlerStep(h) ==
  \/ SubmitClaim(h) \/ SubmitClaimLost(h) \/ CallNetwork(h)
  \/ AnswerSuccess(h) \/ AnswerThrows(h) \/ PollFailed(h) \/ PollDeadline(h)
  \/ PersistSuccess(h) \/ PersistThrows(h) \/ PersistFailure(h) \/ RevertClaim(h)
  \/ AfterSuccess(h) \/ AfterFailure(h)

TickStep(k) ==
  \/ TickStart(k) \/ TickCheck(k) \/ TickNotifySent(k) \/ TickNotifyFailed(k)
  \/ TickReadPage(k) \/ TickEvent(k) \/ TickNotifyEvent(k) \/ TickSaveCursor(k)

Next ==
  \/ \E t \in Rows : CreateIntent(t) \/ CreateOccurrence(t) \/ ApproveOccurrence(t)
  \/ \E s \in Source : SignElsewhere(s)
  \/ \E s \in Source, n \in Env :
       \/ PostElsewhere(s, n) \/ LedgerApplies(s, n) \/ LedgerReverts(s, n)
       \/ InboundTakesHash(<<s, n>>)
  \/ \E h \in Handler : SubmitRead(h) \/ HandlerStep(h) \/ HandlerDies(h)
  \/ \E k \in Tick : TickStep(k) \/ TickCheckFails(k) \/ TickDies(k)

Spec == Init /\ [][Next]_vars

(* The event loop runs every handler that has something to do, and setInterval
   starts tick after tick.  Users, the ledger and restarts owe nothing.      *)
Fairness ==
  /\ \A h \in Handler : WF_vars(HandlerStep(h))
  /\ \A k \in Tick : WF_vars(TickStep(k))

FairSpec == Spec /\ Fairness

-----------------------------------------------------------------------------
\* The handler won the claim and has not yet written the outcome.
InFlight(h) == pc[h] \in {"claimed", "waiting", "succeeded", "rejected", "threw"}

(* Two requests never carry the same row to the network: while one is past the
   claim, no other is, and the row cannot be claimed (payments.service.ts,
   "exactly one concurrent request can win the claim").                      *)
SingleFlight ==
  /\ \A h1, h2 \in Handler :
       InFlight(h1) /\ InFlight(h2) /\ row[h1] = row[h2] => h1 = h2
  /\ \A h \in Handler : InFlight(h) => status[row[h]] \notin {"ABSENT", "PENDING"}

\* The payment the row was created for is on the ledger.
OwnApplied(t) == \E n \in Env : net[t][n] = "applied"

(* What a row claims is what the ledger did, whoever wrote it and however late the
   network answered.  SUCCEEDED: the stored envelope is applied and passed the
   check, so a single payment pays the row's terms.  CONFIRMED: the row's own
   payment is applied, or the stored envelope is, which nothing compared with the
   row.  FAILED: the stored envelope is reverted.  And no envelope is counted
   twice, for two rows or for a row and a credit.                            *)
StatusMatchesLedger ==
  \A t \in Rows :
    /\ status[t] = "SUCCEEDED" =>
         hash[t] # None /\ Fate(hash[t]) = "applied" /\ Passes(t, hash[t])
    /\ status[t] = "CONFIRMED" =>
         OwnApplied(t) \/ (hash[t] # None /\ Fate(hash[t]) = "applied")
    /\ status[t] = "FAILED" => hash[t] # None /\ Fate(hash[t]) = "reverted"
    /\ hash[t] # None =>
         hash[t] \notin credited /\ \A u \in Rows : hash[u] = hash[t] => u = t

(* A claim is given back or completed by the request that won it: a SUBMITTED
   row with no hash and no request in flight is left behind only by a process
   that died, or because the hash of an envelope that passes for the row was
   stored first, by an inbound credit or by another row.                     *)
LostClaimIsExplained ==
  \A t \in Rows :
    status[t] = "SUBMITTED" /\ hash[t] = None =>
      \/ \E h \in Handler : InFlight(h) /\ row[h] = t
      \/ deaths > 0
      \/ \E e \in Envelope :
           Passes(t, e) /\ (e \in credited \/ \E u \in Rows \ {t} : hash[u] = e)

(* SUCCEEDED and FAILED are final, although submit writes its outcome by row id
   alone and the indexer writes the same rows.                               *)
TerminalIsFinal ==
  [][\A t \in Rows : status[t] \in {"SUCCEEDED", "FAILED"} => status'[t] = status[t]]_vars

(* The payer hears one verdict: never a failure twice, for a classic payment never
   a success twice, and never success and failure of the same payment, unless the
   row stores an envelope that is not its own (then its own payment may be
   confirmed from its event while the stored one reverts).                   *)
OneVerdict ==
  \A t \in Rows :
    /\ sent[t] = 0 \/ refused[t] = 0 \/ (hash[t] # None /\ hash[t][1] # t)
    /\ refused[t] <= 1
    /\ t \in Classic => sent[t] <= 1

(* A contract payment stored as SUBMITTED with its hash is settled by the
   indexer once the ledger has decided it.                                   *)
SubmittedContractSettles ==
  \A t \in Contract :
    status[t] = "SUBMITTED" /\ hash[t] # None /\ Fate(hash[t]) \in {"applied", "reverted"}
      ~> status[t] \in {"CONFIRMED", "FAILED"}

(* Claimed by indexer.service.ts: "the same event/transaction observed twice can
   only succeed once".  Not true of this code: see the findings.             *)
ConfirmedOnce == \A t \in Contract : sent[t] <= 1

(* Claimed by docs/architecture.md: "Re-submission is safe by construction", a
   duplicate "can only be rejected, never applied twice".  Not true of a scheduled
   occurrence, which is approved with a new envelope: see the findings.      *)
PaidOnce ==
  \A t \in Rows : Cardinality({n \in Env : net[t][n] = "applied"}) <= 1

(* Claimed by payments.service.ts of the rows whose envelope is not compared:
   "their on-chain outcome is verified by the indexer instead".  Not true of this
   code, which confirms on the success of the stored hash, whatever that envelope
   pays: see the findings.                                                   *)
ConfirmedIsPaid == \A t \in Contract : status[t] = "CONFIRMED" => OwnApplied(t)
=============================================================================
