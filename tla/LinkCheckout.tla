------------------------------ MODULE LinkCheckout -------------------------------
(***************************************************************************)
(* The payment of a payment link, from the browser to the merchant: the    *)
(* hosted page (apps/web/src/app/pay/[code]/page.tsx), the public checkout *)
(* (CheckoutService), the link's totals (reconcilePaymentLinkPayment), the *)
(* link's expiry, and the Horizon listener (HorizonInboundService), which  *)
(* meets the same payments in the merchant's account feed.                 *)
(*                                                                         *)
(* Abstractions: one link with a fixed amount, so that a total is a number *)
(* of payments; one merchant; a page belongs to one payer; a signed        *)
(* envelope matches its intent (others are refused before any write). The  *)
(* lock of the listener has a TTL of 12 seconds, is never released, and    *)
(* its timer fires every 15: it does not keep two polls apart and is left  *)
(* out.                                                                    *)
(***************************************************************************)
EXTENDS Naturals, Sequences, FiniteSets

CONSTANTS
  Page,       \* open checkout pages, each with the account of its payer
  Intent,     \* Transaction rows made by payPaymentLink
  Direct,     \* payments to the merchant's address that never meet the API
  Handler,    \* slots for submitSigned requests
  Tick,       \* slots for polls of the merchant's feed
  PageLimit,  \* records a poll reads at once (100 in the code)
  MaxFaults,  \* bound: failing records, dying requests and polls
  None

Payment == Intent \cup Direct

ASSUME LinkAssumption ==
  /\ Intent \cap Direct = {}
  /\ IsFiniteSet(Intent)
  /\ PageLimit \in Nat \ {0}
  /\ MaxFaults \in Nat
  /\ None \notin Payment

VARIABLES
  link,       \* the PaymentLink row: status, totalPayments, totalCollected
  expired,    \* expiresAt has passed
  page,       \* what a page shows, and the intent it is paying
  row,        \* status of the Transaction rows
  env,        \* envelopes: fate, payer, sequence number
  posted,     \* intents whose signed envelope a page has posted
  req,        \* submitSigned requests
  feed,       \* the merchant's account feed: payments in ledger order
  cursor,     \* Redis: records of the feed the listener has passed
  tick,       \* polls: stage, records handled, last record of the page read
  recorded,   \* ChainEvent rows
  credited,   \* INCOMING Transaction rows
  told,       \* payment.received dispatched for each payment
  lost,       \* history: payments whose record failed, or whose poll stopped on it
  overlapped, \* history: a total was read while another request was about to write it
  faults

linkVars == <<link, expired, overlapped>>
payVars == <<page, row, env, posted, req>>
pollVars == <<cursor, tick, recorded, credited, lost>>
vars == <<linkVars, payVars, pollVars, feed, told, faults>>

IdleReq == [at |-> "idle", of |-> None, read |-> 0]
IdleTick == [at |-> "idle", pos |-> 0, last |-> 0]

LinkRec == [status : {"ACTIVE", "EXPIRED"}, payments : Nat, collected : Nat]
PageRec == [at : {"loading", "unavailable", "ready", "signing", "submitting", "success",
                  "failed", "rejected"}, of : Intent \cup {None}]
EnvRec == [fate : {"none", "built", "signed", "queued", "applied", "dead"},
           by : Page \cup {None}, seq : Nat]
ReqRec == [at : {"idle", "calling", "threw", "accepted", "reconcile", "update", "notify"},
           of : Intent \cup {None}, read : Nat]
TickRec == [at : {"idle", "fetch", "event", "credit", "notify", "save"}, pos : Nat, last : Nat]

TypeOK ==
  /\ link \in LinkRec /\ expired \in BOOLEAN /\ overlapped \in BOOLEAN
  /\ page \in [Page -> PageRec]
  /\ row \in [Intent -> {"ABSENT", "PENDING", "SUBMITTED", "SUCCEEDED"}]
  /\ env \in [Intent -> EnvRec]
  /\ posted \subseteq Intent
  /\ req \in [Handler -> ReqRec]
  /\ feed \in Seq(Payment) /\ cursor \in Nat
  /\ tick \in [Tick -> TickRec]
  /\ recorded \subseteq Payment /\ credited \subseteq Payment /\ lost \subseteq Payment
  /\ told \in [Payment -> Nat]
  /\ faults \in 0..MaxFaults

Init ==
  /\ link = [status |-> "ACTIVE", payments |-> 0, collected |-> 0]
  /\ expired = FALSE /\ overlapped = FALSE
  /\ page = [p \in Page |-> [at |-> "loading", of |-> None]]
  /\ row = [i \in Intent |-> "ABSENT"]
  /\ env = [i \in Intent |-> [fate |-> "none", by |-> None, seq |-> 0]]
  /\ posted = {}
  /\ req = [h \in Handler |-> IdleReq]
  /\ feed = <<>> /\ cursor = 0
  /\ tick = [t \in Tick |-> IdleTick]
  /\ recorded = {} /\ credited = {} /\ lost = {}
  /\ told = [x \in Payment |-> 0]
  /\ faults = 0

Fault == faults < MaxFaults /\ faults' = faults + 1

\* The checkout's rows are not looked at: no action uses it.
HashStoredInbound(x) == x \in credited

\* A Transaction row holds the hash of payment x; hash is unique.
HashStored(x) == x \in credited \/ (x \in Intent /\ row[x] = "SUCCEEDED")

-----------------------------------------------------------------------------
(* The ledger.                                                              *)

OnLedger(x) == \E k \in 1..Len(feed) : feed[k] = x

\* Envelopes of page p the ledger has applied: the payer's sequence number.
Spent(p) == Cardinality({i \in Intent : env[i].by = p /\ env[i].fate = "applied"})

EnvelopeApplies(i) ==
  /\ env[i].fate = "queued" /\ env[i].seq = Spent(env[i].by)
  /\ env' = [env EXCEPT ![i].fate = "applied"]
  /\ feed' = Append(feed, i)
  /\ UNCHANGED <<linkVars, pollVars, page, row, posted, req, told, faults>>

\* The time bound of five minutes passes, or another envelope took the sequence number.
EnvelopeDies(i) ==
  /\ env[i].fate \in {"built", "signed", "queued"}
  /\ env' = [env EXCEPT ![i].fate = "dead"]
  /\ UNCHANGED <<linkVars, pollVars, page, row, posted, req, feed, told, faults>>

DirectPayment(x) ==
  /\ x \in Direct /\ ~OnLedger(x)
  /\ feed' = Append(feed, x)
  /\ UNCHANGED <<linkVars, payVars, pollVars, told, faults>>

-----------------------------------------------------------------------------
(* PaymentLinksService: expiry and its sweep.                               *)

LinkExpires ==
  /\ ~expired /\ expired' = TRUE
  /\ UNCHANGED <<link, overlapped, payVars, pollVars, feed, told, faults>>

ExpireDue ==
  /\ link.status = "ACTIVE" /\ expired
  /\ link' = [link EXCEPT !.status = "EXPIRED"]
  /\ UNCHANGED <<expired, overlapped, payVars, pollVars, feed, told, faults>>

-----------------------------------------------------------------------------
(* The page.                                                                *)

\* getPaymentLink refuses a link that is not ACTIVE or whose expiry passed.
Payable == link.status = "ACTIVE" /\ ~expired

LoadPage(p) ==
  /\ page[p].at = "loading"
  /\ page' = [page EXCEPT ![p].at = IF Payable THEN "ready" ELSE "unavailable"]
  /\ UNCHANGED <<linkVars, pollVars, row, env, posted, req, feed, told, faults>>

\* payPaymentLink builds the envelope on the payer's current sequence number and
\* inserts the row; the answer may not reach the page.
PayLink(p, i) ==
  /\ page[p].at = "ready" /\ row[i] = "ABSENT" /\ Payable
  /\ row' = [row EXCEPT ![i] = "PENDING"]
  /\ env' = [env EXCEPT ![i] = [fate |-> "built", by |-> p, seq |-> Spent(p)]]
  /\ \E at \in {"signing", "failed"} : page' = [page EXCEPT ![p] = [at |-> at, of |-> i]]
  /\ UNCHANGED <<linkVars, pollVars, posted, req, feed, told, faults>>

PayRefused(p) ==
  /\ page[p].at = "ready" /\ ~Payable
  /\ page' = [page EXCEPT ![p].at = "failed"]
  /\ UNCHANGED <<linkVars, pollVars, row, env, posted, req, feed, told, faults>>

SignAndPost(p) ==
  LET i == page[p].of
  IN  /\ page[p].at = "signing" /\ env[i].fate = "built"
      /\ env' = [env EXCEPT ![i].fate = "signed"]
      /\ posted' = posted \cup {i}
      /\ page' = [page EXCEPT ![p].at = "submitting"]
      /\ UNCHANGED <<linkVars, pollVars, row, req, feed, told, faults>>

WalletRejects(p) ==
  /\ page[p].at = "signing"
  /\ page' = [page EXCEPT ![p].at = "rejected"]
  /\ UNCHANGED <<linkVars, pollVars, row, env, posted, req, feed, told, faults>>

\* The 15 seconds of ApiClient.request, or an unreachable API; an aborted connection
\* is shown like a rejection in the wallet ("No payment was sent").
RequestFails(p) ==
  /\ page[p].at = "submitting"
  /\ \E at \in {"failed", "rejected"} : page' = [page EXCEPT ![p].at = at]
  /\ UNCHANGED <<linkVars, pollVars, row, env, posted, req, feed, told, faults>>

TryAgain(p) ==
  /\ page[p].at \in {"failed", "rejected"}
  /\ page' = [page EXCEPT ![p] = [at |-> "ready", of |-> None]]
  /\ UNCHANGED <<linkVars, pollVars, row, env, posted, req, feed, told, faults>>

\* Any answer to the submission is taken for a payment: no action uses it.
ShowsAny(answer) == "success"

\* What a page makes of an answer: only the status SUCCEEDED is a success.
Shows(answer) == IF answer = "SUCCEEDED" THEN "success" ELSE "failed"

\* A page that still waits for intent i gets the answer.
Answer(i, answer) ==
  page' = [p \in Page |-> IF page[p] = [at |-> "submitting", of |-> i]
                          THEN [page[p] EXCEPT !.at = Shows(answer)] ELSE page[p]]

-----------------------------------------------------------------------------
(* CheckoutService.submitSigned, and onPaymentSucceeded for a link.         *)

At(h, stage) == req[h].at = stage
Goes(h, stage) == req' = [req EXCEPT ![h].at = stage]
Ends(h) == req' = [req EXCEPT ![h] = IdleReq]

\* A post is served, or served again; the conditional update takes PENDING only.
Claim(h, i) ==
  /\ At(h, "idle") /\ i \in posted /\ row[i] = "PENDING"
  /\ row' = [row EXCEPT ![i] = "SUBMITTED"]
  /\ req' = [req EXCEPT ![h] = [IdleReq EXCEPT !.at = "calling", !.of = i]]
  /\ UNCHANGED <<linkVars, pollVars, page, env, posted, feed, told, faults>>

ClaimRefused(i) ==
  /\ i \in posted /\ row[i] \in {"SUBMITTED", "SUCCEEDED"}
  /\ Answer(i, "already submitted")
  /\ UNCHANGED <<linkVars, pollVars, row, env, posted, req, feed, told, faults>>

\* submitSignedTransaction: the envelope reaches the network, once or again.
ReachesNetwork(h) ==
  /\ At(h, "calling") /\ env[req[h].of].fate = "signed"
  /\ env' = [env EXCEPT ![req[h].of].fate = "queued"]
  /\ UNCHANGED <<linkVars, pollVars, page, row, posted, req, feed, told, faults>>

\* Horizon answers with the result of the ledger, to a repeated submission too.
NetworkAccepts(h) ==
  /\ At(h, "calling") /\ env[req[h].of].fate = "applied"
  /\ Goes(h, "accepted")
  /\ UNCHANGED <<linkVars, pollVars, page, row, env, posted, feed, told, faults>>

\* Whatever became of the envelope.
NetworkThrows(h) ==
  /\ At(h, "calling")
  /\ Goes(h, "threw")
  /\ UNCHANGED <<linkVars, pollVars, page, row, env, posted, feed, told, faults>>

GiveBack(h) ==
  LET i == req[h].of
  IN  /\ At(h, "threw")
      /\ row' = [row EXCEPT ![i] = IF row[i] = "SUBMITTED" THEN "PENDING" ELSE row[i]]
      /\ Ends(h) /\ Answer(i, "error")
      /\ UNCHANGED <<linkVars, pollVars, env, posted, feed, told, faults>>

PersistSuccess(h) ==
  LET i == req[h].of
  IN  /\ At(h, "accepted") /\ ~HashStored(i)
      /\ row' = [row EXCEPT ![i] = "SUCCEEDED"]
      /\ Goes(h, "reconcile")
      /\ UNCHANGED <<linkVars, pollVars, page, env, posted, feed, told, faults>>

\* The listener stored the hash first: the update throws and the request with it.
PersistThrows(h) ==
  LET i == req[h].of
  IN  /\ At(h, "accepted") /\ HashStored(i)
      /\ Ends(h) /\ Answer(i, "error")
      /\ UNCHANGED <<linkVars, pollVars, row, env, posted, feed, told, faults>>

\* reconcilePaymentLinkPayment reads the link; one that is not ACTIVE is left alone.
ReadLink(h) ==
  /\ At(h, "reconcile")
  /\ IF link.status = "ACTIVE"
       THEN /\ req' = [req EXCEPT ![h] = [at |-> "update", of |-> @.of, read |-> link.collected]]
            /\ overlapped' = (overlapped \/ \E g \in Handler : At(g, "update"))
            /\ UNCHANGED page
       ELSE Ends(h) /\ Answer(req[h].of, "SUCCEEDED") /\ UNCHANGED overlapped
  /\ UNCHANGED <<link, expired, pollVars, row, env, posted, feed, told, faults>>

\* The count is forgotten: no action uses it.
CreditedTotalOnly(h) == [link EXCEPT !.collected = req[h].read + 1]

\* The count is incremented in the database, the total is what was read plus the amount.
Credited(h) ==
  [status |-> link.status, payments |-> link.payments + 1, collected |-> req[h].read + 1]

UpdateLink(h) ==
  /\ At(h, "update")
  /\ link' = Credited(h)
  /\ Goes(h, "notify")
  /\ UNCHANGED <<expired, overlapped, pollVars, page, row, env, posted, feed, told, faults>>

NotifyMerchant(h) ==
  LET i == req[h].of
  IN  /\ At(h, "notify")
      /\ told' = [told EXCEPT ![i] = @ + 1]
      /\ Ends(h) /\ Answer(i, "SUCCEEDED")
      /\ UNCHANGED <<linkVars, pollVars, row, env, posted, feed, faults>>

\* A failing query or a restart, at any await.
RequestDies(h) ==
  /\ ~At(h, "idle") /\ Fault
  /\ Ends(h) /\ Answer(req[h].of, "error")
  /\ UNCHANGED <<linkVars, pollVars, row, env, posted, feed, told>>

-----------------------------------------------------------------------------
(* HorizonInboundService.pollMerchant and InboundReconciliationService.     *)

Stage(t, at) == tick[t].at = at
Record(t) == feed[tick[t].pos + 1]

\* On to the next record of the page.
Passes(t) ==
  LET pos == tick[t].pos + 1
      at == IF pos = tick[t].last THEN "save" ELSE "event"
  IN  tick' = [tick EXCEPT ![t] = [at |-> at, pos |-> pos, last |-> tick[t].last]]

PollStarts(t) ==
  /\ Stage(t, "idle")
  /\ tick' = [tick EXCEPT ![t] = [at |-> "fetch", pos |-> cursor, last |-> cursor]]
  /\ UNCHANGED <<linkVars, payVars, feed, cursor, recorded, credited, lost, told, faults>>

\* The page after the cursor that was read; an empty page ends the poll.
PollFetches(t) ==
  LET end == tick[t].pos + PageLimit
      last == IF end < Len(feed) THEN end ELSE Len(feed)
  IN  /\ Stage(t, "fetch")
      /\ tick' = [tick EXCEPT ![t] = IF last = tick[t].pos THEN IdleTick
                                     ELSE [at |-> "event", pos |-> @.pos, last |-> last]]
      /\ UNCHANGED <<linkVars, payVars, feed, cursor, recorded, credited, lost, told, faults>>

\* The unique insert of the ChainEvent.
ClaimEvent(t) ==
  /\ Stage(t, "event")
  /\ IF Record(t) \in recorded THEN Passes(t) /\ UNCHANGED recorded
     ELSE /\ recorded' = recorded \cup {Record(t)}
          /\ tick' = [tick EXCEPT ![t].at = "credit"]
  /\ UNCHANGED <<linkVars, payVars, feed, cursor, credited, lost, told, faults>>

\* A payment whose hash a record holds is skipped, by the query or by the unique index.
CreditRecord(t) ==
  /\ Stage(t, "credit")
  /\ IF HashStored(Record(t)) THEN Passes(t) /\ UNCHANGED credited
     ELSE /\ credited' = credited \cup {Record(t)}
          /\ tick' = [tick EXCEPT ![t].at = "notify"]
  /\ UNCHANGED <<linkVars, payVars, feed, cursor, recorded, lost, told, faults>>

NotifyReceived(t) ==
  /\ Stage(t, "notify")
  /\ told' = [told EXCEPT ![Record(t)] = @ + 1]
  /\ Passes(t)
  /\ UNCHANGED <<linkVars, payVars, feed, cursor, recorded, credited, lost, faults>>

\* pollMerchant catches the error of a record and goes on.
RecordFails(t) ==
  /\ tick[t].at \in {"event", "credit", "notify"} /\ Fault
  /\ lost' = lost \cup {Record(t)}
  /\ Passes(t)
  /\ UNCHANGED <<linkVars, payVars, feed, cursor, recorded, credited, told>>

\* The cursor is the end of the feed as it is now: no action uses it.
NextCursorLatest(t) == Len(feed)

\* The cursor is the end of the page this poll read.
NextCursor(t) == tick[t].last

SaveCursor(t) ==
  /\ Stage(t, "save")
  /\ cursor' = NextCursor(t)
  /\ tick' = [tick EXCEPT ![t] = IdleTick]
  /\ UNCHANGED <<linkVars, payVars, feed, recorded, credited, lost, told, faults>>

\* Redis or Horizon fails, or the process stops.
PollStops(t) ==
  /\ ~Stage(t, "idle") /\ Fault
  /\ lost' = IF tick[t].at \in {"credit", "notify"} THEN lost \cup {Record(t)} ELSE lost
  /\ tick' = [tick EXCEPT ![t] = IdleTick]
  /\ UNCHANGED <<linkVars, payVars, feed, cursor, recorded, credited, told>>

-----------------------------------------------------------------------------
PageStep(p) ==
  \/ LoadPage(p) \/ PayRefused(p) \/ SignAndPost(p) \/ WalletRejects(p)
  \/ RequestFails(p) \/ TryAgain(p)
  \/ \E i \in Intent : PayLink(p, i)

RequestStep(h) ==
  \/ ReachesNetwork(h) \/ NetworkAccepts(h) \/ NetworkThrows(h) \/ GiveBack(h)
  \/ PersistSuccess(h) \/ PersistThrows(h) \/ ReadLink(h) \/ UpdateLink(h)
  \/ NotifyMerchant(h) \/ RequestDies(h)
  \/ \E i \in Intent : Claim(h, i)

PollStep(t) ==
  \/ PollStarts(t) \/ PollFetches(t) \/ ClaimEvent(t) \/ CreditRecord(t)
  \/ NotifyReceived(t) \/ SaveCursor(t)

Next ==
  \/ LinkExpires \/ ExpireDue
  \/ \E p \in Page : PageStep(p)
  \/ \E h \in Handler : RequestStep(h)
  \/ \E t \in Tick : PollStep(t) \/ RecordFails(t) \/ PollStops(t)
  \/ \E i \in Intent : EnvelopeApplies(i) \/ EnvelopeDies(i) \/ ClaimRefused(i)
  \/ \E x \in Direct : DirectPayment(x)

\* The timer polls again and again, and every await of a poll returns.
Fairness == \A t \in Tick : WF_vars(PollStep(t))

Spec == Init /\ [][Next]_vars
FairSpec == Spec /\ Fairness

-----------------------------------------------------------------------------
\* The merchant hears of a payment at most once, and no payment is both a checkout's
\* success and an inbound credit: submitSigned and the listener meet the same payment
\* in any order, and only the hash they store tells them so.
MerchantHearsOnce ==
  /\ \A x \in Payment : told[x] <= 1
  /\ \A i \in Intent : ~(row[i] = "SUCCEEDED" /\ i \in credited)

\* The totals of the link are backed by payments: what is collected never exceeds what
\* was counted, nor that the payments that succeeded; and the two totals agree as long
\* as no total was read under another request's update (reconcilePaymentLinkPayment).
TotalsBacked ==
  /\ link.collected <= link.payments
  /\ link.payments <= Cardinality({i \in Intent : row[i] = "SUCCEEDED"})
  /\ ~overlapped => link.collected = link.payments

\* "Success is only shown after the server confirms the on-chain transaction succeeded"
\* (page.tsx): the payment of the intent the page paid is on the ledger, from its payer,
\* and recorded.
SuccessIsPaid ==
  \A p \in Page :
    page[p].at = "success" =>
      LET i == page[p].of
      IN  env[i].fate = "applied" /\ env[i].by = p /\ row[i] = "SUCCEEDED"

\* Whatever becomes of the page and of the request, a payment the ledger has applied is
\* recorded as the checkout's or credited by the listener, unless its own record failed:
\* the listener's cursor never passes a payment that nobody looked at.
Found(x) == x \in credited \/ (x \in Intent /\ row[x] = "SUCCEEDED")
EveryPaymentFound == \A x \in Payment : OnLedger(x) ~> (Found(x) \/ x \in lost)

\* "A successful public-checkout payment must still reconcile the merchant side"
\* (checkout.service.ts:253): a page that shows success has a merchant who was told.
SuccessIsTold ==
  \A p \in Page : page[p].at = "success" => told[page[p].of] = 1

\* "the payment was never submitted" (page.tsx:226): a page that says that no payment
\* was sent has not paid.
RejectedIsUnsent ==
  \A p \in Page : page[p].at = "rejected" => env[page[p].of].fate # "applied"

\* "Expired links must never be payable" (checkout.service.ts:58): the API carries no
\* envelope of an expired link to the network.
ExpiredNeverPaid ==
  [][expired => \A i \in Intent : env'[i].fate = "queued" => env[i].fate = "queued"]_vars
==================================================================================
