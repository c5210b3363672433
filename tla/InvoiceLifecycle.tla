----------------------------- MODULE InvoiceLifecycle ----------------------------
(***************************************************************************)
(* Invoice rows and everybody who may settle them: the public checkout    *)
(* (CheckoutService.submitSigned), inbound payments found by the Horizon   *)
(* and Soroban listeners (InboundReconciliationService.handle), the        *)
(* invoices contract (contracts/invoices/src/lib.rs) whose events the      *)
(* indexer brings back, and the merchant who cancels.                      *)
(*                                                                         *)
(* Abstractions: an amount either matches the invoice or not; a signed     *)
(* checkout envelope matches its intent (others are refused before any     *)
(* write); the submits of the contract's calls take any envelope that the  *)
(* API prepared for any invoice and any call, for they look at none;       *)
(* merchant and customer are the only parties of an on-chain invoice, and  *)
(* the customer can pay.                                                   *)
(***************************************************************************)
EXTENDS ContractCalls

CONSTANTS
  Invoice,    \* rows of Invoice
  Checkout,   \* Transaction rows made by payInvoice, paid by a classic payment
  Inbound,    \* payments sent through the payment contract without the API
  Exact,      \* those of them for the invoice's asset and amount
  For,        \* the invoice each payment names
  MaxId,      \* bound: largest contract invoice id
  None

Payment == Checkout \cup Inbound
Id == 1..MaxId

\* n tells the envelopes of one row and call apart.
Envelopes == [row : Checkout, call : {"checkout"}, n : {1}]
               \cup [row : Invoice, call : {"create", "pay", "cancel"}, n : {1, 2}]

EntryRec == [paid : BOOLEAN, cancelled : BOOLEAN]
Draft    == [row : Invoice, hash : Tx \cup {NoTx}]

ASSUME InvoiceAssumption ==
  /\ Tx \subseteq Envelopes
  /\ Checkout \cap Inbound = {}
  /\ Exact \subseteq Inbound
  /\ For \in [Payment -> Invoice]
  /\ MaxId \in Nat
  /\ None \notin Payment \cup Id \cup EntryRec \cup Draft

VARIABLES
  entry,      \* contract storage: Invoice(id), None while absent
  due,        \* "open" until the due date of the contract's invoices, then "over"
  invoice,    \* Invoice rows
  draft,      \* per request: the issue hash it writes if the call is accepted
  checkout,   \* status of the checkout's Transaction rows
  arrived,    \* inbound payments on the ledger
  recorded,   \* ChainEvent rows: payments a listener has claimed
  credited,   \* INCOMING Transaction rows, by the payment whose hash they hold
  work,       \* what requests and listeners are in the middle of
  notices     \* invoice.paid webhooks dispatched for each invoice

rowVars == <<invoice, draft, checkout, arrived, recorded, credited, work, notices>>
vars == <<entry, due, rowVars, callVars>>

Event == [topic : {"issued", "paid", "cancel"}, id : Id, tx : Tx \cup {Foreign}]
InvoiceRec == [status : {"ABSENT", "ISSUED", "PAID", "CANCELED"}, issueHash : Tx \cup {NoTx},
               id : Id \cup {None}, paidBy : Payment \cup {None}]
Work == [at : {"claimed", "reconcile"}, by : Payment] \cup [at : {"notify"}, by : Invoice]

TypeOK ==
  /\ CallsTypeOK(Event)
  /\ entry \in [Id -> EntryRec \cup {None}]
  /\ due \in {"open", "over"}
  /\ invoice \in [Invoice -> InvoiceRec]
  /\ draft \in [Handler -> Draft \cup {None}]
  /\ checkout \in [Checkout -> {"ABSENT", "PENDING", "SUBMITTED", "SUCCEEDED"}]
  /\ arrived \subseteq Inbound
  /\ recorded \subseteq Payment
  /\ credited \subseteq recorded
  /\ work \subseteq Work
  /\ notices \in [Invoice -> Nat]

Init ==
  /\ CallsInit
  /\ entry = [d \in Id |-> None]
  /\ due = "open"
  /\ invoice = [i \in Invoice |-> [status |-> "ABSENT", issueHash |-> NoTx, id |-> None, paidBy |-> None]]
  /\ draft = [h \in Handler |-> None]
  /\ checkout = [c \in Checkout |-> "ABSENT"]
  /\ arrived = {} /\ recorded = {} /\ credited = {} /\ work = {}
  /\ notices = [i \in Invoice |-> 0]

-----------------------------------------------------------------------------
(* The invoices contract.                                                   *)

Open(d) == entry[d] # None /\ ~entry[d].paid /\ ~entry[d].cancelled

\* create, pay or cancel of contract invoice d, in transaction x.
Invoke(call, d, x) ==
  \/ /\ call = "create"
     /\ \E n \in Id :
          /\ entry[n] = None /\ \A k \in 1..(n - 1) : entry[k] # None
          /\ entry' = [entry EXCEPT ![n] = [paid |-> FALSE, cancelled |-> FALSE]]
          /\ events' = Append(events, [topic |-> "issued", id |-> n, tx |-> x])
  \/ /\ call = "pay" /\ Open(d) /\ due = "open"
     /\ entry' = [entry EXCEPT ![d].paid = TRUE]
     /\ events' = Append(events, [topic |-> "paid", id |-> d, tx |-> x])
  \/ /\ call = "cancel" /\ Open(d)
     /\ entry' = [entry EXCEPT ![d].cancelled = TRUE]
     /\ events' = Append(events, [topic |-> "cancel", id |-> d, tx |-> x])

TxApplies(x) ==
  /\ Applies(x)
  /\ IF x.call = "checkout" THEN UNCHANGED <<entry, events>>
                            ELSE Invoke(x.call, invoice[x.row].id, x)
  /\ UNCHANGED <<due, rowVars>>

TxReverts(x) == Reverts(x) /\ UNCHANGED <<entry, due, rowVars>>

\* Merchant and customer call the contract without the API.
DirectCall ==
  /\ CalledDirectly
  /\ \E call \in {"create", "pay", "cancel"}, d \in Id : Invoke(call, d, Foreign)
  /\ UNCHANGED <<due, rowVars>>

DueDatePasses == due = "open" /\ due' = "over" /\ UNCHANGED <<entry, rowVars, callVars>>

\* A payer names the invoice in a payment of his own.
InboundArrives(p) ==
  /\ p \in Inbound \ arrived
  /\ invoice[For[p]].status # "ABSENT"
  /\ arrived' = arrived \cup {p}
  /\ UNCHANGED <<entry, due, callVars, invoice, checkout, recorded, credited, work, notices, draft>>

-----------------------------------------------------------------------------
(* InvoicesService and CheckoutService.                                     *)

Create(i) ==
  /\ invoice[i].status = "ABSENT"
  /\ invoice' = [invoice EXCEPT ![i].status = "ISSUED"]
  /\ UNCHANGED <<entry, due, callVars, checkout, arrived, recorded, credited, work, notices, draft>>

\* Whatever the status was.
Cancel(i) ==
  /\ invoice[i].status # "ABSENT"
  /\ invoice' = [invoice EXCEPT ![i].status = "CANCELED"]
  /\ UNCHANGED <<entry, due, callVars, checkout, arrived, recorded, credited, work, notices, draft>>

\* issueOnChain, payOnChain and cancelOnChain write nothing; they simulate the call.
PrepareCall(x) ==
  LET i == x.row
  IN  /\ \/ x.call = "create" /\ invoice[i].status # "ABSENT" /\ invoice[i].id = None
         \/ /\ x.call = "pay" /\ invoice[i].status = "ISSUED" /\ invoice[i].id # None
            /\ Open(invoice[i].id) /\ due = "open"
         \/ /\ x.call = "cancel" /\ invoice[i].status = "ISSUED" /\ invoice[i].id # None
            /\ Open(invoice[i].id)
      /\ Prepare(x)
      /\ UNCHANGED <<entry, due, rowVars>>

\* payInvoice: only an open invoice; the envelope is built, then the row inserted.
PayInvoice(x) ==
  /\ x.call = "checkout"
  /\ checkout[x.row] = "ABSENT" /\ invoice[For[x.row]].status = "ISSUED"
  /\ Prepare(x)
  /\ checkout' = [checkout EXCEPT ![x.row] = "PENDING"]
  /\ UNCHANGED <<entry, due, invoice, arrived, recorded, credited, work, notices, draft>>

\* The submits find the invoice and post the envelope they are handed, whichever
\* invoice and call it was prepared for.  submitIssueOnChain looks for the id and
\* stores the envelope's hash if it is accepted.
SubmitIssue(h, i, x) ==
  /\ x.call # "checkout"
  /\ invoice[i].status # "ABSENT" /\ invoice[i].id = None
  /\ Start(h, x)
  /\ draft' = [draft EXCEPT ![h] = [row |-> i, hash |-> x]]
  /\ UNCHANGED <<entry, due, invoice, checkout, arrived, recorded, credited, work, notices>>

\* submitCancelOnChain writes back the hash it has read.
SubmitCancel(h, i, x) ==
  /\ x.call # "checkout"
  /\ invoice[i].status # "ABSENT"
  /\ Start(h, x)
  /\ draft' = [draft EXCEPT ![h] = [row |-> i, hash |-> invoice[i].issueHash]]
  /\ UNCHANGED <<entry, due, invoice, checkout, arrived, recorded, credited, work, notices>>

\* submitPayOnChain writes nothing.
SubmitPay(h, x) ==
  /\ x.call # "checkout"
  /\ Start(h, x)
  /\ UNCHANGED <<entry, due, rowVars>>

\* submitSigned claims the row, whatever became of the invoice.
SubmitSigned(h, x) ==
  /\ x.call = "checkout"
  /\ checkout[x.row] = "PENDING"
  /\ Start(h, x)
  /\ checkout' = [checkout EXCEPT ![x.row] = "SUBMITTED"]
  /\ UNCHANGED <<entry, due, invoice, arrived, recorded, credited, work, notices, draft>>

Calls(h) == CallNetwork(h) /\ UNCHANGED <<entry, due, rowVars>>

\* The unique hash column: no second row for one payment.
HashTaken(p) == p \in credited \/ (p \in Checkout /\ checkout[p] = "SUCCEEDED")

\* Horizon answers with the included transaction; reconciliation follows.
CheckoutSucceeds(h) ==
  LET c == req[h].tx.row
  IN  /\ req[h] # Idle /\ req[h].tx.call = "checkout"
      /\ fate[req[h].tx] = "applied"
      /\ Accepted(h)
      /\ IF HashTaken(c) THEN UNCHANGED <<checkout, work>>
         ELSE /\ checkout' = [checkout EXCEPT ![c] = "SUCCEEDED"]
              /\ work' = work \cup {[at |-> "reconcile", by |-> c]}
      /\ UNCHANGED <<entry, due, invoice, arrived, recorded, credited, notices, draft>>

\* Horizon throws for a failed transaction as well: the claim is given back.
CheckoutGivenBack(h) ==
  LET c == req[h].tx.row
  IN  /\ req[h] # Idle /\ req[h].tx.call = "checkout"
      /\ Threw(h) \/ Refused(h)
      /\ checkout' = IF checkout[c] = "SUBMITTED" THEN [checkout EXCEPT ![c] = "PENDING"] ELSE checkout
      /\ UNCHANGED <<entry, due, invoice, arrived, recorded, credited, work, notices, draft>>

\* An accepted call leaves what its request set out to write; others nothing.
CallAnswered(h) ==
  /\ req[h] # Idle /\ req[h].tx.call # "checkout"
  /\ \/ Accepted(h) /\ invoice' = IF draft[h] = None THEN invoice
                                   ELSE [invoice EXCEPT ![draft[h].row].issueHash = draft[h].hash]
     \/ (Threw(h) \/ Refused(h)) /\ UNCHANGED invoice
  /\ draft' = [draft EXCEPT ![h] = None]
  /\ UNCHANGED <<entry, due, checkout, arrived, recorded, credited, work, notices>>

HandlerDies(h) ==
  /\ Dies(h)
  /\ draft' = [draft EXCEPT ![h] = None]
  /\ UNCHANGED <<entry, due, invoice, checkout, arrived, recorded, credited, work, notices>>

-----------------------------------------------------------------------------
(* InboundReconciliationService.handle, fed by Horizon (classic payments,
   without their memo) and by the payment contract's events (with it).       *)

OnLedger(p) == \/ p \in arrived
               \/ \E x \in Tx : x.row = p /\ fate[x] = "applied"

\* The ChainEvent insert: a payment is claimed once.
Record(p) == recorded' = recorded \cup {p}

InboundClaim(p) ==
  /\ OnLedger(p)
  /\ p \notin recorded
  /\ Record(p)
  /\ work' = work \cup {[at |-> "claimed", by |-> p]}
  /\ UNCHANGED <<entry, due, callVars, invoice, checkout, arrived, credited, notices, draft>>

\* The memo is that of an open invoice with this amount.  (Mutant: the memo alone.)
MatchesMemo(p) == invoice[For[p]].status = "ISSUED"
Matches(p) == p \in Exact /\ invoice[For[p]].status = "ISSUED"

InboundCredit(w) ==
  /\ w.at = "claimed"
  /\ IF HashTaken(w.by) THEN work' = work \ {w} /\ UNCHANGED credited
     ELSE /\ credited' = credited \cup {w.by}
          /\ work' = (work \ {w}) \cup
               (IF Matches(w.by) THEN {[at |-> "reconcile", by |-> w.by]} ELSE {})
  /\ UNCHANGED <<entry, due, callVars, invoice, checkout, arrived, recorded, notices, draft>>

\* reconcileInvoicePayment: only the first reconciler wins.
\* (Mutant: the update by id alone.)
PayableBlind(i) == TRUE
Payable(i) == invoice[i].status = "ISSUED"

Reconcile(w) ==
  LET i == For[w.by]
  IN  /\ w.at = "reconcile"
      /\ IF Payable(i)
         THEN /\ invoice' = [invoice EXCEPT ![i].status = "PAID", ![i].paidBy = w.by]
              /\ work' = (work \ {w}) \cup {[at |-> "notify", by |-> i]}
         ELSE work' = work \ {w} /\ UNCHANGED invoice
      /\ UNCHANGED <<entry, due, callVars, checkout, arrived, recorded, credited, notices, draft>>

NotifyPaid(w) ==
  /\ w.at = "notify"
  /\ notices' = [notices EXCEPT ![w.by] = @ + 1]
  /\ work' = work \ {w}
  /\ UNCHANGED <<entry, due, callVars, invoice, checkout, arrived, recorded, credited, draft>>

\* The process stops, or a query fails, at any of these awaits.
WorkLost(w) ==
  /\ Upset("died")
  /\ work' = work \ {w}
  /\ UNCHANGED <<entry, due, fate, events, seen, req, invoice, checkout, arrived, recorded, credited, notices, draft>>

-----------------------------------------------------------------------------
(* ContractReconciliationService.                                           *)

\* (Mutant: only calls that went through the API.)
PaidThroughApi(i, e) == invoice[i].id = e.id /\ invoice[i].status = "ISSUED" /\ e.tx # Foreign
Settled(i, e) == invoice[i].id = e.id /\ invoice[i].status = "ISSUED"

\* The invoice whose issue an event confirms.  onChainId is unique: when the hash is
\* in two rows, or the id in another one, the update throws and changes nothing.
\* (Mutant: no unique column.)
Unlinked(i, e) == invoice[i].issueHash = e.tx /\ invoice[i].id = None
LinksEvery(i, e) == Unlinked(i, e)
Links(i, e) == Unlinked(i, e) /\ \A j \in Invoice \ {i} : ~Unlinked(j, e) /\ invoice[j].id # e.id

ReconcileOne(k) ==
  LET e == events[k]
  IN  /\ Delivered(k)
      /\ \/ /\ e.topic = "issued"
            /\ invoice' = [i \in Invoice |-> IF Links(i, e)
                                             THEN [invoice[i] EXCEPT !.id = e.id] ELSE invoice[i]]
            /\ UNCHANGED work
         \/ /\ e.topic = "paid"
            /\ invoice' = [i \in Invoice |-> IF Settled(i, e)
                                             THEN [invoice[i] EXCEPT !.status = "PAID"] ELSE invoice[i]]
            /\ work' = work \cup {[at |-> "notify", by |-> i] : i \in {j \in Invoice : Settled(j, e)}}
         \/ /\ e.topic = "cancel"
            /\ invoice' = [i \in Invoice |-> IF Settled(i, e)
                                             THEN [invoice[i] EXCEPT !.status = "CANCELED"] ELSE invoice[i]]
            /\ UNCHANGED work
      /\ UNCHANGED <<entry, due, checkout, arrived, recorded, credited, notices, draft>>

EventDropped(k) == Dropped(k) /\ UNCHANGED <<entry, due, rowVars>>

Next ==
  \/ DirectCall \/ DueDatePasses
  \/ \E x \in Tx : TxApplies(x) \/ TxReverts(x) \/ PrepareCall(x) \/ PayInvoice(x)
  \/ \E p \in Payment : InboundArrives(p) \/ InboundClaim(p)
  \/ \E i \in Invoice : Create(i) \/ Cancel(i)
  \/ \E h \in Handler, x \in Tx : \/ SubmitPay(h, x) \/ SubmitSigned(h, x)
                                 \/ \E i \in Invoice : SubmitIssue(h, i, x) \/ SubmitCancel(h, i, x)
  \/ \E h \in Handler : \/ Calls(h) \/ CallAnswered(h) \/ CheckoutSucceeds(h)
                        \/ CheckoutGivenBack(h) \/ HandlerDies(h)
  \/ \E w \in work : InboundCredit(w) \/ Reconcile(w) \/ NotifyPaid(w) \/ WorkLost(w)
  \/ \E k \in DOMAIN events : ReconcileOne(k) \/ EventDropped(k)

Spec == Init /\ [][Next]_vars

-----------------------------------------------------------------------------
(* A PAID invoice was paid: by the payment it names, which is on the ledger
   for this invoice and its amount and which the platform holds once, or by the
   customer in the contract.  An id is that of an entry which an envelope that went
   through the API made, and of no other row, although any envelope may be submitted
   for any row and the hash is stored after the event.                       *)
PaidOnEvidence ==
  \A i \in Invoice :
    /\ invoice[i].status = "PAID" =>
         IF invoice[i].paidBy = None
         THEN invoice[i].id # None /\ entry[invoice[i].id].paid
         ELSE /\ OnLedger(invoice[i].paidBy) /\ For[invoice[i].paidBy] = i
              /\ invoice[i].paidBy \in Checkout \cup Exact
    /\ invoice[i].id # None =>
         /\ \E k \in DOMAIN events : /\ events[k].topic = "issued" /\ events[k].id = invoice[i].id
                                     /\ events[k].tx # Foreign
         /\ \A j \in Invoice \ {i} : invoice[j].id # invoice[i].id

(* contract-reconciliation.service.ts:245, "The ONLY path to PAID for an on-chain
   invoice is this on-chain event".  Not true: a checkout or an inbound payment
   settles such an invoice as well, and its entry stays open in the contract. *)
OnlyEventPays ==
  [][\A i \in Invoice :
       invoice[i].id # None /\ invoice[i].status # "PAID" /\ invoice'[i].status = "PAID" =>
         entry[invoice[i].id].paid]_vars

(* "two payments racing for the same invoice cannot fire double notifications"
   (transaction-reconciliation.service.ts:121-123): three writers, checkouts,
   listeners and the contract's events, tell the merchant once at most; and no
   payment is both a successful checkout and an inbound credit.              *)
ToldOnce ==
  /\ \A i \in Invoice :
       notices[i] + Cardinality({w \in work : w.at = "notify" /\ w.by = i}) <= 1
  /\ \A c \in Checkout : ~(c \in credited /\ checkout[c] = "SUCCEEDED")

(* As long as no event is dropped or handed over again, an invoice linked to
   its contract entry is closed once the indexer has met the entry's payment or
   cancellation, whoever called the contract.                                *)
OutcomeShown ==
  NoEventLost =>
    \A i \in Invoice, k \in 1..seen :
      events[k].id = invoice[i].id /\ events[k].topic # "issued" =>
        invoice[i].status \in {"PAID", "CANCELED"}
=================================================================================
