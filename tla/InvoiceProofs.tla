------------------------------ MODULE InvoiceProofs -----------------------------
(***************************************************************************)
(* Proofs about InvoiceLifecycle: the types, and the three properties of   *)
(* its run, from one inductive invariant (InvoiceInv) whose parts are      *)
(*   Requests, Prepared, Claimed  what requests and claims hold in hand;   *)
(*   Log       what the contract's events say of its entries;              *)
(*   Drafts    what a request sets out to write is for a row that exists;  *)
(*   Linked    where the hash and the id of a row come from;               *)
(*   Paying    who pays, or is about to, is on the ledger for the invoice; *)
(*   Telling   an invoice is announced by the one who settled it;          *)
(* and OutcomeShown itself.                                                *)
(***************************************************************************)
EXTENDS InvoiceLifecycle, FiniteSetTheorems, TLAPS

(* The parts of the inductive invariant that speak of the calls.            *)
\* A busy request submits an envelope that was prepared.
Requests ==
  \A h \in Handler : req[h].at # "idle" => req[h].tx \in Tx /\ fate[req[h].tx] # "none"

\* A prepared call is of a row that exists; pay and cancel are of a linked one.
Prepared ==
  \A x \in Tx : fate[x] # "none" /\ x.call # "checkout" =>
    /\ invoice[x.row].status # "ABSENT"
    /\ x.call # "create" => invoice[x.row].id # None

LEMMA TxRow ==
  ASSUME NEW x \in Tx
  PROVE  /\ x.call = "checkout" => x.row \in Checkout
         /\ x.call # "checkout" => x.row \in Invoice /\ x.call \in {"create", "pay", "cancel"}
  BY InvoiceAssumption DEF Envelopes

LEMMA WorkBy ==
  ASSUME TypeOK, NEW w \in work
  PROVE  /\ w.at \in {"claimed", "reconcile"} => w.by \in Payment
         /\ w.at = "notify" => w.by \in Invoice /\ w = [at |-> "notify", by |-> w.by]
         /\ w.at \in {"claimed", "reconcile", "notify"}
  BY DEF TypeOK, Work

(* What an invocation of the contract leaves behind: one event, of an entry that
   is there, and nothing of the older entries undone.                       *)
Invoked(x) ==
  \E e \in Event :
    /\ events' = Append(events, e) /\ e.tx = x
    /\ entry'[e.id] # None
    /\ e.topic = "paid" => entry'[e.id].paid
    /\ e.topic = "issued" => entry[e.id] = None
    /\ \A d \in Id : entry[d] # None => entry'[d] # None /\ (entry[d].paid => entry'[d].paid)

LEMMA EntryTyped == TypeOK => entry \in [Id -> EntryRec \cup {None}]
  BY DEF TypeOK

LEMMA CreateEffects ==
  ASSUME TypeOK, NEW d, NEW x \in Tx \cup {Foreign}, Invoke("create", d, x)
  PROVE  entry' \in [Id -> EntryRec \cup {None}] /\ Invoked(x)
  <1>1. PICK n \in Id :
          /\ entry[n] = None
          /\ entry' = [entry EXCEPT ![n] = [paid |-> FALSE, cancelled |-> FALSE]]
          /\ events' = Append(events, [topic |-> "issued", id |-> n, tx |-> x])
    BY DEF Invoke
  <1> DEFINE e == [topic |-> "issued", id |-> n, tx |-> x]
             fresh == [paid |-> FALSE, cancelled |-> FALSE]
  <1>2. e \in Event /\ e.topic = "issued" /\ e.id = n /\ e.tx = x
    BY DEF Event
  <1>3. fresh \in EntryRec /\ fresh # None
    <2>1. fresh \in EntryRec
      BY DEF EntryRec
    <2>2. QED
      BY <2>1, InvoiceAssumption
  <1> HIDE DEF e, fresh
  <1>4. /\ entry' \in [Id -> EntryRec \cup {None}]
        /\ entry'[n] = fresh /\ \A d1 \in Id : d1 # n => entry'[d1] = entry[d1]
    BY <1>1, <1>3, EntryTyped DEF fresh
  <1>5. events' = Append(events, e)
    BY <1>1 DEF e
  <1>6. QED
    BY <1>1, <1>2, <1>3, <1>4, <1>5 DEF Invoked

LEMMA CloseEffects ==
  ASSUME TypeOK, NEW call \in {"pay", "cancel"}, NEW d \in Id,
         NEW x \in Tx \cup {Foreign}, Invoke(call, d, x)
  PROVE  entry' \in [Id -> EntryRec \cup {None}] /\ Invoked(x)
  <1> DEFINE topic == IF call = "pay" THEN "paid" ELSE "cancel"
             e == [topic |-> topic, id |-> d, tx |-> x]
  <1>1. entry[d] # None /\ entry[d] \in EntryRec
    BY EntryTyped DEF Invoke, Open
  <1>2. \/ call = "pay" /\ entry' = [entry EXCEPT ![d].paid = TRUE]
        \/ call = "cancel" /\ entry' = [entry EXCEPT ![d].cancelled = TRUE]
    BY DEF Invoke
  <1>3. events' = Append(events, e)
    BY DEF Invoke
  <1>4. e \in Event /\ e.topic = topic /\ e.id = d /\ e.tx = x
    BY DEF Event
  <1>5. /\ entry'[d] \in EntryRec /\ (entry[d].paid => entry'[d].paid)
        /\ call = "pay" => entry'[d].paid
        /\ \A d1 \in Id : d1 # d => entry'[d1] = entry[d1]
    BY <1>1, <1>2, EntryTyped DEF EntryRec
  <1>6. entry' \in [Id -> EntryRec \cup {None}]
    BY <1>2, <1>5, EntryTyped
  <1>7. entry'[d] # None
    BY <1>5, InvoiceAssumption
  <1>8. topic # "issued" /\ (topic = "paid" => call = "pay")
    OBVIOUS
  <1> HIDE DEF e, topic
  <1>9. QED
    BY <1>3, <1>4, <1>5, <1>6, <1>7, <1>8 DEF Invoked

LEMMA DirectEffects ==
  ASSUME TypeOK, DirectCall
  PROVE  entry' \in [Id -> EntryRec \cup {None}] /\ Invoked(Foreign)
  <1>1. PICK call \in {"create", "pay", "cancel"}, d \in Id : Invoke(call, d, Foreign)
    BY DEF DirectCall
  <1>2. QED
    BY <1>1, CreateEffects, CloseEffects

LEMMA ApplyEffects ==
  ASSUME TypeOK, Prepared, NEW x \in Tx, TxApplies(x), x.call # "checkout"
  PROVE  entry' \in [Id -> EntryRec \cup {None}] /\ Invoked(x)
  <1>1. Invoke(x.call, invoice[x.row].id, x) /\ fate[x] = "queued"
    BY DEF TxApplies, Applies
  <1>2. x.call # "create" => invoice[x.row].id \in Id
    BY <1>1, TxRow DEF Prepared, TypeOK, InvoiceRec
  <1>3. CASE x.call = "create"
    BY <1>1, <1>3, CreateEffects
  <1>4. CASE x.call \in {"pay", "cancel"}
    BY <1>1, <1>2, <1>4, CloseEffects
  <1>5. QED
    BY <1>3, <1>4, TxRow

-----------------------------------------------------------------------------
(* Types.                                                                   *)
LEMMA UpsetTyped ==
  ASSUME CallsTypeOK(Event), NEW kind \in {"again", "dropped", "died"}, Upset(kind)
  PROVE  upsets' \in [UpsetKind -> 0..(MaxForeign + MaxUpsets)]
  <1>1. /\ upsets["again"] \in Nat /\ upsets["dropped"] \in Nat /\ upsets["died"] \in Nat
        /\ upsets \in [UpsetKind -> 0..(MaxForeign + MaxUpsets)]
    BY CallsAssumption DEF CallsTypeOK, UpsetKind
  <1>2. upsets[kind] + 1 \in 0..(MaxForeign + MaxUpsets)
    BY <1>1, CallsAssumption DEF Upset, UpsetTotal
  <1>3. QED
    BY <1>1, <1>2 DEF Upset

LEMMA ForeignTyped ==
  ASSUME CallsTypeOK(Event), CalledDirectly
  PROVE  upsets' \in [UpsetKind -> 0..(MaxForeign + MaxUpsets)]
  <1>1. upsets["foreign"] + 1 \in 0..(MaxForeign + MaxUpsets)
    BY CallsAssumption DEF CallsTypeOK, UpsetKind, CalledDirectly
  <1>2. QED
    BY <1>1 DEF CallsTypeOK, CalledDirectly

LEMMA PrepareTyped ==
  ASSUME CallsTypeOK(Event), NEW x \in Tx, Prepare(x) \/ Reverts(x)
  PROVE  CallsTypeOK(Event)'
  BY DEF CallsTypeOK, Prepare, Reverts, Fate

LEMMA StartTyped ==
  ASSUME CallsTypeOK(Event), NEW h \in Handler, NEW x \in Tx, Start(h, x)
  PROVE  CallsTypeOK(Event)'
  BY DEF CallsTypeOK, Start

LEMMA NetworkTyped ==
  ASSUME CallsTypeOK(Event), NEW h \in Handler, CallNetwork(h)
  PROVE  CallsTypeOK(Event)'
  <1>1. fate' \in [Tx -> Fate]
    BY DEF CallsTypeOK, CallNetwork, Fate
  <1>2. req' \in [Handler -> [at : {"idle", "calling", "waiting", "threw"}, tx : Tx \cup {NoTx}]]
    BY DEF CallsTypeOK, CallNetwork
  <1>3. QED
    BY <1>1, <1>2 DEF CallsTypeOK, CallNetwork

LEMMA DoneTyped ==
  ASSUME CallsTypeOK(Event), NEW h \in Handler, Done(h)
  PROVE  CallsTypeOK(Event)'
  BY DEF CallsTypeOK, Done, Idle

LEMMA DiesTyped ==
  ASSUME CallsTypeOK(Event), NEW h \in Handler, Dies(h)
  PROVE  CallsTypeOK(Event)'
  <1>1. upsets' \in [UpsetKind -> 0..(MaxForeign + MaxUpsets)]
    BY UpsetTyped DEF Dies
  <1>2. req' \in [Handler -> [at : {"idle", "calling", "waiting", "threw"}, tx : Tx \cup {NoTx}]]
    BY DEF CallsTypeOK, Dies, Idle
  <1>3. QED
    BY <1>1, <1>2 DEF CallsTypeOK, Dies

LEMMA MetTyped ==
  ASSUME CallsTypeOK(Event), NEW k \in DOMAIN events, Delivered(k) \/ Dropped(k)
  PROVE  CallsTypeOK(Event)'
  <1>1. upsets' \in [UpsetKind -> 0..(MaxForeign + MaxUpsets)]
    BY UpsetTyped DEF Delivered, Dropped, CallsTypeOK
  <1>2. seen' \in 0..Len(events)
    BY DEF CallsTypeOK, Delivered, Dropped, First
  <1>3. QED
    BY <1>1, <1>2 DEF CallsTypeOK, Delivered, Dropped

LEMMA EventTyped ==
  ASSUME CallsTypeOK(Event)
  PROVE  \A k \in DOMAIN events : events[k] \in Event
  BY DEF CallsTypeOK

LEMMA InvokedTyped ==
  ASSUME CallsTypeOK(Event), NEW x, Invoked(x)
  PROVE  events' \in Seq(Event) /\ Len(events') = Len(events) + 1
  BY DEF CallsTypeOK, Invoked

\* A claimed payment has its ChainEvent.
Claimed == \A w \in work : w.at = "claimed" => w.by \in recorded

(* What an accepted call writes: the hash of one row, or nothing.           *)
LEMMA DraftWritten ==
  ASSUME TypeOK, NEW h \in Handler, CallAnswered(h)
  PROVE  /\ invoice' \in [Invoice -> InvoiceRec]
         /\ \A i \in Invoice :
              /\ invoice'[i].status = invoice[i].status
              /\ invoice'[i].id = invoice[i].id
              /\ invoice'[i].paidBy = invoice[i].paidBy
              /\ \/ invoice'[i].issueHash = invoice[i].issueHash
                 \/ draft[h] # None /\ i = draft[h].row /\ invoice'[i].issueHash = draft[h].hash
  <1>1. CASE invoice' = invoice
    BY <1>1 DEF TypeOK
  <1>2. CASE invoice' # invoice
    <2>1. draft[h] \in Draft /\ draft[h] # None
      BY <1>2 DEF CallAnswered, TypeOK
    <2>2. PICK j \in Invoice, y \in Tx \cup {NoTx} :
            /\ j = draft[h].row /\ y = draft[h].hash
            /\ invoice' = [invoice EXCEPT ![j].issueHash = y]
      BY <1>2, <2>1 DEF CallAnswered, Draft
    <2>3. [invoice[j] EXCEPT !.issueHash = y] \in InvoiceRec
      BY DEF TypeOK, InvoiceRec
    <2>4. /\ \A i \in Invoice : i # j => invoice'[i] = invoice[i]
          /\ invoice'[j] = [invoice[j] EXCEPT !.issueHash = y]
          /\ invoice' \in [Invoice -> InvoiceRec]
      BY <2>2, <2>3 DEF TypeOK
    <2>5. QED
      BY <2>1, <2>2, <2>4 DEF TypeOK, InvoiceRec
  <1>3. QED
    BY <1>1, <1>2

LEMMA StepTyped == TypeOK /\ Requests /\ Prepared /\ Claimed /\ [Next]_vars => TypeOK'
  <1> SUFFICES ASSUME TypeOK, Requests, Prepared, Claimed, [Next]_vars PROVE TypeOK'
    OBVIOUS
  <1>1. CASE UNCHANGED <<entry, due, rowVars, callVars>>
    BY <1>1 DEF rowVars, callVars, TypeOK, CallsTypeOK
  <1>2. ASSUME DirectCall PROVE TypeOK'
    <2>1. CallsTypeOK(Event)'
      BY <1>2, ForeignTyped, InvokedTyped, DirectEffects DEF DirectCall, CalledDirectly,
        CallsTypeOK, TypeOK
    <2>2. entry' \in [Id -> EntryRec \cup {None}]
      BY <1>2, DirectEffects
    <2>3. QED
      BY <1>2, <2>1, <2>2 DEF DirectCall, rowVars, callVars, TypeOK
  <1>3. ASSUME DueDatePasses PROVE TypeOK'
    <2>1. due' \in {"open", "over"}
      BY <1>3 DEF DueDatePasses
    <2>2. CallsTypeOK(Event)'
      BY <1>3 DEF DueDatePasses, callVars, CallsTypeOK, TypeOK
    <2>3. QED
      BY <1>3, <2>1, <2>2 DEF DueDatePasses, rowVars, callVars, TypeOK
  <1>4. ASSUME NEW x \in Tx, TxApplies(x) PROVE TypeOK'
    <2>1. fate' \in [Tx -> Fate] /\ seen' = seen /\ req' = req /\ upsets' = upsets
      BY <1>4 DEF TxApplies, Applies, TypeOK, CallsTypeOK, Fate
    <2>2. CASE x.call = "checkout"
      BY <1>4, <2>1, <2>2 DEF TxApplies, rowVars, TypeOK, CallsTypeOK
    <2>3. CASE x.call # "checkout"
      <3>1. entry' \in [Id -> EntryRec \cup {None}] /\ Invoked(x)
        BY <1>4, <2>3, ApplyEffects
      <3>2. events' \in Seq(Event) /\ Len(events') = Len(events) + 1
        BY <3>1, InvokedTyped DEF TypeOK
      <3>3. CallsTypeOK(Event)'
        BY <2>1, <3>2 DEF TypeOK, CallsTypeOK
      <3>4. QED
        BY <1>4, <3>1, <3>3 DEF TxApplies, rowVars, TypeOK
    <2>4. QED
      BY <2>2, <2>3
  <1>5. ASSUME NEW x \in Tx, TxReverts(x) PROVE TypeOK'
    <2>1. CallsTypeOK(Event)'
      BY <1>5, PrepareTyped DEF TxReverts, TypeOK
    <2>2. QED
      BY <1>5, <2>1 DEF TxReverts, rowVars, callVars, TypeOK
  <1>6. ASSUME NEW x \in Tx, PrepareCall(x) PROVE TypeOK'
    <2>1. CallsTypeOK(Event)'
      BY <1>6, PrepareTyped DEF PrepareCall, TypeOK
    <2>2. QED
      BY <1>6, <2>1 DEF PrepareCall, rowVars, callVars, TypeOK
  <1>7. ASSUME NEW x \in Tx, PayInvoice(x) PROVE TypeOK'
    <2>1. CallsTypeOK(Event)'
      BY <1>7, PrepareTyped DEF PayInvoice, TypeOK
    <2>2. checkout' \in [Checkout -> {"ABSENT", "PENDING", "SUBMITTED", "SUCCEEDED"}]
      BY <1>7 DEF PayInvoice, TypeOK
    <2>3. QED
      BY <1>7, <2>1, <2>2 DEF PayInvoice, rowVars, callVars, TypeOK
  <1>8. ASSUME NEW p \in Payment, InboundArrives(p) PROVE TypeOK'
    <2>1. arrived' \subseteq Inbound
      BY <1>8 DEF InboundArrives, TypeOK
    <2>2. QED
      BY <1>8, <2>1 DEF InboundArrives, rowVars, callVars, TypeOK, CallsTypeOK
  <1>9. ASSUME NEW p \in Payment, InboundClaim(p) PROVE TypeOK'
    <2>1. recorded' \subseteq Payment
      BY <1>9 DEF InboundClaim, Record, TypeOK
    <2>2. work' \subseteq Work
      BY <1>9 DEF InboundClaim, TypeOK, Work
    <2>3. credited' \subseteq recorded'
      BY <1>9 DEF InboundClaim, Record, TypeOK
    <2>4. QED
      BY <1>9, <2>1, <2>2, <2>3 DEF InboundClaim, rowVars, callVars, TypeOK, CallsTypeOK
  <1>10. ASSUME NEW i \in Invoice, Create(i) PROVE TypeOK'
    <2>1. invoice' \in [Invoice -> InvoiceRec]
      BY <1>10 DEF Create, TypeOK, InvoiceRec
    <2>2. QED
      BY <1>10, <2>1 DEF Create, rowVars, callVars, TypeOK, CallsTypeOK
  <1>11. ASSUME NEW i \in Invoice, Cancel(i) PROVE TypeOK'
    <2>1. invoice' \in [Invoice -> InvoiceRec]
      BY <1>11 DEF Cancel, TypeOK, InvoiceRec
    <2>2. QED
      BY <1>11, <2>1 DEF Cancel, rowVars, callVars, TypeOK, CallsTypeOK
  <1>12. ASSUME NEW h \in Handler, NEW x \in Tx, SubmitPay(h, x) PROVE TypeOK'
    <2>1. CallsTypeOK(Event)'
      BY <1>12, StartTyped DEF SubmitPay, TypeOK
    <2>2. QED
      BY <1>12, <2>1 DEF SubmitPay, rowVars, callVars, TypeOK
  <1>25. ASSUME NEW h \in Handler, NEW i \in Invoice, NEW x \in Tx,
                SubmitIssue(h, i, x) \/ SubmitCancel(h, i, x)
         PROVE  TypeOK'
    <2>1. CallsTypeOK(Event)'
      BY <1>25, StartTyped DEF SubmitIssue, SubmitCancel, TypeOK
    <2>2. draft' \in [Handler -> Draft \cup {None}]
      BY <1>25 DEF SubmitIssue, SubmitCancel, Draft, TypeOK, InvoiceRec
    <2>3. QED
      BY <1>25, <2>1, <2>2 DEF SubmitIssue, SubmitCancel, TypeOK
  <1>13. ASSUME NEW h \in Handler, NEW x \in Tx, SubmitSigned(h, x) PROVE TypeOK'
    <2>1. CallsTypeOK(Event)'
      BY <1>13, StartTyped DEF SubmitSigned, TypeOK
    <2>2. checkout' \in [Checkout -> {"ABSENT", "PENDING", "SUBMITTED", "SUCCEEDED"}]
      BY <1>13 DEF SubmitSigned, TypeOK
    <2>3. QED
      BY <1>13, <2>1, <2>2 DEF SubmitSigned, rowVars, callVars, TypeOK
  <1>14. ASSUME NEW h \in Handler, Calls(h) PROVE TypeOK'
    <2>1. CallsTypeOK(Event)'
      BY <1>14, NetworkTyped DEF Calls, TypeOK
    <2>2. QED
      BY <1>14, <2>1 DEF Calls, rowVars, callVars, TypeOK
  <1>15. ASSUME NEW h \in Handler, CallAnswered(h) PROVE TypeOK'
    <2>1. CallsTypeOK(Event)'
      BY <1>15, DoneTyped DEF CallAnswered, Accepted, Refused, Threw, TypeOK
    <2>2. invoice' \in [Invoice -> InvoiceRec]
      BY <1>15, DraftWritten DEF CallAnswered, TypeOK
    <2>3. draft' \in [Handler -> Draft \cup {None}]
      BY <1>15 DEF CallAnswered, TypeOK
    <2>4. QED
      BY <1>15, <2>1, <2>2, <2>3 DEF CallAnswered, TypeOK
  <1>16. ASSUME NEW h \in Handler, CheckoutSucceeds(h) PROVE TypeOK'
    <2>1. CallsTypeOK(Event)'
      BY <1>16, DoneTyped DEF CheckoutSucceeds, Accepted, TypeOK
    <2>2. checkout' \in [Checkout -> {"ABSENT", "PENDING", "SUBMITTED", "SUCCEEDED"}]
      BY <1>16 DEF CheckoutSucceeds, TypeOK
    <2>3. work' \subseteq Work
      BY <1>16, TxRow DEF CheckoutSucceeds, Accepted, Requests, TypeOK, Work, Payment
    <2>4. QED
      BY <1>16, <2>1, <2>2, <2>3 DEF CheckoutSucceeds, rowVars, callVars, TypeOK
  <1>17. ASSUME NEW h \in Handler, CheckoutGivenBack(h) PROVE TypeOK'
    <2>1. CallsTypeOK(Event)'
      BY <1>17, DoneTyped DEF CheckoutGivenBack, Refused, Threw, TypeOK
    <2>2. checkout' \in [Checkout -> {"ABSENT", "PENDING", "SUBMITTED", "SUCCEEDED"}]
      BY <1>17 DEF CheckoutGivenBack, TypeOK
    <2>3. QED
      BY <1>17, <2>1, <2>2 DEF CheckoutGivenBack, rowVars, callVars, TypeOK
  <1>18. ASSUME NEW h \in Handler, HandlerDies(h) PROVE TypeOK'
    <2>1. CallsTypeOK(Event)'
      BY <1>18, DiesTyped DEF HandlerDies, TypeOK
    <2>2. draft' \in [Handler -> Draft \cup {None}]
      BY <1>18 DEF HandlerDies, TypeOK
    <2>3. QED
      BY <1>18, <2>1, <2>2 DEF HandlerDies, TypeOK
  <1>19. ASSUME NEW w \in work, InboundCredit(w) PROVE TypeOK'
    <2>1. credited' \subseteq recorded'
      BY <1>19 DEF InboundCredit, Claimed, TypeOK
    <2>2. work' \subseteq Work
      BY <1>19, WorkBy DEF InboundCredit, TypeOK, Work
    <2>3. QED
      BY <1>19, <2>1, <2>2 DEF InboundCredit, rowVars, callVars, TypeOK, CallsTypeOK
  <1>20. ASSUME NEW w \in work, Reconcile(w) PROVE TypeOK'
    <2>1. w.at = "reconcile" /\ For[w.by] \in Invoice /\ w.by \in Payment
      BY <1>20, WorkBy, InvoiceAssumption DEF Reconcile
    <2>2. invoice' \in [Invoice -> InvoiceRec]
      BY <1>20, <2>1 DEF Reconcile, TypeOK, InvoiceRec
    <2>3. work' \subseteq Work
      BY <1>20, <2>1 DEF Reconcile, TypeOK, Work
    <2>4. QED
      BY <1>20, <2>2, <2>3 DEF Reconcile, callVars, TypeOK, CallsTypeOK
  <1>21. ASSUME NEW w \in work, NotifyPaid(w) PROVE TypeOK'
    <2>1. notices' \in [Invoice -> Nat]
      BY <1>21, WorkBy DEF NotifyPaid, TypeOK
    <2>2. work' \subseteq Work
      BY <1>21 DEF NotifyPaid, TypeOK
    <2>3. QED
      BY <1>21, <2>1, <2>2 DEF NotifyPaid, rowVars, callVars, TypeOK, CallsTypeOK
  <1>22. ASSUME NEW w \in work, WorkLost(w) PROVE TypeOK'
    <2>1. CallsTypeOK(Event)'
      BY <1>22, UpsetTyped DEF WorkLost, TypeOK, CallsTypeOK
    <2>2. work' \subseteq Work
      BY <1>22 DEF WorkLost, TypeOK
    <2>3. QED
      BY <1>22, <2>1, <2>2 DEF WorkLost, rowVars, callVars, TypeOK
  <1>23. ASSUME NEW k \in DOMAIN events, ReconcileOne(k) PROVE TypeOK'
    <2>1. CallsTypeOK(Event)'
      BY <1>23, MetTyped DEF ReconcileOne, TypeOK
    <2>2. events[k].id \in Id
      BY EventTyped DEF TypeOK, Event
    <2>3. invoice' \in [Invoice -> InvoiceRec]
      BY <1>23, <2>2 DEF ReconcileOne, TypeOK, InvoiceRec
    <2>4. work' \subseteq Work
      BY <1>23 DEF ReconcileOne, TypeOK, Work
    <2>5. QED
      BY <1>23, <2>1, <2>3, <2>4 DEF ReconcileOne, TypeOK
  <1>24. ASSUME NEW k \in DOMAIN events, EventDropped(k) PROVE TypeOK'
    <2>1. CallsTypeOK(Event)'
      BY <1>24, MetTyped DEF EventDropped, TypeOK
    <2>2. QED
      BY <1>24, <2>1 DEF EventDropped, rowVars, callVars, TypeOK
  <1> QED
    BY <1>1, <1>2, <1>3, <1>4, <1>5, <1>6, <1>7, <1>8, <1>9, <1>10, <1>11, <1>12, <1>13,
      <1>14, <1>15, <1>16, <1>17, <1>18, <1>19, <1>20, <1>21, <1>22, <1>23, <1>24, <1>25
    DEF Next, vars, rowVars, callVars

-----------------------------------------------------------------------------
(* What no step takes back.                                                 *)
FateKept ==
  \A x \in Tx : /\ fate[x] # "none" => fate'[x] # "none"
                /\ fate[x] = "applied" => fate'[x] = "applied"

RowsKept ==
  \A i \in Invoice :
    /\ invoice[i].status # "ABSENT" => invoice'[i].status # "ABSENT"
    /\ invoice[i].status \in {"PAID", "CANCELED"} => invoice'[i].status \in {"PAID", "CANCELED"}
    /\ invoice[i].id # None => invoice'[i].id = invoice[i].id

LEMMA StepFate == TypeOK /\ Requests /\ [Next]_vars => FateKept
  <1> SUFFICES ASSUME TypeOK, Requests, [Next]_vars PROVE FateKept
    OBVIOUS
  <1>1. CASE UNCHANGED <<fate>>
    BY <1>1 DEF FateKept
  <1>2. ASSUME NEW x \in Tx, TxApplies(x) PROVE FateKept
    BY <1>2 DEF TxApplies, Applies, FateKept, TypeOK, CallsTypeOK, Fate, Requests
  <1>3. ASSUME NEW x \in Tx, TxReverts(x) PROVE FateKept
    BY <1>3 DEF TxReverts, Reverts, FateKept, TypeOK, CallsTypeOK, Fate, Requests
  <1>4. ASSUME NEW x \in Tx, PrepareCall(x) PROVE FateKept
    BY <1>4 DEF PrepareCall, Prepare, FateKept, TypeOK, CallsTypeOK, Fate, Requests
  <1>5. ASSUME NEW x \in Tx, PayInvoice(x) PROVE FateKept
    BY <1>5 DEF PayInvoice, Prepare, FateKept, TypeOK, CallsTypeOK, Fate, Requests
  <1>6. ASSUME NEW h \in Handler, Calls(h) PROVE FateKept
    BY <1>6 DEF Calls, CallNetwork, FateKept, TypeOK, CallsTypeOK, Fate, Requests
  <1> QED
    BY <1>1, <1>2, <1>3, <1>4, <1>5, <1>6
    DEF Next, vars, rowVars, callVars, DirectCall, DueDatePasses, InboundArrives,
      InboundClaim, Create, Cancel, SubmitPay, SubmitIssue, SubmitCancel, SubmitSigned, CallAnswered, CheckoutSucceeds,
      CheckoutGivenBack, HandlerDies, InboundCredit, Reconcile, NotifyPaid, WorkLost,
      ReconcileOne, EventDropped, Accepted, Again, CalledDirectly, Delivered, Dies, Done,
      Dropped, First, Refused, Start, Threw, Upset

LEMMA StepRows == TypeOK /\ [Next]_vars => RowsKept
  <1> SUFFICES ASSUME TypeOK, [Next]_vars PROVE RowsKept
    OBVIOUS
  <1>1. CASE UNCHANGED <<invoice>>
    BY <1>1 DEF RowsKept
  <1>2. ASSUME NEW i \in Invoice, Create(i) PROVE RowsKept
    BY <1>2 DEF Create, RowsKept, TypeOK, InvoiceRec
  <1>3. ASSUME NEW i \in Invoice, Cancel(i) PROVE RowsKept
    BY <1>3 DEF Cancel, RowsKept, TypeOK, InvoiceRec
  <1>4. ASSUME NEW h \in Handler, CallAnswered(h) PROVE RowsKept
    BY <1>4, DraftWritten DEF RowsKept
  <1>5. ASSUME NEW w \in work, Reconcile(w) PROVE RowsKept
    BY <1>5 DEF Reconcile, Payable, RowsKept, TypeOK, InvoiceRec
  <1>6. ASSUME NEW k \in DOMAIN events, ReconcileOne(k) PROVE RowsKept
    <2>1. PICK e \in Event : e = events[k]
      BY EventTyped DEF TypeOK
    <2>2. CASE e.topic = "issued"
      BY <1>6, <2>1, <2>2 DEF ReconcileOne, Links, Unlinked, RowsKept, TypeOK, InvoiceRec
    <2>3. CASE e.topic = "paid"
      BY <1>6, <2>1, <2>3 DEF ReconcileOne, Settled, RowsKept, TypeOK, InvoiceRec
    <2>4. CASE e.topic = "cancel"
      BY <1>6, <2>1, <2>4 DEF ReconcileOne, Settled, RowsKept, TypeOK, InvoiceRec
    <2>5. QED
      BY <2>1, <2>2, <2>3, <2>4 DEF Event
  <1> QED
    BY <1>1, <1>2, <1>3, <1>4, <1>5, <1>6
    DEF Next, vars, rowVars, callVars, DirectCall, DueDatePasses, TxApplies, TxReverts,
      PrepareCall, PayInvoice, InboundArrives, InboundClaim, SubmitPay, SubmitIssue, SubmitCancel, SubmitSigned, Calls,
      CheckoutSucceeds, CheckoutGivenBack, HandlerDies, InboundCredit, NotifyPaid, WorkLost,
      EventDropped, Accepted, Applies, CallNetwork, CalledDirectly, Dies, Done, Dropped,
      First, Prepare, Refused, Reverts, Start, Threw, Upset

LEMMA RequestsFrame ==
  ASSUME Requests, FateKept, NEW h \in Handler,
         \A g \in Handler : g # h => req'[g] = req[g],
         req'[h].at # "idle" => req'[h].tx \in Tx /\ fate[req'[h].tx] # "none"
  PROVE  Requests'
  <1>1. ASSUME NEW g \in Handler, req'[g].at # "idle"
        PROVE  req'[g].tx \in Tx /\ fate[req'[g].tx] # "none"
    <2>1. CASE g = h
      BY <1>1, <2>1
    <2>2. CASE g # h
      BY <1>1, <2>2 DEF Requests
    <2>3. QED
      BY <2>1, <2>2
  <1>2. \A x \in Tx : fate[x] # "none" => fate'[x] # "none"
    BY DEF FateKept
  <1>3. QED
    BY <1>1, <1>2 DEF Requests

LEMMA StepRequests == TypeOK /\ Requests /\ [Next]_vars => Requests'
  <1> SUFFICES ASSUME TypeOK, Requests, [Next]_vars PROVE Requests'
    OBVIOUS
  <1>1. CASE UNCHANGED <<req>>
    <2>1. \A x \in Tx : fate[x] # "none" => fate'[x] # "none"
      BY StepFate DEF FateKept
    <2>2. \A h \in Handler : req'[h] = req[h]
      BY <1>1
    <2>3. QED
      BY <2>1, <2>2 DEF Requests
  <1>2. ASSUME NEW h \in Handler, NEW x \in Tx,
               \/ SubmitPay(h, x)
               \/ \E i \in Invoice : SubmitIssue(h, i, x) \/ SubmitCancel(h, i, x)
        PROVE  Requests'
    <2>1. /\ \A g \in Handler : g # h => req'[g] = req[g]
          /\ req'[h].at # "idle" => req'[h].tx \in Tx /\ fate[req'[h].tx] # "none"
      BY <1>2 DEF SubmitPay, SubmitIssue, SubmitCancel, Start, Requests, TypeOK, CallsTypeOK, Idle
    <2>2. QED
      BY <2>1, StepFate, RequestsFrame
  <1>3. ASSUME NEW h \in Handler, NEW x \in Tx, SubmitSigned(h, x) PROVE Requests'
    <2>1. /\ \A g \in Handler : g # h => req'[g] = req[g]
          /\ req'[h].at # "idle" => req'[h].tx \in Tx /\ fate[req'[h].tx] # "none"
      BY <1>3 DEF SubmitSigned, Start, Requests, TypeOK, CallsTypeOK, Idle
    <2>2. QED
      BY <2>1, StepFate, RequestsFrame
  <1>4. ASSUME NEW h \in Handler, Calls(h) PROVE Requests'
    <2>1. /\ \A g \in Handler : g # h => req'[g] = req[g]
          /\ req'[h].at # "idle" => req'[h].tx \in Tx /\ fate[req'[h].tx] # "none"
      BY <1>4 DEF Calls, CallNetwork, Requests, TypeOK, CallsTypeOK, Idle
    <2>2. QED
      BY <2>1, StepFate, RequestsFrame
  <1>5. ASSUME NEW h \in Handler, CallAnswered(h) PROVE Requests'
    <2>1. /\ \A g \in Handler : g # h => req'[g] = req[g]
          /\ req'[h].at # "idle" => req'[h].tx \in Tx /\ fate[req'[h].tx] # "none"
      BY <1>5 DEF CallAnswered, Accepted, Refused, Threw, Done, Requests, TypeOK,
        CallsTypeOK, Idle
    <2>2. QED
      BY <2>1, StepFate, RequestsFrame
  <1>6. ASSUME NEW h \in Handler, CheckoutSucceeds(h) PROVE Requests'
    <2>1. /\ \A g \in Handler : g # h => req'[g] = req[g]
          /\ req'[h].at # "idle" => req'[h].tx \in Tx /\ fate[req'[h].tx] # "none"
      BY <1>6 DEF CheckoutSucceeds, Accepted, Done, Requests, TypeOK, CallsTypeOK, Idle
    <2>2. QED
      BY <2>1, StepFate, RequestsFrame
  <1>7. ASSUME NEW h \in Handler, CheckoutGivenBack(h) PROVE Requests'
    <2>1. /\ \A g \in Handler : g # h => req'[g] = req[g]
          /\ req'[h].at # "idle" => req'[h].tx \in Tx /\ fate[req'[h].tx] # "none"
      BY <1>7 DEF CheckoutGivenBack, Refused, Threw, Done, Requests, TypeOK, CallsTypeOK, Idle
    <2>2. QED
      BY <2>1, StepFate, RequestsFrame
  <1>8. ASSUME NEW h \in Handler, HandlerDies(h) PROVE Requests'
    <2>1. /\ \A g \in Handler : g # h => req'[g] = req[g]
          /\ req'[h].at # "idle" => req'[h].tx \in Tx /\ fate[req'[h].tx] # "none"
      BY <1>8 DEF HandlerDies, Dies, Requests, TypeOK, CallsTypeOK, Idle
    <2>2. QED
      BY <2>1, StepFate, RequestsFrame
  <1> QED
    BY <1>1, <1>2, <1>3, <1>4, <1>5, <1>6, <1>7, <1>8
    DEF Next, vars, rowVars, callVars, DirectCall, DueDatePasses, TxApplies, TxReverts,
      PrepareCall, PayInvoice, InboundArrives, InboundClaim, Create, Cancel, InboundCredit,
      Reconcile, NotifyPaid, WorkLost, ReconcileOne, EventDropped, Again, Applies,
      CalledDirectly, Delivered, Dropped, First, Prepare, Reverts, Upset

LEMMA StepPrepared == TypeOK /\ Requests /\ Prepared /\ [Next]_vars => Prepared'
  <1> SUFFICES ASSUME TypeOK, Requests, Prepared, [Next]_vars PROVE Prepared'
    OBVIOUS
  <1>1. CASE UNCHANGED <<fate>>
    BY <1>1, StepRows, TxRow DEF Prepared, RowsKept
  <1>2. ASSUME NEW x \in Tx, TxApplies(x) PROVE Prepared'
    <2>1. \A y \in Tx : fate'[y] # "none" => fate[y] # "none"
      BY <1>2 DEF TxApplies, Applies, TypeOK, CallsTypeOK
    <2>2. QED
      BY <2>1, StepRows, TxRow DEF Prepared, RowsKept
  <1>3. ASSUME NEW x \in Tx, TxReverts(x) PROVE Prepared'
    <2>1. \A y \in Tx : fate'[y] # "none" => fate[y] # "none"
      BY <1>3 DEF TxReverts, Reverts, TypeOK, CallsTypeOK
    <2>2. QED
      BY <2>1, StepRows, TxRow DEF Prepared, RowsKept
  <1>4. ASSUME NEW x \in Tx, PrepareCall(x) PROVE Prepared'
    <2>1. \A y \in Tx : y # x => fate'[y] = fate[y]
      BY <1>4 DEF PrepareCall, Prepare, TypeOK, CallsTypeOK
    <2>2. x.call # "checkout" => /\ invoice[x.row].status # "ABSENT"
                                 /\ x.call # "create" => invoice[x.row].id # None
      BY <1>4, TxRow DEF PrepareCall
    <2>3. QED
      BY <2>1, <2>2, StepRows, TxRow DEF Prepared, RowsKept
  <1>5. ASSUME NEW x \in Tx, PayInvoice(x) PROVE Prepared'
    <2>1. \A y \in Tx : y # x => fate'[y] = fate[y]
      BY <1>5 DEF PayInvoice, Prepare, TypeOK, CallsTypeOK
    <2>2. x.call = "checkout"
      BY <1>5 DEF PayInvoice
    <2>3. QED
      BY <2>1, <2>2, StepRows, TxRow DEF Prepared, RowsKept
  <1>6. ASSUME NEW h \in Handler, Calls(h) PROVE Prepared'
    <2>1. \A y \in Tx : fate'[y] # "none" => fate[y] # "none"
      BY <1>6 DEF Calls, CallNetwork, TypeOK, CallsTypeOK
    <2>2. QED
      BY <2>1, StepRows, TxRow DEF Prepared, RowsKept
  <1> QED
    BY <1>1, <1>2, <1>3, <1>4, <1>5, <1>6
    DEF Next, vars, rowVars, callVars, DirectCall, DueDatePasses, InboundArrives,
      InboundClaim, Create, Cancel, SubmitPay, SubmitIssue, SubmitCancel, SubmitSigned, CallAnswered, CheckoutSucceeds,
      CheckoutGivenBack, HandlerDies, InboundCredit, Reconcile, NotifyPaid, WorkLost,
      ReconcileOne, EventDropped, Accepted, Again, CalledDirectly, Delivered, Dies, Done,
      Dropped, First, Refused, Start, Threw, Upset

LEMMA StepClaimed == TypeOK /\ Claimed /\ [Next]_vars => Claimed'
  <1> SUFFICES ASSUME TypeOK, Claimed, [Next]_vars PROVE Claimed'
    OBVIOUS
  <1>1. CASE UNCHANGED <<recorded, work>>
    BY <1>1 DEF Claimed
  <1>2. ASSUME NEW p \in Payment, InboundClaim(p) PROVE Claimed'
    BY <1>2 DEF InboundClaim, Record, Claimed
  <1>3. ASSUME NEW h \in Handler, CheckoutSucceeds(h) PROVE Claimed'
    BY <1>3 DEF CheckoutSucceeds, Accepted, Done, Claimed
  <1>4. ASSUME NEW w \in work, InboundCredit(w) PROVE Claimed'
    BY <1>4 DEF InboundCredit, Claimed
  <1>5. ASSUME NEW w \in work, Reconcile(w) PROVE Claimed'
    BY <1>5 DEF Reconcile, Claimed
  <1>6. ASSUME NEW w \in work, NotifyPaid(w) PROVE Claimed'
    BY <1>6 DEF NotifyPaid, Claimed
  <1>7. ASSUME NEW w \in work, WorkLost(w) PROVE Claimed'
    BY <1>7 DEF WorkLost, Upset, Claimed
  <1>8. ASSUME NEW k \in DOMAIN events, ReconcileOne(k) PROVE Claimed'
    BY <1>8 DEF ReconcileOne, Delivered, First, Again, Upset, Claimed
  <1> QED
    BY <1>1, <1>2, <1>3, <1>4, <1>5, <1>6, <1>7, <1>8
    DEF Next, vars, rowVars, callVars, DirectCall, DueDatePasses, TxApplies, TxReverts,
      PrepareCall, PayInvoice, InboundArrives, Create, Cancel, SubmitPay, SubmitIssue, SubmitCancel, SubmitSigned,
      Calls, CallAnswered, CheckoutGivenBack, HandlerDies, EventDropped, Accepted, Applies,
      CallNetwork, CalledDirectly, Dies, Done, Dropped, First, Prepare, Refused, Reverts,
      Start, Threw, Upset

\* No event is lost or altered, no entry vanishes or is unpaid.
EventsKept ==
  /\ DOMAIN events \subseteq DOMAIN events'
  /\ \A k \in DOMAIN events : events'[k] = events[k]

EntriesKept ==
  \A d \in Id : entry[d] # None => entry'[d] # None /\ (entry[d].paid => entry'[d].paid)

LEMMA InvokedKeeps ==
  ASSUME TypeOK, NEW x, Invoked(x)
  PROVE  EventsKept /\ EntriesKept
  <1>1. PICK e \in Event : /\ events' = Append(events, e)
                           /\ \A d \in Id : entry[d] # None =>
                                entry'[d] # None /\ (entry[d].paid => entry'[d].paid)
    BY DEF Invoked
  <1>2. QED
    BY <1>1 DEF EventsKept, EntriesKept, TypeOK, CallsTypeOK

LEMMA StepLogKept == TypeOK /\ Prepared /\ [Next]_vars => (EventsKept /\ EntriesKept)
  <1> SUFFICES ASSUME TypeOK, Prepared, [Next]_vars PROVE (EventsKept /\ EntriesKept)
    OBVIOUS
  <1>1. CASE UNCHANGED <<events, entry>>
    BY <1>1 DEF EventsKept, EntriesKept
  <1>2. ASSUME DirectCall PROVE (EventsKept /\ EntriesKept)
    BY <1>2, DirectEffects, InvokedKeeps
  <1>3. ASSUME NEW x \in Tx, TxApplies(x) PROVE (EventsKept /\ EntriesKept)
    <2>1. CASE x.call = "checkout"
      BY <1>3, <2>1 DEF TxApplies, EventsKept, EntriesKept
    <2>2. CASE x.call # "checkout"
      BY <1>3, <2>2, ApplyEffects, InvokedKeeps
    <2>3. QED
      BY <2>1, <2>2
  <1> QED
    BY <1>1, <1>2, <1>3
    DEF Next, vars, rowVars, callVars, DueDatePasses, TxReverts, PrepareCall, PayInvoice,
      InboundArrives, InboundClaim, Create, Cancel, SubmitPay, SubmitIssue, SubmitCancel, SubmitSigned, Calls,
      CallAnswered, CheckoutSucceeds, CheckoutGivenBack, HandlerDies, InboundCredit,
      Reconcile, NotifyPaid, WorkLost, ReconcileOne, EventDropped, Accepted, Again,
      CallNetwork, Delivered, Dies, Done, Dropped, First, Prepare, Refused, Reverts, Start,
      Threw, Upset

-----------------------------------------------------------------------------
(* The contract's log tells of its entries: those it names are there, a paid one
   is paid, and an id is issued before anything else happens to it.         *)
Log ==
  \A k \in DOMAIN events :
    /\ entry[events[k].id] # None
    /\ events[k].topic = "paid" => entry[events[k].id].paid
    /\ events[k].topic = "issued" => \A j \in 1..(k - 1) : events[j].id # events[k].id

LEMMA InvokedLog ==
  ASSUME TypeOK, Log, NEW x, Invoked(x)
  PROVE  Log'
  <1>1. PICK e \in Event : /\ events' = Append(events, e) /\ entry'[e.id] # None
                           /\ e.topic = "paid" => entry'[e.id].paid
                           /\ e.topic = "issued" => entry[e.id] = None
    BY DEF Invoked
  <1>2. EntriesKept
    BY InvokedKeeps
  <1>3. events \in Seq(Event) /\ \A k \in DOMAIN events : events[k].id \in Id
    BY EventTyped DEF TypeOK, CallsTypeOK, Event
  <1>4. /\ DOMAIN events' = 1..(Len(events) + 1) /\ DOMAIN events = 1..Len(events)
        /\ \A k \in 1..Len(events) : events'[k] = events[k]
        /\ events'[Len(events) + 1] = e /\ Len(events) \in Nat
    BY <1>1, <1>3
  <1>5. ASSUME NEW k \in 1..Len(events)
        PROVE  /\ entry'[events'[k].id] # None
               /\ events'[k].topic = "paid" => entry'[events'[k].id].paid
    BY <1>2, <1>3, <1>4 DEF Log, EntriesKept
  <1>6. ASSUME NEW k \in 1..Len(events), events'[k].topic = "issued", NEW j \in 1..(k - 1)
        PROVE  events'[j].id # events'[k].id
    BY <1>4, <1>6 DEF Log
  <1>7. ASSUME e.topic = "issued", NEW j \in 1..Len(events) PROVE events'[j].id # e.id
    BY <1>1, <1>4, <1>7 DEF Log
  <1>8. \A k \in DOMAIN events' : k \in 1..Len(events) \/ k = Len(events) + 1
    BY <1>4
  <1>9. ASSUME NEW k \in DOMAIN events'
        PROVE  /\ entry'[events'[k].id] # None
               /\ events'[k].topic = "paid" => entry'[events'[k].id].paid
               /\ events'[k].topic = "issued" => \A j \in 1..(k - 1) : events'[j].id # events'[k].id
    <2>1. CASE k \in 1..Len(events)
      BY <1>5, <1>6, <2>1
    <2>2. CASE k = Len(events) + 1
      BY <1>1, <1>4, <1>7, <2>2
    <2>3. QED
      BY <1>8, <2>1, <2>2
  <1>10. QED
    BY <1>9 DEF Log

LEMMA StepLog == TypeOK /\ Prepared /\ Log /\ [Next]_vars => Log'
  <1> SUFFICES ASSUME TypeOK, Prepared, Log, [Next]_vars PROVE Log'
    OBVIOUS
  <1>1. CASE UNCHANGED <<events, entry>>
    BY <1>1 DEF Log
  <1>2. ASSUME DirectCall PROVE Log'
    BY <1>2, DirectEffects, InvokedLog
  <1>3. ASSUME NEW x \in Tx, TxApplies(x) PROVE Log'
    <2>1. CASE x.call = "checkout"
      BY <1>3, <2>1 DEF TxApplies, Log
    <2>2. CASE x.call # "checkout"
      BY <1>3, <2>2, ApplyEffects, InvokedLog
    <2>3. QED
      BY <2>1, <2>2
  <1> QED
    BY <1>1, <1>2, <1>3
    DEF Next, vars, rowVars, callVars, DueDatePasses, TxReverts, PrepareCall, PayInvoice,
      InboundArrives, InboundClaim, Create, Cancel, SubmitPay, SubmitIssue, SubmitCancel, SubmitSigned, Calls,
      CallAnswered, CheckoutSucceeds, CheckoutGivenBack, HandlerDies, InboundCredit,
      Reconcile, NotifyPaid, WorkLost, ReconcileOne, EventDropped, Accepted, Again,
      CallNetwork, Delivered, Dies, Done, Dropped, First, Prepare, Refused, Reverts, Start,
      Threw, Upset

-----------------------------------------------------------------------------
(* A stored hash is of an envelope of the API, an id of the entry such a one issued,
   and of one row only.                                                     *)
Issued(d) ==
  \E k \in DOMAIN events :
    events[k].topic = "issued" /\ events[k].id = d /\ events[k].tx # Foreign

Linked ==
  \A i \in Invoice :
    /\ invoice[i].issueHash # NoTx => invoice[i].issueHash \in Tx /\ invoice[i].status # "ABSENT"
    /\ invoice[i].id # None =>
         /\ invoice[i].status # "ABSENT" /\ Issued(invoice[i].id)
         /\ \A j \in Invoice \ {i} : invoice[j].id # invoice[i].id

\* A request that writes was started for a row that exists.
Drafts == \A h \in Handler : draft[h] # None => invoice[draft[h].row].status # "ABSENT"

LEMMA DraftRow ==
  ASSUME TypeOK, NEW h \in Handler, draft[h] # None
  PROVE  draft[h].row \in Invoice /\ draft[h].hash \in Tx \cup {NoTx}
  BY DEF TypeOK, Draft

LEMMA DraftsFrame ==
  ASSUME TypeOK, Drafts, RowsKept, \A h \in Handler : draft'[h] \in {draft[h], None}
  PROVE  Drafts'
  BY DraftRow DEF Drafts, RowsKept

LEMMA StepDrafts == TypeOK /\ Drafts /\ [Next]_vars => Drafts'
  <1> SUFFICES ASSUME TypeOK, Drafts, [Next]_vars PROVE Drafts'
    OBVIOUS
  <1>1. CASE UNCHANGED <<draft>>
    BY <1>1, StepRows, DraftsFrame
  <1>2. ASSUME NEW h \in Handler, NEW i \in Invoice, NEW x \in Tx,
               SubmitIssue(h, i, x) \/ SubmitCancel(h, i, x)
        PROVE  Drafts'
    <2>1. /\ draft'[h].row = i /\ \A g \in Handler : g # h => draft'[g] = draft[g]
          /\ invoice[i].status # "ABSENT"
      BY <1>2 DEF SubmitIssue, SubmitCancel, TypeOK
    <2>2. QED
      BY <2>1, StepRows, DraftRow DEF Drafts, RowsKept
  <1>3. ASSUME NEW h \in Handler, CallAnswered(h) PROVE Drafts'
    BY <1>3, StepRows, DraftsFrame DEF CallAnswered, TypeOK
  <1>4. ASSUME NEW h \in Handler, HandlerDies(h) PROVE Drafts'
    BY <1>4, StepRows, DraftsFrame DEF HandlerDies, TypeOK
  <1> QED
    BY <1>1, <1>2, <1>3, <1>4
    DEF Next, vars, rowVars, callVars, DirectCall, DueDatePasses, TxApplies, TxReverts,
      PrepareCall, PayInvoice, InboundArrives, InboundClaim, Create, Cancel, SubmitPay,
      SubmitSigned, Calls, CheckoutSucceeds, CheckoutGivenBack, InboundCredit, Reconcile,
      NotifyPaid, WorkLost, ReconcileOne, EventDropped

LEMMA IdTyped == TypeOK => \A i \in Invoice : invoice[i].id \in Id \cup {None}
  BY DEF TypeOK, InvoiceRec

LEMMA IssuedKept ==
  ASSUME EventsKept
  PROVE  \A d \in Id : Issued(d) => Issued(d)'
  BY DEF EventsKept, Issued

\* A step that neither links nor hashes a row.
LEMMA LinkedFrame ==
  ASSUME TypeOK, Linked, RowsKept, EventsKept,
         \A i \in Invoice : /\ invoice'[i].issueHash = invoice[i].issueHash
                            /\ invoice'[i].id = invoice[i].id
  PROVE  Linked'
  <1>1. ASSUME NEW i \in Invoice, invoice'[i].id # None
         PROVE  \E d \in Id : d = invoice'[i].id /\ Issued(d)'
    BY <1>1, IssuedKept, IdTyped DEF Linked
  <1>2. QED
    BY <1>1 DEF Linked, RowsKept

LEMMA StepLinked == TypeOK /\ Drafts /\ Prepared /\ Linked /\ [Next]_vars => Linked'
  <1> SUFFICES ASSUME TypeOK, Drafts, Prepared, Linked, [Next]_vars PROVE Linked'
    OBVIOUS
  <1>1. CASE UNCHANGED <<invoice>>
    BY <1>1, StepRows, StepLogKept, LinkedFrame
  <1>2. ASSUME NEW i \in Invoice, Create(i) PROVE Linked'
    <2>1. \A j \in Invoice : /\ invoice'[j].issueHash = invoice[j].issueHash
                             /\ invoice'[j].id = invoice[j].id
      BY <1>2 DEF Create, TypeOK, InvoiceRec
    <2>2. QED
      BY <2>1, StepRows, StepLogKept, LinkedFrame
  <1>3. ASSUME NEW i \in Invoice, Cancel(i) PROVE Linked'
    <2>1. \A j \in Invoice : /\ invoice'[j].issueHash = invoice[j].issueHash
                             /\ invoice'[j].id = invoice[j].id
      BY <1>3 DEF Cancel, TypeOK, InvoiceRec
    <2>2. QED
      BY <2>1, StepRows, StepLogKept, LinkedFrame
  <1>4. ASSUME NEW h \in Handler, CallAnswered(h) PROVE Linked'
    <2>1. \A i \in Invoice :
            /\ invoice'[i].status = invoice[i].status /\ invoice'[i].id = invoice[i].id
            /\ \/ invoice'[i].issueHash = invoice[i].issueHash
               \/ invoice'[i].issueHash \in Tx \cup {NoTx} /\ invoice[i].status # "ABSENT"
      BY <1>4, DraftWritten, DraftRow DEF Drafts
    <2>2. ASSUME NEW i \in Invoice, invoice'[i].id # None
          PROVE  \E d \in Id : d = invoice'[i].id /\ Issued(d)'
      BY <2>1, <2>2, StepLogKept, IssuedKept, IdTyped DEF Linked
    <2>3. QED
      BY <2>1, <2>2 DEF Linked
  <1>5. ASSUME NEW w \in work, Reconcile(w) PROVE Linked'
    <2>1. \A j \in Invoice : /\ invoice'[j].issueHash = invoice[j].issueHash
                             /\ invoice'[j].id = invoice[j].id
      BY <1>5 DEF Reconcile, TypeOK, InvoiceRec
    <2>2. QED
      BY <2>1, StepRows, StepLogKept, LinkedFrame
  <1>6. ASSUME NEW k \in DOMAIN events, ReconcileOne(k) PROVE Linked'
    <2>1. events[k] \in Event /\ events[k].id # None
      BY EventTyped, InvoiceAssumption DEF TypeOK, Event
    <2>2. CASE events[k].topic # "issued"
      <3>1. \A j \in Invoice : /\ invoice'[j].issueHash = invoice[j].issueHash
                               /\ invoice'[j].id = invoice[j].id
        BY <1>6, <2>2 DEF ReconcileOne, TypeOK, InvoiceRec
      <3>2. QED
        BY <3>1, StepRows, StepLogKept, LinkedFrame
    <2>3. CASE events[k].topic = "issued"
      <3>1. \A j \in Invoice :
              /\ invoice'[j].issueHash = invoice[j].issueHash
              /\ invoice'[j].status = invoice[j].status
              /\ IF Links(j, events[k]) THEN invoice'[j].id = events[k].id
                                       ELSE invoice'[j].id = invoice[j].id
        BY <1>6, <2>3 DEF ReconcileOne, TypeOK, InvoiceRec
      <3>2. ASSUME NEW j \in Invoice, Links(j, events[k])
            PROVE  invoice[j].status # "ABSENT" /\ Issued(events[k].id)
        <4>1. invoice[j].issueHash = events[k].tx
          BY <3>2 DEF Links, Unlinked
        <4>2. events[k].tx \in Tx \cup {Foreign} /\ Foreign # NoTx /\ Foreign \notin Tx /\ NoTx \notin Tx
          BY <2>1, CallsAssumption DEF Event
        <4>3. QED
          BY <2>3, <4>1, <4>2 DEF Linked, Issued
      <3>3. ASSUME NEW i \in Invoice, NEW j \in Invoice, i # j, invoice'[i].id # None
            PROVE  invoice'[j].id # invoice'[i].id
        BY <2>1, <3>1, <3>3 DEF Links, Linked
      <3>4. ASSUME NEW i \in Invoice, invoice'[i].id # None
            PROVE  invoice'[i].status # "ABSENT" /\ \E d \in Id : d = invoice'[i].id /\ Issued(d)'
        BY <2>1, <3>1, <3>2, <3>4, StepLogKept, IssuedKept, IdTyped DEF Linked, Event
      <3>5. QED
        BY <3>1, <3>3, <3>4 DEF Linked
    <2>4. QED
      BY <2>2, <2>3
  <1> QED
    BY <1>1, <1>2, <1>3, <1>4, <1>5, <1>6
    DEF Next, vars, rowVars, callVars, DirectCall, DueDatePasses, TxApplies, TxReverts,
      PrepareCall, PayInvoice, InboundArrives, InboundClaim, SubmitPay, SubmitIssue, SubmitCancel, SubmitSigned, Calls,
      CheckoutSucceeds, CheckoutGivenBack, HandlerDies, InboundCredit, NotifyPaid, WorkLost,
      EventDropped, Accepted, Applies, CallNetwork, CalledDirectly, Dies, Done, Dropped,
      First, Prepare, Refused, Reverts, Start, Threw, Upset

-----------------------------------------------------------------------------
(* Who pays, is about to pay or was claimed is on the ledger, for this invoice. *)
Pays(p, i) == OnLedger(p) /\ For[p] = i /\ p \in Checkout \cup Exact
PaidOnChain(i) == invoice[i].id # None /\ entry[invoice[i].id] # None /\ entry[invoice[i].id].paid

Paying ==
  /\ \A i \in Invoice :
       /\ invoice[i].paidBy # None => Pays(invoice[i].paidBy, i)
       /\ invoice[i].status = "PAID" /\ invoice[i].paidBy = None => PaidOnChain(i)
  /\ \A w \in work :
       /\ w.at \in {"claimed", "reconcile"} => OnLedger(w.by)
       /\ w.at = "reconcile" => w.by \in Checkout \cup Exact

ArrivedKept == arrived \subseteq arrived'

LEMMA StepArrived == [Next]_vars => ArrivedKept
  <1> SUFFICES ASSUME [Next]_vars PROVE ArrivedKept
    OBVIOUS
  <1>1. CASE UNCHANGED <<arrived>>
    BY <1>1 DEF ArrivedKept
  <1>2. ASSUME NEW p \in Payment, InboundArrives(p) PROVE ArrivedKept
    BY <1>2 DEF InboundArrives, ArrivedKept
  <1> QED
    BY <1>1, <1>2
    DEF Next, vars, rowVars, callVars, DirectCall, DueDatePasses, TxApplies, TxReverts,
      PrepareCall, PayInvoice, InboundClaim, Create, Cancel, SubmitPay, SubmitIssue, SubmitCancel, SubmitSigned, Calls,
      CallAnswered, CheckoutSucceeds, CheckoutGivenBack, HandlerDies, InboundCredit,
      Reconcile, NotifyPaid, WorkLost, ReconcileOne, EventDropped, Accepted, Again, Applies,
      CallNetwork, CalledDirectly, Delivered, Dies, Done, Dropped, First, Prepare, Refused,
      Reverts, Start, Threw, Upset

LEMMA LedgerKept ==
  ASSUME FateKept, ArrivedKept, NEW p, OnLedger(p)
  PROVE  OnLedger(p)'
  BY DEF FateKept, ArrivedKept, OnLedger

LEMMA PaysKept ==
  ASSUME FateKept, ArrivedKept, NEW p, NEW i, Pays(p, i)
  PROVE  Pays(p, i)'
  BY LedgerKept DEF Pays

LEMMA OnChainKept ==
  ASSUME TypeOK, RowsKept, EntriesKept, NEW i \in Invoice, PaidOnChain(i)
  PROVE  PaidOnChain(i)'
  <1>1. invoice[i].id \in Id /\ invoice'[i].id = invoice[i].id
    BY DEF PaidOnChain, TypeOK, InvoiceRec, RowsKept
  <1>2. QED
    BY <1>1 DEF PaidOnChain, EntriesKept

LEMMA StepKept ==
  TypeOK /\ Requests /\ Prepared /\ [Next]_vars =>
    FateKept /\ RowsKept /\ EventsKept /\ EntriesKept /\ ArrivedKept
  BY StepFate, StepRows, StepLogKept, StepArrived

\* A step after which every row and every piece of work is as good as before.
LEMMA PayingFrame ==
  ASSUME TypeOK, Paying, FateKept, RowsKept, EntriesKept, ArrivedKept,
         \A i \in Invoice :
           /\ \/ invoice'[i].paidBy = invoice[i].paidBy
              \/ Pays(invoice'[i].paidBy, i)
           /\ invoice'[i].status = "PAID" /\ invoice'[i].paidBy = None =>
                \/ invoice[i].status = "PAID" /\ invoice[i].paidBy = None
                \/ PaidOnChain(i),
         \A w \in work' : \/ w \in work
                          \/ w.at = "notify"
                          \/ /\ OnLedger(w.by)
                             /\ w.at = "reconcile" => w.by \in Checkout \cup Exact
  PROVE  Paying'
  <1>1. ASSUME NEW i \in Invoice, NEW p, p = invoice'[i].paidBy, p # None
        PROVE  Pays(p, i)'
    <2>1. Pays(p, i)
      BY <1>1 DEF Paying
    <2>2. QED
      BY <2>1, PaysKept
  <1>2. ASSUME NEW i \in Invoice, invoice'[i].status = "PAID", invoice'[i].paidBy = None
        PROVE  PaidOnChain(i)'
    BY <1>2, OnChainKept DEF Paying
  <1>3. ASSUME NEW w \in work', w.at \in {"claimed", "reconcile"}
        PROVE  OnLedger(w.by)'
    <2>1. OnLedger(w.by)
      BY <1>3 DEF Paying
    <2>2. QED
      BY <2>1, LedgerKept
  <1>4. ASSUME NEW w \in work', w.at = "reconcile" PROVE w.by \in Checkout \cup Exact
    BY <1>4 DEF Paying
  <1>5. QED
    BY <1>1, <1>2, <1>3, <1>4 DEF Paying

LEMMA StepPaying == TypeOK /\ Requests /\ Prepared /\ Log /\ Paying /\ [Next]_vars => Paying'
  <1> SUFFICES ASSUME TypeOK, Requests, Prepared, Log, Paying, [Next]_vars PROVE Paying'
    OBVIOUS
  <1>1. CASE UNCHANGED <<invoice, work>>
    BY <1>1, StepKept, PayingFrame
  <1>2. ASSUME NEW i \in Invoice, Create(i) PROVE Paying'
    <2>1. \A j \in Invoice :
            /\ \/ invoice'[j].paidBy = invoice[j].paidBy
               \/ Pays(invoice'[j].paidBy, j)
            /\ invoice'[j].status = "PAID" /\ invoice'[j].paidBy = None =>
                 \/ invoice[j].status = "PAID" /\ invoice[j].paidBy = None
                 \/ PaidOnChain(j)
      BY <1>2 DEF Create, TypeOK, InvoiceRec
    <2>2. \A v \in work' : \/ v \in work
                           \/ v.at = "notify"
                           \/ /\ OnLedger(v.by)
                              /\ v.at = "reconcile" => v.by \in Checkout \cup Exact
      BY <1>2 DEF Create
    <2>3. QED
      BY <2>1, <2>2, StepKept, PayingFrame
  <1>3. ASSUME NEW i \in Invoice, Cancel(i) PROVE Paying'
    <2>1. \A j \in Invoice :
            /\ \/ invoice'[j].paidBy = invoice[j].paidBy
               \/ Pays(invoice'[j].paidBy, j)
            /\ invoice'[j].status = "PAID" /\ invoice'[j].paidBy = None =>
                 \/ invoice[j].status = "PAID" /\ invoice[j].paidBy = None
                 \/ PaidOnChain(j)
      BY <1>3 DEF Cancel, TypeOK, InvoiceRec
    <2>2. \A v \in work' : \/ v \in work
                           \/ v.at = "notify"
                           \/ /\ OnLedger(v.by)
                              /\ v.at = "reconcile" => v.by \in Checkout \cup Exact
      BY <1>3 DEF Cancel
    <2>3. QED
      BY <2>1, <2>2, StepKept, PayingFrame
  <1>4. ASSUME NEW h \in Handler, CallAnswered(h) PROVE Paying'
    <2>1. \A j \in Invoice :
            /\ \/ invoice'[j].paidBy = invoice[j].paidBy
               \/ Pays(invoice'[j].paidBy, j)
            /\ invoice'[j].status = "PAID" /\ invoice'[j].paidBy = None =>
                 \/ invoice[j].status = "PAID" /\ invoice[j].paidBy = None
                 \/ PaidOnChain(j)
      BY <1>4, DraftWritten
    <2>2. \A v \in work' : \/ v \in work
                           \/ v.at = "notify"
                           \/ /\ OnLedger(v.by)
                              /\ v.at = "reconcile" => v.by \in Checkout \cup Exact
      BY <1>4 DEF CallAnswered
    <2>3. QED
      BY <2>1, <2>2, StepKept, PayingFrame
  <1>5. ASSUME NEW p \in Payment, InboundClaim(p) PROVE Paying'
    <2>1. \A j \in Invoice :
            /\ \/ invoice'[j].paidBy = invoice[j].paidBy
               \/ Pays(invoice'[j].paidBy, j)
            /\ invoice'[j].status = "PAID" /\ invoice'[j].paidBy = None =>
                 \/ invoice[j].status = "PAID" /\ invoice[j].paidBy = None
                 \/ PaidOnChain(j)
      BY <1>5 DEF InboundClaim
    <2>2. \A v \in work' : \/ v \in work
                           \/ v.at = "notify"
                           \/ /\ OnLedger(v.by)
                              /\ v.at = "reconcile" => v.by \in Checkout \cup Exact
      BY <1>5 DEF InboundClaim
    <2>3. QED
      BY <2>1, <2>2, StepKept, PayingFrame
  <1>6. ASSUME NEW h \in Handler, CheckoutSucceeds(h) PROVE Paying'
    <2>1. \A j \in Invoice :
            /\ \/ invoice'[j].paidBy = invoice[j].paidBy
               \/ Pays(invoice'[j].paidBy, j)
            /\ invoice'[j].status = "PAID" /\ invoice'[j].paidBy = None =>
                 \/ invoice[j].status = "PAID" /\ invoice[j].paidBy = None
                 \/ PaidOnChain(j)
      BY <1>6 DEF CheckoutSucceeds
    <2>2. \A v \in work' : \/ v \in work
                           \/ v.at = "notify"
                           \/ /\ OnLedger(v.by)
                              /\ v.at = "reconcile" => v.by \in Checkout \cup Exact
      BY <1>6, TxRow DEF CheckoutSucceeds, Accepted, Requests, OnLedger
    <2>3. QED
      BY <2>1, <2>2, StepKept, PayingFrame
  <1>7. ASSUME NEW w \in work, InboundCredit(w) PROVE Paying'
    <2>1. \A j \in Invoice :
            /\ \/ invoice'[j].paidBy = invoice[j].paidBy
               \/ Pays(invoice'[j].paidBy, j)
            /\ invoice'[j].status = "PAID" /\ invoice'[j].paidBy = None =>
                 \/ invoice[j].status = "PAID" /\ invoice[j].paidBy = None
                 \/ PaidOnChain(j)
      BY <1>7 DEF InboundCredit
    <2>2. \A v \in work' : \/ v \in work
                           \/ v.at = "notify"
                           \/ /\ OnLedger(v.by)
                              /\ v.at = "reconcile" => v.by \in Checkout \cup Exact
      BY <1>7, WorkBy DEF InboundCredit, Matches, Paying, Payment
    <2>3. QED
      BY <2>1, <2>2, StepKept, PayingFrame
  <1>8. ASSUME NEW w \in work, NotifyPaid(w) PROVE Paying'
    <2>1. \A j \in Invoice :
            /\ \/ invoice'[j].paidBy = invoice[j].paidBy
               \/ Pays(invoice'[j].paidBy, j)
            /\ invoice'[j].status = "PAID" /\ invoice'[j].paidBy = None =>
                 \/ invoice[j].status = "PAID" /\ invoice[j].paidBy = None
                 \/ PaidOnChain(j)
      BY <1>8 DEF NotifyPaid
    <2>2. \A v \in work' : \/ v \in work
                           \/ v.at = "notify"
                           \/ /\ OnLedger(v.by)
                              /\ v.at = "reconcile" => v.by \in Checkout \cup Exact
      BY <1>8 DEF NotifyPaid
    <2>3. QED
      BY <2>1, <2>2, StepKept, PayingFrame
  <1>9. ASSUME NEW w \in work, WorkLost(w) PROVE Paying'
    <2>1. \A j \in Invoice :
            /\ \/ invoice'[j].paidBy = invoice[j].paidBy
               \/ Pays(invoice'[j].paidBy, j)
            /\ invoice'[j].status = "PAID" /\ invoice'[j].paidBy = None =>
                 \/ invoice[j].status = "PAID" /\ invoice[j].paidBy = None
                 \/ PaidOnChain(j)
      BY <1>9 DEF WorkLost
    <2>2. \A v \in work' : \/ v \in work
                           \/ v.at = "notify"
                           \/ /\ OnLedger(v.by)
                              /\ v.at = "reconcile" => v.by \in Checkout \cup Exact
      BY <1>9 DEF WorkLost
    <2>3. QED
      BY <2>1, <2>2, StepKept, PayingFrame
  <1>10. ASSUME NEW w \in work, Reconcile(w) PROVE Paying'
    <2>1. \A j \in Invoice :
            /\ \/ invoice'[j].paidBy = invoice[j].paidBy
               \/ Pays(invoice'[j].paidBy, j)
            /\ invoice'[j].status = "PAID" /\ invoice'[j].paidBy = None =>
                 \/ invoice[j].status = "PAID" /\ invoice[j].paidBy = None
                 \/ PaidOnChain(j)
      BY <1>10, WorkBy, InvoiceAssumption DEF Reconcile, Paying, Pays, TypeOK, InvoiceRec
    <2>2. \A v \in work' : \/ v \in work
                           \/ v.at = "notify"
                           \/ /\ OnLedger(v.by)
                              /\ v.at = "reconcile" => v.by \in Checkout \cup Exact
      BY <1>10 DEF Reconcile
    <2>3. QED
      BY <2>1, <2>2, StepKept, PayingFrame
  <1>11. ASSUME NEW k \in DOMAIN events, ReconcileOne(k) PROVE Paying'
    <2>1. \A j \in Invoice :
            /\ \/ invoice'[j].paidBy = invoice[j].paidBy
               \/ Pays(invoice'[j].paidBy, j)
            /\ invoice'[j].status = "PAID" /\ invoice'[j].paidBy = None =>
                 \/ invoice[j].status = "PAID" /\ invoice[j].paidBy = None
                 \/ PaidOnChain(j)
      <3>1. events[k] \in Event
        BY EventTyped DEF TypeOK
      <3>2. CASE events[k].topic # "paid"
        BY <1>11, <3>2 DEF ReconcileOne, Settled, TypeOK, InvoiceRec
      <3>3. CASE events[k].topic = "paid"
        <4>1. \A j \in Invoice : /\ invoice'[j].paidBy = invoice[j].paidBy
                                 /\ invoice'[j].status = invoice[j].status \/ Settled(j, events[k])
          BY <1>11, <3>3 DEF ReconcileOne, TypeOK, InvoiceRec
        <4>2. entry[events[k].id] # None /\ entry[events[k].id].paid
          BY <3>3 DEF Log
        <4>3. \A j \in Invoice : Settled(j, events[k]) => PaidOnChain(j)
          BY <3>1, <4>2, InvoiceAssumption DEF Settled, PaidOnChain, Event
        <4>4. QED
          BY <4>1, <4>3
      <3>4. QED
        BY <3>2, <3>3
    <2>2. \A v \in work' : \/ v \in work
                           \/ v.at = "notify"
                           \/ /\ OnLedger(v.by)
                              /\ v.at = "reconcile" => v.by \in Checkout \cup Exact
      BY <1>11 DEF ReconcileOne
    <2>3. QED
      BY <2>1, <2>2, StepKept, PayingFrame
  <1> QED
    BY <1>1, <1>2, <1>3, <1>4, <1>5, <1>6, <1>7, <1>8, <1>9, <1>10, <1>11
    DEF Next, vars, rowVars, callVars, DirectCall, DueDatePasses, TxApplies, TxReverts,
      PrepareCall, PayInvoice, InboundArrives, SubmitPay, SubmitIssue, SubmitCancel, SubmitSigned, Calls,
      CheckoutGivenBack, HandlerDies, EventDropped, Applies, CallNetwork, CalledDirectly,
      Dies, Done, Dropped, First, Prepare, Refused, Reverts, Start, Threw, Upset

-----------------------------------------------------------------------------
(* An open invoice has not been announced; a settled one is announced by the one
   who settled it.  A hash is stored once.                                  *)
Notice(i) == [at |-> "notify", by |-> i]

Telling ==
  /\ \A i \in Invoice :
       /\ invoice[i].status \in {"ABSENT", "ISSUED"} => notices[i] = 0 /\ Notice(i) \notin work
       /\ notices[i] \in {0, 1}
       /\ Notice(i) \in work => notices[i] = 0
  /\ \A c \in Checkout : ~(c \in credited /\ checkout[c] = "SUCCEEDED")

\* A step that announces nothing and stores no hash.
LEMMA TellingFrame ==
  ASSUME Telling, notices' = notices, credited' = credited,
         \A i \in Invoice : Notice(i) \in work' => Notice(i) \in work,
         \A i \in Invoice : invoice'[i].status \in {"ABSENT", "ISSUED"} =>
                             invoice[i].status \in {"ABSENT", "ISSUED"},
         \A c \in Checkout : checkout'[c] = "SUCCEEDED" => checkout[c] = "SUCCEEDED"
  PROVE  Telling'
  BY DEF Telling, Notice

\* A step that settles the invoices of S, all of them open, and nothing else.
LEMMA TellingSettles ==
  ASSUME TypeOK, Telling, NEW S, S \subseteq Invoice, notices' = notices, credited' = credited,
         checkout' = checkout,
         \A i \in S : invoice[i].status = "ISSUED" /\ invoice'[i].status = "PAID",
         \A i \in Invoice \ S : /\ invoice'[i].status = invoice[i].status
                                /\ Notice(i) \in work' => Notice(i) \in work
  PROVE  Telling'
  <1>1. ASSUME NEW i \in S
        PROVE  /\ notices'[i] = 0 /\ invoice'[i].status = "PAID"
    BY DEF Telling
  <1>2. ASSUME NEW i \in Invoice \ S
        PROVE  /\ invoice'[i].status \in {"ABSENT", "ISSUED"} =>
                    notices'[i] = 0 /\ Notice(i) \notin work'
               /\ notices'[i] \in {0, 1}
               /\ Notice(i) \in work' => notices'[i] = 0
    BY DEF Telling
  <1>3. QED
    BY <1>1, <1>2 DEF Telling, Notice

LEMMA StepTelling == TypeOK /\ Telling /\ [Next]_vars => Telling'
  <1> SUFFICES ASSUME TypeOK, Telling, [Next]_vars PROVE Telling'
    OBVIOUS
  <1>1. CASE UNCHANGED <<invoice, checkout, credited, work, notices>>
    BY <1>1, TellingFrame
  <1>2. ASSUME NEW i \in Invoice, Create(i) PROVE Telling'
    <2>1. notices' = notices /\ credited' = credited
      BY <1>2 DEF Create
    <2>2. \A j \in Invoice : Notice(j) \in work' => Notice(j) \in work
      BY <1>2 DEF Create
    <2>3. \A j \in Invoice : invoice'[j].status \in {"ABSENT", "ISSUED"} =>
                             invoice[j].status \in {"ABSENT", "ISSUED"}
      BY <1>2 DEF Create, TypeOK, InvoiceRec
    <2>4. \A c \in Checkout : checkout'[c] = "SUCCEEDED" => checkout[c] = "SUCCEEDED"
      BY <1>2 DEF Create
    <2>5. QED
      BY <2>1, <2>2, <2>3, <2>4, TellingFrame
  <1>3. ASSUME NEW i \in Invoice, Cancel(i) PROVE Telling'
    <2>1. notices' = notices /\ credited' = credited
      BY <1>3 DEF Cancel
    <2>2. \A j \in Invoice : Notice(j) \in work' => Notice(j) \in work
      BY <1>3 DEF Cancel
    <2>3. \A j \in Invoice : invoice'[j].status \in {"ABSENT", "ISSUED"} =>
                             invoice[j].status \in {"ABSENT", "ISSUED"}
      BY <1>3 DEF Cancel, TypeOK, InvoiceRec
    <2>4. \A c \in Checkout : checkout'[c] = "SUCCEEDED" => checkout[c] = "SUCCEEDED"
      BY <1>3 DEF Cancel
    <2>5. QED
      BY <2>1, <2>2, <2>3, <2>4, TellingFrame
  <1>4. ASSUME NEW h \in Handler, CallAnswered(h) PROVE Telling'
    <2>1. notices' = notices /\ credited' = credited
      BY <1>4 DEF CallAnswered
    <2>2. \A j \in Invoice : Notice(j) \in work' => Notice(j) \in work
      BY <1>4 DEF CallAnswered
    <2>3. \A j \in Invoice : invoice'[j].status \in {"ABSENT", "ISSUED"} =>
                             invoice[j].status \in {"ABSENT", "ISSUED"}
      BY <1>4, DraftWritten
    <2>4. \A c \in Checkout : checkout'[c] = "SUCCEEDED" => checkout[c] = "SUCCEEDED"
      BY <1>4 DEF CallAnswered
    <2>5. QED
      BY <2>1, <2>2, <2>3, <2>4, TellingFrame
  <1>5. ASSUME NEW x \in Tx, PayInvoice(x) PROVE Telling'
    <2>1. notices' = notices /\ credited' = credited
      BY <1>5 DEF PayInvoice
    <2>2. \A j \in Invoice : Notice(j) \in work' => Notice(j) \in work
      BY <1>5 DEF PayInvoice
    <2>3. \A j \in Invoice : invoice'[j].status \in {"ABSENT", "ISSUED"} =>
                             invoice[j].status \in {"ABSENT", "ISSUED"}
      BY <1>5 DEF PayInvoice
    <2>4. \A c \in Checkout : checkout'[c] = "SUCCEEDED" => checkout[c] = "SUCCEEDED"
      BY <1>5 DEF PayInvoice, TypeOK
    <2>5. QED
      BY <2>1, <2>2, <2>3, <2>4, TellingFrame
  <1>6. ASSUME NEW h \in Handler, NEW x \in Tx, SubmitSigned(h, x) PROVE Telling'
    <2>1. notices' = notices /\ credited' = credited
      BY <1>6 DEF SubmitSigned
    <2>2. \A j \in Invoice : Notice(j) \in work' => Notice(j) \in work
      BY <1>6 DEF SubmitSigned
    <2>3. \A j \in Invoice : invoice'[j].status \in {"ABSENT", "ISSUED"} =>
                             invoice[j].status \in {"ABSENT", "ISSUED"}
      BY <1>6 DEF SubmitSigned
    <2>4. \A c \in Checkout : checkout'[c] = "SUCCEEDED" => checkout[c] = "SUCCEEDED"
      BY <1>6 DEF SubmitSigned, TypeOK
    <2>5. QED
      BY <2>1, <2>2, <2>3, <2>4, TellingFrame
  <1>7. ASSUME NEW h \in Handler, CheckoutGivenBack(h) PROVE Telling'
    <2>1. notices' = notices /\ credited' = credited
      BY <1>7 DEF CheckoutGivenBack
    <2>2. \A j \in Invoice : Notice(j) \in work' => Notice(j) \in work
      BY <1>7 DEF CheckoutGivenBack
    <2>3. \A j \in Invoice : invoice'[j].status \in {"ABSENT", "ISSUED"} =>
                             invoice[j].status \in {"ABSENT", "ISSUED"}
      BY <1>7 DEF CheckoutGivenBack
    <2>4. \A c \in Checkout : checkout'[c] = "SUCCEEDED" => checkout[c] = "SUCCEEDED"
      BY <1>7 DEF CheckoutGivenBack, TypeOK
    <2>5. QED
      BY <2>1, <2>2, <2>3, <2>4, TellingFrame
  <1>8. ASSUME NEW p \in Payment, InboundClaim(p) PROVE Telling'
    <2>1. notices' = notices /\ credited' = credited
      BY <1>8 DEF InboundClaim
    <2>2. \A j \in Invoice : Notice(j) \in work' => Notice(j) \in work
      BY <1>8 DEF InboundClaim, Notice
    <2>3. \A j \in Invoice : invoice'[j].status \in {"ABSENT", "ISSUED"} =>
                             invoice[j].status \in {"ABSENT", "ISSUED"}
      BY <1>8 DEF InboundClaim
    <2>4. \A c \in Checkout : checkout'[c] = "SUCCEEDED" => checkout[c] = "SUCCEEDED"
      BY <1>8 DEF InboundClaim
    <2>5. QED
      BY <2>1, <2>2, <2>3, <2>4, TellingFrame
  <1>9. ASSUME NEW w \in work, WorkLost(w) PROVE Telling'
    <2>1. notices' = notices /\ credited' = credited
      BY <1>9 DEF WorkLost
    <2>2. \A j \in Invoice : Notice(j) \in work' => Notice(j) \in work
      BY <1>9 DEF WorkLost
    <2>3. \A j \in Invoice : invoice'[j].status \in {"ABSENT", "ISSUED"} =>
                             invoice[j].status \in {"ABSENT", "ISSUED"}
      BY <1>9 DEF WorkLost
    <2>4. \A c \in Checkout : checkout'[c] = "SUCCEEDED" => checkout[c] = "SUCCEEDED"
      BY <1>9 DEF WorkLost
    <2>5. QED
      BY <2>1, <2>2, <2>3, <2>4, TellingFrame
  <1>10. ASSUME NEW h \in Handler, CheckoutSucceeds(h) PROVE Telling'
    <2> DEFINE p == req[h].tx.row
    <2>1. notices' = notices /\ credited' = credited /\ invoice' = invoice
      BY <1>10 DEF CheckoutSucceeds
    <2>2. \A j \in Invoice : Notice(j) \in work' => Notice(j) \in work
      BY <1>10 DEF CheckoutSucceeds, Notice
    <2>3. \A c \in Checkout : checkout'[c] = "SUCCEEDED" =>
            checkout[c] = "SUCCEEDED" \/ (c = p /\ ~HashTaken(p))
      BY <1>10 DEF CheckoutSucceeds, TypeOK
    <2>4. \A c \in Checkout : ~(c \in credited' /\ checkout'[c] = "SUCCEEDED")
      BY <2>1, <2>3 DEF Telling, HashTaken
    <2>5. QED
      BY <2>1, <2>2, <2>4 DEF Telling, Notice
  <1>11. ASSUME NEW w \in work, InboundCredit(w) PROVE Telling'
    <2>1. notices' = notices /\ checkout' = checkout /\ invoice' = invoice
      BY <1>11 DEF InboundCredit
    <2>2. \A j \in Invoice : Notice(j) \in work' => Notice(j) \in work
      BY <1>11 DEF InboundCredit, Notice
    <2>3. \A c \in Checkout : c \in credited' => c \in credited \/ ~HashTaken(c)
      BY <1>11 DEF InboundCredit
    <2>4. \A c \in Checkout : ~(c \in credited' /\ checkout'[c] = "SUCCEEDED")
      BY <2>1, <2>3 DEF Telling, HashTaken
    <2>5. QED
      BY <2>1, <2>2, <2>4 DEF Telling, Notice
  <1>12. ASSUME NEW w \in work, Reconcile(w) PROVE Telling'
    <2> DEFINE j == For[w.by]
    <2>1. w.at = "reconcile" /\ j \in Invoice
      BY <1>12, WorkBy, InvoiceAssumption DEF Reconcile
    <2>2. notices' = notices /\ credited' = credited /\ checkout' = checkout
      BY <1>12 DEF Reconcile
    <2>3. CASE Payable(j)
      <3>1. /\ invoice[j].status = "ISSUED"
            /\ invoice' = [invoice EXCEPT ![j].status = "PAID", ![j].paidBy = w.by]
            /\ work' = (work \ {w}) \cup {Notice(j)}
        BY <1>12, <2>3 DEF Reconcile, Payable, Notice
      <3> HIDE DEF j
      <3>2. /\ invoice'[j].status = "PAID"
            /\ \A i \in Invoice : i # j => invoice'[i].status = invoice[i].status
        BY <2>1, <3>1 DEF TypeOK, InvoiceRec
      <3>3. \A i \in Invoice : i # j => (Notice(i) \in work' => Notice(i) \in work)
        BY <3>1 DEF Notice
      <3> DEFINE S == {j}
      <3>4. \A i \in S : invoice[i].status = "ISSUED" /\ invoice'[i].status = "PAID"
        BY <3>1, <3>2
      <3>5. \A i \in Invoice \ S : /\ invoice'[i].status = invoice[i].status
                                   /\ Notice(i) \in work' => Notice(i) \in work
        BY <3>2, <3>3
      <3>6. S \subseteq Invoice
        BY <2>1
      <3> HIDE DEF S
      <3>7. QED
        BY <2>2, <3>4, <3>5, <3>6, TellingSettles
    <2>4. CASE ~Payable(j)
      BY <1>12, <2>2, <2>4, TellingFrame DEF Reconcile
    <2>5. QED
      BY <2>3, <2>4
  <1>13. ASSUME NEW w \in work, NotifyPaid(w) PROVE Telling'
    <2>1. w.by \in Invoice /\ w = Notice(w.by)
      BY <1>13, WorkBy DEF NotifyPaid, Notice
    <2>2. /\ notices[w.by] = 0 /\ invoice[w.by].status \notin {"ABSENT", "ISSUED"}
      BY <2>1 DEF Telling
    <2>3. /\ notices'[w.by] = 1 /\ \A j \in Invoice : j # w.by => notices'[j] = notices[j]
          /\ invoice' = invoice /\ credited' = credited /\ checkout' = checkout
          /\ work' = work \ {w}
      BY <1>13, <2>1, <2>2 DEF NotifyPaid, TypeOK
    <2>4. QED
      BY <2>1, <2>2, <2>3 DEF Telling
  <1>14. ASSUME NEW k \in DOMAIN events, ReconcileOne(k) PROVE Telling'
    <2>1. notices' = notices /\ credited' = credited /\ checkout' = checkout
      BY <1>14 DEF ReconcileOne
    <2>2. events[k] \in Event
      BY EventTyped DEF TypeOK
    <2>3. CASE events[k].topic # "paid"
      <3>1. work' = work /\ \A j \in Invoice : invoice'[j].status \in {"ABSENT", "ISSUED"} =>
                                             invoice[j].status \in {"ABSENT", "ISSUED"}
        BY <1>14, <2>3 DEF ReconcileOne, TypeOK, InvoiceRec
      <3>2. QED
        BY <2>1, <3>1, TellingFrame
    <2>4. CASE events[k].topic = "paid"
      <3> DEFINE S == {j \in Invoice : Settled(j, events[k])}
      <3>1. /\ invoice' = [i \in Invoice |-> IF Settled(i, events[k])
                                          THEN [invoice[i] EXCEPT !.status = "PAID"] ELSE invoice[i]]
            /\ work' = work \cup {Notice(i) : i \in S}
        BY <1>14, <2>4 DEF ReconcileOne, Notice
      <3>2. \A i \in S : invoice[i].status = "ISSUED" /\ invoice'[i].status = "PAID"
        BY <3>1 DEF Settled, TypeOK, InvoiceRec
      <3>3. \A i \in Invoice \ S : /\ invoice'[i].status = invoice[i].status
                                   /\ Notice(i) \in work' => Notice(i) \in work
        BY <3>1 DEF Notice
      <3> HIDE DEF S
      <3>4. S \subseteq Invoice
        BY DEF S
      <3>5. QED
        BY <2>1, <3>2, <3>3, <3>4, TellingSettles
    <2>5. QED
      BY <2>3, <2>4
  <1> QED
    BY <1>1, <1>2, <1>3, <1>4, <1>5, <1>6, <1>7, <1>8, <1>9, <1>10, <1>11, <1>12, <1>13, <1>14
    DEF Next, vars, rowVars, callVars, DirectCall, DueDatePasses, TxApplies, TxReverts,
      PrepareCall, InboundArrives, SubmitPay, SubmitIssue, SubmitCancel, Calls, HandlerDies, EventDropped, Applies,
      CallNetwork, CalledDirectly, Dies, Dropped, First, Prepare, Reverts, Start, Upset

LEMMA TellingGivesOnce == TypeOK /\ Telling => ToldOnce
  <1> SUFFICES ASSUME TypeOK, Telling PROVE ToldOnce
    OBVIOUS
  <1>1. ASSUME NEW i \in Invoice
        PROVE  notices[i] + Cardinality({w \in work : w.at = "notify" /\ w.by = i}) <= 1
    <2> DEFINE Pending == {w \in work : w.at = "notify" /\ w.by = i}
    <2>1. Pending = IF Notice(i) \in work THEN {Notice(i)} ELSE {}
      BY WorkBy DEF Notice
    <2>2. CASE Notice(i) \in work
      BY <2>1, <2>2, FS_Singleton DEF Telling
    <2>3. CASE Notice(i) \notin work
      <3>1. Cardinality(Pending) = 0
        BY <2>1, <2>3, FS_EmptySet
      <3>2. notices[i] \in {0, 1}
        BY DEF Telling
      <3> HIDE DEF Pending
      <3>3. notices[i] + Cardinality(Pending) <= 1
        BY <3>1, <3>2
      <3>4. QED
        BY <3>3 DEF Pending
    <2>4. QED
      BY <2>2, <2>3
  <1>2. QED
    BY <1>1 DEF Telling, ToldOnce

-----------------------------------------------------------------------------
(* An event that was dropped or handed over again stays so.                 *)
UpsetsKept == NoEventLost' => NoEventLost

LEMMA StepUpsets == TypeOK /\ [Next]_vars => UpsetsKept
  <1> SUFFICES ASSUME TypeOK, [Next]_vars PROVE UpsetsKept
    OBVIOUS
  <1>1. CASE UNCHANGED <<upsets>>
    BY <1>1 DEF UpsetsKept, NoEventLost
  <1>2. ASSUME DirectCall PROVE UpsetsKept
    BY <1>2 DEF DirectCall, CalledDirectly, UpsetsKept, NoEventLost, TypeOK, CallsTypeOK,
      UpsetKind
  <1>3. ASSUME NEW h \in Handler, HandlerDies(h) PROVE UpsetsKept
    BY <1>3 DEF HandlerDies, Dies, Upset, UpsetsKept, NoEventLost, TypeOK, CallsTypeOK,
      UpsetKind
  <1>4. ASSUME NEW w \in work, WorkLost(w) PROVE UpsetsKept
    BY <1>4 DEF WorkLost, Upset, UpsetsKept, NoEventLost, TypeOK, CallsTypeOK, UpsetKind
  <1>5. ASSUME NEW k \in DOMAIN events, ReconcileOne(k) PROVE UpsetsKept
    BY <1>5 DEF ReconcileOne, Delivered, First, Again, Upset, UpsetsKept, NoEventLost,
      TypeOK, CallsTypeOK, UpsetKind
  <1>6. ASSUME NEW k \in DOMAIN events, EventDropped(k) PROVE UpsetsKept
    BY <1>6 DEF EventDropped, Dropped, First, Upset, UpsetsKept, NoEventLost, TypeOK,
      CallsTypeOK, UpsetKind
  <1> QED
    BY <1>1, <1>2, <1>3, <1>4, <1>5, <1>6
    DEF Next, vars, rowVars, callVars, DueDatePasses, TxApplies, TxReverts, PrepareCall,
      PayInvoice, InboundArrives, InboundClaim, Create, Cancel, SubmitPay, SubmitIssue, SubmitCancel, SubmitSigned,
      Calls, CallAnswered, CheckoutSucceeds, CheckoutGivenBack, InboundCredit, Reconcile,
      NotifyPaid, Accepted, Applies, CallNetwork, Done, Prepare, Refused, Reverts, Start,
      Threw

\* A step that meets no event and links no row.
LEMMA ShownFrame ==
  ASSUME TypeOK, OutcomeShown, UpsetsKept, EventsKept, RowsKept, seen' = seen,
         \A i \in Invoice : invoice'[i].id = invoice[i].id
  PROVE  OutcomeShown'
  <1> SUFFICES ASSUME NoEventLost', NEW i \in Invoice, NEW k \in 1..seen',
                      events'[k].id = invoice'[i].id, events'[k].topic # "issued"
               PROVE  invoice'[i].status \in {"PAID", "CANCELED"}
    BY DEF OutcomeShown
  <1>1. NoEventLost /\ k \in 1..seen
    BY DEF UpsetsKept
  <1>2. k \in DOMAIN events
    BY <1>1 DEF TypeOK, CallsTypeOK
  <1>3. events'[k] = events[k]
    BY <1>2 DEF EventsKept
  <1>4. invoice[i].status \in {"PAID", "CANCELED"}
    BY <1>1, <1>3 DEF OutcomeShown
  <1>5. QED
    BY <1>4 DEF RowsKept

LEMMA StepShown ==
  TypeOK /\ Prepared /\ Log /\ Linked /\ OutcomeShown /\ [Next]_vars => OutcomeShown'
  <1> SUFFICES ASSUME TypeOK, Prepared, Log, Linked, OutcomeShown, [Next]_vars PROVE OutcomeShown'
    OBVIOUS
  <1>1. CASE UNCHANGED <<invoice, seen>>
    BY <1>1, StepUpsets, StepRows, StepLogKept, ShownFrame
  <1>2. ASSUME NEW i \in Invoice, Create(i) PROVE OutcomeShown'
    <2>1. seen' = seen /\ \A j \in Invoice : invoice'[j].id = invoice[j].id
      BY <1>2 DEF Create, callVars, TypeOK, InvoiceRec
    <2>2. QED
      BY <2>1, StepUpsets, StepRows, StepLogKept, ShownFrame
  <1>3. ASSUME NEW i \in Invoice, Cancel(i) PROVE OutcomeShown'
    <2>1. seen' = seen /\ \A j \in Invoice : invoice'[j].id = invoice[j].id
      BY <1>3 DEF Cancel, callVars, TypeOK, InvoiceRec
    <2>2. QED
      BY <2>1, StepUpsets, StepRows, StepLogKept, ShownFrame
  <1>4. ASSUME NEW h \in Handler, CallAnswered(h) PROVE OutcomeShown'
    <2>1. seen' = seen /\ \A j \in Invoice : invoice'[j].id = invoice[j].id
      BY <1>4, DraftWritten DEF CallAnswered, Accepted, Refused, Threw, Done
    <2>2. QED
      BY <2>1, StepUpsets, StepRows, StepLogKept, ShownFrame
  <1>5. ASSUME NEW w \in work, Reconcile(w) PROVE OutcomeShown'
    <2>1. seen' = seen /\ \A j \in Invoice : invoice'[j].id = invoice[j].id
      BY <1>5 DEF Reconcile, callVars, TypeOK, InvoiceRec
    <2>2. QED
      BY <2>1, StepUpsets, StepRows, StepLogKept, ShownFrame
  <1>6. ASSUME NEW k \in DOMAIN events, ReconcileOne(k) PROVE OutcomeShown'
    <2>1. CASE Again(k) /\ Upset("again")
      <3>1. upsets'["again"] # 0
        BY <2>1 DEF Upset, TypeOK, CallsTypeOK, UpsetKind
      <3>2. QED
        BY <3>1 DEF OutcomeShown, NoEventLost
    <2>2. CASE First(k) /\ seen' = k
      <3> SUFFICES ASSUME NoEventLost', NEW i \in Invoice, NEW m \in 1..seen',
                          events'[m].id = invoice'[i].id, events'[m].topic # "issued"
                   PROVE  invoice'[i].status \in {"PAID", "CANCELED"}
        BY DEF OutcomeShown
      <3>1. /\ events' = events /\ NoEventLost
            /\ events[k] \in Event /\ events[m] \in Event
            /\ k \in DOMAIN events /\ m \in DOMAIN events
            /\ seen \in Nat /\ k = seen + 1 /\ m \in 1..k
        <4>1. events' = events /\ NoEventLost
          BY <1>6, StepUpsets DEF ReconcileOne, Delivered, UpsetsKept
        <4>2. /\ k \in DOMAIN events /\ m \in DOMAIN events
              /\ seen \in Nat /\ k = seen + 1 /\ m \in 1..k
          BY <2>2 DEF First, TypeOK, CallsTypeOK
        <4>3. events[k] \in Event /\ events[m] \in Event
          BY <4>2, EventTyped DEF TypeOK
        <4>4. QED
          BY <4>1, <4>2, <4>3
      <3>2. ASSUME m # k, invoice'[i].id = invoice[i].id
            PROVE  invoice'[i].status \in {"PAID", "CANCELED"}
        <4>1. m \in 1..seen
          BY <3>1, <3>2
        <4>2. invoice[i].status \in {"PAID", "CANCELED"}
          BY <3>1, <3>2, <4>1 DEF OutcomeShown
        <4>3. QED
          BY <4>2, StepRows DEF RowsKept
      <3>3. CASE events[k].topic = "issued"
        <4>1. m # k /\ m \in 1..(k - 1)
          BY <3>1, <3>3
        <4>2. \/ invoice'[i].id = invoice[i].id
              \/ invoice'[i].id = events[k].id
          BY <1>6, <3>3 DEF ReconcileOne, TypeOK, InvoiceRec
        <4>3. invoice'[i].id # events[k].id
          BY <3>1, <3>3, <4>1 DEF Log
        <4>4. QED
          BY <3>2, <4>1, <4>2, <4>3
      <3>4. CASE events[k].topic # "issued"
        <4>1. /\ invoice'[i].id = invoice[i].id
              /\ Settled(i, events[k]) => invoice'[i].status \in {"PAID", "CANCELED"}
          BY <1>6, <3>1, <3>4 DEF ReconcileOne, TypeOK, InvoiceRec, Event
        <4>2. CASE m = k
          <5>1. invoice[i].id = events[k].id /\ invoice[i].id # None
            BY <3>1, <4>1, <4>2, InvoiceAssumption DEF Event
          <5>2. invoice[i].status \in {"ISSUED", "PAID", "CANCELED"}
            BY <5>1 DEF Linked, TypeOK, InvoiceRec
          <5>3. QED
            BY <4>1, <5>1, <5>2, StepRows DEF Settled, RowsKept
        <4>3. QED
          BY <3>2, <4>1, <4>2
      <3>5. QED
        BY <3>3, <3>4
    <2>3. QED
      BY <1>6, <2>1, <2>2 DEF ReconcileOne, Delivered
  <1>7. ASSUME NEW k \in DOMAIN events, EventDropped(k) PROVE OutcomeShown'
    <2>1. upsets'["dropped"] # 0
      BY <1>7 DEF EventDropped, Dropped, Upset, TypeOK, CallsTypeOK, UpsetKind
    <2>2. QED
      BY <2>1 DEF OutcomeShown, NoEventLost
  <1> QED
    BY <1>1, <1>2, <1>3, <1>4, <1>5, <1>6, <1>7
    DEF Next, vars, rowVars, callVars, DirectCall, DueDatePasses, TxApplies, TxReverts,
      PrepareCall, PayInvoice, InboundArrives, InboundClaim, SubmitPay, SubmitIssue, SubmitCancel, SubmitSigned, Calls,
      CheckoutSucceeds, CheckoutGivenBack, HandlerDies, InboundCredit, NotifyPaid, WorkLost,
      Accepted, Applies, CallNetwork, CalledDirectly, Dies, Done, Prepare, Refused, Reverts,
      Start, Threw, Upset

-----------------------------------------------------------------------------
(* The invariant.                                                           *)
InvoiceInv ==
  TypeOK /\ Requests /\ Prepared /\ Claimed /\ Log /\ Drafts /\ Linked /\ Paying /\ Telling
    /\ OutcomeShown

LEMMA InitInv == Init => InvoiceInv
  <1> SUFFICES ASSUME Init PROVE InvoiceInv
    OBVIOUS
  <1>1. /\ fate = [x \in Tx |-> "none"] /\ events = <<>> /\ seen = 0
        /\ req = [h \in Handler |-> Idle]
        /\ upsets = [k \in UpsetKind |-> IF k = "foreign" THEN 0 ELSE 0]
    BY DEF Init, CallsInit, CallsInitAfter
  <1>2. TypeOK
    <2>1. CallsTypeOK(Event)
      BY <1>1, CallsAssumption DEF CallsTypeOK, Fate, Idle
    <2>2. QED
      BY <2>1, InvoiceAssumption DEF Init, TypeOK, InvoiceRec
  <1>3. Requests /\ Prepared /\ Claimed /\ Log
    BY <1>1 DEF Init, Requests, Prepared, Claimed, Log, Idle
  <1>4. Drafts /\ Linked /\ Paying
    BY DEF Init, Drafts, Linked, Paying
  <1>5. Telling
    BY DEF Init, Telling
  <1>6. OutcomeShown
    BY <1>1 DEF OutcomeShown
  <1>7. QED
    BY <1>2, <1>3, <1>4, <1>5, <1>6 DEF InvoiceInv

LEMMA StepInv == InvoiceInv /\ [Next]_vars => InvoiceInv'
  BY StepTyped, StepRequests, StepPrepared, StepClaimed, StepLog, StepDrafts, StepLinked, StepPaying,
     StepTelling, StepShown
  DEF InvoiceInv

LEMMA InvHolds == Spec => []InvoiceInv
  BY InitInv, StepInv, PTL DEF Spec

(* Every run keeps the typing: storage, rows, claims and webhooks stay what the
   contract, the Prisma schema and the listeners take them for.             *)
THEOREM InvoiceTypeCorrect == Spec => []TypeOK
  <1>1. InvoiceInv => TypeOK
    BY DEF InvoiceInv
  <1>2. QED
    BY <1>1, InvHolds, PTL

(* A PAID invoice was paid, and a linked one is linked to an entry that an envelope
   of the API made and that no other row holds, whichever of submitSigned, the two listeners and the contract's
   events settled it, in whatever order and however often.                  *)
THEOREM PaidOnEvidenceHolds == Spec => []PaidOnEvidence
  <1>1. InvoiceInv => PaidOnEvidence
    BY DEF InvoiceInv, PaidOnEvidence, Linked, Issued, Paying, Pays, PaidOnChain
  <1>2. QED
    BY <1>1, InvHolds, PTL

(* The merchant hears of a payment once at most, and no payment is stored both
   as a checkout that succeeded and as an inbound credit.                   *)
THEOREM ToldOnceHolds == Spec => []ToldOnce
  <1>1. InvoiceInv => ToldOnce
    BY TellingGivesOnce DEF InvoiceInv
  <1>2. QED
    BY <1>1, InvHolds, PTL

(* While the indexer loses and repeats nothing, a payment or cancellation in the
   contract closes the row linked to the entry.                             *)
THEOREM OutcomeShownHolds == Spec => []OutcomeShown
  <1>1. InvoiceInv => OutcomeShown
    BY DEF InvoiceInv
  <1>2. QED
    BY <1>1, InvHolds, PTL
=================================================================================
