---------------------------- MODULE MerchantSettlement ---------------------------
(***************************************************************************)
(* The merchant feature end to end: MerchantsService (register, sale and   *)
(* settle on-chain), the merchant contract, and the indexer handlers that  *)
(* link the merchant, credit its sales and complete its settlements.       *)
(*                                                                         *)
(* Abstractions: every wallet envelope is the one that was prepared; each  *)
(* merchant user has one wallet, its owner account and settlement address. *)
(***************************************************************************)
EXTENDS MerchantContract, ContractCalls, Functions

CONSTANTS
  Merchant,   \* merchant rows
  Wallet,     \* the wallet of each merchant's user
  SaleRow,    \* sales asked of the API
  SettleRow,  \* rows of Settlement
  Owner,      \* the merchant each sale and settlement row belongs to
  Asset,      \* the token of each of them
  Price,      \* what an API sale costs
  Payer, Rate,
  Native,     \* the token whose amounts the indexer understands
  Tick        \* indexer ticks that may run at the same time (TTL-only lock)

Envelopes == [row : Merchant, call : {"register"}] \cup [row : SaleRow, call : {"sale"}]
               \cup [row : SettleRow, call : {"settle"}]

ASSUME SettlementAssumption ==
  /\ Tx = Envelopes
  /\ Wallet \in [Merchant -> Account]
  /\ Owner \in [SaleRow \cup SettleRow -> Merchant]
  /\ Asset \in [SaleRow \cup SettleRow -> Token]
  /\ Price \in Amount /\ Payer \in Account /\ Rate \in Bps /\ Native \in Token
  /\ None \notin Tx

VARIABLES
  merchant,    \* Merchant rows: the columns registerTxHash and onChainMerchantId
  settlement,  \* Settlement rows
  recorded,    \* ChainEvent rows: positions of the sale events
  credits,     \* INCOMING transaction rows, as the sale events they stand for
  stash        \* per tick: the sale event it has recorded and not credited yet

rowVars == <<merchant, settlement, recorded, credits, stash>>
vars == <<merchantVars, callVars, rowVars>>

Event == [topic : {"reg", "sale", "settle"}, id : Id, token : Token, amount : Nat,
          commission : Nat, tx : Tx \cup {Foreign}]
SettlementRec == [status : {"ABSENT", "PROCESSING", "COMPLETED", "FAILED"}, amount : Nat,
                  settleTx : Tx \cup {NoTx, Foreign}]

TypeOK ==
  /\ MerchantTypeOK
  /\ CallsTypeOK(Event)
  /\ merchant \in [Merchant -> [hash : Tx \cup {NoTx}, id : Id \cup {None}]]
  /\ settlement \in [SettleRow -> SettlementRec]
  /\ recorded \subseteq DOMAIN events
  /\ credits \in Seq(recorded)
  /\ stash \in [Tick -> recorded \cup {0}]

RowsInit ==
  /\ merchant = [m \in Merchant |-> [hash |-> NoTx, id |-> None]]
  /\ settlement = [s \in SettleRow |-> [status |-> "ABSENT", amount |-> 0, settleTx |-> NoTx]]
  /\ recorded = {}
  /\ credits = <<>>
  /\ stash = [k \in Tick |-> 0]

Init == MerchantInit /\ CallsInit /\ RowsInit

-----------------------------------------------------------------------------
(* The ledger.                                                              *)

Publish(topic, i, t, n, c, x) ==
  events' = Append(events, [topic |-> topic, id |-> i, token |-> t, amount |-> n,
                            commission |-> c, tx |-> x])

RegisterAs(a, to, b, x) == Register(a, to, b) /\ Publish("reg", nextId, Native, 0, 0, x)
SaleAs(a, i, t, n, x)   == RecordSale(a, i, t, n) /\ Publish("sale", i, t, n, 0, x)
SettleAs(i, t, x)       == /\ Settle(i, t)
                           /\ Publish("settle", i, t, NetOf(i, t), Commission(i, balance[<<i, t>>]), x)

RowMerchant(x) == IF x.row \in Merchant THEN x.row ELSE Owner[x.row]
IdOf(x) == merchant[RowMerchant(x)].id

TxApplies(x) ==
  /\ Applies(x)
  /\ LET w == Wallet[RowMerchant(x)]
     IN  \/ x.call = "register" /\ RegisterAs(w, w, Rate, x)
         \/ x.call = "sale" /\ SaleAs(Payer, IdOf(x), Asset[x.row], Price, x)
         \/ /\ x.call = "settle" /\ profile[IdOf(x)].owner = w
            /\ SettleAs(IdOf(x), Asset[x.row], x)
  /\ UNCHANGED rowVars

TxReverts(x) == Reverts(x) /\ UNCHANGED <<merchantVars, rowVars>>

\* Merchants, payers and the administrator call the contract without the API.
DirectCall ==
  /\ CalledDirectly
  /\ \/ \E a \in Account : Initialize(a) /\ UNCHANGED events
     \/ \E i \in Id : Amend(i) /\ UNCHANGED events
     \/ \E a, to \in Account, b \in Bps : RegisterAs(a, to, b, Foreign)
     \/ \E a \in Account, i \in Id, t \in Token, n \in Amount : SaleAs(a, i, t, n, Foreign)
     \/ \E i \in Id, t \in Token : SettleAs(i, t, Foreign)
  /\ UNCHANGED rowVars

-----------------------------------------------------------------------------
(* MerchantsService.                                                        *)

\* registerOnChain, recordSale and settleOnChain; only the last inserts a row.
PrepareCall(x) ==
  /\ (IdOf(x) = None) <=> (x.call = "register")
  /\ x.call = "sale" => profile[IdOf(x)].active
  /\ x.call = "settle" => balance[<<IdOf(x), Asset[x.row]>>] > 0
  /\ Prepare(x)
  /\ settlement' = IF x.call = "settle"
                   THEN [settlement EXCEPT ![x.row].status = "PROCESSING"] ELSE settlement
  /\ UNCHANGED <<merchantVars, merchant, recorded, credits, stash>>

\* No claim: two requests may submit for one row.
Submit(h, x) ==
  /\ x.call = "register" => merchant[x.row].id = None
  /\ x.call = "settle" => settlement[x.row].status = "PROCESSING"
  /\ Start(h, x)
  /\ UNCHANGED <<merchantVars, rowVars>>

Calls(h) == CallNetwork(h) /\ UNCHANGED <<merchantVars, rowVars>>

\* A registration's hash is kept for the event; the other hashes decide nothing.
PersistHash(h) ==
  LET x == req[h].tx
  IN  /\ Accepted(h)
      /\ merchant' = IF x.call = "register" THEN [merchant EXCEPT ![x.row].hash = x] ELSE merchant
      /\ UNCHANGED <<merchantVars, settlement, recorded, credits, stash>>

\* A settlement is failed by id alone.
PersistFailed(h) ==
  LET x == req[h].tx
  IN  /\ Refused(h)
      /\ settlement' = IF x.call = "settle"
                       THEN [settlement EXCEPT ![x.row].status = "FAILED"] ELSE settlement
      /\ UNCHANGED <<merchantVars, merchant, recorded, credits, stash>>

Gone(h) == (Threw(h) \/ Dies(h)) /\ UNCHANGED <<merchantVars, rowVars>>

-----------------------------------------------------------------------------
(* ContractReconciliationService.                                           *)

OnMerchantRegistered(k) ==
  LET e == events[k]
  IN  /\ e.topic = "reg"
      /\ Delivered(k)
      /\ merchant' = [m \in Merchant |-> IF merchant[m].hash = e.tx /\ merchant[m].id = None
                                         THEN [merchant[m] EXCEPT !.id = e.id] ELSE merchant[m]]
      /\ UNCHANGED <<merchantVars, settlement, recorded, credits, stash>>

\* The event's amount is the net one.  (Mutant: the commission is added back.)
GrossShown(e) == e.amount + e.commission
AmountShown(e) == e.amount

\* Every PROCESSING row of the merchant, whatever its envelope or token.
OnMerchantSettled(k) ==
  LET e == events[k]
      Mine(s) == merchant[Owner[s]].id = e.id /\ settlement[s].status = "PROCESSING"
  IN  /\ e.topic = "settle"
      /\ Delivered(k)
      /\ settlement' = [s \in SettleRow |->
           IF Mine(s) THEN [status |-> "COMPLETED", settleTx |-> e.tx,
                            amount |-> IF e.token = Native THEN AmountShown(e) ELSE settlement[s].amount]
           ELSE settlement[s]]
      /\ UNCHANGED <<merchantVars, merchant, recorded, credits, stash>>

\* A sale to credit: a linked merchant, the native token, an event not recorded yet.
\* (Mutant: the ChainEvent row is not looked up.)
Creditable(e) == (\E m \in Merchant : merchant[m].id = e.id) /\ e.token = Native
FreshUnchecked(k) == Creditable(events[k])
Fresh(k) == Creditable(events[k]) /\ k \notin recorded

\* onMerchantSale records the event ...
RecordEvent(j, k) ==
  /\ stash[j] = 0
  /\ events[k].topic = "sale"
  /\ Fresh(k)
  /\ \/ First(k) /\ UNCHANGED upsets
     \/ Again(k) /\ Upset("again")
  /\ recorded' = recorded \cup {k}
  /\ stash' = [stash EXCEPT ![j] = k]
  /\ UNCHANGED <<merchantVars, fate, events, seen, req, merchant, settlement, credits>>

\* ... and then inserts the credit.
CreditSale(j) ==
  /\ stash[j] # 0
  /\ credits' = Append(credits, stash[j])
  /\ seen' = IF stash[j] > seen THEN stash[j] ELSE seen
  /\ stash' = [stash EXCEPT ![j] = 0]
  /\ UNCHANGED <<merchantVars, fate, events, req, upsets, merchant, settlement, recorded>>

\* The process stops in between, or the insert fails and the error is swallowed.
CreditLost(j) ==
  /\ stash[j] # 0
  /\ \/ Upset("died") /\ UNCHANGED seen
     \/ Upset("dropped") /\ seen' = IF stash[j] > seen THEN stash[j] ELSE seen
  /\ stash' = [stash EXCEPT ![j] = 0]
  /\ UNCHANGED <<merchantVars, fate, events, req, merchant, settlement, recorded, credits>>

SaleIgnored(k) ==
  /\ events[k].topic = "sale"
  /\ ~Fresh(k)
  /\ Delivered(k)
  /\ UNCHANGED <<merchantVars, rowVars>>

EventDropped(k) == Dropped(k) /\ UNCHANGED <<merchantVars, rowVars>>

Next ==
  \/ DirectCall
  \/ \E x \in Tx : TxApplies(x) \/ TxReverts(x) \/ PrepareCall(x)
  \/ \E h \in Handler, x \in Tx : Submit(h, x)
  \/ \E h \in Handler : Calls(h) \/ PersistHash(h) \/ PersistFailed(h) \/ Gone(h)
  \/ \E k \in DOMAIN events : \/ OnMerchantRegistered(k) \/ OnMerchantSettled(k)
                              \/ SaleIgnored(k) \/ EventDropped(k)
                              \/ \E j \in Tick : RecordEvent(j, k)
  \/ \E j \in Tick : CreditSale(j) \/ CreditLost(j)

Spec == Init /\ [][Next]_vars

-----------------------------------------------------------------------------
Gross == [k \in DOMAIN events |-> events[k].amount + events[k].commission]
Of(topic, i, t) ==
  {k \in DOMAIN events : events[k].topic = topic /\ events[k].id = i /\ events[k].token = t}
Total(topic, i, t) == SumFunctionOnSet(Gross, Of(topic, i, t))

(* The contract owes each merchant what was sold and not settled, commissions
   included, and holds exactly what it owes to all of them.                  *)
BooksBalance ==
  /\ \A i \in Id, t \in Token : Total("sale", i, t) = Total("settle", i, t) + balance[<<i, t>>]
  /\ \A t \in Token : held[t] = SumFunctionOnSet(balance, Id \X {t})

(* "a re-delivered `sale` event must not double-credit the merchant"
   (contract-reconciliation.service.ts:537), and without a restart or a failed
   insert every native sale of a linked merchant the indexer has passed is
   credited or about to be.                                                  *)
SaleCreditedOnce ==
  /\ \A p, q \in DOMAIN credits : credits[p] = credits[q] => p = q
  /\ NoEventLost /\ upsets["died"] = 0 =>
       \A k \in 1..seen : events[k].topic = "sale" /\ Creditable(events[k]) =>
         (\E p \in DOMAIN credits : credits[p] = k) \/ (\E j \in Tick : stash[j] = k)

(* "COMPLETED is set only when the on-chain `settle` event is indexed"
   (schema.prisma:528-529): a completed row names a settle event of its
   merchant and shows the net amount paid out in it, or none for a token the
   indexer does not know; a failed row's own envelope was reverted.          *)
SettlementOnEvidence ==
  \A s \in SettleRow :
    /\ settlement[s].status = "COMPLETED" =>
         \E k \in DOMAIN events :
           /\ events[k].topic = "settle"
           /\ events[k].id = merchant[Owner[s]].id
           /\ events[k].tx = settlement[s].settleTx
           /\ settlement[s].amount = IF events[k].token = Native THEN events[k].amount ELSE 0
    /\ settlement[s].status = "FAILED" => \E x \in Tx : x.row = s /\ fate[x] = "reverted"
=================================================================================
