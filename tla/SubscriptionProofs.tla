----------------------------- MODULE SubscriptionProofs -----------------------------
(***************************************************************************)
(* The contract's terms hold in SubscriptionLifecycle, and its rows show   *)
(* them, for any plans, subscribers, rows, interval, clock, number of      *)
(* requests and faults.                                                    *)
(***************************************************************************)
EXTENDS SubscriptionLifecycle, TLAPS

Entry == [who : Subscriber, plan : Nat, due : Nat, active : BOOLEAN, from : Nat, payments : Nat]

Pair(s) == <<subs[s].plan, subs[s].who>>

(* What makes TermsKept inductive: each payment moved the due date a whole
   interval on, and no due date lies more than an interval ahead.           *)
LedgerTyped == now \in Nat /\ plans \in Nat /\ subs \in Seq(Entry)
SlotsExact == \A y : y \in slots <=> \E s \in DOMAIN subs : subs[s].active /\ y = Pair(s)
OnceAtATime ==
  \A s, t \in DOMAIN subs : subs[s].active /\ subs[t].active /\ Pair(s) = Pair(t) => s = t
Charged(s) ==
  /\ subs[s].payments * Interval <= subs[s].due - subs[s].from
  /\ subs[s].due <= now + Interval
Terms == LedgerTyped /\ SlotsExact /\ OnceAtATime /\ \A s \in DOMAIN subs : Charged(s)

LEMMA EntryTyped ==
  ASSUME LedgerTyped, NEW s \in DOMAIN subs
  PROVE  /\ subs[s] \in Entry /\ subs[s].payments \in Nat /\ subs[s].due \in Nat
         /\ subs[s].from \in Nat /\ s \in 1..Len(subs) /\ Len(subs) \in Nat
  <1>1. subs[s] \in Entry /\ s \in 1..Len(subs) /\ Len(subs) \in Nat
    BY DEF LedgerTyped
  <1>2. QED
    BY <1>1 DEF Entry

(* One payment more is one interval more.                                   *)
LEMMA NextPayment ==
  ASSUME NEW k \in Nat PROVE (k + 1) * Interval = k * Interval + Interval /\ k * Interval \in Nat
  BY SubscriptionAssumption

LEMMA TermsImply == Terms => TermsKept
  <1> SUFFICES ASSUME Terms PROVE TermsKept
    OBVIOUS
  <1>1. \A s \in DOMAIN subs : (subs[s].payments - 1) * Interval <= now - subs[s].from
    <2> TAKE s \in DOMAIN subs
    <2> DEFINE k == subs[s].payments
    <2>1. k \in Nat /\ subs[s].due \in Nat /\ subs[s].from \in Nat /\ now \in Nat /\ Interval \in Nat
      BY EntryTyped, SubscriptionAssumption DEF Terms, LedgerTyped
    <2>2. k * Interval <= subs[s].due - subs[s].from /\ subs[s].due <= now + Interval
      BY DEF Terms, Charged
    <2> HIDE DEF k
    <2>3. (k - 1) * Interval = k * Interval - Interval /\ k * Interval \in Int
      BY <2>1
    <2>4. k * Interval - Interval <= now - subs[s].from
      <3> DEFINE m == k * Interval
      <3> HIDE DEF m
      <3>1. m \in Int /\ m <= subs[s].due - subs[s].from
        BY <2>2, <2>3 DEF m
      <3>2. m - Interval <= now - subs[s].from
        BY <2>1, <2>2, <3>1
      <3>3. QED
        BY <3>2 DEF m
    <2>5. QED
      BY <2>3, <2>4 DEF k
  <1>2. slots = {<<subs[s].plan, subs[s].who>> : s \in {t \in DOMAIN subs : subs[t].active}}
    BY DEF Terms, SlotsExact, Pair
  <1>3. QED
    BY <1>1, <1>2 DEF Terms, TermsKept, OnceAtATime, Pair

LEMMA InitTerms == Init => Terms
  <1> SUFFICES ASSUME Init PROVE Terms
    OBVIOUS
  <1>1. now = 0 /\ plans = 0 /\ subs = <<>> /\ slots = {} /\ DOMAIN subs = {}
    BY DEF Init
  <1>2. QED
    BY <1>1 DEF Terms, LedgerTyped, SlotsExact, OnceAtATime

LEMMA UnchangedTerms == ASSUME Terms, UNCHANGED contractVars PROVE Terms'
  BY DEF contractVars, Terms, LedgerTyped, SlotsExact, OnceAtATime, Charged, Pair

LEMMA CreatePlanTerms == ASSUME Terms, NEW x, CreatePlan(x) PROVE Terms'
  BY DEF CreatePlan, Terms, LedgerTyped, SlotsExact, OnceAtATime, Charged, Pair

LEMMA TickTerms == ASSUME Terms, Tick PROVE Terms'
  <1>1. \A s \in DOMAIN subs : subs[s].due \in Nat
    BY EntryTyped DEF Terms
  <1>2. QED
    BY <1>1, SubscriptionAssumption
    DEF Tick, Terms, LedgerTyped, SlotsExact, OnceAtATime, Charged, Pair

LEMMA AppendedEntry ==
  ASSUME NEW S, NEW q \in Seq(S), NEW e \in S, NEW n, n = Len(q) + 1
  PROVE  /\ Append(q, e) \in Seq(S) /\ DOMAIN Append(q, e) = DOMAIN q \cup {n}
         /\ n \notin DOMAIN q /\ Append(q, e)[n] = e
         /\ \A s \in DOMAIN q : Append(q, e)[s] = q[s]
  <1>1. Len(q) \in Nat /\ DOMAIN q = 1..Len(q)
    OBVIOUS
  <1>2. /\ Append(q, e) \in Seq(S) /\ Len(Append(q, e)) = Len(q) + 1
        /\ DOMAIN Append(q, e) = 1..(Len(q) + 1)
    OBVIOUS
  <1>3. 1..(Len(q) + 1) = (1..Len(q)) \cup {n} /\ n \notin 1..Len(q)
    BY <1>1
  <1>4. Append(q, e)[n] = e /\ \A s \in 1..Len(q) : Append(q, e)[s] = q[s]
    BY <1>1
  <1>5. QED
    BY <1>1, <1>2, <1>3, <1>4

LEMMA SubscribeTerms ==
  ASSUME Terms, NEW p, NEW who \in Subscriber, NEW x, Subscribe(p, who, x)
  PROVE  Terms'
  <1>1. subs \in Seq(Entry) /\ now \in Nat /\ Interval \in Nat /\ plans \in Nat
    BY SubscriptionAssumption DEF Terms, LedgerTyped
  <1>2. p \in Nat
    BY <1>1 DEF Subscribe
  <1>3. PICK e : e = [who |-> who, plan |-> p, due |-> now + Interval, active |-> TRUE,
                      from |-> now, payments |-> 1]
    OBVIOUS
  <1>4. /\ e.who = who /\ e.plan = p /\ e.due = now + Interval /\ e.active
        /\ e.from = now /\ e.payments = 1 /\ e \in Entry
    BY <1>1, <1>2, <1>3 DEF Entry
  <1>5. PICK n : n = Len(subs) + 1
    OBVIOUS
  <1>6. subs' = Append(subs, e) /\ now' = now /\ plans' = plans
    BY <1>3 DEF Subscribe
  <1>7. /\ DOMAIN subs' = DOMAIN subs \cup {n} /\ n \notin DOMAIN subs /\ subs'[n] = e
        /\ (\A s \in DOMAIN subs : subs'[s] = subs[s]) /\ subs' \in Seq(Entry)
    BY <1>1, <1>4, <1>5, <1>6, AppendedEntry
  <1>8. LedgerTyped'
    BY <1>1, <1>6, <1>7 DEF LedgerTyped
  <1>9. <<p, who>> \notin slots /\ slots' = slots \cup {<<p, who>>}
    BY DEF Subscribe
  <1>10. Pair(n)' = <<p, who>> /\ subs'[n].active
    BY <1>4, <1>7 DEF Pair
  <1>11. \A s \in DOMAIN subs : Pair(s)' = Pair(s) /\ subs'[s].active = subs[s].active
    BY <1>7 DEF Pair
  <1>12. \A s \in DOMAIN subs : subs[s].active => Pair(s) # <<p, who>>
    BY <1>9 DEF Terms, SlotsExact
  <1>13. SlotsExact'
    <2>1. ASSUME NEW y, y \in slots'
          PROVE  \E s \in DOMAIN subs' : subs'[s].active /\ y = Pair(s)'
      BY <1>7, <1>9, <1>10, <1>11, <2>1 DEF Terms, SlotsExact
    <2>2. ASSUME NEW s \in DOMAIN subs', subs'[s].active PROVE Pair(s)' \in slots'
      BY <1>7, <1>9, <1>10, <1>11, <2>2 DEF Terms, SlotsExact
    <2>3. QED
      BY <2>1, <2>2 DEF SlotsExact
  <1>14. OnceAtATime'
    BY <1>7, <1>10, <1>11, <1>12 DEF Terms, OnceAtATime
  <1>15. \A s \in DOMAIN subs' : Charged(s)'
    <2>1. ASSUME NEW s \in DOMAIN subs PROVE Charged(s)'
      BY <1>6, <1>7, <2>1 DEF Terms, Charged
    <2>2. Charged(n)'
      BY <1>1, <1>4, <1>6, <1>7 DEF Charged
    <2>3. QED
      BY <1>7, <2>1, <2>2
  <1>16. QED
    BY <1>8, <1>13, <1>14, <1>15 DEF Terms

LEMMA ChargedEntry ==
  ASSUME NEW r \in Entry, NEW t \in Nat, NEW k \in Nat
  PROVE  [r EXCEPT !.due = t, !.payments = k] \in Entry
  BY DEF Entry

LEMMA RenewTerms == ASSUME Terms, NEW d, NEW x, Renew(d, x) PROVE Terms'
  <1>1. d \in DOMAIN subs /\ subs[d].active /\ now >= subs[d].due
    BY DEF Renew, Renewable
  <1>2. /\ subs[d] \in Entry /\ subs[d].payments \in Nat /\ subs[d].due \in Nat
        /\ subs[d].from \in Nat /\ now \in Nat /\ Interval \in Nat
    BY <1>1, EntryTyped, SubscriptionAssumption DEF Terms, LedgerTyped
  <1>3. PICK e : e = [subs[d] EXCEPT !.due = now + Interval, !.payments = @ + 1]
    OBVIOUS
  <1>4. subs' = [subs EXCEPT ![d] = e] /\ now' = now /\ plans' = plans /\ slots' = slots
    BY <1>3 DEF Renew
  <1>5. e \in Entry
    <2>1. now + Interval \in Nat /\ subs[d].payments + 1 \in Nat
      BY <1>2
    <2>2. QED
      BY <1>2, <1>3, <2>1, ChargedEntry
  <1>6. /\ e.who = subs[d].who /\ e.plan = subs[d].plan /\ e.active = subs[d].active
        /\ e.from = subs[d].from /\ e.due = now + Interval /\ e.payments = subs[d].payments + 1
    BY <1>2, <1>3 DEF Entry
  <1>7. LedgerTyped'
    BY <1>1, <1>4, <1>5 DEF Terms, LedgerTyped
  <1>8. /\ DOMAIN subs' = DOMAIN subs /\ subs'[d] = e
        /\ \A s \in DOMAIN subs : s # d => subs'[s] = subs[s]
    BY <1>1, <1>4 DEF Terms, LedgerTyped
  <1>9. \A s \in DOMAIN subs : Pair(s)' = Pair(s) /\ subs'[s].active = subs[s].active
    BY <1>6, <1>8 DEF Pair
  <1>10. SlotsExact' /\ OnceAtATime'
    BY <1>4, <1>8, <1>9 DEF Terms, SlotsExact, OnceAtATime
  <1>11. \A s \in DOMAIN subs' : Charged(s)'
    <2>1. ASSUME NEW s \in DOMAIN subs, s # d PROVE Charged(s)'
      BY <1>4, <1>8, <2>1 DEF Terms, Charged
    <2>2. Charged(d)'
      <3> DEFINE k == subs[d].payments
                 m == k * Interval
      <3>1. (k + 1) * Interval = m + Interval /\ m \in Nat
        BY <1>2, NextPayment
      <3>2. m <= subs[d].due - subs[d].from
        BY <1>1 DEF Terms, Charged
      <3>3. m + Interval <= (now + Interval) - subs[d].from
        <4> HIDE DEF m
        <4>1. QED
          BY <1>1, <1>2, <3>1, <3>2
      <3>4. QED
        BY <1>2, <1>4, <1>6, <1>8, <3>1, <3>3 DEF Charged
    <2>3. QED
      BY <1>8, <2>1, <2>2
  <1>12. QED
    BY <1>7, <1>10, <1>11 DEF Terms

LEMMA CancelTerms == ASSUME Terms, NEW d, NEW x, CancelSub(d, x) PROVE Terms'
  <1>1. d \in DOMAIN subs /\ subs[d].active /\ subs[d] \in Entry
    BY EntryTyped DEF CancelSub, Terms
  <1> DEFINE e == [subs[d] EXCEPT !.active = FALSE]
  <1>2. /\ subs' = [subs EXCEPT ![d] = e] /\ now' = now /\ plans' = plans
        /\ slots' = slots \ {Pair(d)}
    BY DEF CancelSub, Freed, Pair
  <1>3. e \in Entry
    BY <1>1 DEF Entry
  <1>4. /\ e.who = subs[d].who /\ e.plan = subs[d].plan /\ ~e.active
        /\ e.from = subs[d].from /\ e.due = subs[d].due /\ e.payments = subs[d].payments
    BY <1>1 DEF Entry
  <1>5. LedgerTyped'
    BY <1>1, <1>2, <1>3 DEF Terms, LedgerTyped
  <1>6. /\ DOMAIN subs' = DOMAIN subs /\ subs'[d] = e
        /\ \A s \in DOMAIN subs : s # d => subs'[s] = subs[s]
    BY <1>1, <1>2 DEF Terms, LedgerTyped
  <1>7. \A s \in DOMAIN subs : Pair(s)' = Pair(s) /\ (subs'[s].active => subs[s].active /\ s # d)
    BY <1>4, <1>6 DEF Pair
  <1>8. \A s \in DOMAIN subs : subs[s].active /\ s # d => Pair(s) # Pair(d) /\ subs'[s].active
    BY <1>1, <1>6 DEF Terms, OnceAtATime
  <1>9. SlotsExact'
    <2>1. ASSUME NEW y, y \in slots'
          PROVE  \E s \in DOMAIN subs' : subs'[s].active /\ y = Pair(s)'
      BY <1>2, <1>6, <1>7, <1>8, <2>1 DEF Terms, SlotsExact
    <2>2. ASSUME NEW s \in DOMAIN subs', subs'[s].active PROVE Pair(s)' \in slots'
      BY <1>2, <1>6, <1>7, <1>8, <2>2 DEF Terms, SlotsExact
    <2>3. QED
      BY <2>1, <2>2 DEF SlotsExact
  <1>10. OnceAtATime'
    BY <1>6, <1>7 DEF Terms, OnceAtATime
  <1>11. \A s \in DOMAIN subs' : Charged(s)'
    BY <1>2, <1>4, <1>6 DEF Terms, Charged
  <1>12. QED
    BY <1>5, <1>9, <1>10, <1>11 DEF Terms

(* Everything but the four calls and the clock leaves the contract alone.   *)
LEMMA StepTerms == Terms /\ [Next]_vars => Terms'
  <1> SUFFICES ASSUME Terms, [Next]_vars PROVE Terms'
    OBVIOUS
  <1>1. ASSUME NEW x \in Tx, TxApplies(x) PROVE Terms'
    <2>1. x.call = "subscribe" => Owner[x.row] \in Subscriber
      BY SubscriptionAssumption DEF Envelopes
    <2>2. QED
      BY <1>1, <2>1, CreatePlanTerms, SubscribeTerms, RenewTerms, CancelTerms DEF TxApplies
  <1>2. CASE DirectCall
    BY <1>2, CreatePlanTerms, SubscribeTerms, RenewTerms, CancelTerms DEF DirectCall
  <1>3. CASE Tick
    BY <1>3, TickTerms
  <1>4. ASSUME NEW x \in Tx,
               \/ TxReverts(x) \/ PreparePlan(x) \/ PrepareSub(x)
               \/ (x.call \in {"renew", "cancel"} /\ PrepareAction(x))
        PROVE  Terms'
    BY <1>4, UnchangedTerms DEF TxReverts, PreparePlan, PrepareSub, PrepareAction
  <1>5. ASSUME NEW h \in Handler,
               \/ \E x \in Tx : Submit(h, x)
               \/ Calls(h) \/ SubmitAccepted(h) \/ SubmitRefused(h) \/ SubmitThrew(h) \/ HandlerDies(h)
        PROVE  Terms'
    BY <1>5, UnchangedTerms
    DEF Submit, Calls, SubmitAccepted, SubmitRefused, SubmitThrew, HandlerDies
  <1>6. ASSUME NEW k \in DOMAIN events, Reconcile(k) \/ CreatedInPart(k) \/ EventDropped(k)
        PROVE  Terms'
    BY <1>6, UnchangedTerms DEF Reconcile, CreatedInPart, EventDropped
  <1>7. CASE UNCHANGED vars
    BY <1>7, UnchangedTerms DEF vars
  <1>8. QED
    BY <1>1, <1>2, <1>3, <1>4, <1>5, <1>6, <1>7 DEF Next

(* Whatever subscriber, merchant, API and indexer do in whatever order, a
   subscriber is on a plan once at most, the slot says so, and nobody is
   charged more often than the interval allows.                             *)
THEOREM TermsKeptHolds == Spec => []TermsKept
  BY InitTerms, StepTerms, TermsImply, PTL DEF Spec

-----------------------------------------------------------------------------
(* The rows: what API and indexer show of the contract's subscriptions.      *)

Event == [topic : {"plan", "sub", "renew", "cancel"}, id : Nat, tx : Tx \cup {Foreign}]
PlanRow == [status : {"ABSENT", "PENDING", "ACTIVE", "FAILED"}, hash : Tx \cup {NoTx}, id : Nat \cup {None}]
SubRow == [status : {"ABSENT", "PENDING", "ACTIVE", "FAILED", "CANCELED"}, id : Nat \cup {None},
           hash : Tx \cup {NoTx}, renewHash : Tx \cup {NoTx}, cancelHash : Tx \cup {NoTx},
           next : Nat \cup {None}]
RowsTyped == CallsTypeOK(Event) /\ plan \in [Plan -> PlanRow] /\ sub \in [Sub -> SubRow]

\* A busy request submits an envelope that was prepared.
Requests == \A h \in Handler : req[h].at # "idle" => req[h].tx \in Tx /\ fate[req[h].tx] # "none"

\* A row has one subscribe envelope at most.
OneEnvelope ==
  \A x, y \in Tx :
    x.call = "subscribe" /\ fate[x] # "none" =>
      /\ sub[x.row].status # "ABSENT"
      /\ y.call = "subscribe" /\ y.row = x.row /\ fate[y] # "none" => x = y

\* A plan row that knows its id will not learn another.
PlanKept == \A p \in Plan : plan[p].id # None => plan[p].status \in {"ACTIVE", "FAILED"}

\* What each event is evidence of; a subscription's first event is its sub event.
Log ==
  \A k \in DOMAIN events :
    /\ events[k].topic # "plan" => events[k].id \in DOMAIN subs
    /\ events[k].topic = "sub" =>
         \A i \in DOMAIN events : events[i].topic # "plan" /\ events[i].id = events[k].id => k <= i
    /\ events[k].topic = "sub" /\ events[k].tx # Foreign =>
         /\ fate[events[k].tx] = "applied" /\ events[k].tx.call = "subscribe"
         /\ subs[events[k].id].who = Owner[events[k].tx.row]
         /\ subs[events[k].id].plan = plan[PlanOf[events[k].tx.row]].id
    /\ events[k].topic = "cancel" => ~subs[events[k].id].active

\* No subscription ends silently.
EndsTold == \A s \in DOMAIN subs :
  ~subs[s].active => \E k \in DOMAIN events : events[k].topic = "cancel" /\ events[k].id = s

\* A row is linked by the event of its own envelope.
Linked ==
  \A r \in Sub :
    /\ sub[r].hash # NoTx =>
         sub[r].hash.call = "subscribe" /\ sub[r].hash.row = r /\ fate[sub[r].hash] # "none"
    /\ sub[r].id # None <=> sub[r].status \in {"ACTIVE", "CANCELED"}
    /\ sub[r].id # None => \E k \in DOMAIN events :
         events[k] = [topic |-> "sub", id |-> sub[r].id, tx |-> sub[r].hash]
    /\ sub[r].status = "CANCELED" => ~subs[sub[r].id].active

RowsInv ==
  /\ Terms /\ RowsTyped /\ Requests /\ OneEnvelope
  /\ PlanKept /\ Log /\ EndsTold /\ Linked

\* With no event lost, what was met is shown: a cancellation, and a due date that is
\* late enough unless a renewal is still to be met.
CaughtUp ==
  NoEventLost => \A r \in Sub : sub[r].id # None =>
    /\ sub[r].status = "ACTIVE" => ~\E k \in 1..seen : events[k].topic = "cancel" /\ events[k].id = sub[r].id
    /\ subs[sub[r].id].active =>
         \/ \E k \in DOMAIN events : k > seen /\ events[k].topic = "renew" /\ events[k].id = sub[r].id
         \/ sub[r].next \in Nat /\ sub[r].next >= subs[sub[r].id].due

LEMMA TxRow ==
  ASSUME NEW x \in Tx
  PROVE  /\ x.call = "create_plan" => x.row \in Plan
         /\ x.call # "create_plan" => x.row \in Sub /\ x.call \in {"subscribe", "renew", "cancel"}
  BY SubscriptionAssumption DEF Envelopes

LEMMA EventTyped ==
  ASSUME RowsTyped
  PROVE  \A k \in DOMAIN events :
           /\ events[k] \in Event /\ events[k].tx \in Tx \cup {Foreign} /\ events[k].tx # NoTx
           /\ events[k].topic \in {"plan", "sub", "renew", "cancel"}
           /\ events[k].id \in Nat /\ events[k].id # None
           /\ events[k] = [topic |-> events[k].topic, id |-> events[k].id, tx |-> events[k].tx]
  <1>1. \A k \in DOMAIN events : events[k] \in Event
    BY DEF RowsTyped, CallsTypeOK
  <1>2. QED
    BY <1>1, CallsAssumption, SubscriptionAssumption DEF Event

LEMMA Positions ==
  ASSUME RowsTyped
  PROVE  /\ DOMAIN events = 1..Len(events) /\ Len(events) \in Nat
         /\ seen \in Nat /\ seen <= Len(events)
         /\ \A k \in DOMAIN events : k \in Nat /\ 1 <= k /\ k <= Len(events)
  BY DEF RowsTyped, CallsTypeOK

LEMMA RowTyped ==
  ASSUME RowsTyped, NEW r \in Sub
  PROVE  /\ sub[r] \in SubRow /\ sub[r].hash \in Tx \cup {NoTx} /\ sub[r].id \in Nat \cup {None}
         /\ PlanOf[r] \in Plan /\ plan[PlanOf[r]] \in PlanRow
         /\ plan[PlanOf[r]].id \in Nat \cup {None} /\ Owner[r] \in Subscriber
  <1>1. sub[r] \in SubRow /\ PlanOf[r] \in Plan /\ plan[PlanOf[r]] \in PlanRow /\ Owner[r] \in Subscriber
    BY SubscriptionAssumption DEF RowsTyped
  <1>2. QED
    BY <1>1 DEF SubRow, PlanRow

LEMMA UpsetTyped ==
  ASSUME CallsTypeOK(Event), NEW kind \in {"again", "dropped", "died"}, Upset(kind)
  PROVE  upsets' \in [UpsetKind -> 0..(MaxForeign + MaxUpsets)]
  <1>1. /\ upsets["again"] \in Nat /\ upsets["dropped"] \in Nat /\ upsets["died"] \in Nat
        /\ upsets \in [UpsetKind -> 0..(MaxForeign + MaxUpsets)]
    BY CallsAssumption DEF CallsTypeOK, UpsetKind
  <1>2. upsets[kind] + 1 \in 0..(MaxForeign + MaxUpsets)
    BY <1>1, CallsAssumption DEF Upset, UpsetTotal
  <1>3. QED
    BY <1>1, <1>2 DEF Upset

LEMMA ForeignTyped ==
  ASSUME CallsTypeOK(Event), CalledDirectly
  PROVE  upsets' \in [UpsetKind -> 0..(MaxForeign + MaxUpsets)]
  <1>1. upsets["foreign"] + 1 \in 0..(MaxForeign + MaxUpsets)
    BY CallsAssumption DEF CallsTypeOK, UpsetKind, CalledDirectly
  <1>2. QED
    BY <1>1 DEF CallsTypeOK, CalledDirectly

LEMMA PrepareTyped ==
  ASSUME CallsTypeOK(Event), NEW x \in Tx, Prepare(x) \/ Reverts(x)
  PROVE  CallsTypeOK(Event)'
  BY DEF CallsTypeOK, Prepare, Reverts, Fate

LEMMA StartTyped ==
  ASSUME CallsTypeOK(Event), NEW h \in Handler, NEW x \in Tx, Start(h, x)
  PROVE  CallsTypeOK(Event)'
  BY DEF CallsTypeOK, Start

LEMMA NetworkTyped ==
  ASSUME CallsTypeOK(Event), NEW h \in Handler, CallNetwork(h)
  PROVE  CallsTypeOK(Event)'
  <1>1. fate' \in [Tx -> Fate]
    <2>1. fate' = fate \/ fate' = [fate EXCEPT ![req[h].tx] = "queued"]
      BY DEF CallNetwork
    <2>2. QED
      BY <2>1 DEF CallsTypeOK, Fate
  <1>2. req' \in [Handler -> [at : {"idle", "calling", "waiting", "threw"}, tx : Tx \cup {NoTx}]]
    <2>1. PICK next \in {"waiting", "threw"} : req' = [req EXCEPT ![h].at = next]
      BY DEF CallNetwork
    <2>2. QED
      BY <2>1 DEF CallsTypeOK
  <1>3. QED
    BY <1>1, <1>2 DEF CallsTypeOK, CallNetwork

LEMMA DoneTyped ==
  ASSUME CallsTypeOK(Event), NEW h \in Handler, Done(h)
  PROVE  CallsTypeOK(Event)'
  BY DEF CallsTypeOK, Done, Idle

LEMMA DiesTyped ==
  ASSUME CallsTypeOK(Event), NEW h \in Handler, Dies(h)
  PROVE  CallsTypeOK(Event)'
  <1>1. upsets' \in [UpsetKind -> 0..(MaxForeign + MaxUpsets)]
    BY UpsetTyped DEF Dies
  <1>2. req' \in [Handler -> [at : {"idle", "calling", "waiting", "threw"}, tx : Tx \cup {NoTx}]]
    BY DEF CallsTypeOK, Dies, Idle
  <1>3. QED
    BY <1>1, <1>2 DEF CallsTypeOK, Dies

LEMMA MetTyped ==
  ASSUME CallsTypeOK(Event), NEW k \in DOMAIN events, Delivered(k) \/ Dropped(k)
  PROVE  CallsTypeOK(Event)'
  <1>1. upsets' \in [UpsetKind -> 0..(MaxForeign + MaxUpsets)]
    BY UpsetTyped DEF Delivered, Dropped, CallsTypeOK
  <1>2. seen' \in 0..Len(events)
    BY DEF CallsTypeOK, Delivered, Dropped, First
  <1>3. QED
    BY <1>1, <1>2 DEF CallsTypeOK, Delivered, Dropped

-----------------------------------------------------------------------------
(* What a call leaves behind.                                               *)

\* No subscription changes hands or comes back to life.
SubsKept ==
  \A s \in DOMAIN subs :
    /\ s \in DOMAIN subs'
    /\ subs'[s].who = subs[s].who /\ subs'[s].plan = subs[s].plan
    /\ subs'[s].active => subs[s].active

\* One event, which tells whatever else changed.
Called(e) ==
  /\ e \in Event /\ events' = Append(events, e) /\ SubsKept
  /\ e.topic # "plan" => e.id \in DOMAIN subs'
  /\ e.topic = "sub" => e.id \notin DOMAIN subs
  /\ e.topic = "cancel" => ~subs'[e.id].active
  /\ \A s \in DOMAIN subs' :
       /\ s \notin DOMAIN subs => subs'[s].active
       /\ s \in DOMAIN subs /\ subs'[s].active # subs[s].active => e.topic = "cancel" /\ e.id = s
       /\ s \in DOMAIN subs /\ subs'[s].due # subs[s].due => e.topic = "renew" /\ e.id = s

LEMMA PlanCalled ==
  ASSUME Terms, NEW x \in Tx \cup {Foreign}, CreatePlan(x)
  PROVE  \E e \in Event : e.topic = "plan" /\ e.tx = x /\ Called(e)
  <1> DEFINE e == [topic |-> "plan", id |-> plans + 1, tx |-> x]
  <1>1. e \in Event /\ e.topic = "plan" /\ e.tx = x
    BY DEF Terms, LedgerTyped, Event
  <1>2. events' = Append(events, e) /\ subs' = subs
    BY DEF CreatePlan, Emit
  <1> HIDE DEF e
  <1>3. QED
    BY <1>1, <1>2 DEF Called, SubsKept

LEMMA SubscribeCalled ==
  ASSUME Terms, NEW x \in Tx \cup {Foreign}, NEW p, NEW w \in Subscriber, Subscribe(p, w, x)
  PROVE  \E e \in Event :
           /\ e.topic = "sub" /\ e.tx = x /\ Called(e)
           /\ subs'[e.id].who = w /\ subs'[e.id].plan = p /\ p \in Nat
  <1>1. subs \in Seq(Entry) /\ now \in Nat /\ Interval \in Nat /\ plans \in Nat
    BY SubscriptionAssumption DEF Terms, LedgerTyped
  <1>2. p \in Nat
    BY <1>1 DEF Subscribe
  <1>3. PICK y : y = [who |-> w, plan |-> p, due |-> now + Interval, active |-> TRUE,
                      from |-> now, payments |-> 1]
    OBVIOUS
  <1>4. y.who = w /\ y.plan = p /\ y.active /\ y \in Entry
    BY <1>1, <1>2, <1>3 DEF Entry
  <1>5. PICK n \in Nat : n = Len(subs) + 1
    BY <1>1
  <1>6. subs' = Append(subs, y)
    BY <1>3 DEF Subscribe
  <1>7. /\ DOMAIN subs' = DOMAIN subs \cup {n} /\ n \notin DOMAIN subs /\ subs'[n] = y
        /\ \A s \in DOMAIN subs : subs'[s] = subs[s]
    BY <1>1, <1>4, <1>5, <1>6, AppendedEntry
  <1> DEFINE e == [topic |-> "sub", id |-> n, tx |-> x]
  <1>8. e \in Event /\ e.topic = "sub" /\ e.tx = x /\ e.id = n
    BY DEF Event
  <1>9. events' = Append(events, e)
    BY <1>5 DEF Subscribe, Emit
  <1> HIDE DEF e
  <1>10. Called(e)
    BY <1>4, <1>7, <1>8, <1>9 DEF Called, SubsKept
  <1>11. QED
    BY <1>2, <1>4, <1>7, <1>8, <1>10

LEMMA RenewCalled ==
  ASSUME Terms, NEW x \in Tx \cup {Foreign}, NEW d, Renew(d, x)
  PROVE  \E e \in Event : e.topic = "renew" /\ e.tx = x /\ Called(e)
  <1>1. d \in DOMAIN subs /\ d \in Nat /\ subs[d] \in Entry /\ subs[d].payments \in Nat
    BY EntryTyped DEF Renew, Renewable, Terms
  <1>2. PICK y : y = [subs[d] EXCEPT !.due = now + Interval, !.payments = @ + 1]
    OBVIOUS
  <1>3. y.who = subs[d].who /\ y.plan = subs[d].plan /\ y.active = subs[d].active
    BY <1>1, <1>2 DEF Entry
  <1>4. subs' = [subs EXCEPT ![d] = y]
    BY <1>2 DEF Renew
  <1>5. /\ DOMAIN subs' = DOMAIN subs /\ subs'[d] = y
        /\ \A s \in DOMAIN subs : s # d => subs'[s] = subs[s]
    BY <1>1, <1>4 DEF Terms, LedgerTyped
  <1> DEFINE e == [topic |-> "renew", id |-> d, tx |-> x]
  <1>6. e \in Event /\ e.topic = "renew" /\ e.tx = x /\ e.id = d
    BY <1>1 DEF Event
  <1>7. events' = Append(events, e)
    BY DEF Renew, Emit
  <1> HIDE DEF e
  <1>8. Called(e)
    BY <1>1, <1>3, <1>5, <1>6, <1>7 DEF Called, SubsKept
  <1>9. QED
    BY <1>6, <1>8

LEMMA CancelCalled ==
  ASSUME Terms, NEW x \in Tx \cup {Foreign}, NEW d, CancelSub(d, x)
  PROVE  \E e \in Event : e.topic = "cancel" /\ e.tx = x /\ Called(e)
  <1>1. d \in DOMAIN subs /\ d \in Nat /\ subs[d] \in Entry /\ subs[d].active
    BY EntryTyped DEF CancelSub, Terms
  <1>2. PICK y : y = [subs[d] EXCEPT !.active = FALSE]
    OBVIOUS
  <1>3. y.who = subs[d].who /\ y.plan = subs[d].plan /\ ~y.active /\ y.due = subs[d].due
    BY <1>1, <1>2 DEF Entry
  <1>4. subs' = [subs EXCEPT ![d] = y]
    BY <1>2 DEF CancelSub
  <1>5. /\ DOMAIN subs' = DOMAIN subs /\ subs'[d] = y
        /\ \A s \in DOMAIN subs : s # d => subs'[s] = subs[s]
    BY <1>1, <1>4 DEF Terms, LedgerTyped
  <1> DEFINE e == [topic |-> "cancel", id |-> d, tx |-> x]
  <1>6. e \in Event /\ e.topic = "cancel" /\ e.tx = x /\ e.id = d
    BY <1>1 DEF Event
  <1>7. events' = Append(events, e)
    BY DEF CancelSub, Emit
  <1> HIDE DEF e
  <1>8. Called(e)
    BY <1>1, <1>3, <1>5, <1>6, <1>7 DEF Called, SubsKept
  <1>9. QED
    BY <1>6, <1>8

\* What was decided stays decided.
FateKept ==
  \A x \in Tx : /\ fate[x] \in {"applied", "reverted"} => fate'[x] = fate[x]
                /\ fate[x] # "none" => fate'[x] # "none"

LEMMA StepFate == RowsTyped /\ [Next]_vars => FateKept
  <1> SUFFICES ASSUME RowsTyped, [Next]_vars PROVE FateKept
    OBVIOUS
  <1>1. CASE UNCHANGED <<fate>>
    BY <1>1 DEF FateKept
  <1>2. ASSUME NEW x \in Tx, TxApplies(x) PROVE FateKept
    BY <1>2 DEF TxApplies, Applies, callVars, FateKept, RowsTyped, CallsTypeOK
  <1>3. ASSUME NEW x \in Tx, TxReverts(x) PROVE FateKept
    BY <1>3 DEF TxReverts, Reverts, callVars, FateKept, RowsTyped, CallsTypeOK
  <1>4. ASSUME NEW x \in Tx, PreparePlan(x) PROVE FateKept
    BY <1>4 DEF PreparePlan, Prepare, callVars, FateKept, RowsTyped, CallsTypeOK
  <1>5. ASSUME NEW x \in Tx, PrepareSub(x) PROVE FateKept
    BY <1>5 DEF PrepareSub, Prepare, callVars, FateKept, RowsTyped, CallsTypeOK
  <1>6. ASSUME NEW x \in Tx, PrepareAction(x) PROVE FateKept
    BY <1>6 DEF PrepareAction, Prepare, callVars, FateKept, RowsTyped, CallsTypeOK
  <1>7. ASSUME NEW h \in Handler, Calls(h) PROVE FateKept
    BY <1>7 DEF Calls, CallNetwork, callVars, FateKept, RowsTyped, CallsTypeOK
  <1> QED
    BY <1>1, <1>2, <1>3, <1>4, <1>5, <1>6, <1>7
    DEF Next, vars, callVars, rowVars, contractVars, DirectCall, Tick, Submit,
      SubmitAccepted, SubmitRefused, SubmitThrew, HandlerDies, Reconcile, CreatedInPart,
      EventDropped, Accepted, CalledDirectly, Delivered, Dies, Done, Dropped, Refused, Start,
      Threw, Upset

\* The ledger publishes nothing, or the event of one call, by nobody of the API or
\* by an envelope that was queued; a subscription begins on its row's terms.
Quiet == UNCHANGED <<events, subs>>

ByEnvelope(e) ==
  /\ e.tx \in Tx /\ fate[e.tx] = "queued"
  /\ fate' = [fate EXCEPT ![e.tx] = "applied"]
  /\ upsets' = upsets
  /\ e.topic = "sub" =>
       /\ e.tx.call = "subscribe" /\ subs'[e.id].who = Owner[e.tx.row]
       /\ subs'[e.id].plan = plan[PlanOf[e.tx.row]].id /\ subs'[e.id].plan \in Nat

Publishes(e) ==
  /\ Called(e) /\ UNCHANGED <<seen, req, plan, sub>>
  /\ \/ e.tx = Foreign /\ fate' = fate /\ (NoEventLost' => NoEventLost)
     \/ ByEnvelope(e)

LEMMA StepLedger == Terms /\ RowsTyped /\ [Next]_vars => Quiet \/ \E e \in Event : Publishes(e)
  <1> SUFFICES ASSUME Terms, RowsTyped, [Next]_vars PROVE Quiet \/ \E e \in Event : Publishes(e)
    OBVIOUS
  <1>1. CASE UNCHANGED <<events, subs>>
    BY <1>1 DEF Quiet
  <1>2. ASSUME DirectCall PROVE Quiet \/ \E e \in Event : Publishes(e)
    <2>1. \E e \in Event : e.tx = Foreign /\ Called(e)
      BY <1>2, PlanCalled, SubscribeCalled, RenewCalled, CancelCalled DEF DirectCall
    <2>2. fate' = fate /\ UNCHANGED <<seen, req, plan, sub>> /\ (NoEventLost' => NoEventLost)
      BY <1>2 DEF DirectCall, CalledDirectly, rowVars, NoEventLost, RowsTyped, CallsTypeOK,
        UpsetKind
    <2>3. QED
      BY <2>1, <2>2 DEF Publishes
  <1>3. ASSUME Tick PROVE Quiet \/ \E e \in Event : Publishes(e)
    BY <1>3 DEF Tick, callVars, Quiet
  <1>4. ASSUME NEW x \in Tx, TxApplies(x) PROVE Quiet \/ \E e \in Event : Publishes(e)
    <2>1. /\ fate[x] = "queued" /\ fate' = [fate EXCEPT ![x] = "applied"]
          /\ UNCHANGED <<seen, req, upsets, plan, sub>>
      BY <1>4 DEF TxApplies, Applies, rowVars
    <2>2. ASSUME NEW e \in Event, e.topic # "sub", e.tx = x, Called(e) PROVE Publishes(e)
      BY <2>1, <2>2 DEF Publishes, ByEnvelope
    <2>3. CASE x.call = "subscribe" /\ Subscribe(plan[PlanOf[x.row]].id, Owner[x.row], x)
      <3>1. x.row \in Sub /\ Owner[x.row] \in Subscriber
        BY <2>3, TxRow, RowTyped
      <3>2. PICK e \in Event : /\ e.topic = "sub" /\ e.tx = x /\ Called(e)
                               /\ subs'[e.id].who = Owner[x.row]
                               /\ subs'[e.id].plan = plan[PlanOf[x.row]].id /\ plan[PlanOf[x.row]].id \in Nat
        BY <2>3, <3>1, SubscribeCalled
      <3>3. QED
        BY <2>1, <2>3, <3>1, <3>2 DEF Publishes, ByEnvelope
    <2>4. CASE CreatePlan(x)
      BY <2>2, <2>4, PlanCalled
    <2>5. CASE Renew(sub[x.row].id, x)
      BY <2>2, <2>5, RenewCalled
    <2>6. CASE CancelSub(sub[x.row].id, x)
      BY <2>2, <2>6, CancelCalled
    <2>7. QED
      BY <1>4, <2>3, <2>4, <2>5, <2>6 DEF TxApplies
  <1> QED
    BY <1>1, <1>2, <1>3, <1>4
    DEF Next, vars, callVars, rowVars, contractVars, TxReverts, PreparePlan, PrepareSub,
      PrepareAction, Submit, Calls, SubmitAccepted, SubmitRefused, SubmitThrew, HandlerDies,
      Reconcile, CreatedInPart, EventDropped, Accepted, CallNetwork, Delivered, Dies, Done,
      Dropped, Prepare, Refused, Reverts, Start, Threw, Upset

\* A plan row keeps the id it has.
PlanIdsKept == \A p \in Plan : plan[p].id # None => plan'[p].id = plan[p].id

\* An answered submission leaves a plan's id alone.
LEMMA PlanAnswered ==
  ASSUME RowsTyped, Requests, NEW h \in Handler, SubmitAccepted(h) \/ SubmitRefused(h)
  PROVE  /\ plan' \in [Plan -> PlanRow]
         /\ \A p \in Plan : plan'[p].id = plan[p].id /\ plan'[p].status \in {plan[p].status, "FAILED"}
  <1> DEFINE x == req[h].tx
  <1>1. x \in Tx
    BY DEF SubmitAccepted, Accepted, SubmitRefused, Refused, Requests
  <1>2. \/ plan' = plan
        \/ plan' = [plan EXCEPT ![x.row].hash = x]
        \/ plan' = [plan EXCEPT ![x.row].status = "FAILED", ![x.row].hash = x]
    BY DEF SubmitAccepted, SubmitRefused
  <1> HIDE DEF x
  <1>3. \A old \in PlanRow :
          /\ [old EXCEPT !.hash = x] \in PlanRow /\ [old EXCEPT !.hash = x].id = old.id
          /\ [old EXCEPT !.hash = x].status = old.status
          /\ [old EXCEPT !.status = "FAILED", !.hash = x] \in PlanRow
          /\ [old EXCEPT !.status = "FAILED", !.hash = x].id = old.id
          /\ [old EXCEPT !.status = "FAILED", !.hash = x].status = "FAILED"
    BY <1>1 DEF PlanRow
  <1>4. plan \in [Plan -> PlanRow]
    BY DEF RowsTyped
  <1>5. CASE plan' = plan
    BY <1>4, <1>5
  <1>6. CASE plan' = [plan EXCEPT ![x.row].hash = x]
    BY <1>3, <1>4, <1>6
  <1>7. CASE plan' = [plan EXCEPT ![x.row].status = "FAILED", ![x.row].hash = x]
    <2>1. \A p \in Plan : plan'[p] \in {plan[p], [plan[p] EXCEPT !.status = "FAILED", !.hash = x]}
      BY <1>4, <1>7
    <2>2. plan' = [p \in Plan |-> plan'[p]]
      BY <1>4, <1>7
    <2>3. \A p \in Plan : plan[p] \in PlanRow
      BY <1>4
    <2>4. \A p \in Plan : /\ plan'[p] \in PlanRow /\ plan'[p].id = plan[p].id
                          /\ plan'[p].status \in {plan[p].status, "FAILED"}
      <3> TAKE p \in Plan
      <3> DEFINE new == [plan[p] EXCEPT !.status = "FAILED", !.hash = x]
      <3>1. new \in PlanRow /\ new.id = plan[p].id /\ new.status = "FAILED"
        BY <1>3, <2>3
      <3>2. plan'[p] = plan[p] \/ plan'[p] = new
        BY <2>1
      <3> HIDE DEF new
      <3>3. QED
        BY <2>3, <3>1, <3>2
    <2>5. QED
      BY <2>2, <2>4
  <1>8. QED
    BY <1>2, <1>5, <1>6, <1>7

LEMMA StepPlanIds == RowsTyped /\ Requests /\ PlanKept /\ [Next]_vars => PlanIdsKept
  <1> SUFFICES ASSUME RowsTyped, Requests, PlanKept, [Next]_vars PROVE PlanIdsKept
    OBVIOUS
  <1>1. CASE UNCHANGED <<plan>>
    BY <1>1 DEF PlanIdsKept
  <1>2. ASSUME NEW x \in Tx, PreparePlan(x) PROVE PlanIdsKept
    BY <1>2, TxRow DEF PreparePlan, PlanIdsKept, RowsTyped, PlanRow
  <1>3. ASSUME NEW h \in Handler, SubmitAccepted(h) PROVE PlanIdsKept
    BY <1>3, PlanAnswered DEF PlanIdsKept
  <1>4. ASSUME NEW h \in Handler, SubmitRefused(h) PROVE PlanIdsKept
    BY <1>4, PlanAnswered DEF PlanIdsKept
  <1>5. ASSUME NEW k \in DOMAIN events, Reconcile(k) PROVE PlanIdsKept
    BY <1>5 DEF Reconcile, PlanIdsKept, RowsTyped, PlanKept
  <1> QED
    BY <1>1, <1>2, <1>3, <1>4, <1>5
    DEF Next, vars, callVars, rowVars, contractVars, DirectCall, Tick, TxApplies, TxReverts,
      PrepareSub, PrepareAction, Submit, Calls, SubmitThrew, HandlerDies, CreatedInPart,
      EventDropped, Applies, CallNetwork, CalledDirectly, Dies, Done, Dropped, Prepare,
      Reverts, Start, Threw, Upset

LEMMA StepPlanKept == RowsTyped /\ Requests /\ PlanKept /\ [Next]_vars => PlanKept'
  <1> SUFFICES ASSUME RowsTyped, Requests, PlanKept, [Next]_vars PROVE PlanKept'
    OBVIOUS
  <1>1. CASE UNCHANGED <<plan>>
    BY <1>1 DEF PlanKept
  <1>2. ASSUME NEW x \in Tx, PreparePlan(x) PROVE PlanKept'
    BY <1>2, TxRow DEF PreparePlan, PlanKept, RowsTyped, PlanRow
  <1>3. ASSUME NEW h \in Handler, SubmitAccepted(h) PROVE PlanKept'
    BY <1>3, PlanAnswered DEF PlanKept
  <1>4. ASSUME NEW h \in Handler, SubmitRefused(h) PROVE PlanKept'
    BY <1>4, PlanAnswered DEF PlanKept
  <1>5. ASSUME NEW k \in DOMAIN events, Reconcile(k) PROVE PlanKept'
    <2>1. \A old \in PlanRow : \A d : [old EXCEPT !.status = "ACTIVE", !.id = d].status = "ACTIVE"
      BY DEF PlanRow
    <2>2. \A p \in Plan : plan[p] \in PlanRow
      BY DEF RowsTyped
    <2>3. \A p \in Plan : plan'[p] = plan[p] \/ plan'[p] = [plan[p] EXCEPT !.status = "ACTIVE", !.id = events[k].id]
      BY <1>5 DEF Reconcile
    <2>4. \A p \in Plan : plan'[p] = plan[p] \/ plan'[p].status = "ACTIVE"
      <3> TAKE p \in Plan
      <3> DEFINE new == [plan[p] EXCEPT !.status = "ACTIVE", !.id = events[k].id]
      <3>1. new.status = "ACTIVE"
        BY <2>1, <2>2
      <3>2. plan'[p] = plan[p] \/ plan'[p] = new
        BY <2>3
      <3> HIDE DEF new
      <3>3. QED
        BY <3>1, <3>2
    <2>5. QED
      BY <2>4 DEF PlanKept
  <1> QED
    BY <1>1, <1>2, <1>3, <1>4, <1>5
    DEF Next, vars, callVars, rowVars, contractVars, DirectCall, Tick, TxApplies, TxReverts,
      PrepareSub, PrepareAction, Submit, Calls, SubmitThrew, HandlerDies, CreatedInPart,
      EventDropped, Applies, CallNetwork, CalledDirectly, Dies, Done, Dropped, Prepare,
      Reverts, Start, Threw, Upset

\* Nothing published is taken back, nothing recorded is undone.
Grown ==
  /\ SubsKept /\ FateKept /\ PlanIdsKept
  /\ DOMAIN events \subseteq DOMAIN events' /\ seen' \in Nat /\ seen <= seen'
  /\ \A k \in DOMAIN events : events'[k] = events[k]
  /\ NoEventLost' => NoEventLost

LEMMA AppendsOne ==
  ASSUME RowsTyped, NEW e \in Event, Called(e)
  PROVE  /\ Len(events') = Len(events) + 1 /\ Len(events) \in Nat
         /\ DOMAIN events = 1..Len(events) /\ DOMAIN events' = 1..(Len(events) + 1)
         /\ events'[Len(events) + 1] = e
         /\ \A k \in DOMAIN events : events'[k] = events[k]
         /\ events' \in Seq(Event)
  BY DEF RowsTyped, CallsTypeOK, Called

LEMMA UpsetCounts ==
  ASSUME RowsTyped
  PROVE  /\ Upset("again") => ~NoEventLost'
         /\ Upset("dropped") => ~NoEventLost'
         /\ upsets' = upsets => NoEventLost' = NoEventLost
  <1>1. upsets["again"] \in Nat /\ upsets["dropped"] \in Nat
    BY CallsAssumption DEF RowsTyped, CallsTypeOK, UpsetKind
  <1>2. /\ Upset("again") => upsets'["again"] = upsets["again"] + 1
        /\ Upset("dropped") => upsets'["dropped"] = upsets["dropped"] + 1
    BY DEF Upset, RowsTyped, CallsTypeOK, UpsetKind
  <1>3. QED
    BY <1>1, <1>2 DEF NoEventLost

\* The cursor never goes back, and what was lost stays lost.
CursorKept == seen' \in Nat /\ seen <= seen' /\ (NoEventLost' => NoEventLost)

LEMMA StepSeen == RowsTyped /\ [Next]_vars => CursorKept
  <1> SUFFICES ASSUME RowsTyped, [Next]_vars PROVE CursorKept
    OBVIOUS
  <1>1. CASE UNCHANGED <<seen, upsets>>
    BY <1>1, Positions DEF NoEventLost, CursorKept
  <1>2. ASSUME DirectCall PROVE CursorKept
    BY <1>2, Positions DEF DirectCall, CalledDirectly, NoEventLost, RowsTyped, CallsTypeOK,
      UpsetKind, CursorKept
  <1>3. ASSUME NEW h \in Handler, HandlerDies(h) PROVE CursorKept
    BY <1>3, Positions DEF HandlerDies, Dies, Upset, NoEventLost, RowsTyped, CallsTypeOK,
      UpsetKind, CursorKept
  <1>4. ASSUME NEW k \in DOMAIN events, Reconcile(k) PROVE CursorKept
    <2>1. seen' = seen \/ seen' = seen + 1
      BY <1>4 DEF Reconcile, Delivered, First
    <2>2. seen' \in Nat /\ seen <= seen'
      BY <2>1, Positions
    <2>3. NoEventLost' => NoEventLost
      BY <1>4, UpsetCounts DEF Reconcile, Delivered
    <2>4. QED
      BY <2>2, <2>3 DEF CursorKept
  <1>5. ASSUME NEW k \in DOMAIN events, CreatedInPart(k) PROVE CursorKept
    <2>1. seen' = seen + 1
      BY <1>5 DEF CreatedInPart, Dropped, First
    <2>2. seen' \in Nat /\ seen <= seen'
      BY <2>1, Positions
    <2>3. NoEventLost' => NoEventLost
      BY <1>5, UpsetCounts DEF CreatedInPart, Dropped
    <2>4. QED
      BY <2>2, <2>3 DEF CursorKept
  <1>6. ASSUME NEW k \in DOMAIN events, EventDropped(k) PROVE CursorKept
    <2>1. seen' = seen + 1
      BY <1>6 DEF EventDropped, Dropped, First
    <2>2. seen' \in Nat /\ seen <= seen'
      BY <2>1, Positions
    <2>3. NoEventLost' => NoEventLost
      BY <1>6, UpsetCounts DEF EventDropped, Dropped
    <2>4. QED
      BY <2>2, <2>3 DEF CursorKept
  <1> QED
    BY <1>1, <1>2, <1>3, <1>4, <1>5, <1>6
    DEF Next, vars, callVars, rowVars, contractVars, Tick, TxApplies, TxReverts, PreparePlan,
      PrepareSub, PrepareAction, Submit, Calls, SubmitAccepted, SubmitRefused, SubmitThrew,
      Accepted, Applies, CallNetwork, Done, Prepare, Refused, Reverts, Start, Threw

LEMMA StepGrown ==
  ASSUME Terms, RowsTyped, Requests, PlanKept, [Next]_vars PROVE Grown
  <1>1. /\ FateKept /\ PlanIdsKept /\ seen' \in Nat /\ seen <= seen'
        /\ NoEventLost' => NoEventLost
    BY StepFate, StepSeen, StepPlanIds DEF CursorKept
  <1>2. CASE Quiet
    BY <1>1, <1>2 DEF Quiet, Grown, SubsKept
  <1>3. ASSUME NEW e \in Event, Publishes(e) PROVE Grown
    <2>1. Called(e) /\ SubsKept
      BY <1>3 DEF Publishes, Called
    <2>2. /\ DOMAIN events = 1..Len(events) /\ DOMAIN events' = 1..(Len(events) + 1)
          /\ Len(events) \in Nat /\ \A k \in DOMAIN events : events'[k] = events[k]
      BY <2>1, AppendsOne
    <2>3. DOMAIN events \subseteq DOMAIN events'
      BY <2>2
    <2>4. QED
      BY <1>1, <2>1, <2>2, <2>3 DEF Grown
  <1>4. QED
    BY <1>2, <1>3, StepLedger

PlansTyped == plan \in [Plan -> PlanRow]
SubsTyped == sub \in [Sub -> SubRow]

LEMMA SubRowEdits ==
  ASSUME NEW old \in SubRow, NEW x \in Tx, NEW d \in Nat, NEW t \in Nat
  PROVE  /\ [old EXCEPT !.status = "PENDING"] \in SubRow
         /\ [old EXCEPT !.hash = x] \in SubRow /\ [old EXCEPT !.renewHash = x] \in SubRow
         /\ [old EXCEPT !.cancelHash = x] \in SubRow
         /\ [old EXCEPT !.status = "FAILED", !.hash = x] \in SubRow
         /\ [old EXCEPT !.status = "ACTIVE", !.id = d, !.next = t] \in SubRow
         /\ [old EXCEPT !.status = "ACTIVE", !.id = d] \in SubRow
         /\ [old EXCEPT !.next = t] \in SubRow
         /\ [old EXCEPT !.status = "CANCELED"] \in SubRow
  BY DEF SubRow

LEMMA StepPlansTyped == RowsTyped /\ Requests /\ [Next]_vars => PlansTyped'
  <1> SUFFICES ASSUME RowsTyped, Requests, [Next]_vars PROVE PlansTyped'
    OBVIOUS
  <1>1. CASE UNCHANGED <<plan>>
    BY <1>1 DEF PlansTyped, RowsTyped
  <1>2. ASSUME NEW x \in Tx, PreparePlan(x) PROVE PlansTyped'
    <2>1. x.row \in Plan => [plan[x.row] EXCEPT !.status = "PENDING"] \in PlanRow
      BY DEF RowsTyped, PlanRow
    <2>2. QED
      BY <1>2, <2>1, TxRow DEF PreparePlan, PlansTyped, RowsTyped
  <1>3. ASSUME NEW h \in Handler, SubmitAccepted(h) PROVE PlansTyped'
    BY <1>3, PlanAnswered DEF PlansTyped
  <1>4. ASSUME NEW h \in Handler, SubmitRefused(h) PROVE PlansTyped'
    BY <1>4, PlanAnswered DEF PlansTyped
  <1>5. ASSUME NEW k \in DOMAIN events, Reconcile(k) PROVE PlansTyped'
    <2>1. \A old \in PlanRow : [old EXCEPT !.status = "ACTIVE", !.id = events[k].id] \in PlanRow
      BY EventTyped DEF PlanRow
    <2>2. QED
      BY <1>5, <2>1 DEF Reconcile, PlansTyped, RowsTyped
  <1> QED
    BY <1>1, <1>2, <1>3, <1>4, <1>5
    DEF Next, vars, callVars, rowVars, contractVars, DirectCall, Tick, TxApplies, TxReverts,
      PrepareSub, PrepareAction, Submit, Calls, SubmitThrew, HandlerDies, CreatedInPart,
      EventDropped, Applies, CallNetwork, CalledDirectly, Dies, Done, Dropped, Prepare,
      Reverts, Start, Threw, Upset

LEMMA StepSubsTyped == Terms /\ RowsTyped /\ Requests /\ [Next]_vars => SubsTyped'
  <1> SUFFICES ASSUME Terms, RowsTyped, Requests, [Next]_vars PROVE SubsTyped'
    OBVIOUS
  <1>1. CASE UNCHANGED <<sub>>
    BY <1>1 DEF SubsTyped, RowsTyped
  <1>2. ASSUME NEW x \in Tx, PrepareSub(x) PROVE SubsTyped'
    BY <1>2, TxRow DEF PrepareSub, SubsTyped, RowsTyped, SubRow
  <1>3. ASSUME NEW h \in Handler, SubmitAccepted(h) PROVE SubsTyped'
    <2>1. req[h].tx \in Tx
      BY <1>3 DEF SubmitAccepted, Accepted, Requests
    <2>2. \A old \in SubRow : /\ [old EXCEPT !.hash = req[h].tx] \in SubRow
                              /\ [old EXCEPT !.renewHash = req[h].tx] \in SubRow
                              /\ [old EXCEPT !.cancelHash = req[h].tx] \in SubRow
      BY <2>1 DEF SubRow
    <2>3. \/ sub' = sub
          \/ sub' = [sub EXCEPT ![req[h].tx.row].hash = req[h].tx]
          \/ sub' = [sub EXCEPT ![req[h].tx.row].renewHash = req[h].tx]
          \/ sub' = [sub EXCEPT ![req[h].tx.row].cancelHash = req[h].tx]
      BY <1>3, <2>1, TxRow DEF SubmitAccepted
    <2>4. QED
      BY <2>2, <2>3 DEF SubsTyped, RowsTyped
  <1>4. ASSUME NEW h \in Handler, SubmitRefused(h) PROVE SubsTyped'
    <2>1. req[h].tx \in Tx
      BY <1>4 DEF SubmitRefused, Refused, Requests
    <2>2. QED
      BY <1>4, <2>1, TxRow, SubRowEdits DEF SubmitRefused, SubsTyped, RowsTyped
  <1>5. ASSUME NEW k \in DOMAIN events, Reconcile(k) PROVE SubsTyped'
    <2>1. now + Interval \in Nat /\ events[k].id \in Nat
      BY EventTyped, SubscriptionAssumption DEF Terms, LedgerTyped
    <2>2. \A r \in Sub : sub'[r] \in {sub[r], [sub[r] EXCEPT !.status = "CANCELED"],
             [sub[r] EXCEPT !.next = now + Interval],
             [sub[r] EXCEPT !.status = "ACTIVE", !.id = events[k].id, !.next = now + Interval]}
      BY <1>5 DEF Reconcile
    <2>3. \A old \in SubRow :
            /\ [old EXCEPT !.status = "CANCELED"] \in SubRow /\ [old EXCEPT !.next = now + Interval] \in SubRow
            /\ [old EXCEPT !.status = "ACTIVE", !.id = events[k].id, !.next = now + Interval] \in SubRow
      BY <2>1 DEF SubRow
    <2>4. \A r \in Sub : sub[r] \in SubRow
      BY DEF RowsTyped
    <2>5. ASSUME NEW r \in Sub PROVE sub'[r] \in SubRow
      <3>1. PICK old \in SubRow : old = sub[r]
        BY <2>4
      <3>2. sub'[r] \in {old, [old EXCEPT !.status = "CANCELED"], [old EXCEPT !.next = now + Interval],
               [old EXCEPT !.status = "ACTIVE", !.id = events[k].id, !.next = now + Interval]}
        BY <2>2, <3>1
      <3>3. QED
        BY <2>3, <3>2
    <2>6. QED
      BY <1>5, <2>5 DEF Reconcile, SubsTyped
  <1>6. ASSUME NEW k \in DOMAIN events, CreatedInPart(k) PROVE SubsTyped'
    <2>1. \A old \in SubRow : [old EXCEPT !.status = "ACTIVE", !.id = events[k].id] \in SubRow
      BY EventTyped DEF SubRow
    <2>2. QED
      BY <1>6, <2>1 DEF CreatedInPart, SubsTyped, RowsTyped
  <1> QED
    BY <1>1, <1>2, <1>3, <1>4, <1>5, <1>6
    DEF Next, vars, callVars, rowVars, contractVars, DirectCall, Tick, TxApplies, TxReverts,
      PreparePlan, PrepareAction, Submit, Calls, SubmitThrew, HandlerDies, EventDropped,
      Applies, CallNetwork, CalledDirectly, Dies, Done, Dropped, Prepare, Reverts, Start,
      Threw, Upset

LEMMA StepCallsTyped == Terms /\ RowsTyped /\ [Next]_vars => CallsTypeOK(Event)'
  <1> SUFFICES ASSUME Terms, RowsTyped, [Next]_vars PROVE CallsTypeOK(Event)'
    OBVIOUS
  <1>1. CASE UNCHANGED <<callVars>>
    BY <1>1 DEF callVars, RowsTyped, CallsTypeOK
  <1>2. ASSUME DirectCall PROVE CallsTypeOK(Event)'
    <2>1. events' \in Seq(Event) /\ Len(events) <= Len(events')
      <3>1. CASE Quiet
        BY <3>1 DEF Quiet, RowsTyped, CallsTypeOK
      <3>2. ASSUME NEW e \in Event, Called(e) PROVE events' \in Seq(Event) /\ Len(events) <= Len(events')
        BY <3>2, AppendsOne
      <3>3. QED
        BY <3>1, <3>2, StepLedger DEF Publishes
    <2>2. upsets' \in [UpsetKind -> 0..(MaxForeign + MaxUpsets)]
      BY <1>2, ForeignTyped DEF DirectCall, RowsTyped
    <2>3. QED
      BY <1>2, <2>1, <2>2, Positions DEF DirectCall, CalledDirectly, RowsTyped, CallsTypeOK
  <1>3. ASSUME Tick PROVE CallsTypeOK(Event)'
    BY <1>3 DEF Tick, callVars, RowsTyped, CallsTypeOK
  <1>4. ASSUME NEW x \in Tx, TxApplies(x) PROVE CallsTypeOK(Event)'
    <2>1. events' \in Seq(Event) /\ Len(events) <= Len(events')
      <3>1. CASE Quiet
        BY <3>1 DEF Quiet, RowsTyped, CallsTypeOK
      <3>2. ASSUME NEW e \in Event, Called(e) PROVE events' \in Seq(Event) /\ Len(events) <= Len(events')
        BY <3>2, AppendsOne
      <3>3. QED
        BY <3>1, <3>2, StepLedger DEF Publishes
    <2>2. fate' \in [Tx -> Fate]
      BY <1>4 DEF TxApplies, Applies, RowsTyped, CallsTypeOK, Fate
    <2>3. QED
      BY <1>4, <2>1, <2>2, Positions DEF TxApplies, Applies, RowsTyped, CallsTypeOK
  <1>5. ASSUME NEW x \in Tx, TxReverts(x) PROVE CallsTypeOK(Event)'
    BY <1>5, PrepareTyped DEF TxReverts, RowsTyped
  <1>6. ASSUME NEW x \in Tx, PreparePlan(x) PROVE CallsTypeOK(Event)'
    BY <1>6, PrepareTyped DEF PreparePlan, RowsTyped
  <1>7. ASSUME NEW x \in Tx, PrepareSub(x) PROVE CallsTypeOK(Event)'
    BY <1>7, PrepareTyped DEF PrepareSub, RowsTyped
  <1>8. ASSUME NEW x \in Tx, PrepareAction(x) PROVE CallsTypeOK(Event)'
    BY <1>8, PrepareTyped DEF PrepareAction, RowsTyped
  <1>9. ASSUME NEW h \in Handler, NEW x \in Tx, Submit(h, x) PROVE CallsTypeOK(Event)'
    BY <1>9, StartTyped DEF Submit, RowsTyped
  <1>10. ASSUME NEW h \in Handler, Calls(h) PROVE CallsTypeOK(Event)'
    BY <1>10, NetworkTyped DEF Calls, RowsTyped
  <1>11. ASSUME NEW h \in Handler, SubmitAccepted(h) PROVE CallsTypeOK(Event)'
    BY <1>11, DoneTyped DEF SubmitAccepted, Accepted, RowsTyped
  <1>12. ASSUME NEW h \in Handler, SubmitRefused(h) PROVE CallsTypeOK(Event)'
    BY <1>12, DoneTyped DEF SubmitRefused, Refused, RowsTyped
  <1>13. ASSUME NEW h \in Handler, SubmitThrew(h) PROVE CallsTypeOK(Event)'
    BY <1>13, DoneTyped DEF SubmitThrew, Threw, RowsTyped
  <1>14. ASSUME NEW h \in Handler, HandlerDies(h) PROVE CallsTypeOK(Event)'
    BY <1>14, DiesTyped DEF HandlerDies, RowsTyped
  <1>15. ASSUME NEW k \in DOMAIN events, Reconcile(k) PROVE CallsTypeOK(Event)'
    BY <1>15, MetTyped DEF Reconcile, RowsTyped
  <1>16. ASSUME NEW k \in DOMAIN events, CreatedInPart(k) PROVE CallsTypeOK(Event)'
    BY <1>16, MetTyped DEF CreatedInPart, RowsTyped
  <1>17. ASSUME NEW k \in DOMAIN events, EventDropped(k) PROVE CallsTypeOK(Event)'
    BY <1>17, MetTyped DEF EventDropped, RowsTyped
  <1> QED
    BY <1>1, <1>2, <1>3, <1>4, <1>5, <1>6, <1>7, <1>8, <1>9, <1>10, <1>11, <1>12, <1>13,
      <1>14, <1>15, <1>16, <1>17
    DEF Next, vars, callVars, rowVars, contractVars

LEMMA StepTyped ==
  ASSUME Terms, RowsTyped, Requests, [Next]_vars PROVE RowsTyped'
  BY StepCallsTyped, StepPlansTyped, StepSubsTyped DEF RowsTyped, PlansTyped, SubsTyped

LEMMA StepRequests == RowsTyped /\ Requests /\ [Next]_vars => Requests'
  <1> SUFFICES ASSUME RowsTyped, Requests, [Next]_vars PROVE Requests'
    OBVIOUS
  <1>1. CASE UNCHANGED <<fate, req>>
    BY <1>1 DEF Requests
  <1>2. ASSUME NEW x \in Tx, TxApplies(x) PROVE Requests'
    BY <1>2 DEF TxApplies, Applies, callVars, Requests, RowsTyped, CallsTypeOK, Idle
  <1>3. ASSUME NEW x \in Tx, TxReverts(x) PROVE Requests'
    BY <1>3 DEF TxReverts, Reverts, callVars, Requests, RowsTyped, CallsTypeOK, Idle
  <1>4. ASSUME NEW x \in Tx, PreparePlan(x) PROVE Requests'
    BY <1>4 DEF PreparePlan, Prepare, callVars, Requests, RowsTyped, CallsTypeOK, Idle
  <1>5. ASSUME NEW x \in Tx, PrepareSub(x) PROVE Requests'
    BY <1>5 DEF PrepareSub, Prepare, callVars, Requests, RowsTyped, CallsTypeOK, Idle
  <1>6. ASSUME NEW x \in Tx, PrepareAction(x) PROVE Requests'
    BY <1>6 DEF PrepareAction, Prepare, callVars, Requests, RowsTyped, CallsTypeOK, Idle
  <1>7. ASSUME NEW h \in Handler, NEW x \in Tx, Submit(h, x) PROVE Requests'
    BY <1>7 DEF Submit, Start, callVars, Requests, RowsTyped, CallsTypeOK, Idle
  <1>8. ASSUME NEW h \in Handler, Calls(h) PROVE Requests'
    BY <1>8 DEF Calls, CallNetwork, callVars, Requests, RowsTyped, CallsTypeOK, Idle
  <1>9. ASSUME NEW h \in Handler, SubmitAccepted(h) PROVE Requests'
    BY <1>9 DEF SubmitAccepted, Accepted, Done, callVars, Requests, RowsTyped, CallsTypeOK, Idle
  <1>10. ASSUME NEW h \in Handler, SubmitRefused(h) PROVE Requests'
    BY <1>10 DEF SubmitRefused, Refused, Done, callVars, Requests, RowsTyped, CallsTypeOK, Idle
  <1>11. ASSUME NEW h \in Handler, SubmitThrew(h) PROVE Requests'
    BY <1>11 DEF SubmitThrew, Threw, Done, callVars, Requests, RowsTyped, CallsTypeOK, Idle
  <1>12. ASSUME NEW h \in Handler, HandlerDies(h) PROVE Requests'
    BY <1>12 DEF HandlerDies, Dies, Upset, callVars, Requests, RowsTyped, CallsTypeOK, Idle
  <1> QED
    BY <1>1, <1>2, <1>3, <1>4, <1>5, <1>6, <1>7, <1>8, <1>9, <1>10, <1>11, <1>12
    DEF Next, vars, callVars, rowVars, contractVars, DirectCall, Tick, Reconcile,
      CreatedInPart, EventDropped, CalledDirectly, Delivered, Dropped

-----------------------------------------------------------------------------
(* One envelope per row, and the log.                                       *)

LEMMA StepOneEnvelope == RowsTyped /\ Requests /\ OneEnvelope /\ [Next]_vars => OneEnvelope'
  <1> SUFFICES ASSUME RowsTyped, Requests, OneEnvelope, [Next]_vars PROVE OneEnvelope'
    OBVIOUS
  <1>1. CASE UNCHANGED <<fate, sub>>
    BY <1>1 DEF OneEnvelope
  <1>2. ASSUME NEW x \in Tx, TxApplies(x) PROVE OneEnvelope'
    <2>1. \A z \in Tx : z.call = "subscribe" => (fate'[z] # "none" <=> fate[z] # "none")
      BY <1>2 DEF TxApplies, Applies, RowsTyped, CallsTypeOK
    <2>2. \A r \in Sub : sub[r].status # "ABSENT" => sub'[r].status # "ABSENT"
      BY <1>2 DEF TxApplies, rowVars
    <2>3. QED
      BY <2>1, <2>2, TxRow DEF OneEnvelope
  <1>3. ASSUME NEW x \in Tx, TxReverts(x) PROVE OneEnvelope'
    <2>1. \A z \in Tx : z.call = "subscribe" => (fate'[z] # "none" <=> fate[z] # "none")
      BY <1>3 DEF TxReverts, Reverts, RowsTyped, CallsTypeOK
    <2>2. \A r \in Sub : sub[r].status # "ABSENT" => sub'[r].status # "ABSENT"
      BY <1>3 DEF TxReverts, rowVars
    <2>3. QED
      BY <2>1, <2>2, TxRow DEF OneEnvelope
  <1>4. ASSUME NEW x \in Tx, PreparePlan(x) PROVE OneEnvelope'
    <2>1. \A z \in Tx : z.call = "subscribe" => (fate'[z] # "none" <=> fate[z] # "none")
      BY <1>4 DEF PreparePlan, Prepare, RowsTyped, CallsTypeOK
    <2>2. \A r \in Sub : sub[r].status # "ABSENT" => sub'[r].status # "ABSENT"
      BY <1>4 DEF PreparePlan, rowVars
    <2>3. QED
      BY <2>1, <2>2, TxRow DEF OneEnvelope
  <1>5. ASSUME NEW x \in Tx, PrepareSub(x) PROVE OneEnvelope'
    <2>1. x.call = "subscribe" /\ x.row \in Sub /\ sub[x.row].status = "ABSENT"
      BY <1>5, TxRow DEF PrepareSub
    <2>2. /\ \A z \in Tx : z # x => fate'[z] = fate[z]
          /\ \A r \in Sub : r # x.row => sub'[r] = sub[r]
      BY <1>5, <2>1 DEF PrepareSub, Prepare, RowsTyped, CallsTypeOK
    <2>3. sub'[x.row].status = "PENDING"
      BY <1>5, <2>1 DEF PrepareSub, RowsTyped, SubRow
    <2>4. \A z \in Tx : z.call = "subscribe" /\ z.row = x.row => fate[z] = "none"
      BY <2>1 DEF OneEnvelope
    <2>5. \A r \in Sub : sub[r].status # "ABSENT" => sub'[r].status # "ABSENT"
      BY <2>2, <2>3
    <2>6. ASSUME NEW z \in Tx, NEW y \in Tx, z.call = "subscribe", fate'[z] # "none"
          PROVE  /\ sub'[z.row].status # "ABSENT"
                 /\ y.call = "subscribe" /\ y.row = z.row /\ fate'[y] # "none" => z = y
      <3>1. CASE z.row = x.row
        BY <2>2, <2>3, <2>4, <2>6, <3>1
      <3>2. CASE z.row # x.row
        <4>1. fate[z] # "none" /\ sub[z.row].status # "ABSENT" /\ z.row \in Sub
          BY <2>2, <2>6, <3>2, TxRow DEF OneEnvelope
        <4>2. QED
          BY <2>2, <2>5, <2>6, <3>2, <4>1 DEF OneEnvelope
      <3>3. QED
        BY <3>1, <3>2
    <2>7. QED
      BY <2>6 DEF OneEnvelope
  <1>6. ASSUME NEW x \in Tx, PrepareAction(x) PROVE OneEnvelope'
    <2>1. x.call \in {"renew", "cancel"} /\ sub' = sub
      BY <1>6 DEF PrepareAction, rowVars
    <2>2. \A z \in Tx : z.call = "subscribe" => (fate'[z] # "none" <=> fate[z] # "none")
      BY <1>6, <2>1 DEF PrepareAction, Prepare, RowsTyped, CallsTypeOK
    <2>3. QED
      BY <2>1, <2>2, TxRow DEF OneEnvelope
  <1>7. ASSUME NEW h \in Handler, Calls(h) PROVE OneEnvelope'
    <2>1. \A z \in Tx : z.call = "subscribe" => (fate'[z] # "none" <=> fate[z] # "none")
      BY <1>7 DEF Calls, CallNetwork, RowsTyped, CallsTypeOK
    <2>2. \A r \in Sub : sub[r].status # "ABSENT" => sub'[r].status # "ABSENT"
      BY <1>7 DEF Calls, rowVars
    <2>3. QED
      BY <2>1, <2>2, TxRow DEF OneEnvelope
  <1>8. ASSUME NEW h \in Handler, SubmitAccepted(h) PROVE OneEnvelope'
    <2>1. fate' = fate
      BY <1>8 DEF SubmitAccepted, Accepted, Done
    <2>2. \A r \in Sub : sub[r].status # "ABSENT" => sub'[r].status # "ABSENT"
      <3>1. req[h].tx \in Tx
        BY <1>8 DEF SubmitAccepted, Accepted, Requests
      <3>2. \A old \in SubRow : /\ [old EXCEPT !.hash = req[h].tx].status = old.status
                                /\ [old EXCEPT !.renewHash = req[h].tx].status = old.status
                                /\ [old EXCEPT !.cancelHash = req[h].tx].status = old.status
        BY DEF SubRow
      <3>3. CASE req[h].tx.call = "create_plan"
        BY <1>8, <3>3 DEF SubmitAccepted
      <3>4. CASE req[h].tx.call = "subscribe"
        <4>1. sub' = [sub EXCEPT ![req[h].tx.row].hash = req[h].tx]
          BY <1>8, <3>4 DEF SubmitAccepted
        <4>2. QED
          BY <3>1, <3>2, <3>4, <4>1, TxRow DEF RowsTyped
      <3>5. CASE req[h].tx.call = "renew"
        <4>1. sub' = [sub EXCEPT ![req[h].tx.row].renewHash = req[h].tx]
          BY <1>8, <3>5 DEF SubmitAccepted
        <4>2. QED
          BY <3>1, <3>2, <3>5, <4>1, TxRow DEF RowsTyped
      <3>6. CASE req[h].tx.call = "cancel"
        <4>1. sub' = [sub EXCEPT ![req[h].tx.row].cancelHash = req[h].tx]
          BY <1>8, <3>6 DEF SubmitAccepted
        <4>2. QED
          BY <3>1, <3>2, <3>6, <4>1, TxRow DEF RowsTyped
      <3>7. QED
        BY <3>1, <3>3, <3>4, <3>5, <3>6, TxRow
    <2>3. QED
      BY <2>1, <2>2, TxRow DEF OneEnvelope
  <1>9. ASSUME NEW h \in Handler, SubmitRefused(h) PROVE OneEnvelope'
    <2>1. fate' = fate
      BY <1>9 DEF SubmitRefused, Refused, Done
    <2>2. \A r \in Sub : sub[r].status # "ABSENT" => sub'[r].status # "ABSENT"
      <3>1. req[h].tx \in Tx
        BY <1>9 DEF SubmitRefused, Refused, Requests
      <3>2. \A old \in SubRow : [old EXCEPT !.status = "FAILED", !.hash = req[h].tx].status = "FAILED"
        BY DEF SubRow
      <3>3. QED
        BY <1>9, <3>1, <3>2, TxRow DEF SubmitRefused, RowsTyped
    <2>3. QED
      BY <2>1, <2>2, TxRow DEF OneEnvelope
  <1>10. ASSUME NEW k \in DOMAIN events, Reconcile(k) PROVE OneEnvelope'
    <2>1. fate' = fate
      BY <1>10 DEF Reconcile, Delivered
    <2>2. \A r \in Sub : sub[r].status # "ABSENT" => sub'[r].status # "ABSENT"
      <3>1. \A old \in SubRow : \A d, t :
              /\ [old EXCEPT !.status = "ACTIVE", !.id = d, !.next = t].status = "ACTIVE"
              /\ [old EXCEPT !.next = t].status = old.status
              /\ [old EXCEPT !.status = "CANCELED"].status = "CANCELED"
        BY DEF SubRow
      <3>2. QED
        BY <1>10, <3>1 DEF Reconcile, RowsTyped
    <2>3. QED
      BY <2>1, <2>2, TxRow DEF OneEnvelope
  <1>11. ASSUME NEW k \in DOMAIN events, CreatedInPart(k) PROVE OneEnvelope'
    <2>1. fate' = fate
      BY <1>11 DEF CreatedInPart, Dropped
    <2>2. \A r \in Sub : sub[r].status # "ABSENT" => sub'[r].status # "ABSENT"
      <3>1. \A old \in SubRow : \A d : [old EXCEPT !.status = "ACTIVE", !.id = d].status = "ACTIVE"
        BY DEF SubRow
      <3>2. QED
        BY <1>11, <3>1 DEF CreatedInPart, RowsTyped
    <2>3. QED
      BY <2>1, <2>2, TxRow DEF OneEnvelope
  <1> QED
    BY <1>1, <1>2, <1>3, <1>4, <1>5, <1>6, <1>7, <1>8, <1>9, <1>10, <1>11
    DEF Next, vars, callVars, rowVars, contractVars, DirectCall, Tick, Submit, SubmitThrew,
      HandlerDies, EventDropped, CalledDirectly, Dies, Done, Dropped, Start, Threw, Upset

LEMMA StepLog ==
  ASSUME Terms, RowsTyped, Requests, PlanKept, Log, [Next]_vars PROVE Log'
  <1>1. Grown
    BY StepGrown
  <1> DEFINE OldSay(k) ==
    /\ events[k].topic # "plan" => events[k].id \in DOMAIN subs'
    /\ events[k].topic = "sub" /\ events[k].tx # Foreign =>
         /\ fate'[events[k].tx] = "applied" /\ events[k].tx.call = "subscribe"
         /\ subs'[events[k].id].who = Owner[events[k].tx.row]
         /\ subs'[events[k].id].plan = plan'[PlanOf[events[k].tx.row]].id
    /\ events[k].topic = "cancel" => ~subs'[events[k].id].active
  <1>2. ASSUME NEW k \in DOMAIN events PROVE OldSay(k)
    <2>1. /\ events[k].topic # "plan" => events[k].id \in DOMAIN subs
          /\ events[k].topic = "cancel" => ~subs[events[k].id].active
      BY DEF Log
    <2>2. ASSUME events[k].topic = "sub", events[k].tx # Foreign
          PROVE  /\ fate'[events[k].tx] = "applied" /\ events[k].tx.call = "subscribe"
                 /\ subs'[events[k].id].who = Owner[events[k].tx.row]
                 /\ subs'[events[k].id].plan = plan'[PlanOf[events[k].tx.row]].id
      <3>1. /\ fate[events[k].tx] = "applied" /\ events[k].tx \in Tx /\ events[k].tx.call = "subscribe"
            /\ subs[events[k].id].who = Owner[events[k].tx.row]
            /\ subs[events[k].id].plan = plan[PlanOf[events[k].tx.row]].id
        BY <2>2, EventTyped DEF Log
      <3>2. events[k].tx.row \in Sub /\ PlanOf[events[k].tx.row] \in Plan
        BY <3>1, TxRow, SubscriptionAssumption
      <3>3. events[k].id \in DOMAIN subs /\ subs[events[k].id].plan \in Nat
        BY <2>1, <2>2, EntryTyped DEF Terms, Entry
      <3>4. plan[PlanOf[events[k].tx.row]].id # None
        BY <3>1, <3>3, SubscriptionAssumption
      <3>5. QED
        BY <1>1, <3>1, <3>2, <3>3, <3>4 DEF Grown, FateKept, SubsKept, PlanIdsKept
    <2>3. QED
      BY <1>1, <2>1, <2>2 DEF Grown, SubsKept
  <1>3. CASE Quiet
    <2>1. events' = events /\ subs' = subs
      BY <1>3 DEF Quiet
    <2>2. QED
      BY <1>2, <2>1 DEF Log
  <1>4. ASSUME NEW e \in Event, Publishes(e) PROVE Log'
    <2>1. PICK n \in Nat : n = Len(events) + 1
      BY Positions
    <2>2. /\ DOMAIN events = 1..Len(events) /\ DOMAIN events' = DOMAIN events \cup {n}
          /\ n \notin DOMAIN events /\ \A i \in DOMAIN events : i < n
          /\ events'[n] = e /\ \A k \in DOMAIN events : events'[k] = events[k]
      <3>1. /\ Len(events) \in Nat /\ DOMAIN events = 1..Len(events)
            /\ DOMAIN events' = 1..(Len(events) + 1) /\ events'[Len(events) + 1] = e
            /\ \A k \in DOMAIN events : events'[k] = events[k]
        BY <1>4, AppendsOne DEF Publishes
      <3>2. QED
        BY <2>1, <3>1
    <2>3. Called(e)
      BY <1>4 DEF Publishes
    <2>4. /\ e.topic # "plan" => e.id \in DOMAIN subs'
          /\ e.topic = "cancel" => ~subs'[e.id].active
          /\ e.topic = "sub" => e.id \notin DOMAIN subs
      BY <2>3 DEF Called
    <2>5. e.topic = "sub" /\ e.tx # Foreign =>
            /\ fate'[e.tx] = "applied" /\ e.tx.call = "subscribe"
            /\ subs'[e.id].who = Owner[e.tx.row]
            /\ subs'[e.id].plan = plan'[PlanOf[e.tx.row]].id
      BY <1>4 DEF Publishes, ByEnvelope, RowsTyped, CallsTypeOK
    <2>6. ASSUME NEW k \in DOMAIN events', events'[k].topic = "sub",
                 NEW i \in DOMAIN events', events'[i].topic # "plan", events'[i].id = events'[k].id
          PROVE  k <= i
      <3>1. CASE k = n /\ i = n
        BY <3>1
      <3>2. CASE i = n /\ k # n
        BY <2>2, <3>2, Positions
      <3>3. CASE i # n /\ k = n
        <4>1. events[i].id \in DOMAIN subs /\ e.id = events[i].id /\ e.topic = "sub"
          BY <2>2, <2>6, <3>3 DEF Log
        <4>2. QED
          BY <2>4, <4>1
      <3>4. CASE i # n /\ k # n
        BY <2>2, <2>6, <3>4 DEF Log
      <3>5. QED
        BY <3>1, <3>2, <3>3, <3>4
    <2>7. ASSUME NEW k \in DOMAIN events'
          PROVE  /\ events'[k].topic # "plan" => events'[k].id \in DOMAIN subs'
                 /\ events'[k].topic = "sub" /\ events'[k].tx # Foreign =>
                      /\ fate'[events'[k].tx] = "applied" /\ events'[k].tx.call = "subscribe"
                      /\ subs'[events'[k].id].who = Owner[events'[k].tx.row]
                      /\ subs'[events'[k].id].plan = plan'[PlanOf[events'[k].tx.row]].id
                 /\ events'[k].topic = "cancel" => ~subs'[events'[k].id].active
      <3>1. CASE k = n
        BY <2>2, <2>4, <2>5, <3>1
      <3>2. CASE k # n
        BY <1>2, <2>2, <3>2
      <3>3. QED
        BY <3>1, <3>2
    <2> HIDE DEF OldSay
    <2>8. QED
      BY <2>6, <2>7 DEF Log
  <1>5. QED
    BY <1>3, <1>4, StepLedger

LEMMA StepEndsTold ==
  ASSUME Terms, RowsTyped, Requests, PlanKept, EndsTold, [Next]_vars PROVE EndsTold'
  <1>1. Grown
    BY StepGrown
  <1>2. ASSUME NEW s \in DOMAIN subs, ~subs[s].active
        PROVE  \E k \in DOMAIN events' : events'[k].topic = "cancel" /\ events'[k].id = s
    <2>1. PICK k \in DOMAIN events : events[k].topic = "cancel" /\ events[k].id = s
      BY <1>2 DEF EndsTold
    <2>2. QED
      BY <1>1, <2>1 DEF Grown
  <1>3. CASE Quiet
    BY <1>2, <1>3 DEF Quiet, EndsTold
  <1>4. ASSUME NEW e \in Event, Publishes(e) PROVE EndsTold'
    <2>1. \E k \in DOMAIN events' : events'[k] = e
      <3>1. /\ Len(events) \in Nat
            /\ DOMAIN events' = 1..(Len(events) + 1) /\ events'[Len(events) + 1] = e
        BY <1>4, AppendsOne DEF Publishes
      <3>2. QED
        BY <3>1
    <2>2. ASSUME NEW s \in DOMAIN subs', ~subs'[s].active
          PROVE  (s \in DOMAIN subs /\ ~subs[s].active) \/ (e.topic = "cancel" /\ e.id = s)
      BY <1>4, <2>2, EntryTyped DEF Publishes, Called, Terms, Entry
    <2>3. QED
      BY <1>2, <2>1, <2>2 DEF EndsTold
  <1>5. QED
    BY <1>3, <1>4, StepLedger

-----------------------------------------------------------------------------
(* What a step may do to a row, field by field.                             *)

OwnCall(r, x) == x \in Tx /\ x.row = r /\ x.call = "subscribe" /\ fate[x] # "none"

Inserted(r) ==
  /\ sub[r].status = "ABSENT" /\ sub'[r].status = "PENDING"
  /\ sub'[r].id = sub[r].id /\ sub'[r].hash = sub[r].hash /\ sub'[r].next = sub[r].next

Hashed(r) ==
  /\ sub'[r].hash = sub[r].hash \/ OwnCall(r, sub'[r].hash)
  /\ sub'[r].id = sub[r].id /\ sub'[r].status = sub[r].status /\ sub'[r].next = sub[r].next

Refuted(r) ==
  /\ OwnCall(r, sub'[r].hash) /\ fate[sub'[r].hash] = "reverted"
  /\ sub'[r].status = "FAILED" /\ sub'[r].id = sub[r].id

LinkedBy(r, k) ==
  /\ events[k].topic = "sub" /\ sub[r].hash = events[k].tx /\ sub'[r].hash = sub[r].hash
  /\ sub[r].status = "PENDING" /\ sub'[r].status = "ACTIVE" /\ sub'[r].id = events[k].id

MovedOn(r, k) ==
  /\ events[k].topic = "renew" /\ sub[r].id = events[k].id /\ sub'[r].id = sub[r].id
  /\ sub'[r].hash = sub[r].hash /\ sub'[r].status = sub[r].status

Ended(r, k) ==
  /\ events[k].topic = "cancel" /\ sub[r].id = events[k].id /\ sub'[r].id = sub[r].id
  /\ sub'[r].hash = sub[r].hash /\ sub[r].status \in {"PENDING", "ACTIVE"} /\ sub'[r].status = "CANCELED"

\* What everybody but the indexer may do, and what the indexer may.
Told(r) == Inserted(r) \/ Hashed(r) \/ Refuted(r)
Met(r) == \E k \in DOMAIN events : LinkedBy(r, k) \/ MovedOn(r, k) \/ Ended(r, k)

ToldOnly == seen' = seen /\ \A r \in Sub : sub'[r] = sub[r] \/ Told(r)
Indexed == \E k \in DOMAIN events : Reconcile(k) \/ CreatedInPart(k) \/ EventDropped(k)
RowsMove == \A r \in Sub : sub'[r] = sub[r] \/ Told(r) \/ Met(r)

LEMMA SubRowFields ==
  ASSUME NEW old \in SubRow, NEW x, NEW d, NEW t
  PROVE  /\ LET y == [old EXCEPT !.hash = x]
            IN  y.hash = x /\ y.id = old.id /\ y.status = old.status /\ y.next = old.next
         /\ LET y == [old EXCEPT !.renewHash = x]
            IN  y.hash = old.hash /\ y.id = old.id /\ y.status = old.status /\ y.next = old.next
         /\ LET y == [old EXCEPT !.cancelHash = x]
            IN  y.hash = old.hash /\ y.id = old.id /\ y.status = old.status /\ y.next = old.next
         /\ LET y == [old EXCEPT !.status = "FAILED", !.hash = x]
            IN  y.hash = x /\ y.id = old.id /\ y.status = "FAILED"
         /\ LET y == [old EXCEPT !.status = "PENDING"]
            IN  y.hash = old.hash /\ y.id = old.id /\ y.status = "PENDING" /\ y.next = old.next
         /\ LET y == [old EXCEPT !.status = "ACTIVE", !.id = d, !.next = t]
            IN  y.hash = old.hash /\ y.id = d /\ y.status = "ACTIVE" /\ y.next = t
         /\ LET y == [old EXCEPT !.status = "ACTIVE", !.id = d]
            IN  y.hash = old.hash /\ y.id = d /\ y.status = "ACTIVE"
         /\ LET y == [old EXCEPT !.next = t]
            IN  y.hash = old.hash /\ y.id = old.id /\ y.status = old.status /\ y.next = t
         /\ LET y == [old EXCEPT !.status = "CANCELED"]
            IN  y.hash = old.hash /\ y.id = old.id /\ y.status = "CANCELED" /\ y.next = old.next
  BY DEF SubRow

LEMMA StepOutside == RowsTyped /\ Requests /\ [Next]_vars => ToldOnly \/ Indexed
  <1> SUFFICES ASSUME RowsTyped, Requests, [Next]_vars PROVE ToldOnly \/ Indexed
    OBVIOUS
  <1>1. CASE UNCHANGED <<seen, sub>>
    BY <1>1 DEF ToldOnly
  <1>2. ASSUME NEW x \in Tx, PrepareSub(x) PROVE ToldOnly \/ Indexed
    <2>1. x.row \in Sub
      BY <1>2, TxRow DEF PrepareSub
    <2>2. ASSUME NEW r \in Sub PROVE sub'[r] = sub[r] \/ Told(r)
      <3>1. CASE r = x.row
        <4>1. sub'[r] = [sub[r] EXCEPT !.status = "PENDING"] /\ sub[r].status = "ABSENT" /\ sub[r] \in SubRow
          BY <1>2, <3>1 DEF PrepareSub, RowsTyped
        <4>2. QED
          BY <4>1, SubRowFields DEF Inserted, Told
      <3>2. CASE r # x.row
        BY <1>2, <2>1, <3>2 DEF PrepareSub, RowsTyped
      <3>3. QED
        BY <3>1, <3>2
    <2>3. seen' = seen
      BY <1>2 DEF PrepareSub, Prepare
    <2>4. QED
      BY <2>2, <2>3 DEF ToldOnly
  <1>3. ASSUME NEW h \in Handler, SubmitAccepted(h) PROVE ToldOnly \/ Indexed
    <2>1. req[h].tx \in Tx /\ fate[req[h].tx] # "none"
      BY <1>3 DEF SubmitAccepted, Accepted, Requests
    <2>2. \A q \in Sub : sub[q] \in SubRow
      BY DEF RowsTyped
    <2>3. ASSUME NEW r \in Sub PROVE sub'[r] = sub[r] \/ Told(r)
      <3>1. CASE req[h].tx.call = "create_plan"
        BY <1>3, <3>1 DEF SubmitAccepted
      <3>2. CASE req[h].tx.call = "subscribe"
        <4>1. sub' = [sub EXCEPT ![req[h].tx.row].hash = req[h].tx]
          BY <1>3, <3>2 DEF SubmitAccepted
        <4>2. CASE r = req[h].tx.row
          <5>1. sub'[r] = [sub[r] EXCEPT !.hash = req[h].tx]
            BY <4>1, <4>2 DEF RowsTyped
          <5>2. QED
            BY <2>1, <2>2, <3>2, <4>2, <5>1, SubRowFields DEF Hashed, Told, OwnCall
        <4>3. CASE r # req[h].tx.row
          BY <4>1, <4>3 DEF RowsTyped
        <4>4. QED
          BY <4>2, <4>3
      <3>3. CASE req[h].tx.call = "renew"
        <4>1. sub' = [sub EXCEPT ![req[h].tx.row].renewHash = req[h].tx]
          BY <1>3, <3>3 DEF SubmitAccepted
        <4>2. CASE r = req[h].tx.row
          <5>1. sub'[r] = [sub[r] EXCEPT !.renewHash = req[h].tx]
            BY <4>1, <4>2 DEF RowsTyped
          <5>2. QED
            BY <2>1, <2>2, <3>3, <4>2, <5>1, SubRowFields DEF Hashed, Told, OwnCall
        <4>3. CASE r # req[h].tx.row
          BY <4>1, <4>3 DEF RowsTyped
        <4>4. QED
          BY <4>2, <4>3
      <3>4. CASE req[h].tx.call = "cancel"
        <4>1. sub' = [sub EXCEPT ![req[h].tx.row].cancelHash = req[h].tx]
          BY <1>3, <3>4 DEF SubmitAccepted
        <4>2. CASE r = req[h].tx.row
          <5>1. sub'[r] = [sub[r] EXCEPT !.cancelHash = req[h].tx]
            BY <4>1, <4>2 DEF RowsTyped
          <5>2. QED
            BY <2>1, <2>2, <3>4, <4>2, <5>1, SubRowFields DEF Hashed, Told, OwnCall
        <4>3. CASE r # req[h].tx.row
          BY <4>1, <4>3 DEF RowsTyped
        <4>4. QED
          BY <4>2, <4>3
      <3>5. QED
        BY <2>1, <3>1, <3>2, <3>3, <3>4, TxRow
    <2>4. seen' = seen
      BY <1>3 DEF SubmitAccepted, Accepted, Done
    <2>5. QED
      BY <2>3, <2>4 DEF ToldOnly
  <1>4. ASSUME NEW h \in Handler, SubmitRefused(h) PROVE ToldOnly \/ Indexed
    <2>1. req[h].tx \in Tx /\ fate[req[h].tx] = "reverted"
      BY <1>4 DEF SubmitRefused, Refused, Requests
    <2>2. ASSUME NEW r \in Sub PROVE sub'[r] = sub[r] \/ Told(r)
      <3>1. CASE req[h].tx.call = "subscribe" /\ r = req[h].tx.row
        <4>1. sub'[r] = [sub[r] EXCEPT !.status = "FAILED", !.hash = req[h].tx] /\ sub[r] \in SubRow
          BY <1>4, <3>1 DEF SubmitRefused, RowsTyped
        <4>2. sub'[r].hash = req[h].tx /\ sub'[r].status = "FAILED" /\ sub'[r].id = sub[r].id
          BY <4>1, SubRowFields
        <4>3. QED
          BY <2>1, <3>1, <4>2 DEF Refuted, Told, OwnCall
      <3>2. CASE ~(req[h].tx.call = "subscribe" /\ r = req[h].tx.row)
        BY <1>4, <3>2 DEF SubmitRefused, RowsTyped
      <3>3. QED
        BY <3>1, <3>2
    <2>3. seen' = seen
      BY <1>4 DEF SubmitRefused, Refused, Done
    <2>4. QED
      BY <2>2, <2>3 DEF ToldOnly
  <1>5. ASSUME NEW k \in DOMAIN events, Reconcile(k) PROVE ToldOnly \/ Indexed
    BY <1>5 DEF Indexed
  <1>6. ASSUME NEW k \in DOMAIN events, CreatedInPart(k) PROVE ToldOnly \/ Indexed
    BY <1>6 DEF Indexed
  <1>7. ASSUME NEW k \in DOMAIN events, EventDropped(k) PROVE ToldOnly \/ Indexed
    BY <1>7 DEF Indexed
  <1> QED
    BY <1>1, <1>2, <1>3, <1>4, <1>5, <1>6, <1>7
    DEF Next, vars, callVars, rowVars, contractVars, DirectCall, Tick, TxApplies, TxReverts,
      PreparePlan, PrepareAction, Submit, Calls, SubmitThrew, HandlerDies, Applies,
      CallNetwork, CalledDirectly, Dies, Done, Prepare, Reverts, Start, Threw, Upset

LEMMA StepRows ==
  ASSUME RowsTyped, Requests, [Next]_vars PROVE RowsMove
  <1>1. ASSUME NEW k \in DOMAIN events, Reconcile(k), NEW r \in Sub PROVE sub'[r] = sub[r] \/ Met(r)
    <2>1. sub[r] \in SubRow
      BY DEF RowsTyped
    <2>2. CASE events[k].topic = "sub" /\ Created(r, events[k])
      <3>1. sub'[r] = [sub[r] EXCEPT !.status = "ACTIVE", !.id = events[k].id, !.next = now + Interval]
        BY <1>1, <2>2 DEF Reconcile
      <3>2. QED
        BY <2>1, <2>2, <3>1, SubRowFields DEF Created, LinkedBy, Met
    <2>3. CASE events[k].topic = "renew" /\ Renewed(r, events[k])
      <3>1. sub'[r] = [sub[r] EXCEPT !.next = now + Interval]
        BY <1>1, <2>3 DEF Reconcile
      <3>2. QED
        BY <2>1, <2>3, <3>1, SubRowFields DEF Renewed, MovedOn, Met
    <2>4. CASE events[k].topic = "cancel" /\ Cancelled(r, events[k])
      <3>1. sub'[r] = [sub[r] EXCEPT !.status = "CANCELED"]
        BY <1>1, <2>4 DEF Reconcile
      <3>2. QED
        BY <2>1, <2>4, <3>1, SubRowFields DEF Cancelled, Ended, Met
    <2>5. QED
      BY <1>1, <2>2, <2>3, <2>4 DEF Reconcile
  <1>2. ASSUME NEW k \in DOMAIN events, CreatedInPart(k), NEW r \in Sub PROVE sub'[r] = sub[r] \/ Met(r)
    <2>1. sub[r] \in SubRow
      BY DEF RowsTyped
    <2>2. CASE Created(r, events[k])
      <3>1. sub'[r] = [sub[r] EXCEPT !.status = "ACTIVE", !.id = events[k].id] /\ events[k].topic = "sub"
        BY <1>2, <2>2 DEF CreatedInPart
      <3>2. QED
        BY <2>1, <2>2, <3>1, SubRowFields DEF Created, LinkedBy, Met
    <2>3. QED
      BY <1>2, <2>2 DEF CreatedInPart
  <1>3. ASSUME NEW k \in DOMAIN events, EventDropped(k) PROVE sub' = sub
    BY <1>3 DEF EventDropped, rowVars
  <1>4. QED
    BY <1>1, <1>2, <1>3, StepOutside DEF RowsMove, ToldOnly, Indexed

\* What a linked row is linked by.
LEMMA LinkApplied ==
  ASSUME RowsTyped, Log, Linked, NEW r \in Sub, sub[r].id # None
  PROVE  /\ sub[r].hash \in Tx /\ sub[r].hash.row = r /\ sub[r].hash.call = "subscribe"
         /\ fate[sub[r].hash] = "applied"
         /\ \E k \in DOMAIN events : events[k] = [topic |-> "sub", id |-> sub[r].id, tx |-> sub[r].hash]
  <1>1. PICK k \in DOMAIN events : events[k] = [topic |-> "sub", id |-> sub[r].id, tx |-> sub[r].hash]
    BY DEF Linked
  <1>2. events[k].topic = "sub" /\ events[k].tx = sub[r].hash
    BY <1>1
  <1>3. sub[r].hash # NoTx /\ sub[r].hash \in Tx /\ sub[r].hash # Foreign
    BY <1>2, EventTyped, RowTyped, CallsAssumption
  <1>4. QED
    BY <1>1, <1>2, <1>3 DEF Log, Linked

\* A linked row changes by the indexer only.
LEMMA LinkStays ==
  ASSUME RowsTyped, OneEnvelope, Log, Linked, NEW r \in Sub, sub[r].id # None, Told(r)
  PROVE  sub'[r].id = sub[r].id /\ sub'[r].hash = sub[r].hash
         /\ sub'[r].status = sub[r].status /\ sub'[r].next = sub[r].next
  <1>1. /\ sub[r].hash \in Tx /\ sub[r].hash.row = r /\ sub[r].hash.call = "subscribe"
        /\ fate[sub[r].hash] = "applied"
    BY LinkApplied
  <1>2. \A x : OwnCall(r, x) => x = sub[r].hash
    BY <1>1 DEF OwnCall, OneEnvelope
  <1>3. ~Inserted(r)
    BY DEF Inserted, Linked
  <1>4. ~Refuted(r)
    BY <1>1, <1>2 DEF Refuted
  <1>5. QED
    BY <1>2, <1>3, <1>4 DEF Told, Hashed

LEMMA StepLinked == RowsInv /\ [Next]_vars => Linked'
  <1> SUFFICES ASSUME RowsInv, [Next]_vars PROVE Linked'
    OBVIOUS
  <1>1. Grown /\ RowsMove
    BY StepGrown, StepRows DEF RowsInv
  <1>2. RowsTyped /\ Linked /\ Log /\ OneEnvelope
    BY DEF RowsInv
  <1>3. ASSUME NEW r \in Sub
        PROVE  sub'[r].hash # NoTx =>
                 sub'[r].hash.call = "subscribe" /\ sub'[r].hash.row = r /\ fate'[sub'[r].hash] # "none"
    <2>1. sub'[r].hash = sub[r].hash \/ OwnCall(r, sub'[r].hash)
      BY <1>1 DEF RowsMove, Told, Met, Inserted, Hashed, Refuted, LinkedBy, MovedOn, Ended
    <2>2. sub[r].hash # NoTx => sub[r].hash \in Tx
      BY <1>2, RowTyped
    <2>3. QED
      BY <1>1, <1>2, <2>1, <2>2 DEF Linked, OwnCall, Grown, FateKept
  <1>4. ASSUME NEW r \in Sub, sub[r].id # None,
               sub'[r].id = sub[r].id, sub'[r].hash = sub[r].hash
        PROVE  \E k \in DOMAIN events' :
                 events'[k] = [topic |-> "sub", id |-> sub'[r].id, tx |-> sub'[r].hash]
    <2>1. PICK k \in DOMAIN events : events[k] = [topic |-> "sub", id |-> sub[r].id, tx |-> sub[r].hash]
      BY <1>2, <1>4, LinkApplied
    <2>2. k \in DOMAIN events' /\ events'[k] = events[k]
      BY <1>1 DEF Grown
    <2>3. QED
      BY <1>4, <2>1, <2>2
  <1>5. ASSUME NEW r \in Sub, sub[r].id # None, ~subs[sub[r].id].active
        PROVE  ~subs'[sub[r].id].active
    <2>1. PICK k \in DOMAIN events : events[k] = [topic |-> "sub", id |-> sub[r].id, tx |-> sub[r].hash]
      BY <1>2, <1>5, LinkApplied
    <2>2. events[k].topic = "sub" /\ events[k].id = sub[r].id
      BY <2>1
    <2>3. sub[r].id \in DOMAIN subs
      BY <1>2, <2>2 DEF Log
    <2>4. QED
      BY <1>1, <1>5, <2>3 DEF Grown, SubsKept
  <1> DEFINE LinkedRow(q) ==
        /\ sub'[q].id # None <=> sub'[q].status \in {"ACTIVE", "CANCELED"}
        /\ sub'[q].id # None => \E i \in DOMAIN events' :
             events'[i] = [topic |-> "sub", id |-> sub'[q].id, tx |-> sub'[q].hash]
        /\ sub'[q].status = "CANCELED" => ~subs'[sub'[q].id].active
  <1>6. ASSUME NEW r \in Sub PROVE LinkedRow(r)
    <2>1. CASE sub'[r] = sub[r]
      BY <1>2, <1>4, <1>5, <2>1 DEF Linked
    <2>2. CASE Told(r) /\ sub[r].id # None
      <3>1. /\ sub'[r].id = sub[r].id /\ sub'[r].hash = sub[r].hash /\ sub'[r].status = sub[r].status
        BY <1>2, <2>2, LinkStays
      <3>2. QED
        BY <1>2, <1>4, <1>5, <2>2, <3>1 DEF Linked
    <2>3. CASE Told(r) /\ sub[r].id = None
      <3>1. sub[r].status \notin {"ACTIVE", "CANCELED"}
        BY <1>2, <2>3 DEF Linked
      <3>2. sub'[r].id = None /\ sub'[r].status \notin {"ACTIVE", "CANCELED"}
        BY <2>3, <3>1 DEF Told, Inserted, Hashed, Refuted
      <3>3. QED
        BY <3>2
    <2>4. ASSUME NEW k \in DOMAIN events, LinkedBy(r, k)
          PROVE  LinkedRow(r)
      <3>1. events[k] = [topic |-> "sub", id |-> events[k].id, tx |-> events[k].tx] /\ events[k].id # None
        BY <1>2, <2>4, EventTyped DEF LinkedBy
      <3>2. k \in DOMAIN events' /\ events'[k] = events[k]
        BY <1>1 DEF Grown
      <3>3. /\ sub'[r].id = events[k].id /\ sub'[r].hash = events[k].tx /\ sub'[r].status = "ACTIVE"
        BY <2>4 DEF LinkedBy
      <3>4. events'[k] = [topic |-> "sub", id |-> sub'[r].id, tx |-> sub'[r].hash]
        BY <3>1, <3>2, <3>3
      <3>5. QED
        BY <3>1, <3>2, <3>3, <3>4
    <2>5. ASSUME NEW k \in DOMAIN events, MovedOn(r, k) PROVE LinkedRow(r)
      <3>1. /\ sub'[r].id = sub[r].id /\ sub'[r].hash = sub[r].hash /\ sub'[r].status = sub[r].status
        BY <2>5 DEF MovedOn
      <3>2. QED
        BY <1>2, <1>4, <1>5, <3>1 DEF Linked
    <2>6. ASSUME NEW k \in DOMAIN events, Ended(r, k) PROVE LinkedRow(r)
      <3>1. /\ sub'[r].id = sub[r].id /\ sub'[r].hash = sub[r].hash /\ sub'[r].status = "CANCELED"
            /\ sub[r].id = events[k].id /\ events[k].topic = "cancel" /\ events[k].id # None
        BY <1>2, <2>6, EventTyped DEF Ended
      <3>2. ~subs[sub[r].id].active
        BY <1>2, <3>1 DEF Log
      <3>3. QED
        BY <1>4, <1>5, <3>1, <3>2
    <2> HIDE DEF LinkedRow
    <2>7. CASE Met(r)
      <3>1. PICK k \in DOMAIN events : LinkedBy(r, k) \/ MovedOn(r, k) \/ Ended(r, k)
        BY <2>7 DEF Met
      <3>2. QED
        BY <2>4, <2>5, <2>6, <3>1
    <2>8. QED
      BY <1>1, <2>1, <2>2, <2>3, <2>7 DEF RowsMove
  <1>7. QED
    BY <1>3, <1>6 DEF Linked

-----------------------------------------------------------------------------
(* With no event lost.                                                      *)

\* What CaughtUp says of one row.
EndMet(r) ==
  sub[r].status = "ACTIVE" => ~\E k \in 1..seen : events[k].topic = "cancel" /\ events[k].id = sub[r].id
RenewalAhead(r) ==
  \E k \in DOMAIN events : k > seen /\ events[k].topic = "renew" /\ events[k].id = sub[r].id
LateEnough(r) == sub[r].next \in Nat /\ sub[r].next >= subs[sub[r].id].due
DueMet(r) == subs[sub[r].id].active => RenewalAhead(r) \/ LateEnough(r)

LEMMA CaughtUpByRow ==
  CaughtUp <=> (NoEventLost => \A r \in Sub : sub[r].id # None => EndMet(r) /\ DueMet(r))
  BY DEF CaughtUp, EndMet, DueMet, RenewalAhead, LateEnough

LEMMA InitRows == Init => RowsInv /\ CaughtUp
  <1> SUFFICES ASSUME Init PROVE RowsInv /\ CaughtUp
    OBVIOUS
  <1>1. /\ fate = [x \in Tx |-> "none"] /\ events = <<>> /\ seen = 0
        /\ req = [h \in Handler |-> [at |-> "idle", tx |-> NoTx]]
        /\ upsets = [k \in UpsetKind |-> IF k = "foreign" THEN 0 ELSE 0]
        /\ subs = <<>> /\ DOMAIN events = {} /\ DOMAIN subs = {} /\ Len(events) = 0
    BY DEF Init, CallsInit, CallsInitAfter, Idle
  <1>2. CallsTypeOK(Event)
    BY <1>1, CallsAssumption DEF CallsTypeOK, Fate
  <1>3. plan \in [Plan -> PlanRow] /\ sub \in [Sub -> SubRow]
    BY DEF Init, PlanRow, SubRow
  <1>4. /\ \A p \in Plan : plan[p].id = None
        /\ \A r \in Sub : sub[r].id = None /\ sub[r].hash = NoTx /\ sub[r].status = "ABSENT"
    BY DEF Init
  <1>5. Requests /\ OneEnvelope /\ PlanKept /\ Log /\ EndsTold /\ Linked
    BY <1>1, <1>4 DEF Requests, OneEnvelope, PlanKept, Log, EndsTold, Linked
  <1>6. CaughtUp
    BY <1>4 DEF CaughtUp
  <1>7. QED
    BY <1>2, <1>3, <1>5, <1>6, InitTerms DEF RowsInv, RowsTyped

LEMMA StepRowsInv ==
  ASSUME RowsInv, [Next]_vars PROVE RowsInv'
  BY StepTerms, StepTyped, StepRequests, StepOneEnvelope, StepPlanKept, StepLog,
    StepEndsTold, StepLinked
  DEF RowsInv

\* While the indexer rests: a renewal on the ledger is ahead of it.
LEMMA RowKeptUp ==
  ASSUME RowsInv, [Next]_vars, ToldOnly, NEW r \in Sub, sub'[r].id # None,
         sub[r].id # None => EndMet(r) /\ DueMet(r)
  PROVE  EndMet(r)' /\ DueMet(r)'
  <1>1. RowsTyped /\ Terms /\ Linked /\ Log /\ OneEnvelope /\ Grown /\ seen' = seen
    BY StepGrown DEF RowsInv, ToldOnly
  <1>2. sub[r].id # None /\ sub'[r].id = sub[r].id
        /\ sub'[r].status = sub[r].status /\ sub'[r].next = sub[r].next
    <2>1. CASE sub'[r] = sub[r]
      BY <2>1
    <2>2. CASE Told(r) /\ sub[r].id # None
      BY <1>1, <2>2, LinkStays
    <2>3. CASE Told(r) /\ sub[r].id = None
      <3>1. sub[r].status \notin {"ACTIVE", "CANCELED"}
        BY <1>1, <2>3 DEF Linked
      <3>2. sub'[r].id = None
        BY <2>3, <3>1 DEF Told, Inserted, Hashed, Refuted
      <3>3. QED
        BY <3>2
    <2>4. QED
      BY <2>1, <2>2, <2>3 DEF ToldOnly
  <1> DEFINE d == sub[r].id
  <1>3. d \in DOMAIN subs
    <2>1. PICK k \in DOMAIN events : events[k] = [topic |-> "sub", id |-> sub[r].id, tx |-> sub[r].hash]
      BY <1>1, <1>2, LinkApplied
    <2>2. events[k].topic = "sub" /\ events[k].id = sub[r].id
      BY <2>1
    <2>3. QED
      BY <1>1, <2>2 DEF Log
  <1> HIDE DEF d
  <1>4. sub[r].id = d /\ sub'[r].id = d
    BY <1>2 DEF d
  <1>5. EndMet(r)'
    <2>1. 1..seen \subseteq DOMAIN events
      BY <1>1, Positions
    <2>2. QED
      BY <1>1, <1>2, <2>1 DEF EndMet, Grown
  <1>6. CASE RenewalAhead(r)
    <2>1. PICK k \in DOMAIN events : k > seen /\ events[k].topic = "renew" /\ events[k].id = d
      BY <1>4, <1>6 DEF RenewalAhead
    <2>2. k \in DOMAIN events' /\ events'[k] = events[k]
      BY <1>1 DEF Grown
    <2>3. QED
      BY <1>1, <1>4, <1>5, <2>1, <2>2 DEF DueMet, RenewalAhead
  <1>7. CASE LateEnough(r)
    <2>1. CASE subs'[d].due = subs[d].due
      BY <1>2, <1>4, <1>5, <1>7, <2>1 DEF LateEnough, DueMet
    <2>2. CASE subs'[d].due # subs[d].due
      <3>1. PICK e \in Event : Called(e)
        BY <1>1, <2>2, StepLedger DEF Quiet, Publishes
      <3>2. e.topic = "renew" /\ e.id = d
        BY <1>1, <1>3, <2>2, <3>1 DEF Called, Grown, SubsKept
      <3>3. Len(events) + 1 \in DOMAIN events' /\ events'[Len(events) + 1] = e /\ Len(events) + 1 > seen
        BY <1>1, <3>1, AppendsOne, Positions
      <3>4. QED
        BY <1>1, <1>4, <1>5, <3>2, <3>3 DEF DueMet, RenewalAhead
    <2>3. QED
      BY <2>1, <2>2
  <1>8. CASE ~subs[d].active
    BY <1>1, <1>3, <1>4, <1>5, <1>8 DEF Grown, SubsKept, DueMet
  <1>9. QED
    BY <1>2, <1>4, <1>6, <1>7, <1>8 DEF DueMet

\* What the indexer meets, the row shows.
LEMMA RowCaughtUp ==
  ASSUME RowsInv, NEW k \in DOMAIN events, Reconcile(k), k = seen + 1, seen' = k,
         NEW r \in Sub, sub'[r].id # None, sub[r].id # None => EndMet(r) /\ DueMet(r)
  PROVE  EndMet(r)' /\ DueMet(r)'
  <1>1. RowsTyped /\ Terms /\ Linked /\ Log
    BY DEF RowsInv
  <1>2. events' = events /\ subs' = subs /\ sub[r] \in SubRow /\ events[k].id # None
    BY <1>1, EventTyped DEF Reconcile, Delivered, contractVars, RowsTyped
  <1>3. k \in Nat /\ seen \in Nat /\ 1..k \subseteq DOMAIN events
    BY <1>1, Positions
  <1>4. \A s \in DOMAIN subs : subs[s].due \in Nat /\ subs[s].due <= now + Interval
    BY <1>1, EntryTyped DEF Terms, Charged
  <1>5. now + Interval \in Nat
    BY <1>1, SubscriptionAssumption DEF Terms, LedgerTyped
  <1>6. CASE events[k].topic = "sub" /\ Created(r, events[k])
    <2>1. sub'[r] = [sub[r] EXCEPT !.status = "ACTIVE", !.id = events[k].id, !.next = now + Interval]
      BY <1>6 DEF Reconcile
    <2>2. sub'[r].id = events[k].id /\ sub'[r].next = now + Interval
      BY <1>2, <2>1, SubRowFields
    <2>3. EndMet(r)'
      <3> SUFFICES ASSUME NEW i \in 1..k, events[i].topic = "cancel", events[i].id = events[k].id
                   PROVE  FALSE
        BY <1>2, <2>2 DEF EndMet
      <3>1. k <= i
        BY <1>1, <1>3, <1>6 DEF Log
      <3>2. QED
        BY <1>3, <1>6, <3>1
    <2>4. LateEnough(r)'
      BY <1>1, <1>2, <1>4, <1>5, <1>6, <2>2 DEF LateEnough, Log
    <2>5. QED
      BY <2>3, <2>4 DEF DueMet
  <1>7. CASE events[k].topic = "renew" /\ Renewed(r, events[k])
    <2>1. sub'[r] = [sub[r] EXCEPT !.next = now + Interval]
      BY <1>7 DEF Reconcile
    <2>2. /\ sub'[r].id = events[k].id /\ sub[r].id = events[k].id
          /\ sub'[r].next = now + Interval /\ sub[r].status = "ACTIVE"
      BY <1>2, <1>7, <2>1, SubRowFields DEF Renewed
    <2>3. EndMet(r)'
      <3> SUFFICES ASSUME NEW i \in 1..k, events[i].topic = "cancel", events[i].id = events[k].id
                   PROVE  FALSE
        BY <1>2, <2>2 DEF EndMet
      <3>1. i \in 1..seen
        BY <1>3, <1>7
      <3>2. QED
        BY <1>2, <2>2, <3>1 DEF EndMet
    <2>4. LateEnough(r)'
      BY <1>1, <1>2, <1>4, <1>5, <1>7, <2>2 DEF LateEnough, Log
    <2>5. QED
      BY <2>3, <2>4 DEF DueMet
  <1>8. CASE events[k].topic = "cancel" /\ Cancelled(r, events[k])
    <2>1. sub'[r] = [sub[r] EXCEPT !.status = "CANCELED"]
      BY <1>8 DEF Reconcile
    <2>2. sub'[r].id = events[k].id /\ sub'[r].status = "CANCELED"
      BY <1>2, <1>8, <2>1, SubRowFields DEF Cancelled
    <2>3. ~subs[events[k].id].active
      BY <1>1, <1>8 DEF Log
    <2>4. QED
      BY <1>2, <2>2, <2>3 DEF EndMet, DueMet
  <1>9. CASE /\ ~(events[k].topic = "sub" /\ Created(r, events[k]))
             /\ ~(events[k].topic = "renew" /\ Renewed(r, events[k]))
             /\ ~(events[k].topic = "cancel" /\ Cancelled(r, events[k]))
    <2>1. sub'[r] = sub[r]
      BY <1>9 DEF Reconcile
    <2>2. EndMet(r)'
      <3> SUFFICES ASSUME NEW i \in 1..k, events[i].topic = "cancel", events[i].id = sub[r].id,
                          sub[r].status = "ACTIVE"
                   PROVE  FALSE
        BY <1>2, <2>1 DEF EndMet
      <3>1. i \in 1..seen
        BY <1>3, <1>9 DEF Cancelled
      <3>2. QED
        BY <2>1, <3>1 DEF EndMet
    <2>3. CASE subs[sub[r].id].active /\ RenewalAhead(r)
      <3>1. PICK i \in DOMAIN events : i > seen /\ events[i].topic = "renew" /\ events[i].id = sub[r].id
        BY <2>3 DEF RenewalAhead
      <3>2. sub[r].status = "ACTIVE"
        BY <1>1, <2>1, <2>3 DEF Linked
      <3>3. i # k
        BY <1>9, <3>1, <3>2 DEF Renewed
      <3>4. i > k
        BY <1>1, <1>3, <3>1, <3>3, Positions
      <3>5. QED
        BY <1>2, <2>1, <2>2, <3>1, <3>4 DEF DueMet, RenewalAhead
    <2>4. QED
      BY <1>2, <2>1, <2>2, <2>3 DEF DueMet, LateEnough
  <1>10. QED
    BY <1>6, <1>7, <1>8, <1>9

LEMMA StepCaughtUp ==
  ASSUME RowsInv, CaughtUp, [Next]_vars PROVE CaughtUp'
  <1> SUFFICES ASSUME NoEventLost', NEW r \in Sub, sub'[r].id # None PROVE EndMet(r)' /\ DueMet(r)'
    BY DEF CaughtUp, EndMet, DueMet, RenewalAhead, LateEnough
  <1>1. RowsTyped /\ Requests /\ NoEventLost
    BY StepGrown DEF RowsInv, Grown
  <1>2. sub[r].id # None => EndMet(r) /\ DueMet(r)
    BY <1>1, CaughtUpByRow
  <1>3. CASE ToldOnly
    BY <1>2, <1>3, RowKeptUp
  <1>4. ASSUME NEW k \in DOMAIN events, Reconcile(k) PROVE EndMet(r)' /\ DueMet(r)'
    <2>1. k = seen + 1 /\ seen' = k
      BY <1>1, <1>4, UpsetCounts DEF Reconcile, Delivered, First
    <2>2. QED
      BY <1>2, <1>4, <2>1, RowCaughtUp
  <1>5. ASSUME NEW k \in DOMAIN events, CreatedInPart(k) \/ EventDropped(k) PROVE FALSE
    BY <1>1, <1>5, UpsetCounts DEF CreatedInPart, EventDropped, Dropped
  <1>6. QED
    BY <1>1, <1>3, <1>4, <1>5, StepOutside DEF Indexed

LEMMA RowsShow == RowsInv /\ CaughtUp => RowShowsSubscription
  <1> SUFFICES ASSUME RowsInv, CaughtUp, NEW r \in Sub, sub[r].id # None
               PROVE  LET s == subs[sub[r].id]
                      IN  /\ s.who = Owner[r] /\ s.plan = plan[PlanOf[r]].id
                          /\ \E k \in DOMAIN events :
                               events[k] = [topic |-> "sub", id |-> sub[r].id, tx |-> sub[r].hash]
                          /\ sub[r].status = "CANCELED" => ~s.active
                          /\ seen = Len(events) /\ NoEventLost =>
                               (sub[r].status = "ACTIVE" <=> s.active) /\ (s.active => sub[r].next >= s.due)
    BY DEF RowShowsSubscription
  <1>1. RowsTyped /\ Log /\ EndsTold /\ Linked
    BY DEF RowsInv
  <1>2. PICK k \in DOMAIN events : events[k] = [topic |-> "sub", id |-> sub[r].id, tx |-> sub[r].hash]
    BY <1>1, LinkApplied
  <1>3. /\ events[k].topic = "sub" /\ events[k].id = sub[r].id /\ events[k].tx = sub[r].hash
        /\ sub[r].hash \in Tx /\ sub[r].hash.row = r /\ sub[r].hash # Foreign
    BY <1>1, <1>2, LinkApplied, CallsAssumption
  <1>4. /\ subs[sub[r].id].who = Owner[r] /\ subs[sub[r].id].plan = plan[PlanOf[r]].id
        /\ sub[r].id \in DOMAIN subs
    BY <1>1, <1>3 DEF Log
  <1>5. sub[r].status \in {"ACTIVE", "CANCELED"} /\ (sub[r].status = "CANCELED" => ~subs[sub[r].id].active)
    BY <1>1 DEF Linked
  <1>6. ASSUME seen = Len(events), NoEventLost
        PROVE  /\ sub[r].status = "ACTIVE" <=> subs[sub[r].id].active
               /\ subs[sub[r].id].active => sub[r].next >= subs[sub[r].id].due
    <2>1. EndMet(r) /\ DueMet(r) /\ DOMAIN events = 1..seen
      BY <1>1, <1>6, CaughtUpByRow, Positions
    <2>2. sub[r].status = "ACTIVE" => subs[sub[r].id].active
      BY <1>1, <1>4, <2>1 DEF EndsTold, EndMet
    <2>3. ~RenewalAhead(r)
      BY <1>1, <1>6, Positions DEF RenewalAhead
    <2>4. QED
      BY <1>5, <2>1, <2>2, <2>3 DEF DueMet, LateEnough
  <1>7. QED
    BY <1>2, <1>4, <1>5, <1>6

(* A row names the contract subscription its own envelope made, CANCELED is
   never shown of one that goes on, and the row of a subscription whose events
   were all met once and in order is ACTIVE exactly while it is, with a due date
   no earlier than the contract's (SubscriptionsService, the three handlers of
   ContractReconciliationService and the contract, in any interleaving).     *)
THEOREM RowShowsSubscriptionHolds == Spec => []RowShowsSubscription
  <1>1. RowsInv /\ CaughtUp /\ [Next]_vars => (RowsInv /\ CaughtUp)'
    BY StepRowsInv, StepCaughtUp
  <1>2. QED
    BY <1>1, InitRows, RowsShow, PTL DEF Spec

=============================================================================
