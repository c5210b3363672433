--------------------------- MODULE EscrowProofs ---------------------------
(***************************************************************************)
(* Proofs about the escrow contract, for any accounts, amounts, clock and  *)
(* number of escrows, and about its lifecycle in the API, for any number   *)
(* of rows, handlers and envelopes.                                        *)
(***************************************************************************)
EXTENDS EscrowLifecycle, FiniteSetTheorems, TLAPS

(* The id create takes is an id, and the deadline it stores is a time.      *)
LEMMA NextIdBounds ==
  ASSUME ContractTypeOK PROVE NextId \in Nat \ {0}
  BY ContractAssumption DEF ContractTypeOK, NextId

LEMMA DefaultExpiryIsTime ==
  ASSUME NEW r \in ReleaseTime PROVE DefaultExpiry(r) \in Time
  BY ContractAssumption DEF DefaultExpiry, Time

(* Marking an escrow settled gives an escrow.                               *)
LEMMA SettledIsRecord ==
  ASSUME ContractTypeOK, NEW d \in Id, escrow[d] # None
  PROVE  /\ escrow[d] \in EscrowRecord
         /\ [escrow EXCEPT ![d].released = TRUE] \in [Id -> EscrowRecord \cup {None}]
         /\ [escrow EXCEPT ![d].refunded = TRUE] \in [Id -> EscrowRecord \cup {None}]
  <1>1. escrow[d] \in EscrowRecord
    BY DEF ContractTypeOK
  <1>2. /\ [escrow[d] EXCEPT !.released = TRUE] \in EscrowRecord
        /\ [escrow[d] EXCEPT !.refunded = TRUE] \in EscrowRecord
    BY <1>1 DEF EscrowRecord
  <1>3. QED
    BY <1>1, <1>2 DEF ContractTypeOK

LEMMA PayTyped ==
  ASSUME ContractTypeOK, NEW to \in Address, NEW n \in Amount, Pay(to, n)
  PROVE  balance' \in [Address -> Nat] /\ held' \in Nat
  BY ContractAssumption DEF ContractTypeOK, Pay

LEMMA PublishTyped ==
  ASSUME ContractTypeOK, NEW topic \in {"created", "released", "refund"}, NEW d \in Id,
         Publish(topic, d)
  PROVE  events' \in Seq(Event)
  BY DEF ContractTypeOK, Publish, Event

LEMMA InitTyped == ContractInit => ContractTypeOK
  BY ContractAssumption DEF ContractInit, ContractTypeOK, Time, Event

(* Every call keeps the types, token balances included: none goes negative. *)
LEMMA StepTyped == ContractTypeOK /\ [ContractNext]_contractVars => ContractTypeOK'
  <1> SUFFICES ASSUME ContractTypeOK, [ContractNext]_contractVars PROVE ContractTypeOK'
    OBVIOUS
  <1>1. CASE Initialize(Deployer)
    BY <1>1, ContractAssumption DEF Initialize, ContractTypeOK
  <1>2. ASSUME NEW i \in Party, NEW c \in Party, NEW arb \in Arbiter \cup {None},
               NEW n \in Amount, NEW r \in ReleaseTime, NEW e \in Expiry \cup {None},
               Create(i, c, arb, n, r, e)
        PROVE  ContractTypeOK'
    <2>1. NextId \in Id
      BY <1>2 DEF Create
    <2> DEFINE entry == [initiator |-> i, counterparty |-> c, arbiter |-> arb,
                         amount |-> n, releaseTime |-> r,
                         expiry |-> IF e = None THEN DefaultExpiry(r) ELSE e,
                         released |-> FALSE, refunded |-> FALSE]
    <2>2. entry \in EscrowRecord
      BY DefaultExpiryIsTime, ContractAssumption DEF EscrowRecord
    <2>3. escrow' \in [Id -> EscrowRecord \cup {None}]
      <3>1. escrow' = [escrow EXCEPT ![NextId] = entry]
        BY <1>2 DEF Create
      <3>2. QED
        BY <2>1, <2>2, <3>1 DEF ContractTypeOK
    <2>4. balance' \in [Address -> Nat] /\ held' \in Nat
      BY <1>2, ContractAssumption DEF Create, ContractTypeOK
    <2>5. events' \in Seq(Event)
      BY <1>2, <2>1, PublishTyped DEF Create
    <2>6. nextId' \in 1..(MaxId + 1) \cup {None}
      BY <1>2, <2>1, ContractAssumption DEF Create, Id
    <2>7. QED
      BY <1>2, <2>3, <2>4, <2>5, <2>6 DEF Create, ContractTypeOK
  <1>3. ASSUME NEW d \in Id, NEW a \in Address, Release(d, a) PROVE ContractTypeOK'
    <2>1. escrow[d] # None
      BY <1>3 DEF Release, Unsettled
    <2>2. escrow[d].counterparty \in Address /\ escrow[d].amount \in Amount
      BY <2>1, SettledIsRecord DEF EscrowRecord
    <2>3. balance' \in [Address -> Nat] /\ held' \in Nat
      BY <1>3, <2>2, PayTyped DEF Release
    <2>4. escrow' \in [Id -> EscrowRecord \cup {None}]
      BY <1>3, <2>1, SettledIsRecord DEF Release
    <2>5. events' \in Seq(Event)
      BY <1>3, PublishTyped DEF Release
    <2>6. QED
      BY <1>3, <2>3, <2>4, <2>5 DEF Release, ContractTypeOK
  <1>4. ASSUME NEW d \in Id, NEW a \in Address, Refund(d, a) PROVE ContractTypeOK'
    <2>1. escrow[d] # None
      BY <1>4 DEF Refund, Unsettled
    <2>2. RefundTo(d, a) \in Address /\ escrow[d].amount \in Amount
      BY <2>1, SettledIsRecord DEF EscrowRecord, RefundTo
    <2>3. balance' \in [Address -> Nat] /\ held' \in Nat
      BY <1>4, <2>2, PayTyped DEF Refund
    <2>4. escrow' \in [Id -> EscrowRecord \cup {None}]
      BY <1>4, <2>1, SettledIsRecord DEF Refund
    <2>5. events' \in Seq(Event)
      BY <1>4, PublishTyped DEF Refund
    <2>6. QED
      BY <1>4, <2>3, <2>4, <2>5 DEF Refund, ContractTypeOK
  <1>5. CASE LedgerCloses
    BY <1>5, ContractAssumption DEF LedgerCloses, ContractTypeOK, Time
  <1>6. CASE UNCHANGED contractVars
    BY <1>6 DEF contractVars, ContractTypeOK
  <1>7. QED
    BY <1>1, <1>2, <1>3, <1>4, <1>5, <1>6 DEF ContractNext

(* The contract's storage, balances and events keep their types: in
   particular no account and not the contract is ever overdrawn.            *)
THEOREM ContractTypeCorrect == ContractSpec => []ContractTypeOK
  BY InitTyped, StepTyped, PTL DEF ContractSpec

-----------------------------------------------------------------------------
(* The ids at and past the counter are free, and the counter is only set once
   there is an admin, so that initialize cannot set it back over an escrow.  *)
FreshIds ==
  /\ admin = None => nextId = None
  /\ \A d \in Id : d >= NextId => escrow[d] = None

LEMMA InitFresh == ContractInit => FreshIds
  BY DEF ContractInit, FreshIds

LEMMA StepFresh ==
  ASSUME InitFirst
  PROVE  ContractTypeOK /\ FreshIds /\ [ContractNext]_contractVars => FreshIds'
  <1> SUFFICES ASSUME ContractTypeOK, FreshIds, [ContractNext]_contractVars
               PROVE  FreshIds'
    OBVIOUS
  <1>1. CASE Initialize(Deployer)
    <2>1. admin' # None
      BY <1>1, ContractAssumption DEF Initialize
    <2>2. NextId = 1 /\ NextId' = 1 /\ escrow' = escrow
      BY <1>1, ContractAssumption DEF Initialize, NextId, FreshIds
    <2>3. QED
      BY <2>1, <2>2 DEF FreshIds
  <1>2. ASSUME NEW i \in Party, NEW c \in Party, NEW arb \in Arbiter \cup {None},
               NEW n \in Amount, NEW r \in ReleaseTime, NEW e \in Expiry \cup {None},
               Create(i, c, arb, n, r, e)
        PROVE  FreshIds'
    <2>1. admin' # None
      BY <1>2 DEF Create
    <2>2. NextId' = NextId + 1
      BY <1>2, NextIdBounds, ContractAssumption DEF Create, NextId
    <2>3. \A d \in Id : d # NextId => escrow'[d] = escrow[d]
      BY <1>2 DEF Create, ContractTypeOK
    <2>4. \A d \in Id : d >= NextId' => d >= NextId /\ d # NextId
      BY <2>2, NextIdBounds DEF Id
    <2>5. QED
      BY <2>1, <2>3, <2>4 DEF FreshIds
  <1>3. ASSUME NEW d \in Id, NEW a \in Address, Release(d, a) \/ Refund(d, a)
        PROVE  FreshIds'
    <2>1. escrow[d] # None /\ admin' = admin /\ nextId' = nextId
      BY <1>3 DEF Release, Refund, Unsettled
    <2>2. \A x \in Id : x # d => escrow'[x] = escrow[x]
      BY <1>3 DEF Release, Refund, ContractTypeOK
    <2>3. NextId' = NextId
      BY <2>1 DEF NextId
    <2>4. QED
      BY <2>1, <2>2, <2>3 DEF FreshIds
  <1>4. CASE LedgerCloses
    BY <1>4 DEF LedgerCloses, FreshIds, NextId
  <1>5. CASE UNCHANGED contractVars
    BY <1>5 DEF contractVars, FreshIds, NextId
  <1>6. QED
    BY <1>1, <1>2, <1>3, <1>4, <1>5 DEF ContractNext

-----------------------------------------------------------------------------
(* What the refinement shows of an entry.                                   *)
LEMMA DealOfEntry ==
  ASSUME ContractTypeOK, NEW d \in Id, escrow[d] # None
  PROVE  /\ DealOf(d) \in Custody!Deals
         /\ DealOf(d) # None
         /\ DealOf(d).initiator = escrow[d].initiator
         /\ DealOf(d).counterparty = escrow[d].counterparty
         /\ DealOf(d).amount = escrow[d].amount
         /\ Unsettled(d) => DealOf(d).outcome = "held"
  <1>1. escrow[d] \in EscrowRecord
    BY SettledIsRecord
  <1>2. DealOf(d) \in Custody!Deals
    BY <1>1 DEF DealOf, EscrowRecord, Custody!Deals
  <1>3. DealOf(d) # None
    BY <1>2, AbsentAssumption
  <1>4. QED
    BY <1>1, <1>2, <1>3 DEF DealOf, Unsettled, EscrowRecord

(* An outcome changes the outcome of its own deal and nothing else.         *)
LEMMA DealSettled ==
  ASSUME ContractTypeOK, NEW d \in Id, Unsettled(d),
         NEW outcome,
         \/ /\ outcome = "released"
            /\ escrow' = [escrow EXCEPT ![d].released = TRUE]
         \/ /\ outcome = "refunded"
            /\ escrow' = [escrow EXCEPT ![d].refunded = TRUE]
  PROVE  [x \in Id |-> DealOf(x)]' = [[x \in Id |-> DealOf(x)] EXCEPT ![d].outcome = outcome]
  <1>1. escrow[d] \in EscrowRecord /\ escrow[d] # None
    BY SettledIsRecord DEF Unsettled
  <1>2. \A x \in Id : x # d => DealOf(x)' = DealOf(x)
    BY DEF DealOf, ContractTypeOK
  <1>3. escrow'[d] \in EscrowRecord
    <2>1. /\ [escrow[d] EXCEPT !.released = TRUE] \in EscrowRecord
          /\ [escrow[d] EXCEPT !.refunded = TRUE] \in EscrowRecord
      BY <1>1 DEF EscrowRecord
    <2>2. \/ escrow'[d] = [escrow[d] EXCEPT !.released = TRUE]
          \/ escrow'[d] = [escrow[d] EXCEPT !.refunded = TRUE]
      BY DEF ContractTypeOK
    <2>3. QED
      BY <2>1, <2>2
  <1>4. escrow'[d] # None
    BY <1>3, AbsentAssumption
  <1>5. DealOf(d)' = [DealOf(d) EXCEPT !.outcome = outcome]
    BY <1>1, <1>4 DEF DealOf, ContractTypeOK, EscrowRecord, Unsettled
  <1>6. QED
    BY <1>2, <1>5

LEMMA StepKeepsCustody ==
  ContractTypeOK /\ FreshIds /\ [ContractNext]_contractVars
    => [Custody!CustodyNext]_(Custody!custodyVars)
  <1> SUFFICES ASSUME ContractTypeOK, FreshIds, [ContractNext]_contractVars
               PROVE  [Custody!CustodyNext]_(Custody!custodyVars)
    OBVIOUS
  <1> DEFINE deal == [d \in Id |-> DealOf(d)]
  <1>1. ASSUME UNCHANGED <<escrow, balance>> PROVE UNCHANGED Custody!custodyVars
    BY <1>1 DEF Custody!custodyVars, DealOf
  <1>2. CASE Initialize(Deployer) \/ LedgerCloses \/ UNCHANGED contractVars
    BY <1>1, <1>2 DEF Initialize, LedgerCloses, contractVars
  <1>3. ASSUME NEW i \in Party, NEW c \in Party, NEW arb \in Arbiter \cup {None},
               NEW n \in Amount, NEW r \in ReleaseTime, NEW e \in Expiry \cup {None},
               Create(i, c, arb, n, r, e)
        PROVE  Custody!CustodyNext
    <2> DEFINE id == NextId
               terms == [initiator |-> i, counterparty |-> c, amount |-> n,
                         outcome |-> "held"]
    <2>1. id \in Id /\ escrow[id] = None
      BY <1>3, NextIdBounds DEF Create, FreshIds
    <2>2. deal[id] = None
      BY <2>1 DEF DealOf
    <2>3. escrow'[id] # None
      <3>2. escrow'[id] = [initiator |-> i, counterparty |-> c, arbiter |-> arb,
                           amount |-> n, releaseTime |-> r,
                           expiry |-> IF e = None THEN DefaultExpiry(r) ELSE e,
                           released |-> FALSE, refunded |-> FALSE]
        BY <1>3, <2>1 DEF Create, ContractTypeOK
      <3>3. escrow'[id] \in EscrowRecord
        BY <3>2, DefaultExpiryIsTime, ContractAssumption DEF EscrowRecord
      <3>4. QED
        BY <3>3, AbsentAssumption
    <2>5. \A x \in Id : DealOf(x)' = IF x = id THEN terms ELSE DealOf(x)
      <3>1. ASSUME NEW x \in Id, x # id PROVE DealOf(x)' = DealOf(x)
        BY <1>3, <3>1 DEF Create, DealOf, ContractTypeOK
      <3>2. ASSUME NEW x \in Id, x = id PROVE DealOf(x)' = terms
        BY <1>3, <2>1, <2>3, <3>2 DEF Create, DealOf, ContractTypeOK
      <3>3. QED
        BY <3>1, <3>2
    <2>6. deal' = [deal EXCEPT ![id] = terms]
      BY <2>5
    <2>7. Custody!Lock(id, i, c, n)
      BY <1>3, <2>2, <2>6 DEF Custody!Lock, Create
    <2>8. QED
      BY <2>1, <2>7, ContractAssumption DEF Custody!CustodyNext
  <1>4. ASSUME NEW d \in Id, NEW a \in Address, Release(d, a)
        PROVE  Custody!CustodyNext
    <2>1. Unsettled(d) /\ escrow[d] # None
      BY <1>4 DEF Release, Unsettled
    <2>2. deal' = [deal EXCEPT ![d].outcome = "released"]
      BY <1>4, <2>1, DealSettled DEF Release
    <2>3. balance' = [balance EXCEPT ![DealOf(d).counterparty] = @ + DealOf(d).amount]
      BY <1>4, <2>1, DealOfEntry DEF Release, Pay
    <2>4. Custody!Settle(d, "released", deal[d].counterparty)
      BY <2>1, <2>2, <2>3, DealOfEntry DEF Custody!Settle
    <2>5. QED
      BY <2>4 DEF Custody!CustodyNext
  <1>5. ASSUME NEW d \in Id, NEW a \in Address, Refund(d, a)
        PROVE  Custody!CustodyNext
    <2>1. Unsettled(d) /\ escrow[d] # None
      BY <1>5 DEF Refund, Unsettled
    <2>2. deal' = [deal EXCEPT ![d].outcome = "refunded"]
      BY <1>5, <2>1, DealSettled DEF Refund
    <2>3. balance' = [balance EXCEPT ![DealOf(d).initiator] = @ + DealOf(d).amount]
      BY <1>5, <2>1, DealOfEntry DEF Refund, Pay, RefundTo
    <2>4. Custody!Settle(d, "refunded", deal[d].initiator)
      BY <2>1, <2>2, <2>3, DealOfEntry DEF Custody!Settle
    <2>5. QED
      BY <2>4 DEF Custody!CustodyNext
  <1>6. QED
    BY <1>2, <1>3, <1>4, <1>5 DEF ContractNext

LEMMA InitKeepsCustody == ContractInit => Custody!CustodyInit
  BY ContractAssumption DEF ContractInit, Custody!CustodyInit, DealOf

(* Once it is initialized before anyone creates an escrow, the contract keeps
   the promise of EscrowCustody: every escrow locks its amount once and pays
   it out once, to the counterparty or back to the initiator.               *)
THEOREM KeepsCustodyHolds == ASSUME InitFirst PROVE ContractSpec => KeepsCustody
  <1>1. ContractInit => ContractTypeOK /\ FreshIds /\ Custody!CustodyInit
    BY InitTyped, InitFresh, InitKeepsCustody
  <1>2. ContractTypeOK /\ FreshIds /\ [ContractNext]_contractVars
          => ContractTypeOK' /\ FreshIds' /\ [Custody!CustodyNext]_(Custody!custodyVars)
    BY StepTyped, StepFresh, StepKeepsCustody
  <1>3. QED
    BY <1>1, <1>2, PTL DEF ContractSpec, KeepsCustody, Custody!CustodySpec

-----------------------------------------------------------------------------
(* The events published so far, counted: publishing adds one to one count.  *)
LEMMA OccurrencesGrow ==
  ASSUME ContractTypeOK, NEW topic \in {"created", "released", "refund"}, NEW d \in Id,
         Publish(topic, d), NEW t, NEW x
  PROVE  /\ Occurrences(t, x) \in Nat
         /\ Occurrences(t, x)' = IF t = topic /\ x = d THEN Occurrences(t, x) + 1
                                 ELSE Occurrences(t, x)
  <1> DEFINE About == {k \in DOMAIN events : events[k] = [topic |-> t, id |-> x]}
             n == Len(events) + 1
             here == t = topic /\ x = d
  <1>1. events \in Seq(Event) /\ [topic |-> topic, id |-> d] \in Event
    BY DEF ContractTypeOK, Event
  <1>2. /\ events' = Append(events, [topic |-> topic, id |-> d])
        /\ DOMAIN events = 1..Len(events) /\ DOMAIN events' = 1..n
        /\ Len(events) \in Nat
    BY <1>1 DEF Publish
  <1>3. /\ events'[n] = [topic |-> topic, id |-> d]
        /\ \A k \in 1..Len(events) : events'[k] = events[k]
    BY <1>1, <1>2
  <1>4. IsFiniteSet(About)
    <2>1. IsFiniteSet(1..Len(events))
      BY <1>2, FS_Interval
    <2>2. QED
      BY <1>2, <2>1, FS_Subset
  <1>5. here <=> [topic |-> topic, id |-> d] = [topic |-> t, id |-> x]
    OBVIOUS
  <1>6. About' = IF here THEN About \cup {n} ELSE About
    <2>1. \A k : k \in About' <=> \/ k \in About
                                  \/ k = n /\ here
      BY <1>2, <1>3, <1>5
    <2>2. QED
      BY <2>1
  <1>7. n \notin About
    BY <1>2
  <1>8. Cardinality(About) \in Nat /\ Cardinality(About \cup {n}) = Cardinality(About) + 1
    BY <1>4, <1>7, FS_CardinalityType, FS_AddElement
  <1>9. QED
    BY <1>6, <1>8 DEF Occurrences

\* The part of EventsTellState about one escrow.
Told(d) ==
  /\ Occurrences("created", d) = IF escrow[d] = None THEN 0 ELSE 1
  /\ Occurrences("released", d) = IF escrow[d] # None /\ escrow[d].released THEN 1 ELSE 0
  /\ Occurrences("refund", d) = IF escrow[d] # None /\ escrow[d].refunded THEN 1 ELSE 0

\* A call that publishes about d leaves the account of the other escrows as it was.
LEMMA OthersTold ==
  ASSUME ContractTypeOK, NEW topic \in {"created", "released", "refund"}, NEW d \in Id,
         Publish(topic, d), NEW x \in Id, x # d, Told(x), escrow'[x] = escrow[x]
  PROVE  Told(x)'
  BY OccurrencesGrow DEF Told

\* What an outcome writes into the entry, and what it keeps.
LEMMA OutcomeRecorded ==
  ASSUME ContractTypeOK, NEW d \in Id, escrow[d] # None
  PROVE  /\ escrow' = [escrow EXCEPT ![d].released = TRUE] =>
              escrow'[d] # None /\ escrow'[d].released /\ escrow'[d].refunded = escrow[d].refunded
         /\ escrow' = [escrow EXCEPT ![d].refunded = TRUE] =>
              escrow'[d] # None /\ escrow'[d].refunded /\ escrow'[d].released = escrow[d].released
  <1>1. escrow[d] \in EscrowRecord
    BY SettledIsRecord
  <1>2. /\ [escrow[d] EXCEPT !.released = TRUE] \in EscrowRecord
        /\ [escrow[d] EXCEPT !.refunded = TRUE] \in EscrowRecord
    BY <1>1 DEF EscrowRecord
  <1>3. /\ [escrow[d] EXCEPT !.released = TRUE] # None
        /\ [escrow[d] EXCEPT !.refunded = TRUE] # None
    BY <1>2, AbsentAssumption
  <1>4. QED
    BY <1>1, <1>3 DEF ContractTypeOK, EscrowRecord

LEMMA InitTold == ContractInit => EventsTellState
  <1> SUFFICES ASSUME ContractInit, NEW d \in Id PROVE Told(d)
    BY DEF EventsTellState, Told
  <1>1. \A t : {k \in DOMAIN events : events[k] = [topic |-> t, id |-> d]} = {}
    BY DEF ContractInit
  <1>2. \A t : Occurrences(t, d) = 0
    BY <1>1, FS_EmptySet DEF Occurrences
  <1>3. QED
    BY <1>2 DEF Told, ContractInit

LEMMA StepTold ==
  ASSUME ContractTypeOK, FreshIds, EventsTellState, [ContractNext]_contractVars
  PROVE  EventsTellState'
  <1>1. SUFFICES \A d \in Id : Told(d)'
    BY DEF EventsTellState, Told
  <1>2. \A d \in Id : Told(d)
    BY DEF EventsTellState, Told
  <1>3. ASSUME UNCHANGED <<escrow, events>> PROVE \A d \in Id : Told(d)'
    BY <1>2, <1>3 DEF Told, Occurrences
  <1>4. CASE Initialize(Deployer) \/ LedgerCloses \/ UNCHANGED contractVars
    BY <1>3, <1>4 DEF Initialize, LedgerCloses, contractVars
  <1>5. ASSUME NEW i \in Party, NEW c \in Party, NEW arb \in Arbiter \cup {None},
               NEW n \in Amount, NEW r \in ReleaseTime, NEW e \in Expiry \cup {None},
               Create(i, c, arb, n, r, e)
        PROVE  \A d \in Id : Told(d)'
    <2>1. PICK id \in Id : id = NextId
      BY <1>5 DEF Create
    <2>2. /\ Publish("created", id)
          /\ escrow[id] = None
          /\ \A x \in Id : x # id => escrow'[x] = escrow[x]
      BY <1>5, <2>1, NextIdBounds DEF Create, FreshIds, ContractTypeOK
    <2> DEFINE entry == [initiator |-> i, counterparty |-> c, arbiter |-> arb,
                         amount |-> n, releaseTime |-> r,
                         expiry |-> IF e = None THEN DefaultExpiry(r) ELSE e,
                         released |-> FALSE, refunded |-> FALSE]
    <2>3. entry \in EscrowRecord
      BY DefaultExpiryIsTime, ContractAssumption DEF EscrowRecord
    <2>4. escrow'[id] = entry
      BY <1>5, <2>1 DEF Create, ContractTypeOK
    <2>5. escrow'[id] # None /\ escrow'[id].released = FALSE /\ escrow'[id].refunded = FALSE
      <3>1. entry.released = FALSE /\ entry.refunded = FALSE
        OBVIOUS
      <3> HIDE DEF entry
      <3>2. QED
        BY <2>3, <2>4, <3>1, AbsentAssumption
    <2>6. Told(id)'
      BY <1>2, <2>2, <2>5, OccurrencesGrow DEF Told
    <2>7. QED
      BY <1>2, <2>2, <2>6, OthersTold
  <1>6. ASSUME NEW d \in Id, NEW a \in Address, Release(d, a) PROVE \A x \in Id : Told(x)'
    <2>1. /\ Publish("released", d) /\ escrow[d] # None /\ ~escrow[d].released
          /\ escrow' = [escrow EXCEPT ![d].released = TRUE]
          /\ \A x \in Id : x # d => escrow'[x] = escrow[x]
      BY <1>6 DEF Release, Unsettled, ContractTypeOK
    <2>2. escrow'[d] # None /\ escrow'[d].released /\ escrow'[d].refunded = escrow[d].refunded
      BY <2>1, OutcomeRecorded
    <2>3. Told(d)'
      BY <1>2, <2>1, <2>2, OccurrencesGrow DEF Told
    <2>4. QED
      BY <1>2, <2>1, <2>3, OthersTold
  <1>7. ASSUME NEW d \in Id, NEW a \in Address, Refund(d, a) PROVE \A x \in Id : Told(x)'
    <2>1. /\ Publish("refund", d) /\ escrow[d] # None /\ ~escrow[d].refunded
          /\ escrow' = [escrow EXCEPT ![d].refunded = TRUE]
          /\ \A x \in Id : x # d => escrow'[x] = escrow[x]
      BY <1>7 DEF Refund, Unsettled, ContractTypeOK
    <2>2. escrow'[d] # None /\ escrow'[d].refunded /\ escrow'[d].released = escrow[d].released
      BY <2>1, OutcomeRecorded
    <2>3. Told(d)'
      BY <1>2, <2>1, <2>2, OccurrencesGrow DEF Told
    <2>4. QED
      BY <1>2, <2>1, <2>3, OthersTold
  <1>8. QED
    BY <1>4, <1>5, <1>6, <1>7 DEF ContractNext

(* The event log tells the storage: whoever reads the events alone knows of every
   escrow that exists, once, and of the one outcome it records.             *)
THEOREM EventsTellStateHolds == ASSUME InitFirst PROVE ContractSpec => []EventsTellState
  <1>1. ContractInit => ContractTypeOK /\ FreshIds /\ EventsTellState
    BY InitTyped, InitFresh, InitTold
  <1>2. ContractTypeOK /\ FreshIds /\ EventsTellState /\ [ContractNext]_contractVars
          => ContractTypeOK' /\ FreshIds' /\ EventsTellState'
    BY StepTyped, StepFresh, StepTold
  <1>3. QED
    BY <1>1, <1>2, PTL DEF ContractSpec

-----------------------------------------------------------------------------
(* Sums as the folds compute them: an element at a time, in the order of CHOOSE. *)
Pick(s) == CHOOSE x \in s : TRUE
Adds(f, g, s) == IF s = {} THEN 0 ELSE f[Pick(s)] + g[s \ {Pick(s)}]
SumsUp(g, f, D) == g = [s \in SUBSET D |-> Adds(f, g, s)]

LEMMA Picked == ASSUME NEW s, s # {} PROVE Pick(s) \in s
  BY DEF Pick

(* A property of the subsets of a finite set fails, if at all, at a smallest one. *)
LEMMA SmallestSet ==
  ASSUME NEW D, IsFiniteSet(D), NEW B \in SUBSET SUBSET D, B # {}
  PROVE  \E T \in B : \A U \in SUBSET T : U # T => U \notin B
  <1>1. IsWellFoundedOn(StrictSubsetOrdering(D), SUBSET D)
    BY FS_FiniteSubsetsOfFinite, FS_StrictSubsetOrderingWellFounded
  <1>2. PICK T \in B : \A U \in B : ~ (<<U, T>> \in StrictSubsetOrdering(D))
    BY <1>1, WFMin
  <1>3. ASSUME NEW U \in SUBSET T, U # T PROVE U \notin B
    BY <1>2, <1>3 DEF StrictSubsetOrdering
  <1>4. QED
    BY <1>3

(* A sum depends on the shares of the elements summed and on nothing else. *)
LEMMA SumAgrees ==
  ASSUME NEW D, IsFiniteSet(D), NEW f, NEW g, SumsUp(g, f, D),
         NEW E, NEW e, NEW h, SumsUp(h, e, E), D \subseteq E,
         \A x \in D : f[x] = e[x]
  PROVE  g[D] = h[D]
  <1>1. \A s \in SUBSET D : g[s] = Adds(f, g, s) /\ h[s] = Adds(e, h, s)
    BY DEF SumsUp
  <1> DEFINE B == {t \in SUBSET D : g[t] # h[t]}
  <1> SUFFICES ASSUME B # {} PROVE FALSE
    OBVIOUS
  <1>2. PICK t \in B : \A u \in SUBSET t : u # t => u \notin B
    <2>1. B \in SUBSET SUBSET D
      OBVIOUS
    <2> HIDE DEF B
    <2>2. QED
      BY <2>1, SmallestSet
  <1>3. CASE t = {}
    BY <1>1, <1>2, <1>3 DEF Adds
  <1>4. CASE t # {}
    <2>1. Pick(t) \in t
      BY <1>4, Picked
    <2>2. g[t \ {Pick(t)}] = h[t \ {Pick(t)}] /\ f[Pick(t)] = e[Pick(t)]
      BY <1>2, <2>1
    <2>3. QED
      BY <1>1, <1>2, <1>4, <2>2 DEF Adds
  <1>5. QED
    BY <1>3, <1>4
(* The fold of a finite set exists: the sum over a set is made of the sums over its parts. *)
LEMMA SumExists ==
  ASSUME NEW D, IsFiniteSet(D), NEW f
  PROVE  \E g : SumsUp(g, f, D)
  <1> DEFINE B == {T \in SUBSET D : ~ \E g : SumsUp(g, f, T)}
             Part(U) == CHOOSE g : SumsUp(g, f, U)
  <1> SUFFICES ASSUME B # {} PROVE FALSE
    OBVIOUS
  <1>1. PICK T \in B : \A U \in SUBSET T : U # T => U \notin B
    <2>1. B \in SUBSET SUBSET D
      OBVIOUS
    <2> HIDE DEF B
    <2>2. QED
      BY <2>1, SmallestSet
  <1>2. T \in SUBSET D /\ ~ \E g : SumsUp(g, f, T)
    BY <1>1
  <1>3. ASSUME NEW U \in SUBSET T, U # T PROVE SumsUp(Part(U), f, U)
    <2>1. U \in SUBSET D /\ U \notin B
      <3>1. U \notin B
        BY <1>1, <1>3
      <3>2. U \in SUBSET D
        BY <1>2
      <3>3. QED
        BY <3>1, <3>2
    <2>2. \E g : SumsUp(g, f, U)
      BY <2>1, Zenon
    <2>3. QED
      BY <2>2
  <1> HIDE DEF Part, B
  <1> DEFINE h == [s \in SUBSET T |-> IF s = T THEN Adds(f, Part(T \ {Pick(T)}), T) ELSE Part(s)[s]]
  <1>4. ASSUME NEW s \in SUBSET T, s # {}
        PROVE  s \ {Pick(s)} \in SUBSET T /\ s \ {Pick(s)} # T /\ s \ {Pick(s)} \subseteq s
    BY <1>4, Picked
  <1>5. ASSUME NEW s \in SUBSET T PROVE h[s] = Adds(f, h, s)
    <2>1. CASE s = {}
      <3>1. h[s] = 0
        BY <2>1, <1>3 DEF Adds, SumsUp
      <3>2. QED
        BY <2>1, <3>1 DEF Adds
    <2>2. CASE s # {}
      <3> DEFINE u == s \ {Pick(s)}
      <3>1. u \in SUBSET T /\ u # T /\ u \subseteq s
        BY <1>4, <2>2
      <3>2. h[u] = Part(u)[u]
        BY <3>1
      <3>3. CASE s = T
        BY <2>2, <3>2, <3>3 DEF Adds
      <3>4. CASE s # T
        <4>1. SumsUp(Part(s), f, s) /\ SumsUp(Part(u), f, u)
          BY <1>3, <3>1, <3>4
        <4>2. Part(u)[u] = Part(s)[u]
          <5>1. IsFiniteSet(u)
            BY <1>2, <3>1, FS_Subset
          <5> HIDE DEF u
          <5>2. QED
            BY <3>1, <4>1, <5>1, SumAgrees
        <4>3. Part(s)[s] = Adds(f, Part(s), s)
          BY <4>1 DEF SumsUp
        <4>4. h[s] = Part(s)[s]
          BY <3>4
        <4>5. QED
          BY <2>2, <3>2, <4>2, <4>3, <4>4 DEF Adds
      <3>5. QED
        BY <3>3, <3>4
    <2>3. QED
      BY <2>1, <2>2
  <1>6. SumsUp(h, f, T)
    BY <1>5 DEF SumsUp
  <1>7. QED
    BY <1>2, <1>6

(* A sum is a number, and taking any element out takes its share away. *)
LEMMA SumSplits ==
  ASSUME NEW D, IsFiniteSet(D), NEW f, \A x \in D : f[x] \in Nat, NEW g, SumsUp(g, f, D)
  PROVE  /\ g[{}] = 0
         /\ \A s \in SUBSET D : g[s] \in Nat
         /\ \A s \in SUBSET D : \A d \in s : g[s] = f[d] + g[s \ {d}]
  <1>1. \A s \in SUBSET D : g[s] = Adds(f, g, s)
    BY DEF SumsUp
  <1>2. g[{}] = 0
    BY <1>1 DEF Adds
  <1>3. \A s \in SUBSET D : s # {} => Pick(s) \in s /\ g[s] = f[Pick(s)] + g[s \ {Pick(s)}]
    BY <1>1, Picked DEF Adds
  <1>4. ASSUME NEW s \in SUBSET D PROVE g[s] \in Nat
    <2> DEFINE B == {t \in SUBSET D : g[t] \notin Nat}
    <2> SUFFICES ASSUME B # {} PROVE FALSE
      OBVIOUS
    <2>1. PICK t \in B : \A u \in SUBSET t : u # t => u \notin B
      <3>1. B \in SUBSET SUBSET D
        OBVIOUS
      <3> HIDE DEF B
      <3>2. QED
        BY <3>1, SmallestSet
    <2>2. t \in SUBSET D /\ g[t] \notin Nat
      BY <2>1
    <2>3. g[{}] \in Nat
      BY <1>2
    <2>4. t # {}
      BY <2>2, <2>3, Zenon
    <2>5. Pick(t) \in t /\ g[t] = f[Pick(t)] + g[t \ {Pick(t)}]
      BY <1>3, <2>2, <2>4
    <2>6. t \ {Pick(t)} \in SUBSET t /\ t \ {Pick(t)} # t /\ t \ {Pick(t)} \in SUBSET D
      BY <2>2, <2>5
    <2>7. g[t \ {Pick(t)}] \in Nat
      BY <2>1, <2>6
    <2>8. f[Pick(t)] \in Nat
      BY <2>2, <2>5
    <2>9. f[Pick(t)] + g[t \ {Pick(t)}] \in Nat
      BY <2>7, <2>8
    <2>10. QED
      BY <2>2, <2>5, <2>9, Zenon
  <1>5. ASSUME NEW s \in SUBSET D PROVE \A d \in s : g[s] = f[d] + g[s \ {d}]
    <2> DEFINE B == {t \in SUBSET D : \E d \in t : g[t] # f[d] + g[t \ {d}]}
    <2> SUFFICES ASSUME B # {} PROVE FALSE
      OBVIOUS
    <2>1. PICK t \in B : \A u \in SUBSET t : u # t => u \notin B
      <3>1. B \in SUBSET SUBSET D
        OBVIOUS
      <3> HIDE DEF B
      <3>2. QED
        BY <3>1, SmallestSet
    <2>2. PICK d \in t : g[t] # f[d] + g[t \ {d}]
      BY <2>1
    <2> DEFINE p == Pick(t)
    <2>3. p \in t /\ g[t] = f[p] + g[t \ {p}]
      BY <1>3, <2>1, <2>2
    <2>4. p # d
      BY <2>2, <2>3
    <2>5. g[t \ {p}] = f[d] + g[(t \ {p}) \ {d}]
      <3>1. t \ {p} \in SUBSET t /\ t \ {p} # t /\ d \in t \ {p} /\ t \ {p} \in SUBSET D
        BY <2>1, <2>3, <2>4
      <3>2. QED
        BY <2>1, <3>1
    <2>6. g[t \ {d}] = f[p] + g[(t \ {d}) \ {p}]
      <3>1. t \ {d} \in SUBSET t /\ t \ {d} # t /\ p \in t \ {d} /\ t \ {d} \in SUBSET D
        BY <2>1, <2>3, <2>4
      <3>2. QED
        BY <2>1, <3>1
    <2>7. (t \ {p}) \ {d} = (t \ {d}) \ {p}
      OBVIOUS
    <2>8. f[p] \in Nat /\ f[d] \in Nat /\ g[(t \ {d}) \ {p}] \in Nat
      BY <1>4, <2>1, <2>3
    <2>9. f[p] + (f[d] + g[(t \ {d}) \ {p}]) = f[d] + (f[p] + g[(t \ {d}) \ {p}])
      BY <2>8
    <2>10. QED
      BY <2>2, <2>3, <2>5, <2>6, <2>7, <2>9, Zenon
  <1>6. QED
    BY <1>2, <1>4, <1>5

(* What the sum of a function over a finite set is, whatever the order of the fold. *)
LEMMA SumIsFold ==
  ASSUME NEW D, IsFiniteSet(D), NEW f
  PROVE  \E g : SumsUp(g, f, D) /\ SumFunctionOnSet(f, D) = g[D]
  <1> DEFINE Rec(h) == [s \in SUBSET D |->
                  IF s = {} THEN 0
                  ELSE f[CHOOSE x \in s : TRUE] + h[s \ {CHOOSE x \in s : TRUE}]]
             sum == CHOOSE h : h = Rec(h)
  <1>1. SumFunctionOnSet(f, D) = sum[D]
    BY DEF SumFunctionOnSet, FoldFunctionOnSet, MapThenFoldSet
  <1>2. ASSUME NEW h PROVE SumsUp(h, f, D) <=> h = Rec(h)
    BY DEF SumsUp, Adds, Pick
  <1>3. PICK g : SumsUp(g, f, D)
    BY SumExists
  <1>4. g = Rec(g)
    BY <1>2, <1>3
  <1>5. sum = Rec(sum)
    <2> HIDE DEF Rec
    <2>1. QED
      BY <1>4
  <1>6. SumsUp(sum, f, D)
    BY <1>2, <1>5
  <1>7. QED
    BY <1>1, <1>6

LEMMA SumIsNat ==
  ASSUME NEW D, IsFiniteSet(D), NEW f, \A x \in D : f[x] \in Nat
  PROVE  SumFunctionOnSet(f, D) \in Nat
  <1>1. PICK g : SumsUp(g, f, D) /\ SumFunctionOnSet(f, D) = g[D]
    BY SumIsFold
  <1>2. g[D] \in Nat
    BY <1>1, SumSplits
  <1>3. QED
    BY <1>1, <1>2

LEMMA SumOfNone == ASSUME NEW f PROVE SumFunctionOnSet(f, {}) = 0
  <1>1. IsFiniteSet({})
    BY FS_EmptySet
  <1>2. PICK g : SumsUp(g, f, {}) /\ SumFunctionOnSet(f, {}) = g[{}]
    BY <1>1, SumIsFold
  <1>3. g[{}] = 0
    BY <1>2 DEF SumsUp, Adds
  <1>4. QED
    BY <1>2, <1>3

LEMMA SumSame ==
  ASSUME NEW D, IsFiniteSet(D), NEW f, NEW e, \A x \in D : f[x] = e[x]
  PROVE  SumFunctionOnSet(f, D) = SumFunctionOnSet(e, D)
  <1>1. PICK g : SumsUp(g, f, D) /\ SumFunctionOnSet(f, D) = g[D]
    BY SumIsFold
  <1>2. PICK h : SumsUp(h, e, D) /\ SumFunctionOnSet(e, D) = h[D]
    BY SumIsFold
  <1>3. g[D] = h[D]
    BY <1>1, <1>2, SumAgrees
  <1>4. QED
    BY <1>1, <1>2, <1>3

(* One more element adds its share to the sum of the others. *)
LEMMA SumGains ==
  ASSUME NEW D, IsFiniteSet(D), NEW f, \A x \in D : f[x] \in Nat,
         NEW e, NEW d, d \notin D, e[d] \in Nat, \A x \in D : e[x] = f[x]
  PROVE  SumFunctionOnSet(e, D \cup {d}) = SumFunctionOnSet(f, D) + e[d]
  <1> DEFINE E == D \cup {d}
  <1>1. IsFiniteSet(E) /\ D \subseteq E /\ d \in E /\ E \ {d} = D /\ \A x \in E : e[x] \in Nat
    BY FS_AddElement
  <1> HIDE DEF E
  <1>2. PICK h : SumsUp(h, e, E) /\ SumFunctionOnSet(e, E) = h[E]
    BY <1>1, SumIsFold
  <1>3. PICK g : SumsUp(g, f, D) /\ SumFunctionOnSet(f, D) = g[D]
    BY SumIsFold
  <1>4. g[D] = h[D]
    BY <1>1, <1>2, <1>3, SumAgrees
  <1>5. h[E] = e[d] + h[E \ {d}]
    BY <1>1, <1>2, SumSplits
  <1>6. g[D] \in Nat
    BY <1>3, SumSplits
  <1>7. h[E] = e[d] + g[D]
    BY <1>1, <1>4, <1>5, Zenon
  <1>8. QED
    BY <1>2, <1>3, <1>6, <1>7 DEF E

-----------------------------------------------------------------------------
(* What is owed is a function from a finite set to numbers. *)
LEMMA OwedTyped ==
  ContractTypeOK => /\ IsFiniteSet(DOMAIN Owed)
                    /\ \A d \in DOMAIN Owed : Owed[d] \in Nat
  <1> SUFFICES ASSUME ContractTypeOK
               PROVE  /\ IsFiniteSet(DOMAIN Owed)
                      /\ \A d \in DOMAIN Owed : Owed[d] \in Nat
    OBVIOUS
  <1>1. DOMAIN Owed \in SUBSET Id
    BY DEF Owed
  <1>2. IsFiniteSet(Id)
    BY FS_Interval, ContractAssumption DEF Id
  <1>3. IsFiniteSet(DOMAIN Owed)
    BY <1>1, <1>2, FS_Subset
  <1>4. ASSUME NEW d \in DOMAIN Owed PROVE Owed[d] \in Nat
    <2>1. escrow[d] \in EscrowRecord /\ Owed[d] = escrow[d].amount
      BY DEF Owed, IsOpen, ContractTypeOK
    <2>2. QED
      BY <2>1, ContractAssumption DEF EscrowRecord
  <1>5. QED
    BY <1>3, <1>4

LEMMA InitSolvent == ContractInit => Solvent
  <1> SUFFICES ASSUME ContractInit PROVE Solvent
    OBVIOUS
  <1>1. DOMAIN Owed = {} /\ held = 0
    BY DEF ContractInit, Owed, IsOpen
  <1>2. QED
    BY <1>1, SumOfNone DEF Solvent, SumFunction

(* Creating an escrow adds its amount to what is owed and to what is held, an
   outcome takes it from both, and nothing else changes either.             *)
LEMMA StepSolvent ==
  ContractTypeOK /\ FreshIds /\ Solvent /\ [ContractNext]_contractVars => Solvent'
  <1> SUFFICES ASSUME ContractTypeOK, FreshIds, Solvent, [ContractNext]_contractVars
               PROVE  Solvent'
    OBVIOUS
  <1>1. /\ IsFiniteSet(DOMAIN Owed) /\ \A d \in DOMAIN Owed : Owed[d] \in Nat
        /\ IsFiniteSet(DOMAIN Owed') /\ \A d \in DOMAIN Owed' : Owed'[d] \in Nat
    <2>1. ContractTypeOK'
      BY StepTyped
    <2>2. (ContractTypeOK => /\ IsFiniteSet(DOMAIN Owed)
                             /\ \A d \in DOMAIN Owed : Owed[d] \in Nat)'
      BY OwedTyped, PTL
    <2>3. QED
      BY <2>1, <2>2, OwedTyped
  <1>2. held = SumFunctionOnSet(Owed, DOMAIN Owed)
    BY DEF Solvent, SumFunction
  <1>3. Solvent' <=> held' = SumFunctionOnSet(Owed', DOMAIN Owed')
    BY DEF Solvent, SumFunction
  <1>4. ASSUME NEW i \in Party, NEW c \in Party, NEW arb \in Arbiter \cup {None},
               NEW n \in Amount, NEW r \in ReleaseTime, NEW e \in Expiry \cup {None},
               Create(i, c, arb, n, r, e)
        PROVE  Solvent'
    <2> DEFINE entry == [initiator |-> i, counterparty |-> c, arbiter |-> arb,
                         amount |-> n, releaseTime |-> r,
                         expiry |-> IF e = None THEN DefaultExpiry(r) ELSE e,
                         released |-> FALSE, refunded |-> FALSE]
    <2>1. NextId \in Id /\ escrow[NextId] = None
      BY <1>4 DEF Create, FreshIds, Id
    <2>2. entry # None
      <3>1. entry \in EscrowRecord
        BY DefaultExpiryIsTime, ContractAssumption DEF EscrowRecord
      <3>2. QED
        BY <3>1, AbsentAssumption
    <2>3. escrow' = [escrow EXCEPT ![NextId] = entry]
      BY <1>4 DEF Create
    <2>4. /\ \A d \in Id : d # NextId => escrow'[d] = escrow[d]
          /\ escrow'[NextId] = entry
      BY <2>1, <2>3 DEF ContractTypeOK
    <2>5. NextId \notin DOMAIN Owed /\ DOMAIN Owed' = DOMAIN Owed \cup {NextId}
      BY <2>1, <2>2, <2>4 DEF Owed, IsOpen
    <2>6. \A d \in DOMAIN Owed : Owed'[d] = Owed[d]
      BY <2>1, <2>4, <2>5 DEF Owed
    <2>7. Owed'[NextId] = n /\ n \in Nat
      BY <2>4, <2>5, ContractAssumption DEF Owed
    <2>8. SumFunctionOnSet(Owed', DOMAIN Owed') = SumFunctionOnSet(Owed, DOMAIN Owed) + n
      BY <1>1, <2>5, <2>6, <2>7, SumGains
    <2>9. QED
      BY <1>2, <1>3, <1>4, <2>8 DEF Create
  <1>5. ASSUME NEW d \in Id, NEW a \in Address, Release(d, a) \/ Refund(d, a)
        PROVE  Solvent'
    <2>1. /\ escrow[d] \in EscrowRecord /\ escrow[d] # None
          /\ ~ escrow[d].released /\ ~ escrow[d].refunded
      BY <1>5 DEF Release, Refund, Unsettled, ContractTypeOK
    <2>2. \/ escrow' = [escrow EXCEPT ![d] = [escrow[d] EXCEPT !.released = TRUE]]
          \/ escrow' = [escrow EXCEPT ![d] = [escrow[d] EXCEPT !.refunded = TRUE]]
      BY <1>5 DEF Release, Refund
    <2>3. /\ \A x \in Id : x # d => escrow'[x] = escrow[x]
          /\ escrow'[d].released \/ escrow'[d].refunded
      BY <2>1, <2>2 DEF ContractTypeOK, EscrowRecord
    <2>4. d \notin DOMAIN Owed' /\ DOMAIN Owed = DOMAIN Owed' \cup {d}
      BY <2>1, <2>3 DEF Owed, IsOpen
    <2>5. \A x \in DOMAIN Owed' : Owed'[x] = Owed[x]
      BY <2>3, <2>4 DEF Owed
    <2>6. Owed[d] = escrow[d].amount
      BY <2>4 DEF Owed
    <2>7. SumFunctionOnSet(Owed, DOMAIN Owed) = SumFunctionOnSet(Owed', DOMAIN Owed') + escrow[d].amount
      BY <1>1, <2>4, <2>5, <2>6, SumGains
    <2>8. SumFunctionOnSet(Owed', DOMAIN Owed') \in Nat /\ escrow[d].amount \in Nat
      BY <1>1, <2>4, <2>6, SumIsNat
    <2>9. held' = held - escrow[d].amount
      BY <1>5 DEF Release, Refund, Pay
    <2>10. QED
      BY <1>2, <1>3, <2>7, <2>8, <2>9
  <1>6. CASE escrow' = escrow /\ held' = held
    <2>1. Owed' = Owed
      BY <1>6 DEF Owed, IsOpen
    <2>2. QED
      BY <1>2, <1>3, <1>6, <2>1
  <1>7. QED
    BY <1>4, <1>5, <1>6 DEF ContractNext, Initialize, LedgerCloses, contractVars

(* Once it is initialized before anyone creates an escrow, the contract holds
   exactly what its open escrows are owed, for any parties, amounts and clock. *)
THEOREM SolventHolds == ASSUME InitFirst PROVE ContractSpec => []Solvent
  <1>1. ContractInit => ContractTypeOK /\ FreshIds /\ Solvent
    BY InitTyped, InitFresh, InitSolvent
  <1>2. ContractTypeOK /\ FreshIds /\ Solvent /\ [ContractNext]_contractVars
          => ContractTypeOK' /\ FreshIds' /\ Solvent'
    BY StepTyped, StepFresh, StepSolvent
  <1>3. QED
    BY <1>1, <1>2, PTL DEF ContractSpec

-----------------------------------------------------------------------------
(***************************************************************************)
(* The lifecycle: EscrowsService, the contract and the indexer together.   *)
(***************************************************************************)
LEMMA TxShape ==
  ASSUME NEW x \in Tx
  PROVE  /\ x.row \in Row /\ x.call \in {"create", "release", "refund"}
         /\ x.call = "create" => x = CreateTx(x.row)
         /\ x.caller \in {Payer, Payee}
  BY LifecycleAssumption DEF Tx, CreateTx

LEMMA CreateTxShape ==
  ASSUME NEW r \in Row
  PROVE  CreateTx(r) \in Tx /\ CreateTx(r).row = r /\ CreateTx(r).call = "create"
  BY DEF Tx, CreateTx

\* What a successful call leaves behind: one event, of an entry that is there, and
\* no outcome of another entry undone.
Called(topic, d) ==
  /\ d \in Id /\ topic \in {"created", "released", "refund"}
  /\ Publish(topic, d)
  /\ escrow'[d] # None
  /\ \A x \in Id : escrow[x] # None =>
       /\ escrow'[x] # None
       /\ escrow[x].released => escrow'[x].released
       /\ escrow[x].refunded => escrow'[x].refunded
  /\ topic = "created" => escrow[d] = None
  /\ topic = "released" => escrow'[d].released
  /\ topic = "refund" => escrow'[d].refunded

LEMMA CreateCalled ==
  ASSUME ContractTypeOK, FreshIds, NEW i \in Party, NEW c \in Party,
         NEW arb \in Arbiter \cup {None}, NEW n \in Amount, NEW r \in ReleaseTime,
         NEW e \in Expiry \cup {None}, Create(i, c, arb, n, r, e)
  PROVE  Called("created", NextId)
  <1> DEFINE entry == [initiator |-> i, counterparty |-> c, arbiter |-> arb,
                       amount |-> n, releaseTime |-> r,
                       expiry |-> IF e = None THEN DefaultExpiry(r) ELSE e,
                       released |-> FALSE, refunded |-> FALSE]
  <1>1. entry \in EscrowRecord
    BY DefaultExpiryIsTime, ContractAssumption DEF EscrowRecord
  <1>2. PICK id : id = NextId
    OBVIOUS
  <1>3. id \in Id /\ escrow' = [escrow EXCEPT ![id] = entry] /\ Publish("created", id)
    BY <1>2 DEF Create
  <1> HIDE DEF entry
  <1>4. entry # None
    BY <1>1, AbsentAssumption
  <1>5. escrow'[id] = entry /\ \A x \in Id : x # id => escrow'[x] = escrow[x]
    BY <1>3 DEF ContractTypeOK
  <1>6. escrow[id] = None
    BY <1>2, <1>3, NextIdBounds DEF FreshIds
  <1>7. Called("created", id)
    BY <1>3, <1>4, <1>5, <1>6 DEF Called
  <1>8. QED
    BY <1>2, <1>7

LEMMA ReleaseCalled ==
  ASSUME ContractTypeOK, NEW d \in Id, NEW a \in Address, Release(d, a)
  PROVE  Called("released", d)
  <1>1. /\ escrow' = [escrow EXCEPT ![d].released = TRUE] /\ Publish("released", d)
        /\ escrow[d] # None /\ ~escrow[d].released
    BY DEF Release, Unsettled
  <1>2. escrow'[d] # None /\ escrow'[d].released /\ escrow'[d].refunded = escrow[d].refunded
    BY <1>1, OutcomeRecorded
  <1>3. \A x \in Id : x # d => escrow'[x] = escrow[x]
    BY <1>1 DEF ContractTypeOK
  <1>4. QED
    BY <1>1, <1>2, <1>3 DEF Called

LEMMA RefundCalled ==
  ASSUME ContractTypeOK, NEW d \in Id, NEW a \in Address, Refund(d, a)
  PROVE  Called("refund", d)
  <1>1. /\ escrow' = [escrow EXCEPT ![d].refunded = TRUE] /\ Publish("refund", d)
        /\ escrow[d] # None /\ ~escrow[d].refunded
    BY DEF Refund, Unsettled
  <1>2. escrow'[d] # None /\ escrow'[d].refunded /\ escrow'[d].released = escrow[d].released
    BY <1>1, OutcomeRecorded
  <1>3. \A x \in Id : x # d => escrow'[x] = escrow[x]
    BY <1>1 DEF ContractTypeOK
  <1>4. QED
    BY <1>1, <1>2, <1>3 DEF Called

-----------------------------------------------------------------------------
(* The inductive invariant.                                                 *)

\* A row shows an escrow exactly once it has its contract id, which only the event
\* of its own envelope brings.
Rows ==
  \A r \in Row :
    /\ hash[r] \in {None, CreateTx(r)}
    /\ status[r] \in {"ABSENT", "AWAITING_SIGN"} => hash[r] = None
    /\ status[r] \in {"FUNDED", "RELEASED", "REFUNDED"} <=> contractId[r] # None
    /\ contractId[r] # None => hash[r] = CreateTx(r)
    /\ status[r] = "FAILED" => hash[r] = CreateTx(r) /\ fate[CreateTx(r)] = "reverted"

\* A request carries an envelope; past its claim it is the only one of its row, and
\* nobody has stored the hash before it.
Submitting(h) ==
  pc[h] \in {"calling", "waiting", "ok", "failed", "threw"} /\ job[h].call = "create"

Jobs ==
  \A h \in Handler :
    /\ pc[h] # "idle" => job[h] \in Tx
    /\ pc[h] = "read" => job[h].call = "create"
    /\ pc[h] = "failed" => fate[job[h]] = "reverted"
    /\ Submitting(h) =>
         /\ status[job[h].row] = "SUBMITTED"
         /\ hash[job[h].row] = None
         /\ \A g \in Handler : Submitting(g) /\ job[g].row = job[h].row => g = h

\* A row is there before its create envelope, its contract id before the others.
Prepared ==
  \A x \in Tx :
    /\ x.call = "create" /\ status[x.row] = "ABSENT" => fate[x] = "none"
    /\ x.call # "create" /\ fate[x] # "none" => contractId[x.row] # None

\* Every event is of an entry that is there and records its outcome, comes from an
\* envelope that was applied, and follows the creation of its escrow.
Log ==
  /\ Len(origin) = Len(events)
  /\ \A k \in DOMAIN events :
       /\ escrow[events[k].id] # None
       /\ events[k].topic = "released" => escrow[events[k].id].released
       /\ events[k].topic = "refund" => escrow[events[k].id].refunded
       /\ origin[k] \in Tx => fate[origin[k]] = "applied"
       /\ \A i \in DOMAIN events :
            events[i].id = events[k].id /\ events[i].topic = "created"
              /\ events[k].topic # "created" => i < k

\* A tick reads inside the log.
Paging ==
  /\ cursor <= Len(events)
  /\ \A k \in Tick : tpc[k] = "ingesting" =>
       1 <= tnext[k] /\ tnext[k] <= tlast[k] + 1 /\ tlast[k] <= Len(events)

\* The escrow a row shows is the one its own envelope made.
OwnEscrow == \A r \in Row : contractId[r] # None => MadeBy(r, contractId[r])

LifeInv == TypeOK /\ FreshIds /\ Rows /\ Jobs /\ Prepared /\ Log /\ Paging /\ OwnEscrow

LEMMA InitLife == Init => LifeInv
  <1> SUFFICES ASSUME Init PROVE LifeInv
    OBVIOUS
  <1>1. ContractTypeOK /\ FreshIds
    BY InitTyped, InitFresh DEF Init
  <1>2. TypeOK
    BY <1>1, CreateTxShape DEF Init, TypeOK, Status, Fate
  <1>3. Rows /\ Jobs /\ Prepared /\ Paging /\ OwnEscrow
    BY DEF Init, ContractInit, Rows, Jobs, Submitting, Prepared, Paging, OwnEscrow
  <1>4. Log
    BY DEF Init, ContractInit, Log
  <1>5. QED
    BY <1>1, <1>2, <1>3, <1>4 DEF LifeInv

(* An API envelope calls the contract as the contract's own Next allows.    *)
LEMMA InvokeCalls ==
  ASSUME TypeOK, FreshIds, Prepared, NEW x \in Tx, fate[x] # "none", Invoke(x)
  PROVE  ContractNext /\ \E topic \in {"created", "released", "refund"}, d \in Id : Called(topic, d)
  <1>1. ContractTypeOK
    BY DEF TypeOK
  <1>2. Payer \in Party /\ Payee \in Party /\ Price \in Amount /\ Due \in ReleaseTime
    BY LifecycleAssumption
  <1>3. CASE x.call = "create"
    <2>1. Create(Payer, Payee, None, Price, Due, None)
      BY <1>3 DEF Invoke
    <2>2. Called("created", NextId)
      BY <1>1, <1>2, <2>1, CreateCalled
    <2>3. QED
      BY <1>2, <2>1, <2>2 DEF ContractNext, Called
  <1>4. CASE x.call # "create"
    <2>1. x.row \in Row /\ x.call \in {"release", "refund"} /\ x.caller \in Address
      BY <1>4, TxShape, LifecycleAssumption, ContractAssumption
    <2>2. contractId[x.row] \in Id
      BY <1>4, <2>1 DEF TypeOK, Prepared
    <2>3. CASE x.call = "release"
      <3>1. Release(contractId[x.row], x.caller)
        BY <2>3 DEF Invoke
      <3>2. QED
        BY <1>1, <2>1, <2>2, <3>1, ReleaseCalled DEF ContractNext
    <2>4. CASE x.call = "refund"
      <3>1. Refund(contractId[x.row], x.caller)
        BY <2>4 DEF Invoke
      <3>2. QED
        BY <1>1, <2>1, <2>2, <3>1, RefundCalled DEF ContractNext
    <2>5. QED
      BY <2>1, <2>3, <2>4
  <1>5. QED
    BY <1>3, <1>4

LEMMA DirectCalls ==
  ASSUME TypeOK, FreshIds,
         \/ Create(Payer, Payee, None, Price, Due, None)
         \/ \E d \in Id, a \in {Payer, Payee} : Release(d, a) \/ Refund(d, a)
  PROVE  ContractNext /\ \E topic \in {"created", "released", "refund"}, d \in Id : Called(topic, d)
  <1>1. ContractTypeOK
    BY DEF TypeOK
  <1>2. /\ Payer \in Party /\ Payee \in Party /\ Price \in Amount /\ Due \in ReleaseTime
        /\ {Payer, Payee} \subseteq Address
    BY LifecycleAssumption, ContractAssumption
  <1>3. CASE Create(Payer, Payee, None, Price, Due, None)
    <2>1. Called("created", NextId)
      BY <1>1, <1>2, <1>3, CreateCalled
    <2>2. QED
      BY <1>2, <1>3, <2>1 DEF ContractNext, Called
  <1>4. ASSUME NEW d \in Id, NEW a \in {Payer, Payee}, Release(d, a) \/ Refund(d, a)
        PROVE  ContractNext /\ \E topic \in {"created", "released", "refund"}, y \in Id : Called(topic, y)
    BY <1>1, <1>2, <1>4, ReleaseCalled, RefundCalled DEF ContractNext
  <1>5. QED
    BY <1>3, <1>4

(* What the composed system does to the contract, the contract allows.         *)
LEMMA StepContract == TypeOK /\ FreshIds /\ Prepared /\ [Next]_vars => [ContractNext]_contractVars
  <1> SUFFICES ASSUME TypeOK, FreshIds, Prepared, [Next]_vars PROVE [ContractNext]_contractVars
    OBVIOUS
  <1>1. CASE UNCHANGED <<contractVars>>
    BY <1>1
  <1>2. ASSUME Environment PROVE [ContractNext]_contractVars
    BY <1>2 DEF Environment, ContractNext
  <1>3. ASSUME DirectCreate PROVE [ContractNext]_contractVars
    BY <1>3, DirectCalls DEF DirectCreate
  <1>4. ASSUME NEW d \in Id, NEW a \in {Payer, Payee}, DirectSettle(d, a) PROVE [ContractNext]_contractVars
    BY <1>4, DirectCalls DEF DirectSettle
  <1>5. ASSUME NEW x \in Tx, TxApplies(x) PROVE [ContractNext]_contractVars
    BY <1>5, InvokeCalls DEF TxApplies
  <1>6. ASSUME NEW h \in Handler, HandlerStep(h) PROVE UNCHANGED contractVars
    BY <1>6
    DEF HandlerStep, netVars, SubmitClaim, SubmitClaimLost, CallNetwork, PollEnds, PollFailed,
      PersistSubmitted, PersistFailed, RevertClaim, PersistAction, ActionRefused
  <1>7. ASSUME NEW k \in Tick, TickStep(k) \/ TickEventDropped(k) PROVE UNCHANGED contractVars
    BY <1>7 DEF TickStep, netVars, TickReadPage, TickEvent, TickSaveCursor, TickEventDropped
  <1> QED
    BY <1>1, <1>2, <1>3, <1>4, <1>5, <1>6, <1>7
    DEF Next, vars, netVars, TxReverts, PrepareAction, CreateRow, SubmitRead, ConfirmRead, Restart

\* TypeOK without the contract's part.
RowsTyped ==
  /\ status \in [Row -> Status]
  /\ contractId \in [Row -> Id \cup {None}]
  /\ hash \in [Row -> Tx \cup {None}]
  /\ releaseHash \in [Row -> Tx \cup {None, Foreign}]
  /\ refundHash \in [Row -> Tx \cup {None, Foreign}]
NetTyped ==
  /\ fate \in [Tx -> Fate]
  /\ origin \in Seq(Tx \cup {Foreign})
RequestsTyped ==
  /\ pc \in [Handler -> {"idle", "read", "calling", "waiting", "ok", "failed", "threw"}]
  /\ job \in [Handler -> Tx \cup {None}]
TicksTyped ==
  /\ cursor \in Nat
  /\ tpc \in [Tick -> {"idle", "ingesting"}]
  /\ tnext \in [Tick -> Nat]
  /\ tlast \in [Tick -> Nat]
  /\ overtaken \subseteq Row
FaultsTyped == deaths \in Nat /\ drops \in Nat

LEMMA TypeParts ==
  TypeOK <=> ContractTypeOK /\ RowsTyped /\ NetTyped /\ RequestsTyped /\ TicksTyped /\ FaultsTyped
  BY DEF TypeOK, RowsTyped, NetTyped, RequestsTyped, TicksTyped, FaultsTyped

LEMMA EventTyped ==
  ASSUME TypeOK, NEW k \in DOMAIN events
  PROVE  events[k] \in Event /\ events[k].id \in Id /\ k \in Nat /\ 1 <= k /\ k <= Len(events)
  <1>1. events \in Seq(Event)
    BY DEF TypeOK, ContractTypeOK
  <1>2. events[k] \in Event /\ k \in Nat /\ 1 <= k /\ k <= Len(events)
    BY <1>1
  <1>3. QED
    BY <1>2 DEF Event

LEMMA EventHere ==
  ASSUME TypeOK, Paging, NEW k \in Tick, HasEvent(k)
  PROVE  tnext[k] \in DOMAIN events
  BY DEF TypeOK, ContractTypeOK, Paging, HasEvent

LEMMA OriginTyped ==
  ASSUME TypeOK, Log, NEW k \in DOMAIN events
  PROVE  k \in DOMAIN origin /\ origin[k] \in Tx \cup {Foreign} /\ origin[k] # None
  <1>1. k \in DOMAIN origin
    BY DEF TypeOK, ContractTypeOK, Log
  <1>2. origin[k] \in Tx \cup {Foreign}
    BY <1>1 DEF TypeOK
  <1>3. QED
    BY <1>1, <1>2, LifecycleAssumption

LEMMA StepRowsTyped == TypeOK /\ Jobs /\ Log /\ Paging /\ [Next]_vars => RowsTyped'
  <1> SUFFICES ASSUME TypeOK, Jobs, Log, Paging, [Next]_vars PROVE RowsTyped'
    OBVIOUS
  <1>1. CASE UNCHANGED <<rowVars>>
    BY <1>1 DEF rowVars, RowsTyped, TypeOK
  <1>2. ASSUME NEW r \in Row, CreateRow(r) PROVE RowsTyped'
    BY <1>2 DEF CreateRow, RowsTyped, TypeOK, Status
  <1>3. ASSUME NEW h \in Handler, SubmitClaim(h) PROVE RowsTyped'
    BY <1>3 DEF SubmitClaim, RowsTyped, TypeOK, Status
  <1>4. ASSUME NEW h \in Handler, PersistSubmitted(h) PROVE RowsTyped'
    BY <1>4 DEF PersistSubmitted, SubmittedStatus, RowsTyped, TypeOK, Status, Jobs
  <1>5. ASSUME NEW h \in Handler, PersistFailed(h) PROVE RowsTyped'
    BY <1>5 DEF PersistFailed, RowsTyped, TypeOK, Status, Jobs
  <1>6. ASSUME NEW h \in Handler, RevertClaim(h) PROVE RowsTyped'
    BY <1>6 DEF RevertClaim, RowsTyped, TypeOK, Status
  <1>7. ASSUME NEW h \in Handler, PersistAction(h) PROVE RowsTyped'
    BY <1>7 DEF PersistAction, RowsTyped, TypeOK, Jobs
  <1>8. ASSUME NEW k \in Tick, TickEvent(k) PROVE RowsTyped'
    <2>1. PICK j \in DOMAIN events : j = tnext[k]
      BY <1>8, EventHere DEF TickEvent
    <2>2. events[j].id \in Id /\ origin[j] \in Tx \cup {Foreign}
      BY EventTyped, OriginTyped
    <2>3. CASE events[j].topic = "created"
      <3>1. OnEscrowCreated(j)
        BY <1>8, <2>1, <2>3 DEF TickEvent
      <3>2. QED
        BY <2>2, <3>1 DEF OnEscrowCreated, RowsTyped, TypeOK, Status
    <2>4. CASE events[j].topic # "created"
      <3>1. OnEscrowAction(j)
        BY <1>8, <2>1, <2>4 DEF TickEvent
      <3>2. /\ status' \in [Row -> Status]
            /\ contractId' = contractId /\ hash' = hash
        BY <3>1 DEF OnEscrowAction, TypeOK, Status
      <3>3. releaseHash' \in [Row -> Tx \cup {None, Foreign}]
        BY <2>2, <3>1 DEF OnEscrowAction, TypeOK
      <3>4. refundHash' \in [Row -> Tx \cup {None, Foreign}]
        BY <2>2, <3>1 DEF OnEscrowAction, TypeOK
      <3>5. QED
        BY <3>2, <3>3, <3>4 DEF RowsTyped, TypeOK
    <2>5. QED
      BY <2>3, <2>4
  <1> QED
    BY <1>1, <1>2, <1>3, <1>4, <1>5, <1>6, <1>7, <1>8
    DEF Next, HandlerStep, TickStep, vars, rowVars, netVars, handlerVars, tickVars,
      faultVars, contractVars, Environment, DirectCreate, DirectSettle, TxApplies, TxReverts,
      PrepareAction, SubmitRead, ConfirmRead, SubmitClaimLost, CallNetwork, PollEnds,
      PollFailed, ActionRefused, TickReadPage, TickSaveCursor, TickEventDropped, Restart,
      DirectCall, Finish, Goto, Initialize, LedgerCloses, NextEvent, TickOver

LEMMA StepNetTyped == TypeOK /\ [Next]_vars => NetTyped'
  <1> SUFFICES ASSUME TypeOK, [Next]_vars PROVE NetTyped'
    OBVIOUS
  <1>1. CASE UNCHANGED <<fate, origin>>
    BY <1>1 DEF NetTyped, TypeOK, Fate
  <1>2. ASSUME DirectCreate PROVE NetTyped'
    BY <1>2 DEF DirectCreate, DirectCall, NetTyped, TypeOK, Fate
  <1>3. ASSUME NEW d \in Id, NEW a \in {Payer, Payee}, DirectSettle(d, a) PROVE NetTyped'
    BY <1>3 DEF DirectSettle, DirectCall, NetTyped, TypeOK, Fate
  <1>4. ASSUME NEW x \in Tx, TxApplies(x) PROVE NetTyped'
    BY <1>4 DEF TxApplies, NetTyped, TypeOK, Fate
  <1>5. ASSUME NEW x \in Tx, TxReverts(x) PROVE NetTyped'
    BY <1>5 DEF TxReverts, NetTyped, TypeOK, Fate
  <1>6. ASSUME NEW x \in Tx, PrepareAction(x) PROVE NetTyped'
    BY <1>6 DEF PrepareAction, NetTyped, TypeOK, Fate
  <1>7. ASSUME NEW r \in Row, CreateRow(r) PROVE NetTyped'
    BY <1>7 DEF CreateRow, NetTyped, TypeOK, Fate
  <1>8. ASSUME NEW h \in Handler, CallNetwork(h) PROVE NetTyped'
    BY <1>8 DEF CallNetwork, Goto, NetTyped, TypeOK, Fate
  <1> QED
    BY <1>1, <1>2, <1>3, <1>4, <1>5, <1>6, <1>7, <1>8
    DEF Next, HandlerStep, TickStep, vars, rowVars, netVars, handlerVars, tickVars,
      faultVars, contractVars, Environment, SubmitRead, ConfirmRead, SubmitClaim,
      SubmitClaimLost, PollEnds, PollFailed, PersistSubmitted, PersistFailed, RevertClaim,
      PersistAction, ActionRefused, TickReadPage, TickEvent, TickSaveCursor,
      TickEventDropped, Restart, Finish, Goto, Initialize, LedgerCloses, NextEvent,
      OnEscrowAction, OnEscrowCreated, TickOver

LEMMA StepRequestsTyped == TypeOK /\ [Next]_vars => RequestsTyped'
  <1> SUFFICES ASSUME TypeOK, [Next]_vars PROVE RequestsTyped'
    OBVIOUS
  <1>1. CASE UNCHANGED <<handlerVars>>
    BY <1>1 DEF handlerVars, RequestsTyped, TypeOK
  <1>2. ASSUME NEW h \in Handler, NEW r \in Row, SubmitRead(h, r) PROVE RequestsTyped'
    BY <1>2, CreateTxShape DEF SubmitRead, handlerVars, RequestsTyped, TypeOK
  <1>3. ASSUME NEW h \in Handler, NEW x \in Tx, ConfirmRead(h, x) PROVE RequestsTyped'
    BY <1>3, CreateTxShape DEF ConfirmRead, handlerVars, RequestsTyped, TypeOK
  <1>4. ASSUME NEW h \in Handler, SubmitClaim(h) PROVE RequestsTyped'
    BY <1>4, CreateTxShape DEF SubmitClaim, Goto, handlerVars, RequestsTyped, TypeOK
  <1>5. ASSUME NEW h \in Handler, SubmitClaimLost(h) PROVE RequestsTyped'
    BY <1>5, CreateTxShape DEF SubmitClaimLost, Finish, handlerVars, RequestsTyped, TypeOK
  <1>6. ASSUME NEW h \in Handler, CallNetwork(h) PROVE RequestsTyped'
    BY <1>6, CreateTxShape DEF CallNetwork, Goto, handlerVars, RequestsTyped, TypeOK
  <1>7. ASSUME NEW h \in Handler, PollEnds(h) PROVE RequestsTyped'
    BY <1>7, CreateTxShape DEF PollEnds, Goto, handlerVars, RequestsTyped, TypeOK
  <1>8. ASSUME NEW h \in Handler, PollFailed(h) PROVE RequestsTyped'
    BY <1>8, CreateTxShape DEF PollFailed, Goto, handlerVars, RequestsTyped, TypeOK
  <1>9. ASSUME NEW h \in Handler, PersistSubmitted(h) PROVE RequestsTyped'
    BY <1>9, CreateTxShape DEF PersistSubmitted, Finish, handlerVars, RequestsTyped, TypeOK
  <1>10. ASSUME NEW h \in Handler, PersistFailed(h) PROVE RequestsTyped'
    BY <1>10, CreateTxShape DEF PersistFailed, Finish, handlerVars, RequestsTyped, TypeOK
  <1>11. ASSUME NEW h \in Handler, RevertClaim(h) PROVE RequestsTyped'
    BY <1>11, CreateTxShape DEF RevertClaim, Finish, handlerVars, RequestsTyped, TypeOK
  <1>12. ASSUME NEW h \in Handler, PersistAction(h) PROVE RequestsTyped'
    BY <1>12, CreateTxShape DEF PersistAction, Finish, handlerVars, RequestsTyped, TypeOK
  <1>13. ASSUME NEW h \in Handler, ActionRefused(h) PROVE RequestsTyped'
    BY <1>13, CreateTxShape DEF ActionRefused, Finish, handlerVars, RequestsTyped, TypeOK
  <1>14. ASSUME Restart PROVE RequestsTyped'
    BY <1>14, CreateTxShape DEF Restart, handlerVars, RequestsTyped, TypeOK
  <1> QED
    BY <1>1, <1>2, <1>3, <1>4, <1>5, <1>6, <1>7, <1>8, <1>9, <1>10, <1>11, <1>12, <1>13, <1>14
    DEF Next, HandlerStep, TickStep, vars, rowVars, netVars, handlerVars, tickVars,
      faultVars, contractVars, Environment, DirectCreate, DirectSettle, TxApplies, TxReverts,
      PrepareAction, CreateRow, TickReadPage, TickEvent, TickSaveCursor, TickEventDropped,
      DirectCall, Initialize, LedgerCloses, NextEvent, OnEscrowAction, OnEscrowCreated,
      TickOver

LEMMA StepTicksTyped == TypeOK /\ [Next]_vars => TicksTyped'
  <1> SUFFICES ASSUME TypeOK, [Next]_vars PROVE TicksTyped'
    OBVIOUS
  <1>1. CASE UNCHANGED <<tickVars>>
    BY <1>1 DEF tickVars, TicksTyped, TypeOK
  <1>2. ASSUME NEW k \in Tick, TickReadPage(k) PROVE TicksTyped'
    BY <1>2 DEF TickReadPage, TicksTyped, TypeOK, ContractTypeOK
  <1>3. ASSUME NEW k \in Tick, TickEvent(k) PROVE TicksTyped'
    BY <1>3 DEF TickEvent, NextEvent, TicksTyped, TypeOK
  <1>4. ASSUME NEW k \in Tick, TickSaveCursor(k) PROVE TicksTyped'
    BY <1>4 DEF TickSaveCursor, TickOver, PageEnd, TicksTyped, TypeOK
  <1>5. ASSUME NEW k \in Tick, TickEventDropped(k) PROVE TicksTyped'
    BY <1>5 DEF TickEventDropped, NextEvent, tickVars, TicksTyped, TypeOK
  <1>6. ASSUME Restart PROVE TicksTyped'
    BY <1>6 DEF Restart, tickVars, TicksTyped, TypeOK
  <1> QED
    BY <1>1, <1>2, <1>3, <1>4, <1>5, <1>6
    DEF Next, HandlerStep, TickStep, vars, rowVars, netVars, handlerVars, tickVars,
      faultVars, contractVars, Environment, DirectCreate, DirectSettle, TxApplies, TxReverts,
      PrepareAction, CreateRow, SubmitRead, ConfirmRead, SubmitClaim, SubmitClaimLost,
      CallNetwork, PollEnds, PollFailed, PersistSubmitted, PersistFailed, RevertClaim,
      PersistAction, ActionRefused, DirectCall, Finish, Goto, Initialize, LedgerCloses

LEMMA StepFaultsTyped == TypeOK /\ [Next]_vars => FaultsTyped'
  <1> SUFFICES ASSUME TypeOK, [Next]_vars PROVE FaultsTyped'
    OBVIOUS
  <1>1. CASE UNCHANGED <<faultVars>>
    BY <1>1 DEF faultVars, FaultsTyped, TypeOK
  <1>2. ASSUME NEW k \in Tick, TickEventDropped(k) PROVE FaultsTyped'
    BY <1>2 DEF TickEventDropped, FaultsTyped, TypeOK
  <1>3. ASSUME Restart PROVE FaultsTyped'
    BY <1>3 DEF Restart, FaultsTyped, TypeOK
  <1> QED
    BY <1>1, <1>2, <1>3
    DEF Next, HandlerStep, TickStep, vars, rowVars, netVars, handlerVars, tickVars,
      faultVars, contractVars, Environment, DirectCreate, DirectSettle, TxApplies, TxReverts,
      PrepareAction, CreateRow, SubmitRead, ConfirmRead, SubmitClaim, SubmitClaimLost,
      CallNetwork, PollEnds, PollFailed, PersistSubmitted, PersistFailed, RevertClaim,
      PersistAction, ActionRefused, TickReadPage, TickEvent, TickSaveCursor, DirectCall,
      Finish, Goto, Initialize, LedgerCloses, NextEvent, OnEscrowAction, OnEscrowCreated,
      TickOver

LEMMA StepLifeTyped == LifeInv /\ [Next]_vars => TypeOK'
  <1> SUFFICES ASSUME LifeInv, [Next]_vars PROVE TypeOK'
    OBVIOUS
  <1>1. TypeOK /\ FreshIds /\ Jobs /\ Prepared /\ Log /\ Paging
    BY DEF LifeInv
  <1>2. ContractTypeOK'
    BY <1>1, StepContract, StepTyped DEF TypeOK
  <1>3. RowsTyped' /\ NetTyped' /\ RequestsTyped' /\ TicksTyped' /\ FaultsTyped'
    BY <1>1, StepRowsTyped, StepNetTyped, StepRequestsTyped, StepTicksTyped, StepFaultsTyped
  <1>4. QED
    BY <1>2, <1>3 DEF TypeOK, RowsTyped, NetTyped, RequestsTyped, TicksTyped, FaultsTyped

LEMMA StepPrepared == TypeOK /\ Rows /\ Jobs /\ Prepared /\ Log /\ Paging /\ [Next]_vars => Prepared'
  <1> SUFFICES ASSUME TypeOK, Rows, Jobs, Prepared, Log, Paging, [Next]_vars PROVE Prepared'
    OBVIOUS
  <1>1. CASE UNCHANGED <<fate, status, contractId>>
    BY <1>1 DEF Prepared
  <1>2. ASSUME NEW x \in Tx, TxApplies(x) PROVE Prepared'
    BY <1>2 DEF TxApplies, rowVars, Prepared, TypeOK
  <1>3. ASSUME NEW x \in Tx, TxReverts(x) PROVE Prepared'
    BY <1>3 DEF TxReverts, rowVars, Prepared, TypeOK
  <1>4. ASSUME NEW x \in Tx, PrepareAction(x) PROVE Prepared'
    BY <1>4 DEF PrepareAction, rowVars, Prepared, TypeOK
  <1>5. ASSUME NEW r \in Row, CreateRow(r) PROVE Prepared'
    BY <1>5, TxShape, CreateTxShape DEF CreateRow, Prepared, TypeOK
  <1>6. ASSUME NEW h \in Handler, SubmitClaim(h) PROVE Prepared'
    BY <1>6, TxShape DEF SubmitClaim, netVars, Prepared, TypeOK
  <1>7. ASSUME NEW h \in Handler, CallNetwork(h) PROVE Prepared'
    BY <1>7 DEF CallNetwork, rowVars, Prepared, TypeOK
  <1>8. ASSUME NEW h \in Handler, PersistSubmitted(h) PROVE Prepared'
    BY <1>8, TxShape DEF PersistSubmitted, netVars, SubmittedStatus, Prepared, TypeOK, Jobs,
      Submitting
  <1>9. ASSUME NEW h \in Handler, PersistFailed(h) PROVE Prepared'
    BY <1>9, TxShape DEF PersistFailed, netVars, Prepared, TypeOK, Jobs, Submitting
  <1>10. ASSUME NEW h \in Handler, RevertClaim(h) PROVE Prepared'
    BY <1>10, TxShape DEF RevertClaim, netVars, Prepared, TypeOK, Jobs, Submitting
  <1>11. ASSUME NEW k \in Tick, TickEvent(k) PROVE Prepared'
    <2>1. PICK j \in DOMAIN events : j = tnext[k]
      BY <1>11, EventHere DEF TickEvent
    <2>2. events[j].id \in Id /\ fate' = fate
      BY <1>11, EventTyped DEF TickEvent, netVars
    <2>3. CASE events[j].topic = "created"
      <3>1. OnEscrowCreated(j)
        BY <1>11, <2>1, <2>3 DEF TickEvent
      <3>2. \A r \in Row : /\ status'[r] = "ABSENT" => status[r] = "ABSENT"
                           /\ contractId[r] # None => contractId'[r] # None
        BY <2>2, <3>1, LifecycleAssumption, ContractAssumption DEF OnEscrowCreated, TypeOK, Id
      <3>3. QED
        BY <2>2, <3>2, TxShape DEF Prepared
    <2>4. CASE events[j].topic # "created"
      <3>1. OnEscrowAction(j)
        BY <1>11, <2>1, <2>4 DEF TickEvent
      <3>2. \A r \in Row : status'[r] = "ABSENT" => status[r] = "ABSENT"
        BY <3>1 DEF OnEscrowAction
      <3>3. contractId' = contractId
        BY <3>1 DEF OnEscrowAction
      <3>4. QED
        BY <2>2, <3>2, <3>3, TxShape DEF Prepared
    <2>5. QED
      BY <2>3, <2>4
  <1> QED
    BY <1>1, <1>2, <1>3, <1>4, <1>5, <1>6, <1>7, <1>8, <1>9, <1>10, <1>11
    DEF Next, HandlerStep, TickStep, vars, rowVars, netVars, handlerVars, tickVars,
      faultVars, contractVars, Environment, DirectCreate, DirectSettle, SubmitRead,
      ConfirmRead, SubmitClaimLost, PollEnds, PollFailed, PersistAction, ActionRefused,
      TickReadPage, TickSaveCursor, TickEventDropped, Restart, DirectCall, Finish, Goto,
      Initialize, LedgerCloses, NextEvent, TickOver

LEMMA IdNotNone == \A d \in Id : d # None
  BY ContractAssumption DEF Id

LEMMA StepJobs == TypeOK /\ Rows /\ Jobs /\ Prepared /\ Log /\ Paging /\ [Next]_vars => Jobs'
  <1> SUFFICES ASSUME TypeOK, Rows, Jobs, Prepared, Log, Paging, [Next]_vars PROVE Jobs'
    OBVIOUS
  <1>1. CASE UNCHANGED <<fate, status, hash, handlerVars>>
    BY <1>1 DEF handlerVars, Jobs, Submitting
  <1>2. ASSUME NEW x \in Tx, TxApplies(x) PROVE Jobs'
    BY <1>2 DEF TxApplies, rowVars, netVars, handlerVars, Jobs, Submitting, TypeOK
  <1>3. ASSUME NEW x \in Tx, TxReverts(x) PROVE Jobs'
    BY <1>3 DEF TxReverts, rowVars, netVars, handlerVars, Jobs, Submitting, TypeOK
  <1>4. ASSUME NEW x \in Tx, PrepareAction(x) PROVE Jobs'
    BY <1>4 DEF PrepareAction, rowVars, netVars, handlerVars, Jobs, Submitting, TypeOK
  <1>5. ASSUME NEW r \in Row, CreateRow(r) PROVE Jobs'
    BY <1>5, TxShape, CreateTxShape DEF CreateRow, rowVars, netVars, handlerVars, Jobs,
      Submitting, TypeOK
  <1>6. ASSUME NEW h \in Handler, NEW r \in Row, SubmitRead(h, r) PROVE Jobs'
    BY <1>6, CreateTxShape DEF SubmitRead, rowVars, netVars, Jobs, Submitting, TypeOK
  <1>7. ASSUME NEW h \in Handler, NEW x \in Tx, ConfirmRead(h, x) PROVE Jobs'
    BY <1>7 DEF ConfirmRead, rowVars, netVars, Jobs, Submitting, TypeOK
  <1>8. ASSUME NEW h \in Handler, SubmitClaim(h) PROVE Jobs'
    BY <1>8, TxShape DEF SubmitClaim, Goto, rowVars, netVars, Claimable, Rows, Jobs,
      Submitting, TypeOK
  <1>9. ASSUME NEW h \in Handler, SubmitClaimLost(h) PROVE Jobs'
    BY <1>9 DEF SubmitClaimLost, Finish, rowVars, netVars, Jobs, Submitting, TypeOK
  <1>10. ASSUME NEW h \in Handler, CallNetwork(h) PROVE Jobs'
    BY <1>10 DEF CallNetwork, Goto, rowVars, netVars, Jobs, Submitting, TypeOK
  <1>11. ASSUME NEW h \in Handler, PollEnds(h) PROVE Jobs'
    BY <1>11 DEF PollEnds, Goto, rowVars, netVars, Jobs, Submitting, TypeOK
  <1>12. ASSUME NEW h \in Handler, PollFailed(h) PROVE Jobs'
    BY <1>12 DEF PollFailed, Goto, rowVars, netVars, Jobs, Submitting, TypeOK
  <1>13. ASSUME NEW h \in Handler, PersistSubmitted(h) PROVE Jobs'
    BY <1>13, TxShape DEF PersistSubmitted, Finish, rowVars, netVars, SubmittedStatus, Jobs,
      Submitting, TypeOK
  <1>14. ASSUME NEW h \in Handler, PersistFailed(h) PROVE Jobs'
    BY <1>14, TxShape DEF PersistFailed, Finish, rowVars, netVars, Jobs, Submitting, TypeOK
  <1>15. ASSUME NEW h \in Handler, RevertClaim(h) PROVE Jobs'
    BY <1>15, TxShape DEF RevertClaim, Finish, rowVars, netVars, Jobs, Submitting, TypeOK
  <1>16. ASSUME NEW h \in Handler, PersistAction(h) PROVE Jobs'
    BY <1>16 DEF PersistAction, Finish, rowVars, netVars, Jobs, Submitting, TypeOK
  <1>17. ASSUME NEW h \in Handler, ActionRefused(h) PROVE Jobs'
    BY <1>17 DEF ActionRefused, Finish, rowVars, netVars, Jobs, Submitting, TypeOK
  <1>18. ASSUME NEW k \in Tick, TickEvent(k) PROVE Jobs'
    <2>1. PICK j \in DOMAIN events : j = tnext[k]
      BY <1>18, EventHere DEF TickEvent
    <2>2. fate' = fate /\ pc' = pc /\ job' = job
      BY <1>18 DEF TickEvent, netVars, handlerVars
    <2>3. hash' = hash
      BY <1>18 DEF TickEvent, OnEscrowCreated, OnEscrowAction
    <2>4. \A r \in Row : status[r] = "SUBMITTED" /\ hash[r] = None => status'[r] = "SUBMITTED"
      BY <1>18, <2>1, OriginTyped DEF TickEvent, OnEscrowCreated, OnEscrowAction, FundsRow,
        Settles
    <2>5. QED
      BY <2>2, <2>3, <2>4, TxShape DEF Jobs, Submitting
  <1>19. ASSUME Restart PROVE Jobs'
    BY <1>19 DEF Restart, rowVars, netVars, Jobs, Submitting, TypeOK
  <1> QED
    BY <1>1, <1>2, <1>3, <1>4, <1>5, <1>6, <1>7, <1>8, <1>9, <1>10, <1>11, <1>12, <1>13,
      <1>14, <1>15, <1>16, <1>17, <1>18, <1>19
    DEF Next, HandlerStep, TickStep, vars, rowVars, netVars, handlerVars, tickVars,
      faultVars, contractVars, Environment, DirectCreate, DirectSettle, TickReadPage,
      TickSaveCursor, TickEventDropped, DirectCall, Initialize, LedgerCloses, NextEvent,
      TickOver

LEMMA StepRows == TypeOK /\ Rows /\ Jobs /\ Prepared /\ Log /\ Paging /\ [Next]_vars => Rows'
  <1> SUFFICES ASSUME TypeOK, Rows, Jobs, Prepared, Log, Paging, [Next]_vars PROVE Rows'
    OBVIOUS
  <1>1. CASE UNCHANGED <<fate, status, hash, contractId>>
    BY <1>1 DEF Rows
  <1>2. ASSUME NEW x \in Tx, TxApplies(x) PROVE Rows'
    BY <1>2, CreateTxShape DEF TxApplies, rowVars, netVars, Rows, TypeOK
  <1>3. ASSUME NEW x \in Tx, TxReverts(x) PROVE Rows'
    BY <1>3, CreateTxShape DEF TxReverts, rowVars, netVars, Rows, TypeOK
  <1>4. ASSUME NEW x \in Tx, PrepareAction(x) PROVE Rows'
    BY <1>4, CreateTxShape DEF PrepareAction, rowVars, netVars, Rows, TypeOK
  <1>5. ASSUME NEW r \in Row, CreateRow(r) PROVE Rows'
    <2>1. /\ status[r] = "ABSENT" /\ status' = [status EXCEPT ![r] = "AWAITING_SIGN"]
          /\ fate' = [fate EXCEPT ![CreateTx(r)] = "prepared"]
          /\ contractId' = contractId /\ hash' = hash
      BY <1>5 DEF CreateRow
    <2>2. \A q \in Row : q # r => status'[q] = status[q] /\ fate'[CreateTx(q)] = fate[CreateTx(q)]
      <3>1. \A q \in Row : q # r => CreateTx(q) # CreateTx(r) /\ CreateTx(q) \in Tx
        BY CreateTxShape
      <3>2. QED
        BY <2>1, <3>1 DEF TypeOK
    <2>3. status'[r] = "AWAITING_SIGN"
      BY <2>1 DEF TypeOK
    <2>4. QED
      BY <2>1, <2>2, <2>3 DEF Rows
  <1>6. ASSUME NEW h \in Handler, SubmitClaim(h) PROVE Rows'
    BY <1>6, TxShape DEF SubmitClaim, Goto, rowVars, netVars, Claimable, Jobs, Rows, TypeOK
  <1>7. ASSUME NEW h \in Handler, CallNetwork(h) PROVE Rows'
    BY <1>7, CreateTxShape DEF CallNetwork, Goto, rowVars, netVars, Jobs, Rows, TypeOK
  <1>8. ASSUME NEW h \in Handler, PersistSubmitted(h) PROVE Rows'
    BY <1>8, TxShape, CreateTxShape DEF PersistSubmitted, Finish, rowVars, netVars,
      SubmittedStatus, Jobs, Submitting, Rows, TypeOK
  <1>9. ASSUME NEW h \in Handler, PersistFailed(h) PROVE Rows'
    BY <1>9, TxShape, CreateTxShape DEF PersistFailed, Finish, rowVars, netVars, Jobs,
      Submitting, Rows, TypeOK
  <1>10. ASSUME NEW h \in Handler, RevertClaim(h) PROVE Rows'
    BY <1>10, TxShape DEF RevertClaim, Finish, rowVars, netVars, Jobs, Submitting, Rows, TypeOK
  <1>11. ASSUME NEW h \in Handler, PersistAction(h) PROVE Rows'
    BY <1>11 DEF PersistAction, Finish, rowVars, netVars, Rows, TypeOK
  <1>12. ASSUME NEW k \in Tick, TickEvent(k) PROVE Rows'
    <2>1. PICK j \in DOMAIN events : j = tnext[k]
      BY <1>12, EventHere DEF TickEvent
    <2>2. events[j].id \in Id /\ events[j].id # None /\ origin[j] # None
      BY EventTyped, OriginTyped, IdNotNone
    <2>3. fate' = fate /\ hash' = hash
      BY <1>12 DEF TickEvent, netVars, OnEscrowCreated, OnEscrowAction
    <2>4. CASE events[j].topic = "created"
      <3>1. OnEscrowCreated(j)
        BY <1>12, <2>1, <2>4 DEF TickEvent
      <3>2. QED
        BY <2>2, <2>3, <3>1 DEF OnEscrowCreated, FundsRow, Rows
    <2>5. CASE events[j].topic # "created"
      <3>1. OnEscrowAction(j)
        BY <1>12, <2>1, <2>5 DEF TickEvent
      <3>2. QED
        BY <2>2, <2>3, <3>1 DEF OnEscrowAction, Settles, Rows
    <2>6. QED
      BY <2>4, <2>5
  <1> QED
    BY <1>1, <1>2, <1>3, <1>4, <1>5, <1>6, <1>7, <1>8, <1>9, <1>10, <1>11, <1>12
    DEF Next, HandlerStep, TickStep, vars, rowVars, netVars, handlerVars, tickVars,
      faultVars, contractVars, Environment, DirectCreate, DirectSettle, SubmitRead,
      ConfirmRead, SubmitClaimLost, PollEnds, PollFailed, ActionRefused, TickReadPage,
      TickSaveCursor, TickEventDropped, Restart, DirectCall, Finish, Goto, Initialize,
      LedgerCloses, NextEvent, TickOver

(* The log after one more event.                                            *)
LEMMA Appended ==
  ASSUME TypeOK, Log, NEW topic \in {"created", "released", "refund"}, NEW d \in Id,
         Publish(topic, d), NEW y \in Tx \cup {Foreign}, origin' = Append(origin, y)
  PROVE  /\ Len(events') = Len(events) + 1 /\ Len(origin') = Len(events')
         /\ DOMAIN events = 1..Len(events) /\ DOMAIN events' = 1..(Len(events) + 1)
         /\ Len(events) \in Nat
         /\ events'[Len(events) + 1] = [topic |-> topic, id |-> d]
         /\ origin'[Len(events) + 1] = y
         /\ \A k \in DOMAIN events : events'[k] = events[k] /\ origin'[k] = origin[k]
  <1>1. events \in Seq(Event) /\ [topic |-> topic, id |-> d] \in Event
    BY DEF TypeOK, ContractTypeOK, Event
  <1>2. origin \in Seq(Tx \cup {Foreign}) /\ Len(origin) = Len(events)
    BY DEF TypeOK, Log
  <1>3. events' = Append(events, [topic |-> topic, id |-> d])
    BY DEF Publish
  <1>4. QED
    BY <1>1, <1>2, <1>3

LEMMA LogGrows ==
  ASSUME TypeOK, Log, NEW topic \in {"created", "released", "refund"}, NEW d \in Id,
         Called(topic, d), NEW y \in Tx \cup {Foreign}, origin' = Append(origin, y),
         \A x \in Tx : fate[x] = "applied" \/ x = y => fate'[x] = "applied"
  PROVE  Log'
  <1> DEFINE n == Len(events) + 1
  <1>1. Publish(topic, d)
    BY DEF Called
  <1>2. /\ Len(origin') = Len(events') /\ DOMAIN events = 1..Len(events)
        /\ DOMAIN events' = 1..n /\ Len(events) \in Nat
        /\ events'[n] = [topic |-> topic, id |-> d] /\ origin'[n] = y
        /\ \A k \in DOMAIN events : events'[k] = events[k] /\ origin'[k] = origin[k]
    BY <1>1, Appended
  <1>3. \A k \in DOMAIN events' : k \in DOMAIN events \/ k = n
    BY <1>2
  <1>4. \A k \in DOMAIN events : k < n /\ n # k
    BY <1>2
  <1>5. ASSUME NEW k \in DOMAIN events
        PROVE  /\ escrow'[events'[k].id] # None
               /\ events'[k].topic = "released" => escrow'[events'[k].id].released
               /\ events'[k].topic = "refund" => escrow'[events'[k].id].refunded
               /\ origin'[k] \in Tx => fate'[origin'[k]] = "applied"
    <2>1. events[k].id \in Id
      BY EventTyped
    <2>2. QED
      BY <1>2, <2>1 DEF Called, Log
  <1>6. /\ escrow'[events'[n].id] # None
        /\ events'[n].topic = "released" => escrow'[events'[n].id].released
        /\ events'[n].topic = "refund" => escrow'[events'[n].id].refunded
        /\ origin'[n] \in Tx => fate'[origin'[n]] = "applied"
    BY <1>2 DEF Called
  <1>7. ASSUME NEW k \in DOMAIN events', NEW i \in DOMAIN events',
               events'[i].id = events'[k].id, events'[i].topic = "created",
               events'[k].topic # "created"
        PROVE  i < k
    <2>1. CASE k \in DOMAIN events /\ i \in DOMAIN events
      BY <1>2, <1>7, <2>1 DEF Log
    <2>2. CASE k = n
      <3>1. i # n
        BY <1>7, <2>2
      <3>2. QED
        BY <1>3, <1>4, <2>2, <3>1
    <2>3. CASE k \in DOMAIN events /\ i = n
      <3>1. topic = "created" /\ events[k].id = d
        BY <1>2, <1>7, <2>3
      <3>2. QED
        BY <2>3, <3>1 DEF Called, Log
    <2>4. QED
      BY <1>3, <2>1, <2>2, <2>3
  <1> HIDE DEF n
  <1>8. QED
    BY <1>2, <1>3, <1>5, <1>6, <1>7 DEF Log

LEMMA StepLog == TypeOK /\ FreshIds /\ Rows /\ Prepared /\ Log /\ [Next]_vars => Log'
  <1> SUFFICES ASSUME TypeOK, FreshIds, Rows, Prepared, Log, [Next]_vars PROVE Log'
    OBVIOUS
  <1>1. CASE UNCHANGED <<fate, escrow, events, origin>>
    BY <1>1 DEF Log
  <1>2. ASSUME Environment PROVE Log'
    BY <1>2 DEF Environment, Initialize, LedgerCloses, Log
  <1>3. ASSUME DirectCreate PROVE Log'
    <2>1. PICK topic \in {"created", "released", "refund"}, i \in Id : Called(topic, i)
      BY <1>3, DirectCalls DEF DirectCreate
    <2>2. origin' = Append(origin, Foreign)
      BY <1>3 DEF DirectCreate, DirectCall
    <2>3. \A x \in Tx : fate[x] = "applied" \/ x = Foreign => fate'[x] = "applied"
      BY <1>3, LifecycleAssumption DEF DirectCreate
    <2>4. QED
      BY <2>1, <2>2, <2>3, LogGrows
  <1>4. ASSUME NEW d \in Id, NEW a \in {Payer, Payee}, DirectSettle(d, a) PROVE Log'
    <2>1. PICK topic \in {"created", "released", "refund"}, i \in Id : Called(topic, i)
      BY <1>4, DirectCalls DEF DirectSettle
    <2>2. origin' = Append(origin, Foreign)
      BY <1>4 DEF DirectSettle, DirectCall
    <2>3. \A x \in Tx : fate[x] = "applied" \/ x = Foreign => fate'[x] = "applied"
      BY <1>4, LifecycleAssumption DEF DirectSettle
    <2>4. QED
      BY <2>1, <2>2, <2>3, LogGrows
  <1>5. ASSUME NEW x \in Tx, TxApplies(x) PROVE Log'
    <2>1. PICK topic \in {"created", "released", "refund"}, i \in Id : Called(topic, i)
      BY <1>5, InvokeCalls DEF TxApplies
    <2>2. origin' = Append(origin, x)
      BY <1>5 DEF TxApplies
    <2>3. \A y \in Tx : fate[y] = "applied" \/ y = x => fate'[y] = "applied"
      BY <1>5 DEF TxApplies, TypeOK
    <2>4. QED
      BY <2>1, <2>2, <2>3, LogGrows
  <1>6. ASSUME NEW x \in Tx, TxReverts(x) PROVE Log'
    <2>1. \A y \in Tx : fate[y] = "applied" => fate'[y] = "applied"
      BY <1>6 DEF TxReverts, TypeOK
    <2>2. QED
      BY <1>6, <2>1 DEF TxReverts, contractVars, Log
  <1>7. ASSUME NEW x \in Tx, PrepareAction(x) PROVE Log'
    <2>1. \A y \in Tx : fate[y] = "applied" => fate'[y] = "applied"
      BY <1>7 DEF PrepareAction, TypeOK
    <2>2. QED
      BY <1>7, <2>1 DEF PrepareAction, contractVars, Log
  <1>8. ASSUME NEW r \in Row, CreateRow(r) PROVE Log'
    <2>1. CreateTx(r) \in Tx /\ fate[CreateTx(r)] = "none"
      BY <1>8, CreateTxShape DEF CreateRow, Prepared
    <2>2. \A y \in Tx : fate[y] = "applied" => fate'[y] = "applied"
      BY <1>8, <2>1 DEF CreateRow, TypeOK
    <2>3. QED
      BY <1>8, <2>2 DEF CreateRow, contractVars, Log
  <1>9. ASSUME NEW h \in Handler, CallNetwork(h) PROVE Log'
    <2>1. \A y \in Tx : fate[y] = "applied" => fate'[y] = "applied"
      BY <1>9 DEF CallNetwork, TypeOK
    <2>2. QED
      BY <1>9, <2>1 DEF CallNetwork, contractVars, Log
  <1> QED
    BY <1>1, <1>2, <1>3, <1>4, <1>5, <1>6, <1>7, <1>8, <1>9
    DEF Next, HandlerStep, TickStep, vars, rowVars, netVars, handlerVars, tickVars,
      faultVars, contractVars, SubmitRead, ConfirmRead, SubmitClaim, SubmitClaimLost,
      PollEnds, PollFailed, PersistSubmitted, PersistFailed, RevertClaim, PersistAction,
      ActionRefused, TickReadPage, TickEvent, TickSaveCursor, TickEventDropped, Restart,
      Finish, Goto, NextEvent, OnEscrowAction, OnEscrowCreated, TickOver

\* The log only grows.
LogKept ==
  /\ DOMAIN events \subseteq DOMAIN events' /\ Len(events) <= Len(events')
  /\ \A k \in DOMAIN events : events'[k] = events[k] /\ origin'[k] = origin[k]

LEMMA KeptByAppending ==
  ASSUME TypeOK, Log, NEW topic \in {"created", "released", "refund"}, NEW d \in Id,
         Publish(topic, d), NEW y \in Tx \cup {Foreign}, origin' = Append(origin, y)
  PROVE  LogKept
  <1>1. /\ Len(events') = Len(events) + 1 /\ Len(events) \in Nat
        /\ DOMAIN events = 1..Len(events) /\ DOMAIN events' = 1..(Len(events) + 1)
        /\ \A k \in DOMAIN events : events'[k] = events[k] /\ origin'[k] = origin[k]
    BY Appended
  <1>2. DOMAIN events \subseteq DOMAIN events' /\ Len(events) <= Len(events')
    BY <1>1
  <1>3. QED
    BY <1>1, <1>2 DEF LogKept

LEMMA StepLogKept == TypeOK /\ FreshIds /\ Prepared /\ Log /\ [Next]_vars => LogKept
  <1> SUFFICES ASSUME TypeOK, FreshIds, Prepared, Log, [Next]_vars PROVE LogKept
    OBVIOUS
  <1>1. CASE UNCHANGED <<events, origin>>
    BY <1>1 DEF LogKept, TypeOK, ContractTypeOK
  <1>2. ASSUME Environment PROVE LogKept
    BY <1>2 DEF Environment, Initialize, LedgerCloses, LogKept, TypeOK, ContractTypeOK
  <1>3. ASSUME DirectCreate PROVE LogKept
    <2>1. PICK topic \in {"created", "released", "refund"}, i \in Id : Called(topic, i)
      BY <1>3, DirectCalls DEF DirectCreate
    <2>2. origin' = Append(origin, Foreign)
      BY <1>3 DEF DirectCreate, DirectCall
    <2>3. Publish(topic, i)
      BY <2>1 DEF Called
    <2>4. QED
      BY <2>2, <2>3, KeptByAppending
  <1>4. ASSUME NEW d \in Id, NEW a \in {Payer, Payee}, DirectSettle(d, a) PROVE LogKept
    <2>1. PICK topic \in {"created", "released", "refund"}, i \in Id : Called(topic, i)
      BY <1>4, DirectCalls DEF DirectSettle
    <2>2. origin' = Append(origin, Foreign)
      BY <1>4 DEF DirectSettle, DirectCall
    <2>3. Publish(topic, i)
      BY <2>1 DEF Called
    <2>4. QED
      BY <2>2, <2>3, KeptByAppending
  <1>5. ASSUME NEW x \in Tx, TxApplies(x) PROVE LogKept
    <2>1. PICK topic \in {"created", "released", "refund"}, i \in Id : Called(topic, i)
      BY <1>5, InvokeCalls DEF TxApplies
    <2>2. origin' = Append(origin, x)
      BY <1>5 DEF TxApplies
    <2>3. Publish(topic, i)
      BY <2>1 DEF Called
    <2>4. QED
      BY <2>2, <2>3, KeptByAppending
  <1> QED
    BY <1>1, <1>2, <1>3, <1>4, <1>5
    DEF Next, HandlerStep, TickStep, vars, rowVars, netVars, handlerVars, tickVars,
      faultVars, contractVars, TxReverts, PrepareAction, CreateRow, SubmitRead, ConfirmRead,
      SubmitClaim, SubmitClaimLost, CallNetwork, PollEnds, PollFailed, PersistSubmitted,
      PersistFailed, RevertClaim, PersistAction, ActionRefused, TickReadPage, TickEvent,
      TickSaveCursor, TickEventDropped, Restart, Finish, Goto, NextEvent, OnEscrowAction,
      OnEscrowCreated, TickOver

LEMMA StepPaging == TypeOK /\ Paging /\ LogKept /\ [Next]_vars => Paging'
  <1> SUFFICES ASSUME TypeOK, Paging, LogKept, [Next]_vars PROVE Paging'
    OBVIOUS
  <1>1. CASE UNCHANGED <<events, tickVars>>
    BY <1>1 DEF tickVars, Paging
  <1>2. ASSUME Environment PROVE Paging'
    BY <1>2 DEF Environment, tickVars, Paging, LogKept, TypeOK, ContractTypeOK
  <1>3. ASSUME DirectCreate PROVE Paging'
    BY <1>3 DEF DirectCreate, tickVars, Paging, LogKept, TypeOK, ContractTypeOK
  <1>4. ASSUME NEW d \in Id, NEW a \in {Payer, Payee}, DirectSettle(d, a) PROVE Paging'
    BY <1>4 DEF DirectSettle, tickVars, Paging, LogKept, TypeOK, ContractTypeOK
  <1>5. ASSUME NEW x \in Tx, TxApplies(x) PROVE Paging'
    BY <1>5 DEF TxApplies, tickVars, Paging, LogKept, TypeOK, ContractTypeOK
  <1>6. ASSUME NEW k \in Tick, TickReadPage(k) PROVE Paging'
    BY <1>6 DEF TickReadPage, netVars, contractVars, Paging, TypeOK, ContractTypeOK
  <1>7. ASSUME NEW k \in Tick, TickEvent(k) PROVE Paging'
    BY <1>7 DEF TickEvent, HasEvent, NextEvent, netVars, contractVars, Paging, TypeOK
  <1>8. ASSUME NEW k \in Tick, TickSaveCursor(k) PROVE Paging'
    BY <1>8 DEF TickSaveCursor, TickOver, PageEnd, netVars, contractVars, Paging, TypeOK
  <1>9. ASSUME NEW k \in Tick, TickEventDropped(k) PROVE Paging'
    BY <1>9 DEF TickEventDropped, HasEvent, NextEvent, netVars, contractVars, Paging, TypeOK
  <1>10. ASSUME Restart PROVE Paging'
    BY <1>10 DEF Restart, netVars, contractVars, Paging, TypeOK
  <1> QED
    BY <1>1, <1>2, <1>3, <1>4, <1>5, <1>6, <1>7, <1>8, <1>9, <1>10
    DEF Next, HandlerStep, TickStep, vars, rowVars, netVars, handlerVars, tickVars,
      faultVars, contractVars, TxReverts, PrepareAction, CreateRow, SubmitRead, ConfirmRead,
      SubmitClaim, SubmitClaimLost, CallNetwork, PollEnds, PollFailed, PersistSubmitted,
      PersistFailed, RevertClaim, PersistAction, ActionRefused, Finish, Goto

LEMMA MadeKept ==
  ASSUME LogKept, NEW r \in Row, NEW d, MadeBy(r, d) PROVE MadeBy(r, d)'
  BY DEF LogKept, MadeBy

LEMMA StepOwnEscrow == TypeOK /\ Rows /\ OwnEscrow /\ Log /\ Paging /\ LogKept /\ [Next]_vars => OwnEscrow'
  <1> SUFFICES ASSUME TypeOK, Rows, OwnEscrow, Log, Paging, LogKept, [Next]_vars PROVE OwnEscrow'
    OBVIOUS
  <1>1. CASE UNCHANGED <<contractId>>
    BY <1>1, MadeKept DEF OwnEscrow
  <1>2. ASSUME NEW k \in Tick, TickEvent(k) PROVE OwnEscrow'
    <2>1. PICK j \in DOMAIN events : j = tnext[k]
      BY <1>2, EventHere DEF TickEvent
    <2>2. CASE events[j].topic = "created"
      <3>1. OnEscrowCreated(j)
        BY <1>2, <2>1, <2>2 DEF TickEvent
      <3>2. events[j] = [topic |-> "created", id |-> events[j].id]
        BY <2>2, EventTyped DEF Event
      <3>3. ASSUME NEW r \in Row, FundsRow(r, j) PROVE MadeBy(r, events[j].id)
        <4>1. origin[j] = CreateTx(r)
          BY <3>3, OriginTyped DEF FundsRow, Rows
        <4>2. QED
          BY <3>2, <4>1 DEF MadeBy
      <3>4. QED
        BY <3>1, <3>3, MadeKept DEF OnEscrowCreated, OwnEscrow
    <2>3. CASE events[j].topic # "created"
      <3>1. contractId' = contractId
        BY <1>2, <2>1, <2>3 DEF TickEvent, OnEscrowAction
      <3>2. QED
        BY <3>1, MadeKept DEF OwnEscrow
    <2>4. QED
      BY <2>2, <2>3
  <1> QED
    BY <1>1, <1>2
    DEF Next, HandlerStep, TickStep, vars, rowVars, netVars, handlerVars, tickVars,
      faultVars, contractVars, Environment, DirectCreate, DirectSettle, TxApplies, TxReverts,
      PrepareAction, CreateRow, SubmitRead, ConfirmRead, SubmitClaim, SubmitClaimLost,
      CallNetwork, PollEnds, PollFailed, PersistSubmitted, PersistFailed, RevertClaim,
      PersistAction, ActionRefused, TickReadPage, TickSaveCursor, TickEventDropped, Restart,
      DirectCall, Finish, Goto, Initialize, LedgerCloses, NextEvent, TickOver

\* No call takes an entry or an outcome away.
EscrowKept ==
  \A x \in Id : escrow[x] # None =>
    /\ escrow'[x] # None
    /\ escrow[x].released => escrow'[x].released
    /\ escrow[x].refunded => escrow'[x].refunded

LEMMA StepEscrowKept == TypeOK /\ FreshIds /\ Prepared /\ [Next]_vars => EscrowKept
  <1> SUFFICES ASSUME TypeOK, FreshIds, Prepared, [Next]_vars PROVE EscrowKept
    OBVIOUS
  <1>1. CASE UNCHANGED <<escrow>>
    BY <1>1 DEF EscrowKept
  <1>2. ASSUME Environment PROVE EscrowKept
    BY <1>2 DEF Environment, Initialize, LedgerCloses, EscrowKept
  <1>3. ASSUME DirectCreate PROVE EscrowKept
    <2>1. PICK topic \in {"created", "released", "refund"}, i \in Id : Called(topic, i)
      BY <1>3, DirectCalls DEF DirectCreate
    <2>2. origin' = Append(origin, Foreign)
      BY <1>3 DEF DirectCreate, DirectCall
    <2>3. QED
      BY <2>1 DEF Called, EscrowKept
  <1>4. ASSUME NEW d \in Id, NEW a \in {Payer, Payee}, DirectSettle(d, a) PROVE EscrowKept
    <2>1. PICK topic \in {"created", "released", "refund"}, i \in Id : Called(topic, i)
      BY <1>4, DirectCalls DEF DirectSettle
    <2>2. origin' = Append(origin, Foreign)
      BY <1>4 DEF DirectSettle, DirectCall
    <2>3. QED
      BY <2>1 DEF Called, EscrowKept
  <1>5. ASSUME NEW x \in Tx, TxApplies(x) PROVE EscrowKept
    <2>1. PICK topic \in {"created", "released", "refund"}, i \in Id : Called(topic, i)
      BY <1>5, InvokeCalls DEF TxApplies
    <2>2. origin' = Append(origin, x)
      BY <1>5 DEF TxApplies
    <2>3. QED
      BY <2>1 DEF Called, EscrowKept
  <1> QED
    BY <1>1, <1>2, <1>3, <1>4, <1>5
    DEF Next, HandlerStep, TickStep, vars, rowVars, netVars, handlerVars, tickVars,
      faultVars, contractVars, TxReverts, PrepareAction, CreateRow, SubmitRead, ConfirmRead,
      SubmitClaim, SubmitClaimLost, CallNetwork, PollEnds, PollFailed, PersistSubmitted,
      PersistFailed, RevertClaim, PersistAction, ActionRefused, TickReadPage, TickEvent,
      TickSaveCursor, TickEventDropped, Restart, Finish, Goto, NextEvent, OnEscrowAction,
      OnEscrowCreated, TickOver

\* A settled row shows the outcome the contract recorded.
OutcomeOnChain ==
  \A r \in Row :
    /\ status[r] = "RELEASED" => escrow[contractId[r]].released
    /\ status[r] = "REFUNDED" => escrow[contractId[r]].refunded

LEMMA OwnEntry ==
  ASSUME TypeOK, Rows, Log, OwnEscrow, NEW r \in Row, status[r] \in {"FUNDED", "RELEASED", "REFUNDED"}
  PROVE  contractId[r] \in Id /\ escrow[contractId[r]] # None
  <1>1. contractId[r] # None /\ contractId[r] \in Id
    BY DEF Rows, TypeOK
  <1>2. PICK k \in DOMAIN events : events[k] = [topic |-> "created", id |-> contractId[r]]
    BY <1>1 DEF OwnEscrow, MadeBy
  <1>3. events[k].id = contractId[r]
    BY <1>2
  <1>4. QED
    BY <1>1, <1>3 DEF Log

LEMMA StepOutcome == TypeOK /\ Rows /\ Jobs /\ Log /\ Paging /\ OwnEscrow /\ EscrowKept /\ OutcomeOnChain /\ [Next]_vars => OutcomeOnChain'
  <1> SUFFICES ASSUME TypeOK, Rows, Jobs, Log, Paging, OwnEscrow, EscrowKept, OutcomeOnChain, [Next]_vars PROVE OutcomeOnChain'
    OBVIOUS
  <1>1. CASE UNCHANGED <<status, contractId>>
    BY <1>1, OwnEntry DEF OutcomeOnChain, EscrowKept
  <1>2. ASSUME NEW r \in Row, CreateRow(r) PROVE OutcomeOnChain'
    <2>1. contractId' = contractId
      BY <1>2 DEF CreateRow
    <2>2. \A q \in Row : /\ status'[q] = "RELEASED" => status[q] = "RELEASED"
                         /\ status'[q] = "REFUNDED" => status[q] = "REFUNDED"
      BY <1>2 DEF CreateRow, TypeOK
    <2>3. QED
      BY <2>1, <2>2, OwnEntry DEF OutcomeOnChain, EscrowKept
  <1>3. ASSUME NEW h \in Handler, SubmitClaim(h) PROVE OutcomeOnChain'
    <2>1. contractId' = contractId
      BY <1>3 DEF SubmitClaim
    <2>2. \A r \in Row : /\ status'[r] = "RELEASED" => status[r] = "RELEASED"
                         /\ status'[r] = "REFUNDED" => status[r] = "REFUNDED"
      BY <1>3 DEF SubmitClaim, TypeOK
    <2>3. QED
      BY <2>1, <2>2, OwnEntry DEF OutcomeOnChain, EscrowKept
  <1>4. ASSUME NEW h \in Handler, PersistSubmitted(h) PROVE OutcomeOnChain'
    <2>1. contractId' = contractId
      BY <1>4 DEF PersistSubmitted
    <2>2. \A r \in Row : /\ status'[r] = "RELEASED" => status[r] = "RELEASED"
                         /\ status'[r] = "REFUNDED" => status[r] = "REFUNDED"
      BY <1>4 DEF PersistSubmitted, SubmittedStatus, TypeOK
    <2>3. QED
      BY <2>1, <2>2, OwnEntry DEF OutcomeOnChain, EscrowKept
  <1>5. ASSUME NEW h \in Handler, PersistFailed(h) PROVE OutcomeOnChain'
    <2>1. contractId' = contractId
      BY <1>5 DEF PersistFailed
    <2>2. \A r \in Row : /\ status'[r] = "RELEASED" => status[r] = "RELEASED"
                         /\ status'[r] = "REFUNDED" => status[r] = "REFUNDED"
      BY <1>5 DEF PersistFailed, TypeOK
    <2>3. QED
      BY <2>1, <2>2, OwnEntry DEF OutcomeOnChain, EscrowKept
  <1>6. ASSUME NEW h \in Handler, RevertClaim(h) PROVE OutcomeOnChain'
    <2>1. contractId' = contractId
      BY <1>6 DEF RevertClaim
    <2>2. \A r \in Row : /\ status'[r] = "RELEASED" => status[r] = "RELEASED"
                         /\ status'[r] = "REFUNDED" => status[r] = "REFUNDED"
      BY <1>6 DEF RevertClaim, TypeOK
    <2>3. QED
      BY <2>1, <2>2, OwnEntry DEF OutcomeOnChain, EscrowKept
  <1>7. ASSUME NEW k \in Tick, TickEvent(k) PROVE OutcomeOnChain'
    <2>1. PICK j \in DOMAIN events : j = tnext[k]
      BY <1>7, EventHere DEF TickEvent
    <2>2. escrow' = escrow /\ events[j].topic \in {"created", "released", "refund"}
      BY <1>7, EventTyped DEF TickEvent, netVars, contractVars, Event
    <2>3. CASE events[j].topic = "created"
      <3>1. OnEscrowCreated(j)
        BY <1>7, <2>1, <2>3 DEF TickEvent
      <3>2. QED
        BY <2>2, <3>1 DEF OnEscrowCreated, FundsRow, Rows, OutcomeOnChain
    <2>4. CASE events[j].topic # "created"
      <3>1. OnEscrowAction(j)
        BY <1>7, <2>1, <2>4 DEF TickEvent
      <3>2. QED
        BY <2>2, <2>4, <3>1 DEF OnEscrowAction, Settles, OutcomeOnChain, Log
    <2>5. QED
      BY <2>3, <2>4
  <1> QED
    BY <1>1, <1>2, <1>3, <1>4, <1>5, <1>6, <1>7
    DEF Next, HandlerStep, TickStep, vars, rowVars, netVars, handlerVars, tickVars,
      faultVars, contractVars, Environment, DirectCreate, DirectSettle, TxApplies, TxReverts,
      PrepareAction, SubmitRead, ConfirmRead, SubmitClaimLost, CallNetwork, PollEnds,
      PollFailed, PersistAction, ActionRefused, TickReadPage, TickSaveCursor,
      TickEventDropped, Restart, DirectCall, Finish, Goto, Initialize, LedgerCloses,
      NextEvent, TickOver

LEMMA Evidence == LifeInv /\ OutcomeOnChain => StatusOnEvidence
  <1> SUFFICES ASSUME LifeInv, OutcomeOnChain, NEW r \in Row
               PROVE  /\ status[r] \in {"FUNDED", "RELEASED", "REFUNDED"} =>
                           contractId[r] # None /\ MadeBy(r, contractId[r])
                      /\ status[r] = "RELEASED" => escrow[contractId[r]].released
                      /\ status[r] = "REFUNDED" => escrow[contractId[r]].refunded
                      /\ status[r] = "FAILED" => ~\E d \in Id : MadeBy(r, d)
    BY DEF StatusOnEvidence
  <1>1. status[r] \in {"FUNDED", "RELEASED", "REFUNDED"} =>
          contractId[r] # None /\ MadeBy(r, contractId[r])
    BY DEF LifeInv, Rows, OwnEscrow
  <1>2. ASSUME NEW d \in Id, MadeBy(r, d) PROVE status[r] # "FAILED"
    <2>1. fate[CreateTx(r)] = "applied"
      BY <1>2, CreateTxShape DEF MadeBy, LifeInv, Log
    <2>2. QED
      BY <2>1 DEF LifeInv, Rows
  <1>3. QED
    BY <1>1, <1>2 DEF OutcomeOnChain

\* What the property says of a step.
Forward ==
  \A r \in Row :
    /\ status[r] \in Settled => status'[r] = status[r]
    /\ status[r] = "FUNDED" => status'[r] \in {"FUNDED", "RELEASED", "REFUNDED"}
    /\ contractId[r] # None => contractId'[r] = contractId[r]

LEMMA StepForward == TypeOK /\ Rows /\ Jobs /\ Log /\ Paging /\ [Next]_vars => Forward
  <1> SUFFICES ASSUME TypeOK, Rows, Jobs, Log, Paging, [Next]_vars PROVE Forward
    OBVIOUS
  <1>1. CASE UNCHANGED <<status, contractId>>
    BY <1>1 DEF Forward
  <1>2. ASSUME NEW r \in Row, CreateRow(r) PROVE Forward
    BY <1>2 DEF CreateRow, Forward, Settled, TypeOK
  <1>3. ASSUME NEW h \in Handler, SubmitClaim(h) PROVE Forward
    BY <1>3 DEF SubmitClaim, Claimable, Forward, Settled, TypeOK
  <1>4. ASSUME NEW h \in Handler, PersistSubmitted(h) PROVE Forward
    BY <1>4 DEF PersistSubmitted, SubmittedStatus, Jobs, Submitting, Forward, Settled, TypeOK
  <1>5. ASSUME NEW h \in Handler, PersistFailed(h) PROVE Forward
    BY <1>5 DEF PersistFailed, Jobs, Submitting, Forward, Settled, TypeOK
  <1>6. ASSUME NEW h \in Handler, RevertClaim(h) PROVE Forward
    BY <1>6 DEF RevertClaim, Forward, Settled, TypeOK
  <1>7. ASSUME NEW k \in Tick, TickEvent(k) PROVE Forward
    <2>1. PICK j \in DOMAIN events : j = tnext[k]
      BY <1>7, EventHere DEF TickEvent
    <2>2. CASE events[j].topic = "created"
      <3>1. OnEscrowCreated(j)
        BY <1>7, <2>1, <2>2 DEF TickEvent
      <3>2. QED
        BY <3>1 DEF OnEscrowCreated, FundsRow, Rows, Forward, Settled
    <2>3. CASE events[j].topic # "created"
      <3>1. OnEscrowAction(j)
        BY <1>7, <2>1, <2>3 DEF TickEvent
      <3>2. QED
        BY <3>1 DEF OnEscrowAction, Settles, Rows, Forward, Settled
    <2>4. QED
      BY <2>2, <2>3
  <1> QED
    BY <1>1, <1>2, <1>3, <1>4, <1>5, <1>6, <1>7
    DEF Next, HandlerStep, TickStep, vars, rowVars, netVars, handlerVars, tickVars,
      faultVars, contractVars, Environment, DirectCreate, DirectSettle, TxApplies, TxReverts,
      PrepareAction, SubmitRead, ConfirmRead, SubmitClaimLost, CallNetwork, PollEnds,
      PollFailed, PersistAction, ActionRefused, TickReadPage, TickSaveCursor,
      TickEventDropped, Restart, DirectCall, Finish, Goto, Initialize, LedgerCloses,
      NextEvent, TickOver

LEMMA StepLife ==
  ASSUME InitFirst, LifeInv, OutcomeOnChain, [Next]_vars
  PROVE  LifeInv' /\ OutcomeOnChain' /\ LogKept
  <1>1. /\ TypeOK /\ FreshIds /\ Rows /\ Jobs /\ Prepared /\ Log /\ Paging /\ OwnEscrow
    BY DEF LifeInv
  <1>2. TypeOK' /\ [ContractNext]_contractVars /\ ContractTypeOK
    BY <1>1, StepLifeTyped, StepContract DEF TypeOK
  <1>3. FreshIds'
    BY <1>1, <1>2, StepFresh
  <1>4. LogKept /\ EscrowKept
    BY <1>1, StepLogKept, StepEscrowKept
  <1>5. Rows' /\ Jobs' /\ Prepared' /\ Log'
    BY <1>1, StepRows, StepJobs, StepPrepared, StepLog
  <1>6. Paging' /\ OwnEscrow' /\ OutcomeOnChain'
    BY <1>1, <1>4, StepPaging, StepOwnEscrow, StepOutcome
  <1>7. QED
    BY <1>2, <1>3, <1>4, <1>5, <1>6 DEF LifeInv

LEMMA LifeHolds == ASSUME InitFirst PROVE Spec => [](LifeInv /\ OutcomeOnChain)
  <1>1. Init => LifeInv /\ OutcomeOnChain
    BY InitLife DEF Init, OutcomeOnChain
  <1>2. LifeInv /\ OutcomeOnChain /\ [Next]_vars => (LifeInv /\ OutcomeOnChain)'
    BY StepLife
  <1>3. QED
    BY <1>1, <1>2, PTL DEF Spec

(* A row shows an escrow, and an outcome, only of the escrow its own envelope made
   and only when the contract says so.                                      *)
THEOREM StatusOnEvidenceHolds == ASSUME InitFirst PROVE Spec => []StatusOnEvidence
  BY LifeHolds, Evidence, PTL

(* No writer, whatever it read before its await, takes a row back.          *)
THEOREM StatusForwardHolds == ASSUME InitFirst PROVE Spec => StatusForward
  <1>1. LifeInv /\ [Next]_vars => [Forward]_vars
    BY StepForward DEF LifeInv
  <1>2. QED
    BY <1>1, LifeHolds, PTL DEF Spec, StatusForward, Forward

(* The API and the indexer, with the parties beside them, use the contract as its
   own specification allows: what is proved of the contract alone holds here. *)
THEOREM LifecycleKeepsCustody == ASSUME InitFirst PROVE Spec => ContractSpec /\ KeepsCustody
  <1>1. Init => ContractInit
    BY DEF Init
  <1>2. LifeInv /\ [Next]_vars => [ContractNext]_contractVars
    BY StepContract DEF LifeInv
  <1>3. Spec => ContractSpec
    BY <1>1, <1>2, LifeHolds, PTL DEF Spec, ContractSpec
  <1>4. QED
    BY <1>3, KeepsCustodyHolds

-----------------------------------------------------------------------------
\* Every outcome of a funded row is ahead of the cursor and of every running tick,
\* unless the tick that funded the row had been overtaken.
Ahead ==
  \A r \in Row \ overtaken, k \in DOMAIN events :
    status[r] = "FUNDED" /\ events[k].id = contractId[r] /\ events[k].topic # "created" =>
      \/ drops > 0
      \/ k > cursor /\ \A t \in Tick : tpc[t] = "ingesting" => k >= tnext[t]

LEMMA AheadGrows ==
  ASSUME TypeOK, Log, Paging, Ahead, UNCHANGED <<status, contractId, tickVars, drops>>,
         NEW topic \in {"created", "released", "refund"}, NEW d \in Id,
         Publish(topic, d), NEW y \in Tx \cup {Foreign}, origin' = Append(origin, y)
  PROVE  Ahead'
  <1> DEFINE n == Len(events) + 1
  <1>1. /\ DOMAIN events' = 1..n /\ Len(events) \in Nat /\ DOMAIN events = 1..Len(events)
        /\ \A k \in DOMAIN events : events'[k] = events[k]
    BY Appended
  <1>2. \A k \in DOMAIN events' : k \in DOMAIN events \/ k = n
    BY <1>1
  <1>3. n > cursor /\ \A t \in Tick : tpc[t] = "ingesting" => n >= tnext[t]
    BY <1>1 DEF Paging, TypeOK
  <1> HIDE DEF n
  <1>4. QED
    BY <1>1, <1>2, <1>3 DEF Ahead, tickVars

LEMMA StepAhead == TypeOK /\ FreshIds /\ Rows /\ Jobs /\ Prepared /\ Log /\ Paging /\ Ahead /\ [Next]_vars => Ahead'
  <1> SUFFICES ASSUME TypeOK, FreshIds, Rows, Jobs, Prepared, Log, Paging, Ahead, [Next]_vars PROVE Ahead'
    OBVIOUS
  <1>1. CASE UNCHANGED <<status, contractId, events, tickVars, drops>>
    BY <1>1 DEF tickVars, Ahead
  <1>2. ASSUME DirectCreate PROVE Ahead'
    <2>1. PICK topic \in {"created", "released", "refund"}, i \in Id : Called(topic, i)
      BY <1>2, DirectCalls DEF DirectCreate
    <2>2. origin' = Append(origin, Foreign)
      BY <1>2 DEF DirectCreate, DirectCall
    <2>3. UNCHANGED <<status, contractId, tickVars, drops>>
      BY <1>2 DEF DirectCreate, rowVars, faultVars
    <2>4. QED
      BY <2>1, <2>2, <2>3, AheadGrows DEF Called
  <1>3. ASSUME NEW d \in Id, NEW a \in {Payer, Payee}, DirectSettle(d, a) PROVE Ahead'
    <2>1. PICK topic \in {"created", "released", "refund"}, i \in Id : Called(topic, i)
      BY <1>3, DirectCalls DEF DirectSettle
    <2>2. origin' = Append(origin, Foreign)
      BY <1>3 DEF DirectSettle, DirectCall
    <2>3. UNCHANGED <<status, contractId, tickVars, drops>>
      BY <1>3 DEF DirectSettle, rowVars, faultVars
    <2>4. QED
      BY <2>1, <2>2, <2>3, AheadGrows DEF Called
  <1>4. ASSUME NEW x \in Tx, TxApplies(x) PROVE Ahead'
    <2>1. PICK topic \in {"created", "released", "refund"}, i \in Id : Called(topic, i)
      BY <1>4, InvokeCalls DEF TxApplies
    <2>2. origin' = Append(origin, x)
      BY <1>4 DEF TxApplies
    <2>3. UNCHANGED <<status, contractId, tickVars, drops>>
      BY <1>4 DEF TxApplies, rowVars, faultVars
    <2>4. QED
      BY <2>1, <2>2, <2>3, AheadGrows DEF Called
  <1>5. ASSUME NEW r \in Row, CreateRow(r) PROVE Ahead'
    <2>1. \A q \in Row : status'[q] = "FUNDED" => status[q] = "FUNDED"
      BY <1>5 DEF CreateRow, TypeOK
    <2>2. QED
      BY <1>5, <2>1 DEF CreateRow, netVars, contractVars, tickVars, faultVars, Ahead
  <1>6. ASSUME NEW h \in Handler, SubmitClaim(h) PROVE Ahead'
    <2>1. \A r \in Row : status'[r] = "FUNDED" => status[r] = "FUNDED"
      BY <1>6 DEF SubmitClaim, TypeOK
    <2>2. QED
      BY <1>6, <2>1 DEF SubmitClaim, netVars, contractVars, tickVars, faultVars, Ahead
  <1>7. ASSUME NEW h \in Handler, PersistSubmitted(h) PROVE Ahead'
    <2>1. \A r \in Row : status'[r] = "FUNDED" => status[r] = "FUNDED"
      BY <1>7 DEF PersistSubmitted, SubmittedStatus, TypeOK
    <2>2. QED
      BY <1>7, <2>1 DEF PersistSubmitted, netVars, contractVars, tickVars, faultVars, Ahead
  <1>8. ASSUME NEW h \in Handler, PersistFailed(h) PROVE Ahead'
    <2>1. \A r \in Row : status'[r] = "FUNDED" => status[r] = "FUNDED"
      BY <1>8 DEF PersistFailed, TypeOK
    <2>2. QED
      BY <1>8, <2>1 DEF PersistFailed, netVars, contractVars, tickVars, faultVars, Ahead
  <1>9. ASSUME NEW h \in Handler, RevertClaim(h) PROVE Ahead'
    <2>1. \A r \in Row : status'[r] = "FUNDED" => status[r] = "FUNDED"
      BY <1>9 DEF RevertClaim, TypeOK
    <2>2. QED
      BY <1>9, <2>1 DEF RevertClaim, netVars, contractVars, tickVars, faultVars, Ahead
  <1>10. ASSUME NEW k \in Tick, TickReadPage(k) PROVE Ahead'
    <2>1. /\ cursor' = cursor /\ cursor \in Nat /\ overtaken' = overtaken
          /\ \A t \in Tick : tnext'[t] = cursor + 1 \/ (tnext'[t] = tnext[t] /\ tpc'[t] = tpc[t])
      BY <1>10 DEF TickReadPage, TypeOK
    <2>2. \A j \in DOMAIN events : j \in Nat
      BY EventTyped
    <2>3. UNCHANGED <<status, contractId, events, drops>>
      BY <1>10 DEF TickReadPage, rowVars, netVars, contractVars, faultVars
    <2>4. QED
      BY <2>1, <2>2, <2>3 DEF Ahead
  <1>11. ASSUME NEW k \in Tick, TickEvent(k) PROVE Ahead'
    <2>1. PICK j \in DOMAIN events : j = tnext[k]
      BY <1>11, EventHere DEF TickEvent
    <2>2. UNCHANGED <<events, drops, cursor, tpc>> /\ tpc[k] = "ingesting"
      BY <1>11 DEF TickEvent, HasEvent, NextEvent, netVars, contractVars, faultVars
    <2>3. tnext'[k] = j + 1 /\ \A t \in Tick : t # k => tnext'[t] = tnext[t]
      BY <1>11, <2>1 DEF TickEvent, NextEvent, TypeOK
    <2>4. /\ cursor \in Nat /\ \A i \in DOMAIN events : i \in Nat
          /\ \A t \in Tick : tnext[t] \in Nat
      BY EventTyped DEF TypeOK
    <2>5. \A r \in Row \ overtaken' :
            /\ r \notin overtaken
            /\ status[r] # "FUNDED" /\ status'[r] = "FUNDED" => ~Behind(k)
      BY <1>11 DEF TickEvent
    <2>6. ASSUME NEW r \in Row \ overtaken', NEW i \in DOMAIN events', status'[r] = "FUNDED",
                 events'[i].id = contractId'[r], events'[i].topic # "created"
          PROVE  drops > 0 \/ (i > cursor /\ i > j
                                /\ \A t \in Tick : tpc[t] = "ingesting" => i >= tnext[t])
      <3>1. CASE events[j].topic = "created"
        <4>1. OnEscrowCreated(j)
          BY <1>11, <2>1, <3>1 DEF TickEvent
        <4>2. CASE FundsRow(r, j)
          <5>1. events[i].id = events[j].id
            BY <2>2, <2>6, <4>1, <4>2 DEF OnEscrowCreated
          <5>2. j < i
            BY <2>2, <2>6, <3>1, <5>1 DEF Log
          <5>3. ~Behind(k)
            BY <2>5, <2>6, <4>2 DEF FundsRow
          <5>4. j > cursor /\ \A t \in Tick : tpc[t] = "ingesting" => tnext[t] <= j
            BY <2>1, <2>4, <5>3 DEF Behind
          <5>5. QED
            BY <2>2, <2>4, <5>2, <5>4
        <4>3. CASE ~FundsRow(r, j)
          <5>1. status[r] = "FUNDED" /\ events[i].id = contractId[r]
            BY <2>2, <2>6, <4>1, <4>3 DEF OnEscrowCreated
          <5>2. drops > 0 \/ (i > cursor /\ \A t \in Tick : tpc[t] = "ingesting" => i >= tnext[t])
            BY <2>2, <2>5, <2>6, <5>1 DEF Ahead
          <5>3. i # j
            BY <2>2, <2>6, <3>1
          <5>4. QED
            BY <2>1, <2>2, <2>4, <5>2, <5>3
        <4>4. QED
          BY <4>2, <4>3
      <3>2. CASE events[j].topic # "created"
        <4>1. OnEscrowAction(j)
          BY <1>11, <2>1, <3>2 DEF TickEvent
        <4>2. status[r] = "FUNDED" /\ events[i].id = contractId[r] /\ ~Settles(r, j)
          BY <2>2, <2>6, <4>1 DEF OnEscrowAction
        <4>3. drops > 0 \/ (i > cursor /\ \A t \in Tick : tpc[t] = "ingesting" => i >= tnext[t])
          BY <2>2, <2>5, <2>6, <4>2 DEF Ahead
        <4>4. i # j
          BY <4>2 DEF Settles
        <4>5. QED
          BY <2>1, <2>2, <2>4, <4>3, <4>4
      <3>3. QED
        BY <3>1, <3>2
    <2>7. \A i \in DOMAIN events : i > j => i >= j + 1
      BY <2>4
    <2>8. QED
      BY <2>2, <2>3, <2>6, <2>7 DEF Ahead
  <1>12. ASSUME NEW k \in Tick, TickSaveCursor(k) PROVE Ahead'
    <2>1. tpc'[k] = "idle" /\ \A t \in Tick : t # k => tpc'[t] = tpc[t] /\ tnext'[t] = tnext[t]
      BY <1>12 DEF TickSaveCursor, TickOver, TypeOK
    <2>2. /\ UNCHANGED <<status, contractId, events, drops, overtaken>>
          /\ cursor' = tlast[k]
      BY <1>12 DEF TickSaveCursor, PageEnd, rowVars, netVars, contractVars, faultVars
    <2>3. tpc[k] = "ingesting" /\ tnext[k] > tlast[k] /\ tnext[k] \in Nat /\ tlast[k] \in Nat
      BY <1>12 DEF TickSaveCursor, TypeOK
    <2>4. \A j \in DOMAIN events : j \in Nat /\ (j >= tnext[k] => j > tlast[k])
      BY <2>3, EventTyped
    <2>5. QED
      BY <2>1, <2>2, <2>3, <2>4 DEF Ahead
  <1>13. ASSUME NEW k \in Tick, TickEventDropped(k) PROVE Ahead'
    <2>1. drops' > 0
      BY <1>13 DEF TickEventDropped, TypeOK
    <2>2. QED
      BY <2>1 DEF Ahead
  <1>14. ASSUME Restart PROVE Ahead'
    BY <1>14 DEF Restart, rowVars, netVars, contractVars, Ahead
  <1> QED
    BY <1>1, <1>2, <1>3, <1>4, <1>5, <1>6, <1>7, <1>8, <1>9, <1>10, <1>11, <1>12, <1>13, <1>14
    DEF Next, HandlerStep, TickStep, vars, rowVars, netVars, handlerVars, tickVars,
      faultVars, contractVars, Environment, TxReverts, PrepareAction, SubmitRead,
      ConfirmRead, SubmitClaimLost, CallNetwork, PollEnds, PollFailed, PersistAction,
      ActionRefused, Finish, Goto, Initialize, LedgerCloses

(* No outcome of a funded row is passed unseen, whatever restarts, replays, late
   hashes and overlapping ticks come in between, unless the tick that funded the row
   had been overtaken or a database error was swallowed.                    *)
THEOREM NoOutcomeMissedHolds ==
  ASSUME InitFirst PROVE Spec => []NoOutcomeMissed
  <1>1. Init => Ahead
    BY DEF Init, Ahead
  <1>2. LifeInv /\ Ahead /\ [Next]_vars => Ahead'
    BY StepAhead DEF LifeInv
  <1>3. Ahead => NoOutcomeMissed
    BY DEF Ahead, NoOutcomeMissed
  <1>4. QED
    BY <1>1, <1>2, <1>3, LifeHolds, PTL DEF Spec
===========================================================================
