--------------------------- MODULE MerchantProofs ---------------------------
(***************************************************************************)
(* Proofs about the merchant contract, for any accounts, tokens, amounts,  *)
(* commissions and number of merchants, and about its lifecycle in the     *)
(* API, for any number of sales, settlements, handlers and ticks.          *)
(***************************************************************************)
EXTENDS MerchantSettlement, FiniteSetTheorems, TLAPS

(* Basis points of an amount are part of it.                                *)
LEMMA ShareInBounds ==
  ASSUME NEW n \in Nat, NEW b \in Bps
  PROVE  (n * b) \div 10000 \in 0..n
  <1>1. b \in 0..10000
    BY MerchantAssumption
  <1>2. \A x, y, z \in Nat : x <= y => z * x <= z * y
    OBVIOUS
  <1>3. n * b \in Nat /\ n * b <= n * 10000
    BY <1>1, <1>2
  <1>4. QED
    <2> DEFINE p == n * b
    <2> HIDE DEF p
    <2>1. p \in Nat /\ p <= n * 10000
      BY <1>3 DEF p
    <2>2. p \div 10000 \in 0..n
      BY <2>1
    <2>3. QED
      BY <2>2 DEF p

LEMMA CommissionInBounds ==
  ASSUME NEW i \in Id, profile[i] \in Profile, NEW n \in Nat
  PROVE  Commission(i, n) \in 0..n
  <1>1. profile[i].bps \in Bps
    BY DEF Profile
  <1>2. QED
    BY <1>1, ShareInBounds DEF Commission

LEMMA InitTyped == MerchantInit => MerchantTypeOK
  BY MerchantAssumption DEF MerchantInit, MerchantTypeOK

(* Every call keeps the types: no account, no till and not the vault is ever
   overdrawn, whatever the commission.                                      *)
LEMMA StepTyped == MerchantTypeOK /\ [MerchantNext]_merchantVars => MerchantTypeOK'
  <1> SUFFICES ASSUME MerchantTypeOK, [MerchantNext]_merchantVars PROVE MerchantTypeOK'
    OBVIOUS
  <1>1. ASSUME NEW a \in Account, Initialize(a) PROVE MerchantTypeOK'
    BY <1>1, MerchantAssumption DEF Initialize, MerchantTypeOK
  <1>2. ASSUME NEW a \in Account, NEW to \in Account, NEW b \in Bps, Register(a, to, b)
        PROVE  MerchantTypeOK'
    <2>1. nextId \in Id /\ nextId' \in 1..(MaxId + 1)
      BY <1>2, MerchantAssumption DEF Register, FollowingId, Id
    <2>2. [owner |-> a, settlement |-> to, bps |-> b, active |-> TRUE] \in Profile
      BY DEF Profile
    <2>3. profile' \in [Id -> Profile \cup {None}]
      BY <1>2, <2>1, <2>2 DEF Register, MerchantTypeOK
    <2>4. QED
      BY <1>2, <2>1, <2>3 DEF Register, MerchantTypeOK
  <1>3. ASSUME NEW i \in Id, Amend(i) PROVE MerchantTypeOK'
    <2>1. profile[i] \in Profile
      BY <1>3 DEF Amend, MerchantTypeOK
    <2>2. /\ \A to \in Account : [profile[i] EXCEPT !.settlement = to] \in Profile
          /\ \A b \in Bps : [profile[i] EXCEPT !.bps = b] \in Profile
          /\ \A on \in BOOLEAN : [profile[i] EXCEPT !.active = on] \in Profile
      BY <2>1 DEF Profile
    <2>3. profile' \in [Id -> Profile \cup {None}]
      BY <1>3, <2>2 DEF Amend, MerchantTypeOK
    <2>4. QED
      BY <1>3, <2>3 DEF Amend, MerchantTypeOK
  <1>4. ASSUME NEW a \in Account, NEW i \in Id, NEW t \in Token, NEW n \in Amount,
               RecordSale(a, i, t, n)
        PROVE  MerchantTypeOK'
    <2>1. n \in Nat /\ <<a, t>> \in Account \X Token /\ <<i, t>> \in Till
      BY MerchantAssumption, SMTT(20) DEF Till
    <2>2. wallet' \in [Account \X Token -> Nat]
      BY <1>4, <2>1 DEF RecordSale, MerchantTypeOK
    <2>3. balance' \in [Till -> Nat] /\ held' \in [Token -> Nat]
      BY <1>4, <2>1 DEF RecordSale, MerchantTypeOK
    <2>4. QED
      BY <1>4, <2>2, <2>3 DEF RecordSale, MerchantTypeOK
  <1>5. ASSUME NEW i \in Id, NEW t \in Token, Settle(i, t) PROVE MerchantTypeOK'
    <2> DEFINE n == balance[<<i, t>>]
               c == Commission(i, n)
    <2>1. profile[i] \in Profile /\ n \in Nat
      BY <1>5 DEF Settle, MerchantTypeOK, Till
    <2>2. c \in 0..n
      BY <2>1, CommissionInBounds
    <2>3. wallet' \in [Account \X Token -> Nat]
      <3>1. n - c \in Nat /\ c \in Nat
        BY <2>1, <2>2
      <3>2. \A p \in Account \X Token : wallet[p] \in Nat
        BY DEF MerchantTypeOK
      <3>3. wallet' = [p \in Account \X Token |->
              wallet[p] + (IF p = <<profile[i].settlement, t>> THEN n - c ELSE 0)
                        + (IF p = <<admin, t>> THEN c ELSE 0)]
        BY <1>5 DEF Settle
      <3>4. QED
        <4> HIDE DEF n, c
        <4>1. QED
          BY <3>1, <3>2, <3>3
    <2>4. balance' \in [Till -> Nat]
      BY <1>5 DEF Settle, Cleared, MerchantTypeOK
    <2>5. held' \in [Token -> Nat]
      BY <1>5, <2>1 DEF Settle, MerchantTypeOK
    <2>6. QED
      BY <1>5, <2>3, <2>4, <2>5 DEF Settle, MerchantTypeOK
  <1>6. CASE UNCHANGED merchantVars
    BY <1>6 DEF merchantVars, MerchantTypeOK
  <1>7. QED
    BY <1>1, <1>2, <1>3, <1>4, <1>5, <1>6 DEF MerchantNext

(* The contract's storage and balances keep their types.                    *)
THEOREM MerchantTypeCorrect == MerchantSpec => []MerchantTypeOK
  BY InitTyped, StepTyped, PTL DEF MerchantSpec

-----------------------------------------------------------------------------
(* The ids at and past the counter are free, all of them before initialize,
   which therefore sets the counter back over nobody.                       *)
FreshIds ==
  /\ \A i \in Id : i >= nextId => profile[i] = None
  /\ admin = None => \A i \in Id : profile[i] = None

LEMMA InitFresh == MerchantInit => FreshIds
  BY DEF MerchantInit, FreshIds

LEMMA StepFresh ==
  ASSUME InitFirst
  PROVE  MerchantTypeOK /\ FreshIds /\ [MerchantNext]_merchantVars => FreshIds'
  <1> SUFFICES ASSUME MerchantTypeOK, FreshIds, [MerchantNext]_merchantVars PROVE FreshIds'
    OBVIOUS
  <1>1. ASSUME NEW a \in Account, Initialize(a) PROVE FreshIds'
    BY <1>1 DEF Initialize, FreshIds
  <1>2. ASSUME NEW a \in Account, NEW to \in Account, NEW b \in Bps, Register(a, to, b)
        PROVE  FreshIds'
    <2>1. admin' # None /\ nextId' = nextId + 1 /\ nextId \in Nat
      BY <1>2 DEF Register, FollowingId, Id
    <2>2. \A i \in Id : i # nextId => profile'[i] = profile[i]
      BY <1>2 DEF Register, MerchantTypeOK
    <2>3. \A i \in Id : i >= nextId' => i >= nextId /\ i # nextId
      BY <2>1 DEF Id
    <2>4. QED
      BY <2>1, <2>2, <2>3 DEF FreshIds
  <1>3. ASSUME UNCHANGED <<admin, nextId>>, \A i \in Id : profile[i] = None => profile'[i] = None
        PROVE  FreshIds'
    BY <1>3 DEF FreshIds
  <1>4. ASSUME NEW i \in Id, Amend(i) PROVE FreshIds'
    <2>1. \A x \in Id : x # i => profile'[x] = profile[x]
      BY <1>4 DEF Amend, MerchantTypeOK
    <2>2. profile[i] # None
      BY <1>4 DEF Amend
    <2>3. QED
      BY <1>3, <1>4, <2>1, <2>2 DEF Amend
  <1>5. ASSUME NEW a \in Account, NEW i \in Id, NEW t \in Token, NEW n \in Amount,
               RecordSale(a, i, t, n)
        PROVE  FreshIds'
    BY <1>3, <1>5 DEF RecordSale
  <1>6. ASSUME NEW i \in Id, NEW t \in Token, Settle(i, t) PROVE FreshIds'
    BY <1>3, <1>6 DEF Settle
  <1>7. CASE UNCHANGED merchantVars
    BY <1>3, <1>7 DEF merchantVars
  <1>8. QED
    BY <1>1, <1>2, <1>4, <1>5, <1>6, <1>7 DEF MerchantNext

-----------------------------------------------------------------------------
(* What TillKept asks of one step.                                          *)
OwnersAndTillsKept ==
  \A i \in Id : profile[i] # None =>
    /\ profile'[i] # None /\ profile'[i].owner = profile[i].owner
    /\ \A t \in Token : balance'[<<i, t>>] >= balance[<<i, t>>] \/ balance'[<<i, t>>] = 0

LEMMA StepKeepsTills ==
  MerchantTypeOK /\ FreshIds /\ MerchantNext => OwnersAndTillsKept
  <1> SUFFICES ASSUME MerchantTypeOK, FreshIds, MerchantNext PROVE OwnersAndTillsKept
    OBVIOUS
  <1>1. \A i \in Id, t \in Token : balance[<<i, t>>] \in Nat
    BY DEF MerchantTypeOK, Till
  <1>2. ASSUME NEW a \in Account, Initialize(a) PROVE OwnersAndTillsKept
    BY <1>1, <1>2 DEF Initialize, OwnersAndTillsKept
  <1>3. ASSUME NEW a \in Account, NEW to \in Account, NEW b \in Bps, Register(a, to, b)
        PROVE  OwnersAndTillsKept
    <2>1. nextId \in Id /\ profile[nextId] = None
      BY <1>3 DEF Register, FreshIds, Id
    <2>2. \A i \in Id : i # nextId => profile'[i] = profile[i]
      BY <1>3 DEF Register, MerchantTypeOK
    <2>3. QED
      BY <1>1, <1>3, <2>1, <2>2 DEF Register, OwnersAndTillsKept
  <1>4. ASSUME NEW d \in Id, Amend(d) PROVE OwnersAndTillsKept
    <2>1. profile[d] \in Profile /\ balance' = balance
      BY <1>4 DEF Amend, MerchantTypeOK
    <2>2. \A i \in Id : i # d => profile'[i] = profile[i]
      BY <1>4 DEF Amend, MerchantTypeOK
    <2>3. /\ \E to \in Account, b \in Bps, on \in BOOLEAN :
               \/ profile'[d] = [profile[d] EXCEPT !.settlement = to]
               \/ profile'[d] = [profile[d] EXCEPT !.bps = b]
               \/ profile'[d] = [profile[d] EXCEPT !.active = on]
      BY <1>4, <2>1 DEF Amend, MerchantTypeOK, Profile
    <2>4. profile'[d] \in Profile /\ profile'[d].owner = profile[d].owner
      BY <2>1, <2>3 DEF Profile
    <2>5. profile'[d] # None
      BY <2>4, AbsentProfile
    <2>6. QED
      BY <1>1, <2>1, <2>2, <2>4, <2>5 DEF OwnersAndTillsKept
  <1>5. ASSUME NEW a \in Account, NEW d \in Id, NEW u \in Token, NEW n \in Amount,
               RecordSale(a, d, u, n)
        PROVE  OwnersAndTillsKept
    <2>1. n \in Nat /\ <<d, u>> \in Till /\ profile' = profile
      BY <1>5, MerchantAssumption DEF RecordSale, Till
    <2>2. \A i \in Id, t \in Token :
            balance'[<<i, t>>] = IF <<i, t>> = <<d, u>> THEN balance[<<i, t>>] + n ELSE balance[<<i, t>>]
      BY <1>5, <2>1 DEF RecordSale, MerchantTypeOK, Till
    <2>3. QED
      BY <1>1, <2>1, <2>2 DEF OwnersAndTillsKept
  <1>6. ASSUME NEW d \in Id, NEW u \in Token, Settle(d, u) PROVE OwnersAndTillsKept
    <2>1. profile' = profile
      BY <1>6 DEF Settle
    <2>2. \A i \in Id, t \in Token :
            balance'[<<i, t>>] = IF <<i, t>> = <<d, u>> THEN 0 ELSE balance[<<i, t>>]
      BY <1>6 DEF Settle, Cleared, MerchantTypeOK, Till
    <2>3. QED
      BY <1>1, <2>1, <2>2 DEF OwnersAndTillsKept
  <1>7. QED
    BY <1>2, <1>3, <1>4, <1>5, <1>6 DEF MerchantNext

(* Once it is initialized before anyone registers, the contract never gives a
   merchant's id, and the till behind it, to another owner.                 *)
THEOREM TillKeptHolds == ASSUME InitFirst PROVE MerchantSpec => TillKept
  <1>1. MerchantTypeOK /\ FreshIds /\ [MerchantNext]_merchantVars
          => MerchantTypeOK' /\ FreshIds' /\ [OwnersAndTillsKept]_merchantVars
    BY StepTyped, StepFresh, StepKeepsTills
  <1>2. MerchantInit => MerchantTypeOK /\ FreshIds
    BY InitTyped, InitFresh
  <1>3. QED
    BY <1>1, <1>2, PTL DEF MerchantSpec, TillKept, OwnersAndTillsKept

-----------------------------------------------------------------------------
(***************************************************************************)
(* The lifecycle: MerchantsService, the contract and the indexer together. *)
(***************************************************************************)
LEMMA TxRow ==
  ASSUME NEW x \in Tx
  PROVE  /\ x.call \in {"register", "sale", "settle"} /\ RowMerchant(x) \in Merchant
         /\ x.call = "register" => x.row \in Merchant
         /\ x.call # "register" => Asset[x.row] \in Token
         /\ x.call = "settle" => x.row \in SettleRow
         /\ Wallet[RowMerchant(x)] \in Account
  <1>1. x \in Envelopes
    BY SettlementAssumption
  <1>2. /\ x.call = "register" => x.row \in Merchant
        /\ x.call = "sale" => x.row \in SaleRow
        /\ x.call = "settle" => x.row \in SettleRow
        /\ x.call \in {"register", "sale", "settle"}
    BY <1>1 DEF Envelopes
  <1>3. RowMerchant(x) \in Merchant
    BY <1>2, SettlementAssumption DEF RowMerchant
  <1>4. QED
    BY <1>2, <1>3, SettlementAssumption

LEMMA NoneIsNoTx == NoTx \notin Tx /\ Foreign \notin Tx /\ NoTx # Foreign
  BY CallsAssumption

\* What a call leaves behind: one event, of a merchant that is registered; a
\* registration's is of an id nobody had.
Called(e) ==
  /\ e \in Event
  /\ events' = Append(events, e)
  /\ profile'[e.id] # None
  /\ e.topic = "reg" => profile[e.id] = None

ProfilesKept == \A i \in Id : profile[i] # None => profile'[i] # None

LEMMA RegisterCalled ==
  ASSUME TypeOK, FreshIds, NEW a \in Account, NEW to \in Account, NEW b \in Bps,
         NEW x \in Tx \cup {Foreign}, RegisterAs(a, to, b, x)
  PROVE  \E e \in Event : Called(e)
  <1> DEFINE fresh == [owner |-> a, settlement |-> to, bps |-> b, active |-> TRUE]
  <1>1. fresh \in Profile
    BY DEF Profile
  <1>2. PICK n \in Id : n = nextId
    BY DEF RegisterAs, Register
  <1>3. profile' = [profile EXCEPT ![n] = fresh]
    BY <1>2 DEF RegisterAs, Register
  <1> HIDE DEF fresh
  <1>4. profile[n] = None
    BY <1>2 DEF FreshIds, Id
  <1>5. profile'[n] # None
    BY <1>1, <1>3, AbsentProfile DEF TypeOK, MerchantTypeOK
  <1> DEFINE e == [topic |-> "reg", id |-> n, token |-> Native, amount |-> 0, commission |-> 0, tx |-> x]
  <1>6. e \in Event /\ e.id = n
    BY SettlementAssumption DEF Event
  <1>7. events' = Append(events, e)
    BY <1>2 DEF RegisterAs, Publish
  <1> HIDE DEF e
  <1>8. QED
    BY <1>4, <1>5, <1>6, <1>7 DEF Called

LEMMA SaleCalled ==
  ASSUME TypeOK, NEW a \in Account, NEW i \in Id, NEW t \in Token, NEW n \in Amount,
         NEW x \in Tx \cup {Foreign}, SaleAs(a, i, t, n, x)
  PROVE  \E e \in Event : Called(e)
  <1> DEFINE e == [topic |-> "sale", id |-> i, token |-> t, amount |-> n, commission |-> 0, tx |-> x]
  <1>1. e \in Event /\ e.id = i /\ e.topic = "sale"
    BY MerchantAssumption, SMTT(20) DEF Event
  <1>2. events' = Append(events, e)
    BY DEF SaleAs, Publish
  <1> HIDE DEF e
  <1>3. profile[i] # None /\ profile' = profile
    BY DEF SaleAs, RecordSale
  <1>4. QED
    BY <1>1, <1>2, <1>3 DEF Called

LEMMA SettleCalled ==
  ASSUME TypeOK, NEW i \in Id, NEW t \in Token, NEW x \in Tx \cup {Foreign}, SettleAs(i, t, x)
  PROVE  \E e \in Event : Called(e)
  <1>1. profile[i] # None /\ profile' = profile
    BY DEF SettleAs, Settle
  <1>2. profile[i] \in Profile /\ balance[<<i, t>>] \in Nat
    BY <1>1 DEF TypeOK, MerchantTypeOK, Till
  <1>3. Commission(i, balance[<<i, t>>]) \in 0..balance[<<i, t>>]
    BY <1>2, CommissionInBounds
  <1>4. NetOf(i, t) \in Nat /\ Commission(i, balance[<<i, t>>]) \in Nat
    BY <1>2, <1>3 DEF NetOf
  <1> DEFINE e == [topic |-> "settle", id |-> i, token |-> t, amount |-> NetOf(i, t),
                   commission |-> Commission(i, balance[<<i, t>>]), tx |-> x]
  <1>5. e \in Event /\ e.id = i /\ e.topic = "settle"
    BY <1>4 DEF Event
  <1>6. events' = Append(events, e)
    BY DEF SettleAs, Publish
  <1> HIDE DEF e
  <1>7. QED
    BY <1>1, <1>5, <1>6 DEF Called

-----------------------------------------------------------------------------
(* The inductive invariant.                                                 *)

\* A busy request submits an envelope.
Requests == \A h \in Handler : req[h].at # "idle" => req[h].tx \in Tx

\* Sales and settlements are prepared for a linked merchant, a settlement with its row.
Prepared ==
  \A x \in Tx :
    /\ x.call # "register" /\ fate[x] # "none" => IdOf(x) # None
    /\ x.call = "settle" => (settlement[x.row].status = "ABSENT" <=> fate[x] = "none")

\* Every event is of a registered merchant; the registration's comes first.
Log ==
  \A k \in DOMAIN events :
    /\ profile[events[k].id] # None
    /\ events[k].topic = "reg" =>
         \A i \in DOMAIN events : events[i].topic = "sale" /\ events[i].id = events[k].id => k < i

\* No sale has two credits, nor a credit and a tick about to credit it, nor two ticks.
Credited ==
  /\ \A p, q \in DOMAIN credits : credits[p] = credits[q] => p = q
  /\ \A j \in Tick : stash[j] # 0 => stash[j] <= seen + 1 /\ \A p \in DOMAIN credits : credits[p] # stash[j]
  /\ \A i, j \in Tick : stash[i] = stash[j] /\ stash[i] # 0 => i = j

\* A completed row names an event of its merchant; no other row shows an amount.
Settlements ==
  \A s \in SettleRow :
    /\ settlement[s].status \in {"ABSENT", "PROCESSING"} => settlement[s].amount = 0
    /\ settlement[s].status = "COMPLETED" =>
         /\ merchant[Owner[s]].id # None
         /\ \E k \in DOMAIN events :
              /\ events[k].topic = "settle" /\ events[k].id = merchant[Owner[s]].id
              /\ events[k].tx = settlement[s].settleTx
              /\ settlement[s].amount = IF events[k].token = Native THEN events[k].amount ELSE 0
    /\ settlement[s].status = "FAILED" => \E x \in Tx : x.row = s /\ fate[x] = "reverted"

LEMMA EventTyped ==
  ASSUME TypeOK
  PROVE  \A k \in DOMAIN events :
           /\ events[k] \in Event /\ events[k].tx \in Tx \cup {Foreign} /\ events[k].id \in Id
           /\ events[k].topic \in {"reg", "sale", "settle"} /\ events[k].amount \in Nat
  <1>1. \A k \in DOMAIN events : events[k] \in Event
    BY DEF TypeOK, CallsTypeOK
  <1>2. QED
    BY <1>1 DEF Event

LEMMA Positions ==
  ASSUME TypeOK
  PROVE  /\ DOMAIN events = 1..Len(events) /\ Len(events) \in Nat
         /\ seen \in Nat /\ seen <= Len(events)
         /\ \A k \in DOMAIN events : k \in Nat /\ 1 <= k /\ k <= Len(events)
  BY DEF TypeOK, CallsTypeOK

LEMMA MerchantOf ==
  ASSUME TypeOK, NEW m \in Merchant
  PROVE  /\ merchant[m] \in [hash : Tx \cup {NoTx}, id : Id \cup {None}]
         /\ merchant[m].hash \in Tx \cup {NoTx} /\ merchant[m].id \in Id \cup {None}
  BY DEF TypeOK

LEMMA CallOf ==
  ASSUME TypeOK, Prepared, NEW x \in Tx, fate[x] # "none"
  PROVE  x.call # "register" => IdOf(x) \in Id
  BY TxRow, MerchantOf DEF Prepared, IdOf

LEMMA UpsetTyped ==
  ASSUME CallsTypeOK(Event), NEW kind \in {"again", "dropped", "died"}, Upset(kind)
  PROVE  upsets' \in [UpsetKind -> 0..(MaxForeign + MaxUpsets)]
  <1>1. /\ upsets["again"] \in Nat /\ upsets["dropped"] \in Nat /\ upsets["died"] \in Nat
        /\ upsets \in [UpsetKind -> 0..(MaxForeign + MaxUpsets)]
    BY CallsAssumption DEF CallsTypeOK, UpsetKind
  <1>2. upsets[kind] + 1 \in 0..(MaxForeign + MaxUpsets)
    BY <1>1, CallsAssumption DEF Upset, UpsetTotal
  <1>3. QED
    BY <1>1, <1>2 DEF Upset

LEMMA ForeignTyped ==
  ASSUME CallsTypeOK(Event), CalledDirectly
  PROVE  upsets' \in [UpsetKind -> 0..(MaxForeign + MaxUpsets)]
  <1>1. upsets["foreign"] + 1 \in 0..(MaxForeign + MaxUpsets)
    BY CallsAssumption DEF CallsTypeOK, UpsetKind, CalledDirectly
  <1>2. QED
    BY <1>1 DEF CallsTypeOK, CalledDirectly

LEMMA PrepareTyped ==
  ASSUME CallsTypeOK(Event), NEW x \in Tx, Prepare(x) \/ Reverts(x)
  PROVE  CallsTypeOK(Event)'
  BY DEF CallsTypeOK, Prepare, Reverts, Fate

LEMMA StartTyped ==
  ASSUME CallsTypeOK(Event), NEW h \in Handler, NEW x \in Tx, Start(h, x)
  PROVE  CallsTypeOK(Event)'
  BY DEF CallsTypeOK, Start

LEMMA NetworkTyped ==
  ASSUME CallsTypeOK(Event), NEW h \in Handler, CallNetwork(h)
  PROVE  CallsTypeOK(Event)'
  <1>1. fate' \in [Tx -> Fate]
    BY DEF CallsTypeOK, CallNetwork, Fate
  <1>2. req' \in [Handler -> [at : {"idle", "calling", "waiting", "threw"}, tx : Tx \cup {NoTx}]]
    BY DEF CallsTypeOK, CallNetwork
  <1>3. QED
    BY <1>1, <1>2 DEF CallsTypeOK, CallNetwork

LEMMA DoneTyped ==
  ASSUME CallsTypeOK(Event), NEW h \in Handler, Done(h)
  PROVE  CallsTypeOK(Event)'
  BY DEF CallsTypeOK, Done, Idle

LEMMA DiesTyped ==
  ASSUME CallsTypeOK(Event), NEW h \in Handler, Dies(h)
  PROVE  CallsTypeOK(Event)'
  <1>1. upsets' \in [UpsetKind -> 0..(MaxForeign + MaxUpsets)]
    BY UpsetTyped DEF Dies
  <1>2. req' \in [Handler -> [at : {"idle", "calling", "waiting", "threw"}, tx : Tx \cup {NoTx}]]
    BY DEF CallsTypeOK, Dies, Idle
  <1>3. QED
    BY <1>1, <1>2 DEF CallsTypeOK, Dies

LEMMA MetTyped ==
  ASSUME CallsTypeOK(Event), NEW k \in DOMAIN events, Delivered(k) \/ Dropped(k)
  PROVE  CallsTypeOK(Event)'
  <1>1. upsets' \in [UpsetKind -> 0..(MaxForeign + MaxUpsets)]
    BY UpsetTyped DEF Delivered, Dropped, CallsTypeOK
  <1>2. seen' \in 0..Len(events)
    BY DEF CallsTypeOK, Delivered, Dropped, First
  <1>3. QED
    BY <1>1, <1>2 DEF CallsTypeOK, Delivered, Dropped

(* What the composed system does to the contract, the contract allows.         *)
LEMMA StepContract == TypeOK /\ Prepared /\ [Next]_vars => [MerchantNext]_merchantVars
  <1> SUFFICES ASSUME TypeOK, Prepared, [Next]_vars PROVE [MerchantNext]_merchantVars
    OBVIOUS
  <1>1. CASE UNCHANGED <<merchantVars>>
    BY <1>1
  <1>2. ASSUME DirectCall PROVE [MerchantNext]_merchantVars
    BY <1>2 DEF DirectCall, MerchantNext, RegisterAs, SaleAs, SettleAs
  <1>3. ASSUME NEW x \in Tx, TxApplies(x) PROVE [MerchantNext]_merchantVars
    <2>1. fate[x] # "none" /\ Wallet[RowMerchant(x)] \in Account
      BY <1>3, TxRow DEF TxApplies, Applies
    <2>2. x.call # "register" => IdOf(x) \in Id /\ Asset[x.row] \in Token
      BY <2>1, CallOf, TxRow
    <2>3. Price \in Amount /\ Payer \in Account /\ Rate \in Bps
      BY SettlementAssumption
    <2>4. QED
      BY <1>3, <2>1, <2>2, <2>3 DEF TxApplies, MerchantNext, RegisterAs, SaleAs, SettleAs
  <1> QED
    BY <1>1, <1>2, <1>3
    DEF Next, vars, callVars, rowVars, TxReverts, PrepareCall, Submit, Calls, PersistHash,
      PersistFailed, Gone, OnMerchantRegistered, OnMerchantSettled, SaleIgnored,
      EventDropped, RecordEvent, CreditSale, CreditLost, Accepted, CallNetwork, Delivered,
      Dies, Done, Dropped, Prepare, Refused, Reverts, Start, Threw, Upset

LEMMA StepLedger == TypeOK /\ FreshIds /\ Prepared /\ [Next]_vars => (events' = events \/ \E e \in Event : Called(e))
  <1> SUFFICES ASSUME TypeOK, FreshIds, Prepared, [Next]_vars PROVE (events' = events \/ \E e \in Event : Called(e))
    OBVIOUS
  <1>1. CASE UNCHANGED <<events, merchantVars>>
    BY <1>1
  <1>2. ASSUME DirectCall PROVE (events' = events \/ \E e \in Event : Called(e))
    BY <1>2, RegisterCalled, SaleCalled, SettleCalled DEF DirectCall
  <1>3. ASSUME NEW x \in Tx, TxApplies(x) PROVE (events' = events \/ \E e \in Event : Called(e))
    <2>1. fate[x] # "none" /\ Wallet[RowMerchant(x)] \in Account
      BY <1>3, TxRow DEF TxApplies, Applies
    <2>2. x.call # "register" => IdOf(x) \in Id /\ Asset[x.row] \in Token
      BY <2>1, CallOf, TxRow
    <2>3. Price \in Amount /\ Payer \in Account /\ Rate \in Bps
      BY SettlementAssumption
    <2>4. QED
      BY <1>3, <2>1, <2>2, <2>3, RegisterCalled, SaleCalled, SettleCalled DEF TxApplies
  <1> QED
    BY <1>1, <1>2, <1>3
    DEF Next, vars, callVars, rowVars, TxReverts, PrepareCall, Submit, Calls, PersistHash,
      PersistFailed, Gone, OnMerchantRegistered, OnMerchantSettled, SaleIgnored,
      EventDropped, RecordEvent, CreditSale, CreditLost, Accepted, CallNetwork, Delivered,
      Dies, Done, Dropped, Prepare, Refused, Reverts, Start, Threw, Upset

\* What was decided stays decided.
FateKept ==
  \A x \in Tx : /\ fate[x] \in {"applied", "reverted"} => fate'[x] = fate[x]
                /\ fate[x] # "none" => fate'[x] # "none"

LEMMA StepFate == TypeOK /\ [Next]_vars => FateKept
  <1> SUFFICES ASSUME TypeOK, [Next]_vars PROVE FateKept
    OBVIOUS
  <1>1. CASE UNCHANGED <<fate>>
    BY <1>1 DEF FateKept
  <1>2. ASSUME NEW x \in Tx, TxApplies(x) PROVE FateKept
    BY <1>2 DEF TxApplies, Applies, callVars, FateKept, TypeOK, CallsTypeOK
  <1>3. ASSUME NEW x \in Tx, TxReverts(x) PROVE FateKept
    BY <1>3 DEF TxReverts, Reverts, callVars, FateKept, TypeOK, CallsTypeOK
  <1>4. ASSUME NEW x \in Tx, PrepareCall(x) PROVE FateKept
    BY <1>4 DEF PrepareCall, Prepare, callVars, FateKept, TypeOK, CallsTypeOK
  <1>5. ASSUME NEW h \in Handler, Calls(h) PROVE FateKept
    BY <1>5 DEF Calls, CallNetwork, callVars, FateKept, TypeOK, CallsTypeOK
  <1> QED
    BY <1>1, <1>2, <1>3, <1>4, <1>5
    DEF Next, vars, callVars, rowVars, DirectCall, Submit, PersistHash, PersistFailed, Gone,
      OnMerchantRegistered, OnMerchantSettled, SaleIgnored, EventDropped, RecordEvent,
      CreditSale, CreditLost, Accepted, CalledDirectly, Delivered, Dies, Done, Dropped,
      Refused, Start, Threw, Upset

\* Nothing published is taken back, nothing recorded is undone.
Grown ==
  /\ ProfilesKept /\ FateKept
  /\ DOMAIN events \subseteq DOMAIN events' /\ seen' \in Nat /\ seen <= seen'
  /\ \A k \in DOMAIN events : events'[k] = events[k]

LEMMA AppendsOne ==
  ASSUME TypeOK, NEW e \in Event, Called(e)
  PROVE  /\ Len(events') = Len(events) + 1 /\ Len(events) \in Nat
         /\ DOMAIN events = 1..Len(events) /\ DOMAIN events' = 1..(Len(events) + 1)
         /\ events'[Len(events) + 1] = e
         /\ \A k \in DOMAIN events : events'[k] = events[k]
  BY DEF TypeOK, CallsTypeOK, Called

LEMMA StepSeen == TypeOK /\ Credited /\ [Next]_vars => (seen' \in Nat /\ seen <= seen')
  <1> SUFFICES ASSUME TypeOK, Credited, [Next]_vars PROVE (seen' \in Nat /\ seen <= seen')
    OBVIOUS
  <1>1. CASE UNCHANGED <<seen>>
    BY <1>1, Positions
  <1>2. ASSUME DirectCall PROVE (seen' \in Nat /\ seen <= seen')
    BY <1>2, Positions DEF DirectCall, CalledDirectly
  <1>3. ASSUME NEW x \in Tx, TxApplies(x) PROVE (seen' \in Nat /\ seen <= seen')
    BY <1>3, Positions DEF TxApplies, Applies
  <1>4. ASSUME NEW k \in DOMAIN events, OnMerchantRegistered(k) PROVE (seen' \in Nat /\ seen <= seen')
    BY <1>4, Positions DEF OnMerchantRegistered, Delivered, First, Again
  <1>5. ASSUME NEW k \in DOMAIN events, OnMerchantSettled(k) PROVE (seen' \in Nat /\ seen <= seen')
    BY <1>5, Positions DEF OnMerchantSettled, Delivered, First, Again
  <1>6. ASSUME NEW k \in DOMAIN events, SaleIgnored(k) PROVE (seen' \in Nat /\ seen <= seen')
    BY <1>6, Positions DEF SaleIgnored, Delivered, First, Again
  <1>7. ASSUME NEW k \in DOMAIN events, EventDropped(k) PROVE (seen' \in Nat /\ seen <= seen')
    BY <1>7, Positions DEF EventDropped, Dropped, First
  <1>8. ASSUME NEW j \in Tick, CreditSale(j) PROVE (seen' \in Nat /\ seen <= seen')
    <2>1. stash[j] \in Nat
      BY <1>8, Positions DEF CreditSale, TypeOK
    <2>2. QED
      BY <1>8, <2>1, Positions DEF CreditSale
  <1>9. ASSUME NEW j \in Tick, CreditLost(j) PROVE (seen' \in Nat /\ seen <= seen')
    <2>1. stash[j] \in Nat
      BY <1>9, Positions DEF CreditLost, TypeOK
    <2>2. QED
      BY <1>9, <2>1, Positions DEF CreditLost
  <1> QED
    BY <1>1, <1>2, <1>3, <1>4, <1>5, <1>6, <1>7, <1>8, <1>9
    DEF Next, vars, callVars, rowVars, TxReverts, PrepareCall, Submit, Calls, PersistHash,
      PersistFailed, Gone, RecordEvent, Accepted, CallNetwork, Dies, Done, Prepare, Refused,
      Reverts, Start, Threw, Upset

LEMMA StepGrown ==
  ASSUME TypeOK, FreshIds, Prepared, Credited, [Next]_vars PROVE Grown
  <1>1. FateKept /\ seen' \in Nat /\ seen <= seen'
    BY StepFate, StepSeen
  <1>2. ProfilesKept
    <2>1. MerchantTypeOK /\ [MerchantNext]_merchantVars
      BY StepContract DEF TypeOK
    <2>2. CASE MerchantNext
      BY <2>1, <2>2, StepKeepsTills DEF OwnersAndTillsKept, ProfilesKept
    <2>3. CASE UNCHANGED merchantVars
      BY <2>3 DEF merchantVars, ProfilesKept
    <2>4. QED
      BY <2>1, <2>2, <2>3
  <1>3. CASE events' = events
    BY <1>1, <1>2, <1>3 DEF Grown
  <1>4. ASSUME NEW e \in Event, Called(e) PROVE Grown
    <2>1. /\ DOMAIN events = 1..Len(events) /\ DOMAIN events' = 1..(Len(events) + 1)
          /\ Len(events) \in Nat /\ \A k \in DOMAIN events : events'[k] = events[k]
      BY <1>4, AppendsOne
    <2>2. DOMAIN events \subseteq DOMAIN events'
      BY <2>1
    <2>3. QED
      BY <1>1, <1>2, <2>1, <2>2 DEF Grown
  <1>5. QED
    BY <1>3, <1>4, StepLedger

MerchantsTyped == merchant \in [Merchant -> [hash : Tx \cup {NoTx}, id : Id \cup {None}]]
SettlementsTyped == settlement \in [SettleRow -> SettlementRec]
SalesTyped ==
  /\ recorded \subseteq DOMAIN events
  /\ credits \in Seq(recorded)
  /\ stash \in [Tick -> recorded \cup {0}]

LEMMA StepCallsTyped == TypeOK /\ FreshIds /\ Requests /\ Prepared /\ Credited /\ [Next]_vars => CallsTypeOK(Event)'
  <1> SUFFICES ASSUME TypeOK, FreshIds, Requests, Prepared, Credited, [Next]_vars PROVE CallsTypeOK(Event)'
    OBVIOUS
  <1>1. CASE UNCHANGED <<callVars>>
    BY <1>1 DEF callVars, TypeOK, CallsTypeOK
  <1>2. ASSUME DirectCall PROVE CallsTypeOK(Event)'
    <2>1. events' \in Seq(Event) /\ Len(events) <= Len(events')
      <3>1. CASE events' = events
        BY <3>1, Positions DEF TypeOK, CallsTypeOK
      <3>2. ASSUME NEW e \in Event, Called(e) PROVE events' \in Seq(Event) /\ Len(events) <= Len(events')
        BY <3>2, Positions DEF Called, TypeOK, CallsTypeOK
      <3>3. QED
        BY <3>1, <3>2, StepLedger
    <2>2. upsets' \in [UpsetKind -> 0..(MaxForeign + MaxUpsets)]
      BY <1>2, ForeignTyped DEF DirectCall, TypeOK
    <2>3. QED
      BY <1>2, <2>1, <2>2, Positions DEF DirectCall, CalledDirectly, TypeOK, CallsTypeOK
  <1>3. ASSUME NEW x \in Tx, TxApplies(x) PROVE CallsTypeOK(Event)'
    <2>1. events' \in Seq(Event) /\ Len(events) <= Len(events')
      <3>1. CASE events' = events
        BY <3>1, Positions DEF TypeOK, CallsTypeOK
      <3>2. ASSUME NEW e \in Event, Called(e) PROVE events' \in Seq(Event) /\ Len(events) <= Len(events')
        BY <3>2, Positions DEF Called, TypeOK, CallsTypeOK
      <3>3. QED
        BY <3>1, <3>2, StepLedger
    <2>2. fate' \in [Tx -> Fate]
      BY <1>3 DEF TxApplies, Applies, TypeOK, CallsTypeOK, Fate
    <2>3. QED
      BY <1>3, <2>1, <2>2, Positions DEF TxApplies, Applies, TypeOK, CallsTypeOK
  <1>4. ASSUME NEW x \in Tx, TxReverts(x) PROVE CallsTypeOK(Event)'
    BY <1>4, PrepareTyped DEF TxReverts, TypeOK
  <1>5. ASSUME NEW x \in Tx, PrepareCall(x) PROVE CallsTypeOK(Event)'
    BY <1>5, PrepareTyped DEF PrepareCall, TypeOK
  <1>6. ASSUME NEW h \in Handler, NEW x \in Tx, Submit(h, x) PROVE CallsTypeOK(Event)'
    BY <1>6, StartTyped DEF Submit, TypeOK
  <1>7. ASSUME NEW h \in Handler, Calls(h) PROVE CallsTypeOK(Event)'
    BY <1>7, NetworkTyped DEF Calls, TypeOK
  <1>8. ASSUME NEW h \in Handler, PersistHash(h) PROVE CallsTypeOK(Event)'
    BY <1>8, DoneTyped DEF PersistHash, Accepted, TypeOK
  <1>9. ASSUME NEW h \in Handler, PersistFailed(h) PROVE CallsTypeOK(Event)'
    BY <1>9, DoneTyped DEF PersistFailed, Refused, TypeOK
  <1>10. ASSUME NEW h \in Handler, Gone(h) PROVE CallsTypeOK(Event)'
    BY <1>10, DoneTyped, DiesTyped DEF Gone, Threw, TypeOK
  <1>11. ASSUME NEW k \in DOMAIN events, OnMerchantRegistered(k) PROVE CallsTypeOK(Event)'
    BY <1>11, MetTyped DEF OnMerchantRegistered, TypeOK
  <1>12. ASSUME NEW k \in DOMAIN events, OnMerchantSettled(k) PROVE CallsTypeOK(Event)'
    BY <1>12, MetTyped DEF OnMerchantSettled, TypeOK
  <1>13. ASSUME NEW k \in DOMAIN events, SaleIgnored(k) PROVE CallsTypeOK(Event)'
    BY <1>13, MetTyped DEF SaleIgnored, TypeOK
  <1>14. ASSUME NEW k \in DOMAIN events, EventDropped(k) PROVE CallsTypeOK(Event)'
    BY <1>14, MetTyped DEF EventDropped, TypeOK
  <1>15. ASSUME NEW j \in Tick, NEW k \in DOMAIN events, RecordEvent(j, k) PROVE CallsTypeOK(Event)'
    <2>1. upsets' \in [UpsetKind -> 0..(MaxForeign + MaxUpsets)]
      BY <1>15, UpsetTyped DEF RecordEvent, TypeOK, CallsTypeOK
    <2>2. QED
      BY <1>15, <2>1 DEF RecordEvent, TypeOK, CallsTypeOK
  <1>16. ASSUME NEW j \in Tick, CreditSale(j) PROVE CallsTypeOK(Event)'
    <2>1. stash[j] \in DOMAIN events
      BY <1>16 DEF CreditSale, TypeOK
    <2>2. QED
      BY <1>16, <2>1, Positions DEF CreditSale, TypeOK, CallsTypeOK
  <1>17. ASSUME NEW j \in Tick, CreditLost(j) PROVE CallsTypeOK(Event)'
    <2>1. stash[j] \in DOMAIN events
      BY <1>17 DEF CreditLost, TypeOK
    <2>2. upsets' \in [UpsetKind -> 0..(MaxForeign + MaxUpsets)]
      BY <1>17, UpsetTyped DEF CreditLost, TypeOK
    <2>3. seen' \in 0..Len(events)
      BY <1>17, <2>1, Positions DEF CreditLost, TypeOK, CallsTypeOK
    <2>4. QED
      BY <1>17, <2>2, <2>3 DEF CreditLost, TypeOK, CallsTypeOK
  <1> QED
    BY <1>1, <1>2, <1>3, <1>4, <1>5, <1>6, <1>7, <1>8, <1>9, <1>10, <1>11, <1>12, <1>13,
      <1>14, <1>15, <1>16, <1>17
    DEF Next, vars, callVars, rowVars

\* What a step may do to a merchant row.
Met(k) == k \in DOMAIN events /\ k <= seen'

MerchantChanges(m) ==
  \/ merchant'[m].hash \in Tx /\ merchant'[m].id = merchant[m].id
  \/ /\ merchant[m].id = None
     /\ \E k \in DOMAIN events : /\ Met(k) /\ events[k].topic = "reg"
                                 /\ merchant'[m].id = events[k].id

MerchantsMove == \A m \in Merchant : merchant'[m] = merchant[m] \/ MerchantChanges(m)

LEMMA WhenDelivered ==
  ASSUME TypeOK, NEW k \in DOMAIN events, Delivered(k) PROVE Met(k)
  BY Positions DEF Delivered, First, Again, Met

LEMMA StepMerchantsTyped == TypeOK /\ Requests /\ [Next]_vars => MerchantsTyped'
  <1> SUFFICES ASSUME TypeOK, Requests, [Next]_vars PROVE MerchantsTyped'
    OBVIOUS
  <1>1. CASE UNCHANGED <<merchant>>
    BY <1>1 DEF MerchantsTyped, TypeOK
  <1>2. ASSUME NEW h \in Handler, PersistHash(h) PROVE MerchantsTyped'
    <2>1. req[h].tx \in Tx
      BY <1>2 DEF PersistHash, Accepted, Requests
    <2>2. QED
      BY <1>2, <2>1 DEF PersistHash, MerchantsTyped, TypeOK
  <1>3. ASSUME NEW k \in DOMAIN events, OnMerchantRegistered(k) PROVE MerchantsTyped'
    <2>1. events[k].id \in Id
      BY EventTyped
    <2>2. \A old \in [hash : Tx \cup {NoTx}, id : Id \cup {None}] :
            [old EXCEPT !.id = events[k].id] \in [hash : Tx \cup {NoTx}, id : Id \cup {None}]
      BY <2>1
    <2>3. QED
      BY <1>3, <2>2 DEF OnMerchantRegistered, MerchantsTyped, TypeOK
  <1> QED
    BY <1>1, <1>2, <1>3
    DEF Next, vars, callVars, rowVars, DirectCall, TxApplies, TxReverts, PrepareCall, Submit,
      Calls, PersistFailed, Gone, OnMerchantSettled, SaleIgnored, EventDropped, RecordEvent,
      CreditSale, CreditLost, Applies, CallNetwork, CalledDirectly, Delivered, Dies, Done,
      Dropped, Prepare, Refused, Reverts, Start, Threw, Upset

LEMMA StepMerchants == TypeOK /\ Requests /\ [Next]_vars => MerchantsMove
  <1> SUFFICES ASSUME TypeOK, Requests, [Next]_vars PROVE MerchantsMove
    OBVIOUS
  <1>1. CASE UNCHANGED <<merchant>>
    BY <1>1 DEF MerchantsMove
  <1>2. ASSUME NEW h \in Handler, PersistHash(h) PROVE MerchantsMove
    <2>1. req[h].tx \in Tx
      BY <1>2 DEF PersistHash, Accepted, Requests
    <2>2. ASSUME NEW q \in Merchant PROVE merchant'[q] = merchant[q] \/ MerchantChanges(q)
      <3>1. CASE merchant' = [merchant EXCEPT ![req[h].tx.row].hash = req[h].tx] /\ q = req[h].tx.row
        <4>1. merchant'[q] = [merchant[q] EXCEPT !.hash = req[h].tx]
          BY <3>1 DEF TypeOK
        <4>2. merchant'[q].hash = req[h].tx /\ merchant'[q].id = merchant[q].id
          BY <4>1, MerchantOf
        <4>3. QED
          BY <2>1, <4>2 DEF MerchantChanges
      <3>2. CASE ~(merchant' = [merchant EXCEPT ![req[h].tx.row].hash = req[h].tx] /\ q = req[h].tx.row)
        BY <1>2, <3>2 DEF PersistHash, TypeOK
      <3>3. QED
        BY <3>1, <3>2
    <2>3. QED
      BY <2>2 DEF MerchantsMove
  <1>3. ASSUME NEW k \in DOMAIN events, OnMerchantRegistered(k) PROVE MerchantsMove
    <2>1. Met(k) /\ events[k].topic = "reg"
      BY <1>3, WhenDelivered DEF OnMerchantRegistered
    <2>2. ASSUME NEW q \in Merchant PROVE merchant'[q] = merchant[q] \/ MerchantChanges(q)
      <3>1. \/ merchant'[q] = merchant[q]
            \/ merchant[q].id = None /\ merchant'[q] = [merchant[q] EXCEPT !.id = events[k].id]
        BY <1>3 DEF OnMerchantRegistered
      <3>2. merchant'[q] = [merchant[q] EXCEPT !.id = events[k].id] => merchant'[q].id = events[k].id
        BY MerchantOf
      <3>3. QED
        BY <2>1, <3>1, <3>2 DEF MerchantChanges
    <2>3. QED
      BY <2>2 DEF MerchantsMove
  <1> QED
    BY <1>1, <1>2, <1>3
    DEF Next, vars, callVars, rowVars, DirectCall, TxApplies, TxReverts, PrepareCall, Submit,
      Calls, PersistFailed, Gone, OnMerchantSettled, SaleIgnored, EventDropped, RecordEvent,
      CreditSale, CreditLost, Applies, CallNetwork, CalledDirectly, Delivered, Dies, Done,
      Dropped, Prepare, Refused, Reverts, Start, Threw, Upset

LEMMA NoneIsNoId == \A i \in Id : i # None
  <1>1. \A i \in Id : i \in Int
    BY MerchantAssumption DEF Id
  <1>2. QED
    BY <1>1, MerchantAssumption

\* The link of a merchant is for good.
LEMMA IdStays ==
  ASSUME MerchantsMove, NEW m \in Merchant, merchant[m].id # None
  PROVE  merchant'[m].id = merchant[m].id
  BY DEF MerchantsMove, MerchantChanges

\* What a step may do to a settlement row.
SettlementChanges(s) ==
  \/ /\ settlement[s].status = "ABSENT" /\ settlement'[s].status = "PROCESSING"
     /\ settlement'[s].amount = settlement[s].amount
     /\ \E x \in Tx : x.call = "settle" /\ x.row = s /\ fate'[x] # "none"
  \/ /\ settlement'[s].status = "FAILED"
     /\ \E x \in Tx : x.call = "settle" /\ x.row = s /\ fate[x] = "reverted"
  \/ /\ settlement[s].status = "PROCESSING" /\ settlement'[s].status = "COMPLETED"
     /\ \E k \in DOMAIN events :
          /\ events[k].topic = "settle" /\ events[k].id = merchant[Owner[s]].id
          /\ events[k].tx = settlement'[s].settleTx
          /\ settlement'[s].amount = IF events[k].token = Native THEN events[k].amount ELSE settlement[s].amount

SettlementsMove == \A s \in SettleRow : settlement'[s] = settlement[s] \/ SettlementChanges(s)

LEMMA SettlementOf ==
  ASSUME TypeOK, NEW s \in SettleRow
  PROVE  /\ settlement[s] \in SettlementRec /\ settlement[s].amount \in Nat
         /\ settlement[s].status \in {"ABSENT", "PROCESSING", "COMPLETED", "FAILED"}
         /\ Owner[s] \in Merchant
  <1>1. settlement[s] \in SettlementRec
    BY DEF TypeOK
  <1>2. QED
    BY <1>1, SettlementAssumption DEF SettlementRec

\* One envelope settles a row.
LEMMA OneEnvelope ==
  ASSUME NEW x \in Tx, NEW y \in Tx, x.call = y.call, x.row = y.row PROVE x = y
  BY SettlementAssumption DEF Envelopes

LEMMA StepSettlementsTyped == TypeOK /\ Requests /\ [Next]_vars => SettlementsTyped'
  <1> SUFFICES ASSUME TypeOK, Requests, [Next]_vars PROVE SettlementsTyped'
    OBVIOUS
  <1>1. CASE UNCHANGED <<settlement>>
    BY <1>1 DEF SettlementsTyped, TypeOK
  <1>2. ASSUME NEW x \in Tx, PrepareCall(x) PROVE SettlementsTyped'
    <2>1. \A old \in SettlementRec : [old EXCEPT !.status = "PROCESSING"] \in SettlementRec
      BY DEF SettlementRec
    <2>2. QED
      BY <1>2, <2>1, TxRow DEF PrepareCall, SettlementsTyped, TypeOK
  <1>3. ASSUME NEW h \in Handler, PersistFailed(h) PROVE SettlementsTyped'
    BY <1>3 DEF PersistFailed, SettlementsTyped, TypeOK, SettlementRec
  <1>4. ASSUME NEW k \in DOMAIN events, OnMerchantSettled(k) PROVE SettlementsTyped'
    <2>1. events[k].tx \in Tx \cup {NoTx, Foreign} /\ events[k].amount \in Nat
      BY EventTyped
    <2>2. ASSUME NEW s \in SettleRow
          PROVE [status |-> "COMPLETED", settleTx |-> events[k].tx,
                 amount |-> IF events[k].token = Native THEN AmountShown(events[k]) ELSE settlement[s].amount]
                   \in SettlementRec
      BY <2>1, SettlementOf DEF SettlementRec, AmountShown
    <2>3. QED
      BY <1>4, <2>2 DEF OnMerchantSettled, SettlementsTyped, TypeOK
  <1> QED
    BY <1>1, <1>2, <1>3, <1>4
    DEF Next, vars, callVars, rowVars, DirectCall, TxApplies, TxReverts, Submit, Calls,
      PersistHash, Gone, OnMerchantRegistered, SaleIgnored, EventDropped, RecordEvent,
      CreditSale, CreditLost, Accepted, Applies, CallNetwork, CalledDirectly, Delivered,
      Dies, Done, Dropped, Reverts, Start, Threw, Upset

LEMMA StepSettlements == TypeOK /\ Requests /\ Prepared /\ [Next]_vars => SettlementsMove
  <1> SUFFICES ASSUME TypeOK, Requests, Prepared, [Next]_vars PROVE SettlementsMove
    OBVIOUS
  <1>1. CASE UNCHANGED <<settlement>>
    BY <1>1 DEF SettlementsMove
  <1>2. ASSUME NEW x \in Tx, PrepareCall(x) PROVE SettlementsMove
    <2>1. ASSUME NEW s \in SettleRow PROVE settlement'[s] = settlement[s] \/ SettlementChanges(s)
      <3>1. CASE x.call = "settle" /\ s = x.row
        <4>1. settlement'[s] = [settlement[s] EXCEPT !.status = "PROCESSING"]
          BY <1>2, <3>1 DEF PrepareCall, TypeOK
        <4>2. settlement'[s].status = "PROCESSING" /\ settlement'[s].amount = settlement[s].amount
          BY <4>1, SettlementOf DEF SettlementRec
        <4>3. settlement[s].status = "ABSENT" /\ fate'[x] # "none"
          BY <1>2, <3>1 DEF PrepareCall, Prepare, Prepared, TypeOK, CallsTypeOK
        <4>4. QED
          BY <3>1, <4>2, <4>3 DEF SettlementChanges
      <3>2. CASE ~(x.call = "settle" /\ s = x.row)
        BY <1>2, <3>2 DEF PrepareCall, TypeOK
      <3>3. QED
        BY <3>1, <3>2
    <2>2. QED
      BY <2>1 DEF SettlementsMove
  <1>3. ASSUME NEW h \in Handler, PersistFailed(h) PROVE SettlementsMove
    <2>1. req[h].tx \in Tx /\ fate[req[h].tx] = "reverted"
      BY <1>3 DEF PersistFailed, Refused, Requests
    <2>2. ASSUME NEW s \in SettleRow PROVE settlement'[s] = settlement[s] \/ SettlementChanges(s)
      <3>1. CASE req[h].tx.call = "settle" /\ s = req[h].tx.row
        <4>1. settlement'[s] = [settlement[s] EXCEPT !.status = "FAILED"]
          BY <1>3, <3>1 DEF PersistFailed, TypeOK
        <4>2. settlement'[s].status = "FAILED"
          BY <4>1, SettlementOf DEF SettlementRec
        <4>3. QED
          BY <2>1, <3>1, <4>2 DEF SettlementChanges
      <3>2. CASE ~(req[h].tx.call = "settle" /\ s = req[h].tx.row)
        BY <1>3, <3>2 DEF PersistFailed, TypeOK
      <3>3. QED
        BY <3>1, <3>2
    <2>3. QED
      BY <2>2 DEF SettlementsMove
  <1>4. ASSUME NEW k \in DOMAIN events, OnMerchantSettled(k) PROVE SettlementsMove
    <2>1. ASSUME NEW s \in SettleRow PROVE settlement'[s] = settlement[s] \/ SettlementChanges(s)
      <3> DEFINE new == [status |-> "COMPLETED", settleTx |-> events[k].tx,
                         amount |-> IF events[k].token = Native THEN AmountShown(events[k]) ELSE settlement[s].amount]
      <3>1. CASE merchant[Owner[s]].id = events[k].id /\ settlement[s].status = "PROCESSING"
        <4>1. settlement'[s] = new
          BY <1>4, <3>1 DEF OnMerchantSettled
        <4>2. /\ new.status = "COMPLETED" /\ new.settleTx = events[k].tx
              /\ new.amount = IF events[k].token = Native THEN events[k].amount ELSE settlement[s].amount
          BY DEF AmountShown
        <4> HIDE DEF new
        <4>3. events[k].topic = "settle"
          BY <1>4 DEF OnMerchantSettled
        <4>4. QED
          BY <3>1, <4>1, <4>2, <4>3 DEF SettlementChanges
      <3>2. CASE ~(merchant[Owner[s]].id = events[k].id /\ settlement[s].status = "PROCESSING")
        BY <1>4, <3>2 DEF OnMerchantSettled
      <3>3. QED
        BY <3>1, <3>2
    <2>2. QED
      BY <2>1 DEF SettlementsMove
  <1> QED
    BY <1>1, <1>2, <1>3, <1>4
    DEF Next, vars, callVars, rowVars, DirectCall, TxApplies, TxReverts, Submit, Calls,
      PersistHash, Gone, OnMerchantRegistered, SaleIgnored, EventDropped, RecordEvent,
      CreditSale, CreditLost, Accepted, Applies, CallNetwork, CalledDirectly, Delivered,
      Dies, Done, Dropped, Reverts, Start, Threw, Upset

LEMMA StepRequests == TypeOK /\ Requests /\ [Next]_vars => Requests'
  <1> SUFFICES ASSUME TypeOK, Requests, [Next]_vars PROVE Requests'
    OBVIOUS
  <1>1. CASE UNCHANGED <<req>>
    BY <1>1 DEF Requests
  <1>2. ASSUME NEW h \in Handler, NEW x \in Tx, Submit(h, x) PROVE Requests'
    BY <1>2 DEF Submit, Start, Idle, Requests, TypeOK, CallsTypeOK
  <1>3. ASSUME NEW h \in Handler, Calls(h) PROVE Requests'
    BY <1>3 DEF Calls, CallNetwork, Idle, Requests, TypeOK, CallsTypeOK
  <1>4. ASSUME NEW h \in Handler, PersistHash(h) PROVE Requests'
    BY <1>4 DEF PersistHash, Accepted, Done, Idle, Requests, TypeOK, CallsTypeOK
  <1>5. ASSUME NEW h \in Handler, PersistFailed(h) PROVE Requests'
    BY <1>5 DEF PersistFailed, Refused, Done, Idle, Requests, TypeOK, CallsTypeOK
  <1>6. ASSUME NEW h \in Handler, Gone(h) PROVE Requests'
    <2>1. req' = [req EXCEPT ![h] = Idle]
      BY <1>6 DEF Gone, Threw, Done, Dies
    <2>2. QED
      BY <2>1 DEF Idle, Requests, TypeOK, CallsTypeOK
  <1> QED
    BY <1>1, <1>2, <1>3, <1>4, <1>5, <1>6
    DEF Next, vars, callVars, rowVars, DirectCall, TxApplies, TxReverts, PrepareCall,
      OnMerchantRegistered, OnMerchantSettled, SaleIgnored, EventDropped, RecordEvent,
      CreditSale, CreditLost, Applies, CalledDirectly, Delivered, Dropped, Prepare, Reverts

\* Whoever prepares an envelope did the rest of PrepareCall, too.
OpensWell ==
  \A x \in Tx : fate[x] = "none" /\ fate'[x] # "none" =>
    /\ x.call # "register" => IdOf(x) # None
    /\ x.call = "settle" => settlement'[x.row].status = "PROCESSING"

LEMMA StepOpens == TypeOK /\ [Next]_vars => OpensWell
  <1> SUFFICES ASSUME TypeOK, [Next]_vars PROVE OpensWell
    OBVIOUS
  <1>1. CASE UNCHANGED <<fate>>
    BY <1>1 DEF OpensWell
  <1>2. ASSUME NEW x \in Tx, TxApplies(x) PROVE OpensWell
    BY <1>2 DEF TxApplies, Applies, OpensWell, TypeOK, CallsTypeOK
  <1>3. ASSUME NEW x \in Tx, TxReverts(x) PROVE OpensWell
    BY <1>3 DEF TxReverts, Reverts, OpensWell, TypeOK, CallsTypeOK
  <1>4. ASSUME NEW x \in Tx, PrepareCall(x) PROVE OpensWell
    <2>1. \A y \in Tx : y # x => fate'[y] = fate[y]
      BY <1>4 DEF PrepareCall, Prepare, TypeOK, CallsTypeOK
    <2>2. x.call # "register" => IdOf(x) # None
      BY <1>4 DEF PrepareCall
    <2>3. x.call = "settle" => settlement'[x.row].status = "PROCESSING"
      BY <1>4, TxRow DEF PrepareCall, TypeOK, SettlementRec
    <2>4. QED
      BY <2>1, <2>2, <2>3 DEF OpensWell
  <1>5. ASSUME NEW h \in Handler, Calls(h) PROVE OpensWell
    BY <1>5 DEF Calls, CallNetwork, OpensWell, TypeOK, CallsTypeOK
  <1> QED
    BY <1>1, <1>2, <1>3, <1>4, <1>5
    DEF Next, vars, callVars, rowVars, DirectCall, Submit, PersistHash, PersistFailed, Gone,
      OnMerchantRegistered, OnMerchantSettled, SaleIgnored, EventDropped, RecordEvent,
      CreditSale, CreditLost, Accepted, CalledDirectly, Delivered, Dies, Done, Dropped,
      Refused, Start, Threw, Upset

LEMMA StepPrepared ==
  ASSUME TypeOK, Prepared, OpensWell, MerchantsMove, SettlementsMove, FateKept PROVE Prepared'
  <1> SUFFICES ASSUME NEW x \in Tx
      PROVE /\ x.call # "register" /\ fate'[x] # "none" => IdOf(x)' # None
            /\ x.call = "settle" => (settlement'[x.row].status = "ABSENT" <=> fate'[x] = "none")
    BY DEF Prepared
  <1>1. IdOf(x) # None => IdOf(x)' # None
    BY TxRow, IdStays DEF IdOf, RowMerchant
  <1>2. x.call # "register" /\ fate'[x] # "none" => IdOf(x)' # None
    BY <1>1 DEF Prepared, OpensWell
  <1>3. ASSUME x.call = "settle", fate[x] # "none"
        PROVE  settlement'[x.row].status # "ABSENT" /\ fate'[x] # "none"
    BY <1>3, TxRow DEF Prepared, FateKept, SettlementsMove, SettlementChanges
  <1>4. ASSUME x.call = "settle", fate[x] = "none"
        PROVE  settlement'[x.row].status = "ABSENT" <=> fate'[x] = "none"
    <2>1. settlement[x.row].status = "ABSENT" /\ x.row \in SettleRow
      BY <1>4, TxRow DEF Prepared
    <2>2. settlement'[x.row] # settlement[x.row] => fate'[x] # "none"
      BY <1>4, <2>1, OneEnvelope DEF SettlementsMove, SettlementChanges
    <2>3. QED
      BY <1>4, <2>1, <2>2 DEF OpensWell
  <1>5. QED
    BY <1>2, <1>3, <1>4

LEMMA OneMore ==
  \A n \in Nat : /\ n + 1 \in Nat /\ n + 1 \notin 1..n /\ n + 1 \in 1..(n + 1)
                 /\ \A k \in 1..(n + 1) : k = n + 1 \/ (k \in 1..n /\ k < n + 1)
  OBVIOUS

LEMMA StepLog ==
  ASSUME TypeOK, Log, ProfilesKept, events' = events \/ \E e \in Event : Called(e) PROVE Log'
  <1>1. CASE events' = events
    BY <1>1, EventTyped DEF Log, ProfilesKept
  <1>2. ASSUME NEW e \in Event, Called(e) PROVE Log'
    <2>0. PICK n \in Nat : n = Len(events)
      BY Positions
    <2>1. /\ DOMAIN events = 1..n /\ DOMAIN events' = 1..(n + 1)
          /\ events'[n + 1] = e /\ \A k \in DOMAIN events : events'[k] = events[k]
      BY <1>2, <2>0, AppendsOne
    <2>2. \A k \in DOMAIN events' : k = n + 1 \/ (k \in DOMAIN events /\ k < n + 1)
      BY <2>1, OneMore
    <2>3. /\ profile'[e.id] # None
          /\ e.topic = "reg" => profile[e.id] = None
          /\ \A k \in DOMAIN events : events[k].id \in Id /\ profile[events[k].id] # None /\ profile'[events[k].id] # None
      BY <1>2, EventTyped DEF Called, Log, ProfilesKept
    <2>4. ASSUME NEW k \in DOMAIN events' PROVE profile'[events'[k].id] # None
      BY <2>1, <2>2, <2>3
    <2>5. ASSUME NEW k \in DOMAIN events', events'[k].topic = "reg",
                 NEW i \in DOMAIN events', events'[i].topic = "sale", events'[i].id = events'[k].id
          PROVE  k < i
      <3>1. CASE k = n + 1
        <4>1. i # n + 1
          BY <2>1, <2>5, <3>1
        <4>2. events[i].id = e.id /\ i \in DOMAIN events
          BY <2>1, <2>2, <2>5, <3>1, <4>1
        <4>3. QED
          BY <2>1, <2>3, <2>5, <3>1, <4>2
      <3>2. CASE k # n + 1 /\ i = n + 1
        BY <2>2, <3>2
      <3>3. CASE k # n + 1 /\ i # n + 1
        BY <2>1, <2>2, <2>5, <3>3 DEF Log
      <3>4. QED
        BY <3>1, <3>2, <3>3
    <2>6. QED
      BY <2>4, <2>5 DEF Log
  <1>3. QED
    BY <1>1, <1>2

LEMMA StepSettlementsKept ==
  ASSUME TypeOK, Settlements, MerchantsMove, SettlementsMove, Grown PROVE Settlements'
  <1> SUFFICES ASSUME NEW s \in SettleRow
      PROVE /\ settlement'[s].status \in {"ABSENT", "PROCESSING"} => settlement'[s].amount = 0
            /\ settlement'[s].status = "COMPLETED" =>
                 /\ merchant'[Owner[s]].id # None
                 /\ \E k \in DOMAIN events' :
                      /\ events'[k].topic = "settle" /\ events'[k].id = merchant'[Owner[s]].id
                      /\ events'[k].tx = settlement'[s].settleTx
                      /\ settlement'[s].amount = IF events'[k].token = Native THEN events'[k].amount ELSE 0
            /\ settlement'[s].status = "FAILED" => \E x \in Tx : x.row = s /\ fate'[x] = "reverted"
    BY DEF Settlements
  <1> DEFINE Names(k) ==
        /\ events[k].topic = "settle" /\ events[k].id = merchant[Owner[s]].id
        /\ events[k].tx = settlement'[s].settleTx
        /\ settlement'[s].amount = IF events[k].token = Native THEN events[k].amount ELSE 0
  <1>1. ASSUME NEW k \in DOMAIN events, Names(k)
        PROVE  /\ merchant'[Owner[s]].id # None
               /\ \E i \in DOMAIN events' :
                    /\ events'[i].topic = "settle" /\ events'[i].id = merchant'[Owner[s]].id
                    /\ events'[i].tx = settlement'[s].settleTx
                    /\ settlement'[s].amount = IF events'[i].token = Native THEN events'[i].amount ELSE 0
    <2>1. merchant[Owner[s]].id # None /\ Owner[s] \in Merchant
      BY <1>1, EventTyped, NoneIsNoId, SettlementOf
    <2>2. merchant'[Owner[s]].id = merchant[Owner[s]].id
      BY <2>1, IdStays
    <2>3. k \in DOMAIN events' /\ events'[k] = events[k]
      BY DEF Grown
    <2>4. QED
      BY <1>1, <2>1, <2>2, <2>3
  <1>2. \A x \in Tx : fate[x] = "reverted" => fate'[x] = "reverted"
    BY DEF Grown, FateKept
  <1>3. CASE settlement'[s] = settlement[s]
    <2>1. settlement'[s].status = "COMPLETED" => \E k \in DOMAIN events : Names(k)
      BY <1>3 DEF Settlements
    <2>2. /\ settlement'[s].status \in {"ABSENT", "PROCESSING"} => settlement'[s].amount = 0
          /\ settlement'[s].status = "FAILED" => \E x \in Tx : x.row = s /\ fate'[x] = "reverted"
      BY <1>2, <1>3 DEF Settlements
    <2> HIDE DEF Names
    <2>3. QED
      BY <1>1, <2>1, <2>2
  <1>4. CASE settlement'[s].status = "COMPLETED" /\ SettlementChanges(s)
    <2>1. settlement[s].amount = 0
      BY <1>4 DEF Settlements, SettlementChanges
    <2>2. \E k \in DOMAIN events : Names(k)
      BY <1>4, <2>1 DEF SettlementChanges
    <2> HIDE DEF Names
    <2>3. QED
      BY <1>1, <1>4, <2>2
  <1>5. CASE settlement'[s].status # "COMPLETED" /\ SettlementChanges(s)
    BY <1>2, <1>5 DEF Settlements, SettlementChanges
  <1>6. QED
    BY <1>3, <1>4, <1>5 DEF SettlementsMove

-----------------------------------------------------------------------------
(* Sales.                                                                   *)

\* What a step may do to the record of the sales.
Records(j, k) ==
  /\ k \in DOMAIN events /\ k \notin recorded /\ stash[j] = 0 /\ k <= seen + 1
  /\ recorded' = recorded \cup {k} /\ credits' = credits
  /\ stash' = [stash EXCEPT ![j] = k]

Credits(j) ==
  /\ stash[j] # 0 /\ recorded' = recorded
  /\ credits' = Append(credits, stash[j])
  /\ stash' = [stash EXCEPT ![j] = 0]

Loses(j) ==
  /\ recorded' = recorded /\ credits' = credits
  /\ stash' = [stash EXCEPT ![j] = 0]

SalesMove ==
  \/ UNCHANGED <<recorded, credits, stash>>
  \/ \E j \in Tick : Credits(j) \/ Loses(j) \/ \E k \in DOMAIN events : Records(j, k)

LEMMA StepSales == TypeOK /\ [Next]_vars => SalesMove
  <1> SUFFICES ASSUME TypeOK, [Next]_vars PROVE SalesMove
    OBVIOUS
  <1>1. CASE UNCHANGED <<recorded, credits, stash>>
    BY <1>1 DEF SalesMove
  <1>2. ASSUME NEW j \in Tick, NEW k \in DOMAIN events, RecordEvent(j, k) PROVE SalesMove
    <2>1. k <= seen + 1
      BY <1>2, Positions DEF RecordEvent, First, Again
    <2>2. Records(j, k)
      BY <1>2, <2>1 DEF RecordEvent, Fresh, Records
    <2>3. QED
      BY <2>2 DEF SalesMove
  <1>3. ASSUME NEW j \in Tick, CreditSale(j) PROVE SalesMove
    <2>1. Credits(j)
      BY <1>3 DEF CreditSale, Credits
    <2>2. QED
      BY <2>1 DEF SalesMove
  <1>4. ASSUME NEW j \in Tick, CreditLost(j) PROVE SalesMove
    <2>1. Loses(j)
      BY <1>4 DEF CreditLost, Loses
    <2>2. QED
      BY <2>1 DEF SalesMove
  <1> QED
    BY <1>1, <1>2, <1>3, <1>4
    DEF Next, vars, callVars, rowVars, DirectCall, TxApplies, TxReverts, PrepareCall, Submit,
      Calls, PersistHash, PersistFailed, Gone, OnMerchantRegistered, OnMerchantSettled,
      SaleIgnored, EventDropped, Accepted, Applies, CallNetwork, CalledDirectly, Delivered,
      Dies, Done, Dropped, Prepare, Refused, Reverts, Start, Threw, Upset

\* A longer set has the same sequences and more.
LEMMA SeqGrows == ASSUME NEW S, NEW T, S \subseteq T, NEW q \in Seq(S) PROVE q \in Seq(T)
  <1>1. /\ Len(q) \in Nat /\ DOMAIN q = 1..Len(q)
        /\ \A i \in 1..Len(q) : q[i] \in T
        /\ q = [i \in 1..Len(q) |-> q[i]]
    OBVIOUS
  <1>2. QED
    BY <1>1

LEMMA StashOf ==
  ASSUME TypeOK, NEW j \in Tick
  PROVE  stash[j] \in recorded \cup {0} /\ stash[j] \in Nat /\ 0 \notin recorded
  BY Positions DEF TypeOK

LEMMA CreditsOf ==
  ASSUME TypeOK
  PROVE  /\ credits \in Seq(recorded) /\ Len(credits) \in Nat /\ DOMAIN credits = 1..Len(credits)
         /\ \A p \in DOMAIN credits : credits[p] \in recorded
  BY DEF TypeOK

\* One more credit.
LEMMA OneCredit ==
  ASSUME TypeOK, NEW j \in Tick, Credits(j)
  PROVE  \E n \in Nat :
           /\ DOMAIN credits = 1..n /\ DOMAIN credits' = 1..(n + 1)
           /\ credits'[n + 1] = stash[j]
           /\ \A p \in DOMAIN credits : credits'[p] = credits[p]
           /\ credits' \in Seq(recorded)
  <1>1. stash[j] \in recorded
    BY StashOf DEF Credits
  <1>2. PICK n \in Nat : n = Len(credits)
    BY CreditsOf
  <1>3. /\ DOMAIN credits = 1..n /\ DOMAIN credits' = 1..(n + 1)
        /\ credits'[n + 1] = stash[j]
        /\ \A p \in DOMAIN credits : credits'[p] = credits[p]
        /\ credits' \in Seq(recorded)
    BY <1>1, <1>2, CreditsOf DEF Credits
  <1>4. QED
    BY <1>3

LEMMA StepSalesTyped ==
  ASSUME TypeOK, SalesMove, DOMAIN events \subseteq DOMAIN events' PROVE SalesTyped'
  <1>1. CASE UNCHANGED <<recorded, credits, stash>>
    BY <1>1 DEF SalesTyped, TypeOK
  <1>2. ASSUME NEW j \in Tick, Loses(j) PROVE SalesTyped'
    BY <1>2 DEF Loses, SalesTyped, TypeOK
  <1>3. ASSUME NEW j \in Tick, Credits(j) PROVE SalesTyped'
    <2>1. credits' \in Seq(recorded) /\ recorded' = recorded
      BY <1>3, OneCredit DEF Credits
    <2>2. stash' \in [Tick -> recorded \cup {0}]
      BY <1>3 DEF Credits, TypeOK
    <2>3. QED
      BY <2>1, <2>2 DEF SalesTyped, TypeOK
  <1>4. ASSUME NEW j \in Tick, NEW k \in DOMAIN events, Records(j, k) PROVE SalesTyped'
    <2>1. recorded \subseteq recorded' /\ recorded' \subseteq DOMAIN events' /\ k \in recorded'
      BY <1>4 DEF Records, TypeOK
    <2>2. credits' \in Seq(recorded')
      BY <1>4, <2>1, SeqGrows, CreditsOf DEF Records
    <2>3. stash' \in [Tick -> recorded' \cup {0}]
      BY <1>4, <2>1 DEF Records, TypeOK
    <2>4. QED
      BY <2>1, <2>2, <2>3 DEF SalesTyped
  <1>5. QED
    BY <1>1, <1>2, <1>3, <1>4 DEF SalesMove

LEMMA StepLifeTyped ==
  ASSUME TypeOK, FreshIds, Requests, Prepared, Credited, [Next]_vars PROVE TypeOK'
  <1>1. MerchantTypeOK'
    BY StepContract, StepTyped DEF TypeOK
  <1>2. DOMAIN events \subseteq DOMAIN events'
    BY StepGrown DEF Grown
  <1>3. CallsTypeOK(Event)' /\ MerchantsTyped' /\ SettlementsTyped' /\ SalesTyped'
    BY <1>2, StepCallsTyped, StepMerchantsTyped, StepSettlementsTyped, StepSales, StepSalesTyped
  <1>4. QED
    BY <1>1, <1>3 DEF TypeOK, MerchantsTyped, SettlementsTyped, SalesTyped

LEMMA Later == \A a, b, n \in Nat : a <= b /\ n <= a + 1 => n <= b + 1
  OBVIOUS

LEMMA StepCredited ==
  ASSUME TypeOK, Credited, SalesMove, seen' \in Nat, seen <= seen' PROVE Credited'
  <1>0. seen \in Nat /\ \A n \in Nat : n <= seen + 1 => n <= seen' + 1
    BY Positions, Later
  <1>1. CASE UNCHANGED <<recorded, credits, stash>>
    BY <1>0, <1>1, StashOf DEF Credited
  <1>2. ASSUME NEW j \in Tick, Loses(j) PROVE Credited'
    <2>1. \A i \in Tick : stash'[i] = stash[i] \/ stash'[i] = 0
      BY <1>2 DEF Loses, TypeOK
    <2>2. credits' = credits
      BY <1>2 DEF Loses
    <2>3. QED
      BY <1>0, <2>1, <2>2, StashOf DEF Credited
  <1>3. ASSUME NEW j \in Tick, Credits(j) PROVE Credited'
    <2>1. PICK n \in Nat :
            /\ DOMAIN credits = 1..n /\ DOMAIN credits' = 1..(n + 1)
            /\ credits'[n + 1] = stash[j]
            /\ \A p \in DOMAIN credits : credits'[p] = credits[p]
      BY <1>3, OneCredit
    <2>2. \A p \in DOMAIN credits' : p = n + 1 \/ p \in DOMAIN credits
      BY <2>1, OneMore
    <2>3. \A i \in Tick : stash'[i] = IF i = j THEN 0 ELSE stash[i]
      BY <1>3 DEF Credits, TypeOK
    <2>4. stash[j] # 0 /\ \A p \in DOMAIN credits : credits[p] # stash[j]
      BY <1>3 DEF Credits, Credited
    <2>5. \A p, q \in DOMAIN credits' : credits'[p] = credits'[q] => p = q
      BY <2>1, <2>2, <2>4 DEF Credited
    <2>6. ASSUME NEW i \in Tick, stash'[i] # 0
          PROVE  stash'[i] <= seen' + 1 /\ \A p \in DOMAIN credits' : credits'[p] # stash'[i]
      <3>1. i # j /\ stash'[i] = stash[i]
        BY <2>3, <2>6
      <3>2. stash[i] <= seen' + 1
        BY <1>0, <2>6, <3>1, StashOf DEF Credited
      <3>3. stash[i] # stash[j] /\ \A p \in DOMAIN credits : credits[p] # stash[i]
        BY <2>6, <3>1 DEF Credited
      <3>4. QED
        BY <2>1, <2>2, <3>1, <3>2, <3>3
    <2>7. \A i, t \in Tick : stash'[i] = stash'[t] /\ stash'[i] # 0 => i = t
      BY <2>3 DEF Credited
    <2>8. QED
      BY <2>5, <2>6, <2>7 DEF Credited
  <1>4. ASSUME NEW j \in Tick, NEW k \in DOMAIN events, Records(j, k) PROVE Credited'
    <2>1. credits' = credits /\ k \notin recorded /\ k <= seen + 1 /\ k \in Nat
      BY <1>4, Positions DEF Records
    <2>2. \A i \in Tick : stash'[i] = IF i = j THEN k ELSE stash[i]
      BY <1>4 DEF Records, TypeOK
    <2>3. \A i \in Tick : stash[i] # k
      BY <2>1, StashOf, Positions
    <2>4. \A p \in DOMAIN credits : credits[p] # k
      BY <2>1, CreditsOf
    <2>5. QED
      BY <1>0, <2>1, <2>2, <2>3, <2>4, StashOf DEF Credited
  <1>5. QED
    BY <1>1, <1>2, <1>3, <1>4 DEF SalesMove

-----------------------------------------------------------------------------
SalesInv == /\ TypeOK /\ FreshIds /\ Requests /\ Prepared /\ Log /\ Credited /\ Settlements

LEMMA InitSales == Init => SalesInv
  <1> SUFFICES ASSUME Init PROVE SalesInv
    OBVIOUS
  <1> USE DEF Init
  <1>1. MerchantTypeOK /\ FreshIds
    BY InitTyped, InitFresh
  <1>2. /\ \A x \in Tx : fate[x] = "none"
        /\ \A h \in Handler : req[h].at = "idle"
        /\ events = <<>> /\ seen = 0 /\ DOMAIN events = {}
    BY DEF CallsInit, CallsInitAfter, Idle
  <1>3. CallsTypeOK(Event)
    BY CallsAssumption DEF CallsInit, CallsInitAfter, CallsTypeOK, Idle, Fate, UpsetKind
  <1>4. /\ \A s \in SettleRow : settlement[s].status = "ABSENT" /\ settlement[s].amount = 0
        /\ credits = <<>> /\ DOMAIN credits = {} /\ \A j \in Tick : stash[j] = 0
    BY DEF RowsInit
  <1>5. TypeOK
    <2>1. MerchantsTyped /\ SettlementsTyped /\ SalesTyped
      BY DEF RowsInit, MerchantsTyped, SettlementsTyped, SettlementRec, SalesTyped
    <2>2. QED
      BY <1>1, <1>3, <2>1 DEF TypeOK, MerchantsTyped, SettlementsTyped, SalesTyped
  <1>6. Requests /\ Log /\ Credited /\ Settlements
    BY <1>2, <1>4 DEF Requests, Log, Credited, Settlements
  <1>7. Prepared
    BY <1>2, <1>4, TxRow DEF Prepared
  <1>8. QED
    BY <1>1, <1>5, <1>6, <1>7 DEF SalesInv

LEMMA StepSalesInv == ASSUME InitFirst PROVE SalesInv /\ [Next]_vars => SalesInv'
  <1> SUFFICES ASSUME SalesInv, [Next]_vars PROVE SalesInv'
    OBVIOUS
  <1> USE DEF SalesInv
  <1>1. TypeOK' /\ Requests' /\ Grown /\ FateKept /\ ProfilesKept /\ seen' \in Nat /\ seen <= seen'
    BY StepLifeTyped, StepRequests, StepGrown DEF Grown
  <1>2. FreshIds'
    BY StepContract, StepFresh DEF TypeOK
  <1>3. MerchantsMove /\ SettlementsMove /\ SalesMove
    BY StepMerchants, StepSettlements, StepSales
  <1>4. Prepared'
    BY <1>1, <1>3, StepOpens, StepPrepared
  <1>5. Log'
    BY <1>1, StepLedger, StepLog
  <1>6. Credited' /\ Settlements'
    BY <1>1, <1>3, StepCredited, StepSettlementsKept
  <1>7. QED
    BY <1>1, <1>2, <1>4, <1>5, <1>6

LEMMA SettlementsEvidence == Settlements => SettlementOnEvidence
  BY DEF Settlements, SettlementOnEvidence

(* A settlement row is completed by a settle event of its merchant and shows its
   net amount, and fails only with its envelope, however requests overlap.  *)
THEOREM SettlementOnEvidenceHolds == ASSUME InitFirst PROVE Spec => []SettlementOnEvidence
  <1>1. SalesInv => SettlementOnEvidence
    BY SettlementsEvidence DEF SalesInv
  <1>2. QED
    BY <1>1, InitSales, StepSalesInv, PTL DEF Spec

(* The API, its wallets and the indexer call the contract as anybody may, so a
   merchant's id and till stay with their owner.                            *)
THEOREM LifecycleKeepsTills == ASSUME InitFirst PROVE Spec => MerchantSpec /\ TillKept
  <1>1. Init => MerchantInit
    BY DEF Init
  <1>2. SalesInv /\ [Next]_vars => [MerchantNext]_merchantVars
    BY StepContract DEF SalesInv
  <1>3. Spec => MerchantSpec
    BY <1>1, <1>2, InitSales, StepSalesInv, PTL DEF Spec, MerchantSpec
  <1>4. QED
    BY <1>3, TillKeptHolds

-----------------------------------------------------------------------------
(* Sums as the folds compute them: an element at a time, in the order of CHOOSE. *)
Pick(s) == CHOOSE x \in s : TRUE
Adds(f, g, s) == IF s = {} THEN 0 ELSE f[Pick(s)] + g[s \ {Pick(s)}]
SumsUp(g, f, D) == g = [s \in SUBSET D |-> Adds(f, g, s)]

LEMMA Picked == ASSUME NEW s, s # {} PROVE Pick(s) \in s
  BY DEF Pick

(* A property of the subsets of a finite set fails, if at all, at a smallest one. *)
LEMMA SmallestSet ==
  ASSUME NEW D, IsFiniteSet(D), NEW B \in SUBSET SUBSET D, B # {}
  PROVE  \E T \in B : \A U \in SUBSET T : U # T => U \notin B
  <1>1. IsWellFoundedOn(StrictSubsetOrdering(D), SUBSET D)
    BY FS_FiniteSubsetsOfFinite, FS_StrictSubsetOrderingWellFounded
  <1>2. PICK T \in B : \A U \in B : ~ (<<U, T>> \in StrictSubsetOrdering(D))
    BY <1>1, WFMin
  <1>3. ASSUME NEW U \in SUBSET T, U # T PROVE U \notin B
    BY <1>2, <1>3 DEF StrictSubsetOrdering
  <1>4. QED
    BY <1>3

(* A sum depends on the shares of the elements summed and on nothing else. *)
LEMMA SumAgrees ==
  ASSUME NEW D, IsFiniteSet(D), NEW f, NEW g, SumsUp(g, f, D),
         NEW E, NEW e, NEW h, SumsUp(h, e, E), D \subseteq E,
         \A x \in D : f[x] = e[x]
  PROVE  g[D] = h[D]
  <1>1. \A s \in SUBSET D : g[s] = Adds(f, g, s) /\ h[s] = Adds(e, h, s)
    BY DEF SumsUp
  <1> DEFINE B == {t \in SUBSET D : g[t] # h[t]}
  <1> SUFFICES ASSUME B # {} PROVE FALSE
    OBVIOUS
  <1>2. PICK t \in B : \A u \in SUBSET t : u # t => u \notin B
    <2>1. B \in SUBSET SUBSET D
      OBVIOUS
    <2> HIDE DEF B
    <2>2. QED
      BY <2>1, SmallestSet
  <1>3. CASE t = {}
    BY <1>1, <1>2, <1>3 DEF Adds
  <1>4. CASE t # {}
    <2>1. Pick(t) \in t
      BY <1>4, Picked
    <2>2. g[t \ {Pick(t)}] = h[t \ {Pick(t)}] /\ f[Pick(t)] = e[Pick(t)]
      BY <1>2, <2>1
    <2>3. QED
      BY <1>1, <1>2, <1>4, <2>2 DEF Adds
  <1>5. QED
    BY <1>3, <1>4
(* The fold of a finite set exists: the sum over a set is made of the sums over its parts. *)
LEMMA SumExists ==
  ASSUME NEW D, IsFiniteSet(D), NEW f
  PROVE  \E g : SumsUp(g, f, D)
  <1> DEFINE B == {T \in SUBSET D : ~ \E g : SumsUp(g, f, T)}
             Part(U) == CHOOSE g : SumsUp(g, f, U)
  <1> SUFFICES ASSUME B # {} PROVE FALSE
    OBVIOUS
  <1>1. PICK T \in B : \A U \in SUBSET T : U # T => U \notin B
    <2>1. B \in SUBSET SUBSET D
      OBVIOUS
    <2> HIDE DEF B
    <2>2. QED
      BY <2>1, SmallestSet
  <1>2. T \in SUBSET D /\ ~ \E g : SumsUp(g, f, T)
    BY <1>1
  <1>3. ASSUME NEW U \in SUBSET T, U # T PROVE SumsUp(Part(U), f, U)
    <2>1. U \in SUBSET D /\ U \notin B
      <3>1. U \notin B
        BY <1>1, <1>3
      <3>2. U \in SUBSET D
        BY <1>2
      <3>3. QED
        BY <3>1, <3>2
    <2>2. \E g : SumsUp(g, f, U)
      BY <2>1, Zenon
    <2>3. QED
      BY <2>2
  <1> HIDE DEF Part, B
  <1> DEFINE h == [s \in SUBSET T |-> IF s = T THEN Adds(f, Part(T \ {Pick(T)}), T) ELSE Part(s)[s]]
  <1>4. ASSUME NEW s \in SUBSET T, s # {}
        PROVE  s \ {Pick(s)} \in SUBSET T /\ s \ {Pick(s)} # T /\ s \ {Pick(s)} \subseteq s
    BY <1>4, Picked
  <1>5. ASSUME NEW s \in SUBSET T PROVE h[s] = Adds(f, h, s)
    <2>1. CASE s = {}
      <3>1. h[s] = 0
        BY <2>1, <1>3 DEF Adds, SumsUp
      <3>2. QED
        BY <2>1, <3>1 DEF Adds
    <2>2. CASE s # {}
      <3> DEFINE u == s \ {Pick(s)}
      <3>1. u \in SUBSET T /\ u # T /\ u \subseteq s
        BY <1>4, <2>2
      <3>2. h[u] = Part(u)[u]
        BY <3>1
      <3>3. CASE s = T
        BY <2>2, <3>2, <3>3 DEF Adds
      <3>4. CASE s # T
        <4>1. SumsUp(Part(s), f, s) /\ SumsUp(Part(u), f, u)
          BY <1>3, <3>1, <3>4
        <4>2. Part(u)[u] = Part(s)[u]
          <5>1. IsFiniteSet(u)
            BY <1>2, <3>1, FS_Subset
          <5> HIDE DEF u
          <5>2. QED
            BY <3>1, <4>1, <5>1, SumAgrees
        <4>3. Part(s)[s] = Adds(f, Part(s), s)
          BY <4>1 DEF SumsUp
        <4>4. h[s] = Part(s)[s]
          BY <3>4
        <4>5. QED
          BY <2>2, <3>2, <4>2, <4>3, <4>4 DEF Adds
      <3>5. QED
        BY <3>3, <3>4
    <2>3. QED
      BY <2>1, <2>2
  <1>6. SumsUp(h, f, T)
    BY <1>5 DEF SumsUp
  <1>7. QED
    BY <1>2, <1>6

(* A sum is a number, and taking any element out takes its share away. *)
LEMMA SumSplits ==
  ASSUME NEW D, IsFiniteSet(D), NEW f, \A x \in D : f[x] \in Nat, NEW g, SumsUp(g, f, D)
  PROVE  /\ g[{}] = 0
         /\ \A s \in SUBSET D : g[s] \in Nat
         /\ \A s \in SUBSET D : \A d \in s : g[s] = f[d] + g[s \ {d}]
  <1>1. \A s \in SUBSET D : g[s] = Adds(f, g, s)
    BY DEF SumsUp
  <1>2. g[{}] = 0
    BY <1>1 DEF Adds
  <1>3. \A s \in SUBSET D : s # {} => Pick(s) \in s /\ g[s] = f[Pick(s)] + g[s \ {Pick(s)}]
    BY <1>1, Picked DEF Adds
  <1>4. ASSUME NEW s \in SUBSET D PROVE g[s] \in Nat
    <2> DEFINE B == {t \in SUBSET D : g[t] \notin Nat}
    <2> SUFFICES ASSUME B # {} PROVE FALSE
      OBVIOUS
    <2>1. PICK t \in B : \A u \in SUBSET t : u # t => u \notin B
      <3>1. B \in SUBSET SUBSET D
        OBVIOUS
      <3> HIDE DEF B
      <3>2. QED
        BY <3>1, SmallestSet
    <2>2. t \in SUBSET D /\ g[t] \notin Nat
      BY <2>1
    <2>3. g[{}] \in Nat
      BY <1>2
    <2>4. t # {}
      BY <2>2, <2>3, Zenon
    <2>5. Pick(t) \in t /\ g[t] = f[Pick(t)] + g[t \ {Pick(t)}]
      BY <1>3, <2>2, <2>4
    <2>6. t \ {Pick(t)} \in SUBSET t /\ t \ {Pick(t)} # t /\ t \ {Pick(t)} \in SUBSET D
      BY <2>2, <2>5
    <2>7. g[t \ {Pick(t)}] \in Nat
      BY <2>1, <2>6
    <2>8. f[Pick(t)] \in Nat
      BY <2>2, <2>5
    <2>9. f[Pick(t)] + g[t \ {Pick(t)}] \in Nat
      BY <2>7, <2>8
    <2>10. QED
      BY <2>2, <2>5, <2>9, Zenon
  <1>5. ASSUME NEW s \in SUBSET D PROVE \A d \in s : g[s] = f[d] + g[s \ {d}]
    <2> DEFINE B == {t \in SUBSET D : \E d \in t : g[t] # f[d] + g[t \ {d}]}
    <2> SUFFICES ASSUME B # {} PROVE FALSE
      OBVIOUS
    <2>1. PICK t \in B : \A u \in SUBSET t : u # t => u \notin B
      <3>1. B \in SUBSET SUBSET D
        OBVIOUS
      <3> HIDE DEF B
      <3>2. QED
        BY <3>1, SmallestSet
    <2>2. PICK d \in t : g[t] # f[d] + g[t \ {d}]
      BY <2>1
    <2> DEFINE p == Pick(t)
    <2>3. p \in t /\ g[t] = f[p] + g[t \ {p}]
      BY <1>3, <2>1, <2>2
    <2>4. p # d
      BY <2>2, <2>3
    <2>5. g[t \ {p}] = f[d] + g[(t \ {p}) \ {d}]
      <3>1. t \ {p} \in SUBSET t /\ t \ {p} # t /\ d \in t \ {p} /\ t \ {p} \in SUBSET D
        BY <2>1, <2>3, <2>4
      <3>2. QED
        BY <2>1, <3>1
    <2>6. g[t \ {d}] = f[p] + g[(t \ {d}) \ {p}]
      <3>1. t \ {d} \in SUBSET t /\ t \ {d} # t /\ p \in t \ {d} /\ t \ {d} \in SUBSET D
        BY <2>1, <2>3, <2>4
      <3>2. QED
        BY <2>1, <3>1
    <2>7. (t \ {p}) \ {d} = (t \ {d}) \ {p}
      OBVIOUS
    <2>8. f[p] \in Nat /\ f[d] \in Nat /\ g[(t \ {d}) \ {p}] \in Nat
      BY <1>4, <2>1, <2>3
    <2>9. f[p] + (f[d] + g[(t \ {d}) \ {p}]) = f[d] + (f[p] + g[(t \ {d}) \ {p}])
      BY <2>8
    <2>10. QED
      BY <2>2, <2>3, <2>5, <2>6, <2>7, <2>9, Zenon
  <1>6. QED
    BY <1>2, <1>4, <1>5

(* What the sum of a function over a finite set is, whatever the order of the fold. *)
LEMMA SumIsFold ==
  ASSUME NEW D, IsFiniteSet(D), NEW f
  PROVE  \E g : SumsUp(g, f, D) /\ SumFunctionOnSet(f, D) = g[D]
  <1> DEFINE Rec(h) == [s \in SUBSET D |->
                  IF s = {} THEN 0
                  ELSE f[CHOOSE x \in s : TRUE] + h[s \ {CHOOSE x \in s : TRUE}]]
             sum == CHOOSE h : h = Rec(h)
  <1>1. SumFunctionOnSet(f, D) = sum[D]
    BY DEF SumFunctionOnSet, FoldFunctionOnSet, MapThenFoldSet
  <1>2. ASSUME NEW h PROVE SumsUp(h, f, D) <=> h = Rec(h)
    BY DEF SumsUp, Adds, Pick
  <1>3. PICK g : SumsUp(g, f, D)
    BY SumExists
  <1>4. g = Rec(g)
    BY <1>2, <1>3
  <1>5. sum = Rec(sum)
    <2> HIDE DEF Rec
    <2>1. QED
      BY <1>4
  <1>6. SumsUp(sum, f, D)
    BY <1>2, <1>5
  <1>7. QED
    BY <1>1, <1>6

LEMMA SumIsNat ==
  ASSUME NEW D, IsFiniteSet(D), NEW f, \A x \in D : f[x] \in Nat
  PROVE  SumFunctionOnSet(f, D) \in Nat
  <1>1. PICK g : SumsUp(g, f, D) /\ SumFunctionOnSet(f, D) = g[D]
    BY SumIsFold
  <1>2. g[D] \in Nat
    BY <1>1, SumSplits
  <1>3. QED
    BY <1>1, <1>2

LEMMA SumOfNone == ASSUME NEW f PROVE SumFunctionOnSet(f, {}) = 0
  <1>1. IsFiniteSet({})
    BY FS_EmptySet
  <1>2. PICK g : SumsUp(g, f, {}) /\ SumFunctionOnSet(f, {}) = g[{}]
    BY <1>1, SumIsFold
  <1>3. g[{}] = 0
    BY <1>2 DEF SumsUp, Adds
  <1>4. QED
    BY <1>2, <1>3

LEMMA SumSame ==
  ASSUME NEW D, IsFiniteSet(D), NEW f, NEW e, \A x \in D : f[x] = e[x]
  PROVE  SumFunctionOnSet(f, D) = SumFunctionOnSet(e, D)
  <1>1. PICK g : SumsUp(g, f, D) /\ SumFunctionOnSet(f, D) = g[D]
    BY SumIsFold
  <1>2. PICK h : SumsUp(h, e, D) /\ SumFunctionOnSet(e, D) = h[D]
    BY SumIsFold
  <1>3. g[D] = h[D]
    BY <1>1, <1>2, SumAgrees
  <1>4. QED
    BY <1>1, <1>2, <1>3

(* One more element adds its share to the sum of the others. *)
LEMMA SumGains ==
  ASSUME NEW D, IsFiniteSet(D), NEW f, \A x \in D : f[x] \in Nat,
         NEW e, NEW d, d \notin D, e[d] \in Nat, \A x \in D : e[x] = f[x]
  PROVE  SumFunctionOnSet(e, D \cup {d}) = SumFunctionOnSet(f, D) + e[d]
  <1> DEFINE E == D \cup {d}
  <1>1. IsFiniteSet(E) /\ D \subseteq E /\ d \in E /\ E \ {d} = D /\ \A x \in E : e[x] \in Nat
    BY FS_AddElement
  <1> HIDE DEF E
  <1>2. PICK h : SumsUp(h, e, E) /\ SumFunctionOnSet(e, E) = h[E]
    BY <1>1, SumIsFold
  <1>3. PICK g : SumsUp(g, f, D) /\ SumFunctionOnSet(f, D) = g[D]
    BY SumIsFold
  <1>4. g[D] = h[D]
    BY <1>1, <1>2, <1>3, SumAgrees
  <1>5. h[E] = e[d] + h[E \ {d}]
    BY <1>1, <1>2, SumSplits
  <1>6. g[D] \in Nat
    BY <1>3, SumSplits
  <1>7. h[E] = e[d] + g[D]
    BY <1>1, <1>4, <1>5, Zenon
  <1>8. QED
    BY <1>2, <1>3, <1>6, <1>7 DEF E

(* One share changes: the sum changes by as much. *)
LEMMA SumShifts ==
  ASSUME NEW D, IsFiniteSet(D), NEW f, NEW e, NEW d \in D,
         \A x \in D : f[x] \in Nat /\ e[x] \in Nat, \A x \in D : x # d => e[x] = f[x]
  PROVE  SumFunctionOnSet(e, D) + f[d] = SumFunctionOnSet(f, D) + e[d]
  <1> DEFINE R == D \ {d}
  <1>1. IsFiniteSet(R) /\ d \notin R /\ R \subseteq D /\ R \cup {d} = D /\ \A x \in R : x # d
    BY FS_RemoveElement
  <1> HIDE DEF R
  <1>2. SumFunctionOnSet(f, R \cup {d}) = SumFunctionOnSet(f, R) + f[d]
    <2>1. (\A x \in R : f[x] \in Nat) /\ f[d] \in Nat
      BY <1>1
    <2>2. QED
      BY <1>1, <2>1, SumGains
  <1>3. SumFunctionOnSet(e, R \cup {d}) = SumFunctionOnSet(f, R) + e[d]
    <2>1. /\ \A x \in R : f[x] \in Nat /\ e[x] = f[x]
          /\ e[d] \in Nat
      BY <1>1
    <2>2. QED
      BY <1>1, <2>1, SumGains
  <1>4. SumFunctionOnSet(f, R) \in Nat
    BY <1>1, SumIsNat
  <1>5. QED
    BY <1>1, <1>2, <1>3, <1>4

\* Nothing adds up to nothing.
LEMMA SumOfZeros ==
  ASSUME NEW D, IsFiniteSet(D), NEW f, \A x \in D : f[x] = 0
  PROVE  SumFunctionOnSet(f, D) = 0
  <1>1. PICK g : SumsUp(g, f, D) /\ SumFunctionOnSet(f, D) = g[D]
    BY SumIsFold
  <1> DEFINE B == {s \in SUBSET D : g[s] # 0}
  <1>2. ASSUME B # {} PROVE FALSE
    <2>1. PICK t \in B : \A u \in SUBSET t : u # t => u \notin B
      <3>1. B \in SUBSET SUBSET D
        OBVIOUS
      <3> HIDE DEF B
      <3>2. QED
        BY <1>2, <3>1, SmallestSet
    <2>2. t \in SUBSET D /\ g[t] # 0 /\ g[t] = Adds(f, g, t)
      BY <1>1, <2>1 DEF SumsUp
    <2>3. t # {}
      BY <2>2 DEF Adds
    <2>4. Pick(t) \in t /\ g[t \ {Pick(t)}] = 0
      BY <2>1, <2>2, <2>3, Picked
    <2>5. QED
      BY <2>2, <2>3, <2>4 DEF Adds
  <1>3. QED
    BY <1>1, <1>2

-----------------------------------------------------------------------------
(* The books.                                                               *)
LEMMA TotalTyped ==
  ASSUME TypeOK, NEW topic, NEW i, NEW t
  PROVE  /\ IsFiniteSet(Of(topic, i, t)) /\ Of(topic, i, t) \subseteq DOMAIN events
         /\ \A k \in Of(topic, i, t) : Gross[k] \in Nat
         /\ Total(topic, i, t) \in Nat
  <1>1. IsFiniteSet(DOMAIN events)
    BY Positions, FS_Interval
  <1>2. Of(topic, i, t) \in SUBSET DOMAIN events
    BY DEF Of
  <1>3. IsFiniteSet(Of(topic, i, t))
    BY <1>1, <1>2, FS_Subset
  <1>4. ASSUME NEW k \in DOMAIN events PROVE Gross[k] \in Nat
    <2>1. events[k] \in Event
      BY DEF TypeOK, CallsTypeOK
    <2>2. events[k].amount \in Nat /\ events[k].commission \in Nat
      BY <2>1 DEF Event
    <2>3. QED
      BY <2>2 DEF Gross
  <1>5. Total(topic, i, t) \in Nat
    BY <1>2, <1>3, <1>4, SumIsNat DEF Total
  <1>6. QED
    BY <1>2, <1>3, <1>4, <1>5

(* Publishing an event adds its amounts to one total.                       *)
LEMMA TotalMoves ==
  ASSUME TypeOK, NEW e \in Event, events' = Append(events, e), NEW topic, NEW i, NEW t
  PROVE  Total(topic, i, t)' = Total(topic, i, t)
           + (IF e.topic = topic /\ e.id = i /\ e.token = t THEN e.amount + e.commission ELSE 0)
  <1> DEFINE n == Len(events) + 1
             mine == e.topic = topic /\ e.id = i /\ e.token = t
  <1>1. /\ DOMAIN events = 1..Len(events) /\ Len(events) \in Nat /\ DOMAIN events' = 1..n
        /\ events'[n] = e /\ \A k \in DOMAIN events : events'[k] = events[k]
    BY DEF TypeOK, CallsTypeOK
  <1>2. n \notin DOMAIN events /\ DOMAIN events' = DOMAIN events \cup {n}
    BY <1>1
  <1>3. /\ Gross'[n] = e.amount + e.commission /\ Gross'[n] \in Nat
        /\ \A k \in DOMAIN events : Gross'[k] = Gross[k]
    <2>1. e.amount \in Nat /\ e.commission \in Nat
      BY DEF Event
    <2>2. QED
      BY <1>1, <1>2, <2>1 DEF Gross
  <1>4. IsFiniteSet(Of(topic, i, t)) /\ \A k \in Of(topic, i, t) : k \in DOMAIN events /\ Gross[k] \in Nat
    BY TotalTyped
  <1> DEFINE old == Of(topic, i, t)
  <1>5. CASE mine
    <2>1. Of(topic, i, t)' = old \cup {n}
      BY <1>1, <1>2, <1>5 DEF Of
    <2>2. n \notin old
      BY <1>2, <1>4
    <2>3. SumFunctionOnSet(Gross', old \cup {n}) = SumFunctionOnSet(Gross, old) + Gross'[n]
      <3>1. /\ IsFiniteSet(old)
            /\ \A k \in old : Gross[k] \in Nat
            /\ \A k \in old : Gross'[k] = Gross[k]
            /\ Gross'[n] \in Nat
        BY <1>3, <1>4
      <3>2. ASSUME NEW D, NEW f, NEW g, NEW d, IsFiniteSet(D), d \notin D, g[d] \in Nat,
                   \A k \in D : f[k] \in Nat, \A k \in D : g[k] = f[k]
            PROVE  SumFunctionOnSet(g, D \cup {d}) = SumFunctionOnSet(f, D) + g[d]
        BY <3>2, SumGains
      <3> HIDE DEF n, old
      <3>3. QED
        BY <2>2, <3>1, <3>2
    <2>4. QED
      BY <1>3, <1>5, <2>1, <2>3 DEF Total, old
  <1>6. CASE ~ mine
    <2>1. Of(topic, i, t)' = old
      BY <1>1, <1>2, <1>6 DEF Of
    <2>2. SumFunctionOnSet(Gross', old) = SumFunctionOnSet(Gross, old)
      BY <1>3, <1>4, SumSame
    <2>3. Total(topic, i, t)' = Total(topic, i, t)
      BY <2>1, <2>2 DEF Total
    <2>4. QED
      BY <1>6, <2>3, TotalTyped
  <1>7. QED
    BY <1>5, <1>6

(* A change of one till changes what its token's tills add up to, and no other
   token's.                                                                 *)
LEMMA TillsTyped ==
  ASSUME NEW t \in Token PROVE IsFiniteSet(Id \X {t}) /\ Id \X {t} \subseteq Till
  <1>1. IsFiniteSet(Id) /\ IsFiniteSet({t})
    <2>1. 1 \in Int /\ MaxId \in Int
      BY MerchantAssumption
    <2>2. IsFiniteSet(Id)
      BY <2>1, FS_Interval DEF Id
    <2>3. QED
      BY <2>2, FS_Singleton
  <1>2. IsFiniteSet(Id \X {t})
    BY <1>1, FS_Product
  <1>3. QED
    BY <1>2 DEF Till

LEMMA TillsMove ==
  ASSUME NEW b \in [Till -> Nat], NEW c \in [Till -> Nat], NEW i \in Id, NEW t \in Token,
         \A x \in Till : x # <<i, t>> => c[x] = b[x]
  PROVE  /\ SumFunctionOnSet(c, Id \X {t}) + b[<<i, t>>] = SumFunctionOnSet(b, Id \X {t}) + c[<<i, t>>]
         /\ SumFunctionOnSet(b, Id \X {t}) \in Nat /\ SumFunctionOnSet(c, Id \X {t}) \in Nat
  <1>1. /\ IsFiniteSet(Id \X {t}) /\ <<i, t>> \in Id \X {t}
        /\ \A x \in Id \X {t} : x \in Till /\ b[x] \in Nat /\ c[x] \in Nat
    BY TillsTyped
  <1>2. SumFunctionOnSet(c, Id \X {t}) + b[<<i, t>>] = SumFunctionOnSet(b, Id \X {t}) + c[<<i, t>>]
    BY <1>1, SumShifts
  <1>3. SumFunctionOnSet(b, Id \X {t}) \in Nat /\ SumFunctionOnSet(c, Id \X {t}) \in Nat
    BY <1>1, SumIsNat
  <1>4. QED
    BY <1>2, <1>3

LEMMA OtherTills ==
  ASSUME NEW b, NEW c, NEW i \in Id, NEW t \in Token, NEW u \in Token, u # t,
         \A x \in Till : x # <<i, t>> => c[x] = b[x]
  PROVE  SumFunctionOnSet(c, Id \X {u}) = SumFunctionOnSet(b, Id \X {u})
  <1>1. IsFiniteSet(Id \X {u}) /\ \A x \in Id \X {u} : x \in Till /\ x # <<i, t>>
    BY TillsTyped
  <1>2. \A x \in Id \X {u} : c[x] = b[x]
    BY <1>1
  <1>3. QED
    BY <1>1, <1>2, SumSame

(* What each call does to tills, vault and log.                             *)
LEMMA RegisterBooks ==
  ASSUME TypeOK, BooksBalance, NEW a \in Account, NEW to \in Account, NEW b \in Bps,
         NEW x \in Tx \cup {Foreign}, RegisterAs(a, to, b, x)
  PROVE  BooksBalance'
  <1>1. PICK n \in Id : n = nextId
    BY DEF RegisterAs, Register
  <1> DEFINE e == [topic |-> "reg", id |-> n, token |-> Native, amount |-> 0, commission |-> 0, tx |-> x]
  <1>2. e \in Event /\ e.topic = "reg"
    BY SettlementAssumption DEF Event
  <1>3. events' = Append(events, e) /\ balance' = balance /\ held' = held
    BY <1>1 DEF RegisterAs, Register, Publish
  <1> HIDE DEF e
  <1>4. ASSUME NEW i \in Id, NEW t \in Token
        PROVE  /\ Total("sale", i, t)' = Total("sale", i, t)
               /\ Total("settle", i, t)' = Total("settle", i, t)
    BY <1>2, <1>3, TotalMoves, TotalTyped
  <1>5. QED
    BY <1>3, <1>4 DEF BooksBalance

LEMMA SaleBooks ==
  ASSUME TypeOK, TypeOK', BooksBalance, NEW a \in Account, NEW i \in Id, NEW t \in Token,
         NEW n \in Amount, NEW x \in Tx \cup {Foreign}, SaleAs(a, i, t, n, x)
  PROVE  BooksBalance'
  <1> DEFINE e == [topic |-> "sale", id |-> i, token |-> t, amount |-> n, commission |-> 0, tx |-> x]
  <1>1. n \in Nat
    BY MerchantAssumption, SMTT(20)
  <1>2. e \in Event /\ e.topic = "sale" /\ e.id = i /\ e.token = t /\ e.amount + e.commission = n
    BY <1>1 DEF Event
  <1>3. events' = Append(events, e)
    BY DEF SaleAs, Publish
  <1> HIDE DEF e
  <1>4. /\ balance \in [Till -> Nat] /\ balance' \in [Till -> Nat] /\ <<i, t>> \in Till
        /\ held \in [Token -> Nat]
    BY DEF TypeOK, MerchantTypeOK, Till
  <1>5. balance' = [balance EXCEPT ![<<i, t>>] = @ + n] /\ held' = [held EXCEPT ![t] = @ + n]
    BY DEF SaleAs, RecordSale
  <1>6. balance'[<<i, t>>] = balance[<<i, t>>] + n /\ \A c \in Till : c # <<i, t>> => balance'[c] = balance[c]
    BY <1>4, <1>5
  <1>7. ASSUME NEW j \in Id, NEW u \in Token
        PROVE  Total("sale", j, u)' = Total("settle", j, u)' + balance'[<<j, u>>]
    <2>1. /\ Total("sale", j, u)' = Total("sale", j, u) + (IF j = i /\ u = t THEN n ELSE 0)
          /\ Total("settle", j, u)' = Total("settle", j, u)
      BY <1>2, <1>3, TotalMoves, TotalTyped
    <2>2. Total("sale", j, u) = Total("settle", j, u) + balance[<<j, u>>]
      BY DEF BooksBalance
    <2>3. /\ Total("settle", j, u) \in Nat /\ Total("sale", j, u) \in Nat
          /\ <<j, u>> \in Till /\ balance[<<j, u>>] \in Nat
      BY <1>4, TotalTyped DEF Till
    <2>4. balance'[<<j, u>>] = balance[<<j, u>>] + (IF j = i /\ u = t THEN n ELSE 0)
      BY <1>6, <2>3
    <2>5. QED
      BY <1>1, <2>1, <2>2, <2>3, <2>4
  <1>8. ASSUME NEW u \in Token PROVE held'[u] = SumFunctionOnSet(balance', Id \X {u})
    <2>1. held[u] = SumFunctionOnSet(balance, Id \X {u})
      BY DEF BooksBalance
    <2>2. CASE u = t
      <3>1. /\ SumFunctionOnSet(balance', Id \X {t}) + balance[<<i, t>>]
                  = SumFunctionOnSet(balance, Id \X {t}) + balance'[<<i, t>>]
            /\ SumFunctionOnSet(balance, Id \X {t}) \in Nat /\ SumFunctionOnSet(balance', Id \X {t}) \in Nat
        BY <1>4, <1>6, TillsMove
      <3>2. held'[t] = held[t] + n /\ balance[<<i, t>>] \in Nat
        BY <1>4, <1>5
      <3>3. QED
        BY <1>1, <1>6, <2>1, <2>2, <3>1, <3>2
    <2>3. CASE u # t
      <3>1. SumFunctionOnSet(balance', Id \X {u}) = SumFunctionOnSet(balance, Id \X {u})
        BY <1>6, <2>3, OtherTills
      <3>2. held'[u] = held[u]
        BY <1>4, <1>5, <2>3
      <3>3. QED
        BY <2>1, <3>1, <3>2
    <2>4. QED
      BY <2>2, <2>3
  <1>9. QED
    BY <1>7, <1>8 DEF BooksBalance

LEMMA SettleBooks ==
  ASSUME TypeOK, TypeOK', BooksBalance, NEW i \in Id, NEW t \in Token,
         NEW x \in Tx \cup {Foreign}, SettleAs(i, t, x)
  PROVE  BooksBalance'
  <1>1. /\ balance \in [Till -> Nat] /\ balance' \in [Till -> Nat] /\ <<i, t>> \in Till
        /\ held \in [Token -> Nat]
    BY DEF TypeOK, MerchantTypeOK, Till
  <1> DEFINE n == balance[<<i, t>>]
             e == [topic |-> "settle", id |-> i, token |-> t, amount |-> NetOf(i, t),
                   commission |-> Commission(i, balance[<<i, t>>]), tx |-> x]
  <1>2. n \in Nat
    BY <1>1
  <1>3. Commission(i, n) \in 0..n
    <2>1. profile[i] \in Profile
      BY DEF SettleAs, Settle, TypeOK, MerchantTypeOK
    <2>2. QED
      BY <1>2, <2>1, CommissionInBounds
  <1>4. NetOf(i, t) \in Nat /\ Commission(i, n) \in Nat /\ NetOf(i, t) + Commission(i, n) = n
    BY <1>2, <1>3 DEF NetOf
  <1>5. e \in Event /\ e.topic = "settle" /\ e.id = i /\ e.token = t /\ e.amount + e.commission = n
    BY <1>4 DEF Event
  <1>6. events' = Append(events, e)
    BY DEF SettleAs, Publish
  <1> HIDE DEF e
  <1>7. balance' = [balance EXCEPT ![<<i, t>>] = 0] /\ held' = [held EXCEPT ![t] = @ - n]
    BY DEF SettleAs, Settle, Cleared
  <1>8. balance'[<<i, t>>] = 0 /\ \A c \in Till : c # <<i, t>> => balance'[c] = balance[c]
    BY <1>1, <1>7
  <1> HIDE DEF n
  <1>9. ASSUME NEW j \in Id, NEW u \in Token
        PROVE  Total("sale", j, u)' = Total("settle", j, u)' + balance'[<<j, u>>]
    <2>1. /\ Total("settle", j, u)' = Total("settle", j, u) + (IF j = i /\ u = t THEN n ELSE 0)
          /\ Total("sale", j, u)' = Total("sale", j, u)
      BY <1>5, <1>6, TotalMoves, TotalTyped
    <2>2. Total("sale", j, u) = Total("settle", j, u) + balance[<<j, u>>]
      BY DEF BooksBalance
    <2>3. /\ Total("settle", j, u) \in Nat /\ Total("sale", j, u) \in Nat
          /\ <<j, u>> \in Till /\ balance[<<j, u>>] \in Nat
      BY <1>1, TotalTyped DEF Till
    <2>4. balance'[<<j, u>>] + (IF j = i /\ u = t THEN n ELSE 0) = balance[<<j, u>>]
      BY <1>2, <1>8, <2>3 DEF n
    <2>5. balance'[<<j, u>>] \in Nat
      BY <1>1, <2>3
    <2>6. QED
      BY <1>2, <2>1, <2>2, <2>3, <2>4, <2>5
  <1>10. ASSUME NEW u \in Token PROVE held'[u] = SumFunctionOnSet(balance', Id \X {u})
    <2>1. held[u] = SumFunctionOnSet(balance, Id \X {u})
      BY DEF BooksBalance
    <2>2. CASE u = t
      <3>1. /\ SumFunctionOnSet(balance', Id \X {t}) + balance[<<i, t>>]
                  = SumFunctionOnSet(balance, Id \X {t}) + balance'[<<i, t>>]
            /\ SumFunctionOnSet(balance, Id \X {t}) \in Nat /\ SumFunctionOnSet(balance', Id \X {t}) \in Nat
        BY <1>1, <1>8, TillsMove
      <3>2. held'[t] = held[t] - n /\ balance[<<i, t>>] = n
        BY <1>1, <1>7 DEF n
      <3>3. QED
        BY <1>2, <1>8, <2>1, <2>2, <3>1, <3>2
    <2>3. CASE u # t
      <3>1. SumFunctionOnSet(balance', Id \X {u}) = SumFunctionOnSet(balance, Id \X {u})
        BY <1>8, <2>3, OtherTills
      <3>2. held'[u] = held[u]
        BY <1>1, <1>7, <2>3
      <3>3. QED
        BY <2>1, <3>1, <3>2
    <2>4. QED
      BY <2>2, <2>3
  <1>11. QED
    BY <1>9, <1>10 DEF BooksBalance

\* Empty books balance.
LEMMA InitBooks == Init => BooksBalance
  <1> SUFFICES ASSUME Init PROVE BooksBalance
    OBVIOUS
  <1>1. /\ events = <<>> /\ DOMAIN events = {}
        /\ balance = [c \in Till |-> 0] /\ held = [t \in Token |-> 0]
    BY DEF Init, CallsInit, CallsInitAfter, MerchantInit
  <1>2. ASSUME NEW i \in Id, NEW t \in Token
        PROVE  Total("sale", i, t) = Total("settle", i, t) + balance[<<i, t>>]
    <2>1. Of("sale", i, t) = {} /\ Of("settle", i, t) = {}
      BY <1>1 DEF Of
    <2>2. balance[<<i, t>>] = 0
      BY <1>1 DEF Till
    <2>3. QED
      BY <2>1, <2>2, SumOfNone DEF Total
  <1>3. ASSUME NEW t \in Token PROVE SumFunctionOnSet(balance, Id \X {t}) = 0
    <2>1. \A c \in Id \X {t} : balance[c] = 0
      BY <1>1, TillsTyped
    <2>2. QED
      BY <2>1, TillsTyped, SumOfZeros
  <1>4. QED
    BY <1>1, <1>2, <1>3 DEF BooksBalance

(* Only the calls of direct callers and the envelopes the ledger applies touch the
   contract.                                                                *)
CallsOrNot == UNCHANGED <<events, merchantVars>> \/ DirectCall \/ \E x \in Tx : TxApplies(x)

\* Every step is one of these.
LEMMA WhoCalls == [Next]_vars => CallsOrNot
  <1> SUFFICES ASSUME [Next]_vars PROVE CallsOrNot
    OBVIOUS
  <1>1. CASE UNCHANGED <<events, merchantVars>>
    BY <1>1 DEF CallsOrNot
  <1>2. ASSUME DirectCall PROVE CallsOrNot
    BY <1>2 DEF CallsOrNot
  <1>3. ASSUME NEW x \in Tx, TxApplies(x) PROVE CallsOrNot
    BY <1>3 DEF CallsOrNot
  <1> QED
    BY <1>1, <1>2, <1>3
    DEF Next, vars, callVars, rowVars, TxReverts, PrepareCall, Submit, Calls, PersistHash,
      PersistFailed, Gone, OnMerchantRegistered, OnMerchantSettled, SaleIgnored,
      EventDropped, RecordEvent, CreditSale, CreditLost, Accepted, CallNetwork, Delivered,
      Dies, Done, Dropped, Prepare, Refused, Reverts, Start, Threw, Upset

\* Every call keeps the books, whoever makes it.
LEMMA StepBooks == TypeOK /\ TypeOK' /\ Prepared /\ BooksBalance /\ [Next]_vars => BooksBalance'
  <1> SUFFICES ASSUME TypeOK, TypeOK', Prepared, BooksBalance, [Next]_vars PROVE BooksBalance'
    OBVIOUS
  <1>1. ASSUME UNCHANGED <<events, balance, held>> PROVE BooksBalance'
    BY <1>1 DEF BooksBalance, Total, Of, Gross
  <1>2. CASE UNCHANGED <<events, merchantVars>>
    BY <1>1, <1>2 DEF merchantVars
  <1>3. CASE DirectCall
    BY <1>1, <1>3, RegisterBooks, SaleBooks, SettleBooks DEF DirectCall, Initialize, Amend
  <1>4. ASSUME NEW x \in Tx, TxApplies(x) PROVE BooksBalance'
    <2>1. fate[x] # "none" /\ Wallet[RowMerchant(x)] \in Account
      BY <1>4, TxRow DEF TxApplies, Applies
    <2>2. x.call # "register" => IdOf(x) \in Id /\ Asset[x.row] \in Token
      BY <2>1, CallOf, TxRow
    <2>3. Price \in Amount /\ Payer \in Account /\ Rate \in Bps
      BY SettlementAssumption
    <2>4. QED
      BY <1>4, <2>1, <2>2, <2>3, RegisterBooks, SaleBooks, SettleBooks DEF TxApplies
  <1>5. QED
    BY <1>2, <1>3, <1>4, WhoCalls DEF CallsOrNot

(* In every token the contract holds what its tills add up to, and each till what
   was sold and not settled, whoever sells, settles and changes commissions. *)
THEOREM BooksBalanceHolds == ASSUME InitFirst PROVE Spec => []BooksBalance
  <1>1. Init => SalesInv /\ BooksBalance
    BY InitSales, InitBooks
  <1>2. SalesInv /\ BooksBalance /\ [Next]_vars => SalesInv' /\ BooksBalance'
    BY StepSalesInv, StepBooks DEF SalesInv
  <1>3. QED
    BY <1>1, <1>2, PTL DEF Spec

-----------------------------------------------------------------------------
(* No sale is forgotten.                                                    *)
Undisturbed == NoEventLost /\ upsets["died"] = 0

Handed(k) == (\E p \in DOMAIN credits : credits[p] = k) \/ (\E j \in Tick : stash[j] = k)

RecordedHanded == \A k \in recorded : Handed(k)
SalesRecorded == \A k \in 1..seen : events[k].topic = "sale" /\ Creditable(events[k]) => k \in recorded

NoSaleForgotten == Undisturbed => RecordedHanded /\ SalesRecorded

LEMMA UpsetsGrow ==
  ASSUME TypeOK, NEW kind \in {"again", "dropped", "died"}, Upset(kind)
  PROVE  ~Undisturbed'
  <1>1. /\ upsets["again"] \in Nat /\ upsets["dropped"] \in Nat /\ upsets["died"] \in Nat
        /\ upsets' = [upsets EXCEPT ![kind] = @ + 1] /\ DOMAIN upsets = UpsetKind
    BY DEF TypeOK, CallsTypeOK, Upset, UpsetKind
  <1>2. QED
    BY <1>1 DEF Undisturbed, NoEventLost, UpsetKind

LEMMA StepUndisturbed == TypeOK /\ [Next]_vars => (Undisturbed' => Undisturbed)
  <1> SUFFICES ASSUME TypeOK, [Next]_vars PROVE (Undisturbed' => Undisturbed)
    OBVIOUS
  <1>1. CASE UNCHANGED <<upsets>>
    BY <1>1 DEF Undisturbed, NoEventLost
  <1>2. ASSUME NEW k \in DOMAIN events, OnMerchantRegistered(k) PROVE (Undisturbed' => Undisturbed)
    BY <1>2, UpsetsGrow DEF OnMerchantRegistered, Delivered, Undisturbed, NoEventLost
  <1>3. ASSUME NEW k \in DOMAIN events, OnMerchantSettled(k) PROVE (Undisturbed' => Undisturbed)
    BY <1>3, UpsetsGrow DEF OnMerchantSettled, Delivered, Undisturbed, NoEventLost
  <1>4. ASSUME NEW k \in DOMAIN events, SaleIgnored(k) PROVE (Undisturbed' => Undisturbed)
    BY <1>4, UpsetsGrow DEF SaleIgnored, Delivered, Undisturbed, NoEventLost
  <1>5. ASSUME NEW k \in DOMAIN events, EventDropped(k) PROVE (Undisturbed' => Undisturbed)
    BY <1>5, UpsetsGrow DEF EventDropped, Dropped, Undisturbed, NoEventLost
  <1>6. ASSUME NEW h \in Handler, Gone(h) PROVE (Undisturbed' => Undisturbed)
    BY <1>6, UpsetsGrow DEF Gone, Threw, Done, Dies, Undisturbed, NoEventLost
  <1>7. ASSUME NEW j \in Tick, NEW k \in DOMAIN events, RecordEvent(j, k) PROVE (Undisturbed' => Undisturbed)
    BY <1>7, UpsetsGrow DEF RecordEvent, Undisturbed, NoEventLost
  <1>8. ASSUME NEW j \in Tick, CreditLost(j) PROVE (Undisturbed' => Undisturbed)
    BY <1>8, UpsetsGrow DEF CreditLost, Undisturbed, NoEventLost
  <1>9. ASSUME DirectCall PROVE (Undisturbed' => Undisturbed)
    BY <1>9 DEF DirectCall, CalledDirectly, Undisturbed, NoEventLost, TypeOK, CallsTypeOK,
      UpsetKind
  <1> QED
    BY <1>1, <1>2, <1>3, <1>4, <1>5, <1>6, <1>7, <1>8, <1>9
    DEF Next, vars, callVars, rowVars, TxApplies, TxReverts, PrepareCall, Submit, Calls,
      PersistHash, PersistFailed, CreditSale, Accepted, Applies, CallNetwork, Done, Prepare,
      Refused, Reverts, Start

\* While nothing is lost, every recorded sale keeps its credit or its tick.
LEMMA StepHanded ==
  ASSUME TypeOK, RecordedHanded, 
         \/ UNCHANGED <<recorded, credits, stash>>
         \/ \E j \in Tick : Credits(j) \/ \E k \in DOMAIN events : Records(j, k)
  PROVE  RecordedHanded'
  <1>1. CASE UNCHANGED <<recorded, credits, stash>>
    BY <1>1 DEF RecordedHanded, Handed
  <1>2. ASSUME NEW j \in Tick, Credits(j) PROVE RecordedHanded'
    <2>1. PICK n \in Nat :
            /\ DOMAIN credits = 1..n /\ DOMAIN credits' = 1..(n + 1)
            /\ credits'[n + 1] = stash[j]
            /\ \A p \in DOMAIN credits : credits'[p] = credits[p]
      BY <1>2, OneCredit
    <2>2. n + 1 \in DOMAIN credits' /\ DOMAIN credits \subseteq DOMAIN credits'
      BY <2>1, OneMore
    <2>3. recorded' = recorded /\ \A i \in Tick : i # j => stash'[i] = stash[i]
      BY <1>2 DEF Credits, TypeOK
    <2>4. ASSUME NEW k \in recorded PROVE Handed(k)'
      <3>1. CASE \E p \in DOMAIN credits : credits[p] = k
        BY <2>1, <2>2, <3>1 DEF Handed
      <3>2. CASE k = stash[j]
        BY <2>1, <2>2, <3>2 DEF Handed
      <3>3. CASE \E i \in Tick : i # j /\ stash[i] = k
        BY <2>3, <3>3 DEF Handed
      <3>4. QED
        BY <3>1, <3>2, <3>3 DEF RecordedHanded, Handed
    <2>5. QED
      BY <2>3, <2>4 DEF RecordedHanded
  <1>3. ASSUME NEW j \in Tick, NEW k \in DOMAIN events, Records(j, k) PROVE RecordedHanded'
    <2>1. /\ recorded' = recorded \cup {k} /\ credits' = credits /\ stash'[j] = k
          /\ \A i \in Tick : i # j => stash'[i] = stash[i]
      BY <1>3 DEF Records, TypeOK
    <2>2. ASSUME NEW i \in recorded PROVE Handed(i)'
      <3>1. i # stash[j]
        BY <1>3, StashOf DEF Records
      <3>2. QED
        BY <2>1, <3>1 DEF RecordedHanded, Handed
    <2>3. Handed(k)'
      BY <2>1 DEF Handed
    <2>4. QED
      BY <2>1, <2>2, <2>3 DEF RecordedHanded
  <1>4. QED
    BY <1>1, <1>2, <1>3

LEMMA RecordedGrows == ASSUME SalesMove PROVE recorded \subseteq recorded'
  BY DEF SalesMove, Records, Credits, Loses

\* A step that links nobody and meets no sale leaves nothing to record.
LEMMA SameLinks ==
  ASSUME TypeOK, SalesRecorded, SalesMove, Grown, NEW k,
         \A m \in Merchant : merchant'[m].id = merchant[m].id,
         seen' = seen \/ (seen' = k /\ k = seen + 1 /\ k \in DOMAIN events),
         seen' = seen \/ events[k].topic # "sale" \/ ~Creditable(events[k]) \/ k \in recorded'
  PROVE  SalesRecorded'
  <1>1. \A e : Creditable(e)' <=> Creditable(e)
    BY DEF Creditable
  <1>2. ASSUME NEW i \in 1..seen', events'[i].topic = "sale", Creditable(events'[i]) PROVE i \in recorded'
    <2>1. i \in 1..seen \/ (i = k /\ k \in DOMAIN events /\ seen' # seen)
      BY Positions
    <2>2. i \in DOMAIN events /\ events'[i] = events[i]
      BY <2>1, Positions DEF Grown
    <2>3. i \in 1..seen => i \in recorded
      BY <1>2, <2>2 DEF SalesRecorded
    <2>4. QED
      BY <1>2, <2>1, <2>2, <2>3, RecordedGrows
  <1>3. QED
    BY <1>1, <1>2 DEF SalesRecorded

LEMMA StepRecorded == SalesInv /\ Undisturbed' /\ SalesRecorded /\ SalesMove /\ Grown /\ [Next]_vars => SalesRecorded'
  <1> SUFFICES ASSUME SalesInv, Undisturbed', SalesRecorded, SalesMove, Grown, [Next]_vars PROVE SalesRecorded'
    OBVIOUS
  <1>1. CASE UNCHANGED <<merchant, seen>>
    BY <1>1, SameLinks DEF SalesInv
  <1>2. ASSUME NEW h \in Handler, PersistHash(h) PROVE SalesRecorded'
    <2>1. \A m \in Merchant : merchant'[m].id = merchant[m].id
      <3>1. TypeOK
        BY DEF SalesInv
      <3>2. QED
        BY <1>2, <3>1, MerchantOf DEF PersistHash, TypeOK
    <2>2. seen' = seen
      BY <1>2 DEF PersistHash, Accepted, Done
    <2>3. QED
      BY <2>1, <2>2, SameLinks DEF SalesInv
  <1>3. ASSUME DirectCall PROVE SalesRecorded'
    BY <1>3, SameLinks DEF DirectCall, CalledDirectly, rowVars, SalesInv
  <1>4. ASSUME NEW x \in Tx, TxApplies(x) PROVE SalesRecorded'
    BY <1>4, SameLinks DEF TxApplies, Applies, rowVars, SalesInv
  <1>5. ASSUME NEW k \in DOMAIN events, OnMerchantRegistered(k) PROVE SalesRecorded'
    <2> USE DEF SalesInv
    <2>1. k = seen + 1 /\ seen' = k /\ events[k].topic = "reg" /\ events' = events
      BY <1>5, UpsetsGrow DEF OnMerchantRegistered, Delivered, First
    <2>2. ASSUME NEW i \in 1..seen', events[i].topic = "sale", Creditable(events[i])' PROVE i \in recorded'
      <3>1. i \in 1..seen /\ i \in DOMAIN events /\ i < k
        BY <2>1, <2>2, Positions
      <3>2. events[i].id # events[k].id
        BY <2>1, <2>2, <3>1, Positions DEF Log
      <3>3. PICK m \in Merchant : merchant'[m].id = events[i].id
        BY <2>1, <2>2 DEF Creditable
      <3>4. merchant[m].id = events[i].id
        <4>1. \/ merchant'[m] = merchant[m]
              \/ merchant'[m] = [merchant[m] EXCEPT !.id = events[k].id]
          BY <1>5 DEF OnMerchantRegistered
        <4>2. merchant'[m] = [merchant[m] EXCEPT !.id = events[k].id] => merchant'[m].id = events[k].id
          BY MerchantOf
        <4>3. QED
          BY <3>2, <3>3, <4>1, <4>2
      <3>5. Creditable(events[i])
        BY <2>1, <2>2, <3>4 DEF Creditable
      <3>6. QED
        BY <2>2, <3>1, <3>5, RecordedGrows DEF SalesRecorded
    <2>3. QED
      BY <2>1, <2>2 DEF SalesRecorded
  <1>6. ASSUME NEW k \in DOMAIN events, OnMerchantSettled(k) PROVE SalesRecorded'
    <2> USE DEF SalesInv
    <2>1. k = seen + 1 /\ seen' = k /\ events[k].topic = "settle" /\ merchant' = merchant
      BY <1>6, UpsetsGrow DEF OnMerchantSettled, Delivered, First
    <2>2. QED
      BY <2>1, SameLinks
  <1>7. ASSUME NEW k \in DOMAIN events, SaleIgnored(k) PROVE SalesRecorded'
    <2> USE DEF SalesInv
    <2>1. k = seen + 1 /\ seen' = k /\ ~Fresh(k) /\ merchant' = merchant /\ recorded' = recorded
      BY <1>7, UpsetsGrow DEF SaleIgnored, Delivered, First, rowVars
    <2>2. QED
      BY <2>1, SameLinks DEF Fresh
  <1>8. ASSUME NEW k \in DOMAIN events, EventDropped(k) PROVE SalesRecorded'
    <2>1. FALSE
      BY <1>8, UpsetsGrow DEF EventDropped, Dropped, SalesInv
    <2>2. QED
      BY <2>1
  <1>9. ASSUME NEW j \in Tick, CreditSale(j) PROVE SalesRecorded'
    <2> USE DEF SalesInv
    <2>1. merchant' = merchant /\ stash[j] \in recorded /\ stash[j] \in Nat /\ stash[j] \in DOMAIN events
      BY <1>9, StashOf DEF CreditSale, TypeOK
    <2>2. stash[j] <= seen + 1
      BY <1>9 DEF CreditSale, Credited
    <2>3. seen' = seen \/ (seen' = stash[j] /\ stash[j] = seen + 1)
      BY <1>9, <2>1, <2>2, Positions DEF CreditSale
    <2>4. stash[j] \in recorded'
      BY <2>1, RecordedGrows
    <2>5. QED
      BY <2>1, <2>3, <2>4, SameLinks
  <1>10. ASSUME NEW j \in Tick, CreditLost(j) PROVE SalesRecorded'
    <2>1. FALSE
      BY <1>10, UpsetsGrow DEF CreditLost, SalesInv
    <2>2. QED
      BY <2>1
  <1> QED
    BY <1>1, <1>2, <1>3, <1>4, <1>5, <1>6, <1>7, <1>8, <1>9, <1>10
    DEF Next, vars, callVars, rowVars, TxReverts, PrepareCall, Submit, Calls, PersistFailed,
      Gone, RecordEvent, CallNetwork, Dies, Done, Prepare, Refused, Reverts, Start, Threw,
      Upset

LEMMA StepLosesNothing == TypeOK /\ Undisturbed' /\ [Next]_vars => (UNCHANGED <<recorded, credits, stash>> \/ \E i \in Tick : Credits(i) \/ \E p \in DOMAIN events : Records(i, p))
  <1> SUFFICES ASSUME TypeOK, Undisturbed', [Next]_vars PROVE (UNCHANGED <<recorded, credits, stash>> \/ \E i \in Tick : Credits(i) \/ \E p \in DOMAIN events : Records(i, p))
    OBVIOUS
  <1>1. CASE UNCHANGED <<recorded, credits, stash>>
    BY <1>1
  <1>2. ASSUME NEW j \in Tick, NEW k \in DOMAIN events, RecordEvent(j, k) PROVE (UNCHANGED <<recorded, credits, stash>> \/ \E i \in Tick : Credits(i) \/ \E p \in DOMAIN events : Records(i, p))
    <2>1. k <= seen + 1
      BY <1>2, Positions DEF RecordEvent, First, Again
    <2>2. Records(j, k)
      BY <1>2, <2>1 DEF RecordEvent, Fresh, Records
    <2>3. QED
      BY <2>2
  <1>3. ASSUME NEW j \in Tick, CreditSale(j) PROVE (UNCHANGED <<recorded, credits, stash>> \/ \E i \in Tick : Credits(i) \/ \E p \in DOMAIN events : Records(i, p))
    <2>1. Credits(j)
      BY <1>3 DEF CreditSale, Credits
    <2>2. QED
      BY <2>1
  <1>4. ASSUME NEW j \in Tick, CreditLost(j) PROVE (UNCHANGED <<recorded, credits, stash>> \/ \E i \in Tick : Credits(i) \/ \E p \in DOMAIN events : Records(i, p))
    <2>1. FALSE
      BY <1>4, UpsetsGrow DEF CreditLost
    <2>2. QED
      BY <2>1
  <1> QED
    BY <1>1, <1>2, <1>3, <1>4
    DEF Next, vars, callVars, rowVars, DirectCall, TxApplies, TxReverts, PrepareCall, Submit,
      Calls, PersistHash, PersistFailed, Gone, OnMerchantRegistered, OnMerchantSettled,
      SaleIgnored, EventDropped, Accepted, Applies, CallNetwork, CalledDirectly, Delivered,
      Dies, Done, Dropped, Prepare, Refused, Reverts, Start, Threw, Upset

LEMMA StepNotForgotten == SalesInv /\ NoSaleForgotten /\ [Next]_vars => NoSaleForgotten'
  <1> SUFFICES ASSUME SalesInv, NoSaleForgotten, [Next]_vars, Undisturbed'
               PROVE  RecordedHanded' /\ SalesRecorded'
    BY DEF NoSaleForgotten
  <1>1. TypeOK /\ Grown /\ SalesMove
    BY StepGrown, StepSales DEF SalesInv
  <1>2. RecordedHanded /\ SalesRecorded
    BY <1>1, StepUndisturbed DEF NoSaleForgotten
  <1>3. QED
    BY <1>1, <1>2, StepLosesNothing, StepHanded, StepRecorded

LEMMA SalesOnce == SalesInv /\ NoSaleForgotten => SaleCreditedOnce
  BY DEF SalesInv, Credited, NoSaleForgotten, Undisturbed, RecordedHanded, SalesRecorded,
    Handed,
         SaleCreditedOnce

(* A sale is credited at most once whatever is delivered again or overlaps, and,
   as long as no insert fails and no process stops in between, every native sale
   of a linked merchant the indexer passed is credited or about to be.      *)
THEOREM SaleCreditedOnceHolds == ASSUME InitFirst PROVE Spec => []SaleCreditedOnce
  <1>1. Init => NoSaleForgotten
    BY DEF Init, RowsInit, CallsInit, CallsInitAfter, NoSaleForgotten, RecordedHanded,
      SalesRecorded
  <1>2. QED
    BY <1>1, InitSales, StepSalesInv, StepNotForgotten, SalesOnce, PTL DEF Spec
=============================================================================
