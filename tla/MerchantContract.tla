----------------------------- MODULE MerchantContract ----------------------------
(***************************************************************************)
(* The Soroban merchant contract (contracts/merchant/src/lib.rs): a        *)
(* registry of merchants and the vault that holds their sales until the    *)
(* owner settles.                                                          *)
(*                                                                         *)
(* One action is one successful invocation; an invocation that returns an  *)
(* error is rolled back by the host.  require_auth is the caller's name.   *)
(* Names, the read entry points and TTL upkeep are left out.               *)
(***************************************************************************)
EXTENDS Integers, FiniteSets

CONSTANTS
  Account,    \* accounts: owners, payers, settlement addresses, the administrator
  Token,
  Amount,     \* sale amounts, in stroops
  Bps,        \* commissions in basis points
  Funds,      \* what each account owns of each token at the start
  MaxId,      \* bound: largest merchant id
  InitFirst,  \* environment: the deployer calls initialize before anyone registers
  None

Id == 1..MaxId
Till == Id \X Token   \* DataKey::Balance(id, token)

ASSUME MerchantAssumption ==
  /\ Amount \subseteq Nat \ {0}
  /\ Bps \subseteq 0..10000
  /\ Funds \in Nat
  /\ MaxId \in Nat
  /\ InitFirst \in BOOLEAN
  /\ None \notin Account
  /\ None \notin Int

VARIABLES
  admin,    \* DataKey::Admin
  nextId,   \* DataKey::NextMerchant; a missing entry reads as 1
  profile,  \* DataKey::Merchant(id)
  balance,  \* per till; a missing entry reads as 0
  wallet,   \* token balance of each account
  held      \* token balance of the contract

merchantVars == <<admin, nextId, profile, balance, wallet, held>>

Profile == [owner : Account, settlement : Account, bps : Bps, active : BOOLEAN]

\* An absent entry is not an entry.
ASSUME AbsentProfile == None \notin Profile

MerchantTypeOK ==
  /\ admin \in Account \cup {None}
  /\ nextId \in 1..(MaxId + 1)
  /\ profile \in [Id -> Profile \cup {None}]
  /\ balance \in [Till -> Nat]
  /\ wallet \in [Account \X Token -> Nat]
  /\ held \in [Token -> Nat]

MerchantInit ==
  /\ admin = None
  /\ nextId = 1
  /\ profile = [i \in Id |-> None]
  /\ balance = [c \in Till |-> 0]
  /\ wallet = [p \in Account \X Token |-> Funds]
  /\ held = [t \in Token |-> 0]

Initialize(a) ==
  /\ admin = None
  /\ admin' = a
  /\ nextId' = 1
  /\ UNCHANGED <<profile, balance, wallet, held>>

\* (Mutant: the counter is not advanced.)
SameId == nextId
FollowingId == nextId + 1

Register(a, to, b) ==
  /\ InitFirst => admin # None
  /\ nextId \in Id
  /\ profile' = [profile EXCEPT ![nextId] = [owner |-> a, settlement |-> to, bps |-> b, active |-> TRUE]]
  /\ nextId' = FollowingId
  /\ UNCHANGED <<admin, balance, wallet, held>>

\* update_profile by the owner; set_commission and set_active by the administrator.
Amend(i) ==
  /\ profile[i] # None
  /\ \/ \E to \in Account : profile' = [profile EXCEPT ![i].settlement = to]
     \/ admin # None /\ \E b \in Bps : profile' = [profile EXCEPT ![i].bps = b]
     \/ admin # None /\ \E on \in BOOLEAN : profile' = [profile EXCEPT ![i].active = on]
  /\ UNCHANGED <<admin, nextId, balance, wallet, held>>

RecordSale(a, i, t, n) ==
  /\ profile[i] # None /\ profile[i].active
  /\ wallet[<<a, t>>] >= n
  /\ wallet' = [wallet EXCEPT ![<<a, t>>] = @ - n]
  /\ held' = [held EXCEPT ![t] = @ + n]
  /\ balance' = [balance EXCEPT ![<<i, t>>] = @ + n]
  /\ UNCHANGED <<admin, nextId, profile>>

\* Integer division rounds the commission down.
Commission(i, n) == (n * profile[i].bps) \div 10000
NetOf(i, t) == balance[<<i, t>>] - Commission(i, balance[<<i, t>>])

\* (Mutant: the row keeps the commission.)
ClearedToCommission(i, n) == Commission(i, n)
Cleared(i, n) == 0

\* Without an administrator a commission has nobody to go to and settle fails.
Settle(i, t) ==
  LET n == balance[<<i, t>>]
      c == Commission(i, n)
  IN  /\ profile[i] # None
      /\ n > 0
      /\ held[t] >= n
      /\ c > 0 => admin # None
      /\ balance' = [balance EXCEPT ![<<i, t>>] = Cleared(i, n)]
      /\ held' = [held EXCEPT ![t] = @ - n]
      /\ wallet' = [p \in Account \X Token |->
           wallet[p] + (IF p = <<profile[i].settlement, t>> THEN n - c ELSE 0)
                     + (IF p = <<admin, t>> THEN c ELSE 0)]
      /\ UNCHANGED <<admin, nextId, profile>>

MerchantNext ==
  \/ \E a \in Account : Initialize(a)
  \/ \E a, to \in Account, b \in Bps : Register(a, to, b)
  \/ \E i \in Id : Amend(i)
  \/ \E a \in Account, i \in Id, t \in Token, n \in Amount : RecordSale(a, i, t, n)
  \/ \E i \in Id, t \in Token : Settle(i, t)

MerchantSpec == MerchantInit /\ [][MerchantNext]_merchantVars

-----------------------------------------------------------------------------
(* "Only the owner can settle" (contracts/merchant/README.md:20) protects a
   till only as long as its owner stays its owner: no step gives a registered
   id to another account, and a till shrinks only by being emptied.          *)
TillKept ==
  [][\A i \in Id : profile[i] # None =>
       /\ profile'[i] # None /\ profile'[i].owner = profile[i].owner
       /\ \A t \in Token : balance'[<<i, t>>] >= balance[<<i, t>>] \/ balance'[<<i, t>>] = 0]_merchantVars
=================================================================================
