----------------------------- MODULE TreasuryContract ----------------------------
(***************************************************************************)
(* The Soroban treasury contract (contracts/treasury/src/lib.rs): one      *)
(* allowlisted token, the administrator's withdrawals, and withdrawals     *)
(* that governance members propose, approve and execute.                   *)
(*                                                                         *)
(* One action is one successful invocation; an invocation that returns an  *)
(* error is rolled back by the host.  require_auth is the caller's name.   *)
(* TTL upkeep is left out: an archived entry is restored on access.        *)
(***************************************************************************)
EXTENDS Integers, Sequences, FiniteSets

CONSTANTS
  Account,      \* accounts that hold the token
  Deployer,     \* the account that calls initialize
  Amount,       \* amounts callers pass
  Cap,          \* per-withdrawal caps the administrator sets
  MemberList,   \* member lists the administrator passes, repetitions included
  Threshold,    \* thresholds the administrator passes
  LeastQuorum,  \* the smallest non-zero one
  Funds,        \* what each account owns at the start
  MaxId,        \* bound: largest proposal id
  None          \* absent administrator, cap, counter or entry

Id == 1..MaxId

ASSUME TreasuryAssumption ==
  /\ Deployer \in Account
  /\ Amount \subseteq Nat \ {0}
  /\ Cap \subseteq Int
  /\ MemberList \subseteq Seq(Account)
  /\ Threshold \subseteq Nat
  /\ LeastQuorum \in Nat \ {0}
  /\ \A t \in Threshold : t = 0 \/ t >= LeastQuorum
  /\ Funds \in Nat
  /\ MaxId \in Nat
  /\ None \notin Account
  /\ None \notin Int

VARIABLES
  admin,      \* DataKey::Admin
  allowed,    \* DataKey::Allowed(token)
  cap,        \* DataKey::MaxWithdrawal(token), None while unset
  members,    \* DataKey::Members, <<>> while unset
  threshold,  \* DataKey::Threshold
  nextId,     \* DataKey::NextWithdrawal, None while unset
  proposal,   \* DataKey::Withdrawal(id)
  wallet,     \* token balance of each account
  held        \* token balance of the contract

configVars   == <<admin, allowed, cap, members, threshold>>
treasuryVars == <<configVars, nextId, proposal, wallet, held>>

Proposal == [to : Account, amount : Amount, approvals : SUBSET Account, executed : BOOLEAN]

TreasuryTypeOK ==
  /\ admin \in Account \cup {None}
  /\ allowed \in BOOLEAN
  /\ cap \in Cap \cup {None}
  /\ members \in Seq(Account)
  /\ threshold \in Nat
  /\ nextId \in 1..(MaxId + 1) \cup {None}
  /\ proposal \in [Id -> Proposal \cup {None}]
  /\ wallet \in [Account -> Nat]
  /\ held \in Nat

TreasuryInit ==
  /\ admin = None
  /\ allowed = FALSE
  /\ cap = None
  /\ members = <<>>
  /\ threshold = 0
  /\ nextId = None
  /\ proposal = [d \in Id |-> None]
  /\ wallet = [a \in Account |-> Funds]
  /\ held = 0

-----------------------------------------------------------------------------
(* Administration.                                                          *)

Initialize(a) ==
  /\ admin = None
  /\ admin' = a
  /\ UNCHANGED <<allowed, cap, members, threshold, nextId, proposal, wallet, held>>

SetAllowed(yes) ==
  /\ admin # None
  /\ allowed' = yes
  /\ UNCHANGED <<admin, cap, members, threshold, nextId, proposal, wallet, held>>

SetMaxWithdrawal(n) ==
  /\ admin # None
  /\ cap' = n
  /\ UNCHANGED <<admin, allowed, members, threshold, nextId, proposal, wallet, held>>

\* (Mutant: the counter seeded on every call.)
ValidGovernance(list, t) == list # <<>> => t \in 1..Len(list)
AlwaysSeeded == 1
SeededId == IF nextId = None THEN 1 ELSE nextId

SetGovernance(list, t) ==
  /\ admin # None
  /\ ValidGovernance(list, t)
  /\ members' = list
  /\ threshold' = t
  /\ nextId' = SeededId
  /\ UNCHANGED <<admin, allowed, cap, proposal, wallet, held>>

-----------------------------------------------------------------------------
(* Money in, money out.                                                     *)

Deposit(from, n) ==
  /\ allowed
  /\ wallet[from] >= n
  /\ wallet' = [wallet EXCEPT ![from] = @ - n]
  /\ held' = held + n
  /\ UNCHANGED <<configVars, nextId, proposal>>

\* check_withdrawal; no cap is i128::MAX.
Covered(n) == allowed /\ (cap # None => n <= cap) /\ held >= n

PaysOut(to, n) ==
  /\ Covered(n)
  /\ wallet' = [wallet EXCEPT ![to] = @ + n]
  /\ held' = held - n

\* The administrator's own path, whether or not governance is enabled.
Withdraw(to, n) ==
  /\ admin # None
  /\ PaysOut(to, n)
  /\ UNCHANGED <<configVars, nextId, proposal>>

-----------------------------------------------------------------------------
(* Governed withdrawals.                                                    *)

IsMember(a) == \E i \in DOMAIN members : members[i] = a

\* Members propose; without governance only the administrator does.  The contract
\* asks the administrator's signature but not a member's: a is the proposer that is
\* named, and every account may be.
MayPropose(a) == IF members = <<>> THEN admin = a ELSE IsMember(a)

NextId == IF nextId = None THEN 1 ELSE nextId

ProposeWithdraw(a, to, n) ==
  /\ MayPropose(a)
  /\ NextId \in Id
  /\ proposal' = [proposal EXCEPT ![NextId] =
                    [to |-> to, amount |-> n, approvals |-> {}, executed |-> FALSE]]
  /\ nextId' = NextId + 1
  /\ UNCHANGED <<configVars, wallet, held>>

Pending(d) == proposal[d] # None /\ ~proposal[d].executed

ApproveWithdraw(a, d) ==
  /\ IsMember(a)
  /\ Pending(d)
  /\ a \notin proposal[d].approvals
  /\ proposal' = [proposal EXCEPT ![d].approvals = @ \cup {a}]
  /\ UNCHANGED <<configVars, nextId, wallet, held>>

\* Every approval counts, also those of accounts that are members no longer, and
\* the threshold is today's.  (Mutant: the comparison off by one.)
NearQuorum(d) == Cardinality(proposal[d].approvals) + 1 >= threshold
HasQuorum(d) == Cardinality(proposal[d].approvals) >= threshold

ExecuteWithdraw(a, d) ==
  /\ IsMember(a)
  /\ Pending(d)
  /\ HasQuorum(d)
  /\ PaysOut(proposal[d].to, proposal[d].amount)
  /\ proposal' = [proposal EXCEPT ![d].executed = TRUE]
  /\ UNCHANGED <<configVars, nextId>>

Administer ==
  \/ Initialize(Deployer)
  \/ \E yes \in BOOLEAN : SetAllowed(yes)
  \/ \E n \in Cap : SetMaxWithdrawal(n)
  \/ \E list \in MemberList, t \in Threshold : SetGovernance(list, t)

TreasuryNext ==
  \/ Administer
  \/ \E a \in Account, n \in Amount : Deposit(a, n) \/ Withdraw(a, n)
  \/ \E a, to \in Account, n \in Amount : ProposeWithdraw(a, to, n)
  \/ \E a \in Account, d \in Id : ApproveWithdraw(a, d) \/ ExecuteWithdraw(a, d)

TreasurySpec == TreasuryInit /\ [][TreasuryNext]_treasuryVars

-----------------------------------------------------------------------------
Votes(d) == IF proposal[d] = None THEN {} ELSE proposal[d].approvals
Paid(d)  == proposal[d] # None /\ proposal[d].executed
Pays(d)  == ~Paid(d) /\ Paid(d)'

(* "threshold member approvals are required before a proposed withdrawal
   executes" (lib.rs:147), whatever the administrator does to members and threshold
   between proposal, votes and execution: an execution has as many votes as the
   threshold then in force, and every vote was cast by an account that was a member
   when it voted; so no executed proposal lacks the smallest quorum there ever was.
   Votes are not taken back: see MembersApproved.                           *)
ExecutedWithQuorum ==
  /\ [](\A d \in Id : Paid(d) => Cardinality(Votes(d)) >= LeastQuorum)
  /\ [][\A d \in Id :
          /\ Pays(d) => Cardinality(Votes(d)) >= threshold
          /\ \A a \in Votes(d)' : a \in Votes(d) \/ IsMember(a)]_treasuryVars

(* The same sentence read of the members there are when the proposal executes.  Not
   true: the votes of accounts that have been removed since still count.    *)
MembersApproved ==
  [][\A d \in Id : Pays(d) =>
       Cardinality({a \in Votes(d) : IsMember(a)}) >= threshold]_treasuryVars

BallotOf(d) ==
  IF proposal[d] = None THEN None
  ELSE [to |-> proposal[d].to, amount |-> proposal[d].amount,
        voters |-> proposal[d].approvals, paid |-> proposal[d].executed]

Vault == INSTANCE TreasuryVault
  WITH Quorums <- {S \in SUBSET Account : Cardinality(S) >= LeastQuorum},
       NoBallot <- None, vault <- held,
       ballot <- [d \in Id |-> BallotOf(d)]

\* An absent entry is not an entry, nor an absent ballot a ballot.
ASSUME AbsentAssumption == None \notin Proposal /\ None \notin Vault!Ballots

(* A ballot keeps its terms and its votes under every reconfiguration
   (docs/contract-storage-migration.md: "reusing an id would silently overwrite
   a proposal") and pays once, in full, to its payee, with a quorum behind it. *)
KeepsVault == Vault!VaultSpec
=================================================================================
