--------------------------- MODULE TreasuryProofs ---------------------------
(***************************************************************************)
(* Proofs about the treasury contract, for any accounts, amounts, caps,    *)
(* member lists, thresholds and number of proposals, and about its         *)
(* lifecycle in the API, for any number of rows, handlers and ticks.       *)
(***************************************************************************)
EXTENDS TreasuryLifecycle, FiniteSetTheorems, TLAPS

LEMMA NextIdTyped == ASSUME TreasuryTypeOK PROVE NextId \in Nat \ {0}
  BY TreasuryAssumption DEF TreasuryTypeOK, NextId

LEMMA SeededIsNext == SeededId = NextId
  BY DEF SeededId, NextId

(* A stored proposal is a record, and so it is with one more vote or paid.  *)
LEMMA ProposalTyped ==
  ASSUME TreasuryTypeOK, NEW d \in Id, proposal[d] # None, NEW a \in Account
  PROVE  /\ proposal[d] \in Proposal
         /\ [proposal[d] EXCEPT !.approvals = @ \cup {a}] \in Proposal
         /\ [proposal[d] EXCEPT !.executed = TRUE] \in Proposal
  <1>1. proposal[d] \in Proposal
    BY DEF TreasuryTypeOK
  <1>2. QED
    BY <1>1 DEF Proposal

LEMMA PaysOutTyped ==
  ASSUME TreasuryTypeOK, NEW to \in Account, NEW n \in Amount, PaysOut(to, n)
  PROVE  wallet' \in [Account -> Nat] /\ held' \in Nat
  BY TreasuryAssumption DEF TreasuryTypeOK, PaysOut, Covered

LEMMA InitTyped == TreasuryInit => TreasuryTypeOK
  <1> SUFFICES ASSUME TreasuryInit PROVE TreasuryTypeOK
    OBVIOUS
  <1>1. proposal \in [Id -> Proposal \cup {None}] /\ wallet \in [Account -> Nat]
    BY TreasuryAssumption DEF TreasuryInit
  <1>2. members \in Seq(Account)
    BY DEF TreasuryInit
  <1>3. QED
    BY <1>1, <1>2 DEF TreasuryInit, TreasuryTypeOK

LEMMA AdministerTyped == TreasuryTypeOK /\ Administer => TreasuryTypeOK'
  <1> SUFFICES ASSUME TreasuryTypeOK, Administer PROVE TreasuryTypeOK'
    OBVIOUS
  <1>1. CASE Initialize(Deployer)
    BY <1>1, TreasuryAssumption DEF Initialize, TreasuryTypeOK
  <1>2. ASSUME NEW yes \in BOOLEAN, SetAllowed(yes) PROVE TreasuryTypeOK'
    BY <1>2 DEF SetAllowed, TreasuryTypeOK
  <1>3. ASSUME NEW n \in Cap, SetMaxWithdrawal(n) PROVE TreasuryTypeOK'
    BY <1>3 DEF SetMaxWithdrawal, TreasuryTypeOK
  <1>4. ASSUME NEW list \in MemberList, NEW t \in Threshold, SetGovernance(list, t)
        PROVE  TreasuryTypeOK'
    <2>1. list \in Seq(Account) /\ t \in Nat
      BY TreasuryAssumption
    <2>2. SeededId \in 1..(MaxId + 1)
      BY TreasuryAssumption DEF SeededId, TreasuryTypeOK
    <2>3. QED
      BY <1>4, <2>1, <2>2 DEF SetGovernance, TreasuryTypeOK
  <1>5. QED
    BY <1>1, <1>2, <1>3, <1>4 DEF Administer

(* Every call keeps the types; in particular the treasury is never overdrawn,
   whatever cap the administrator set.                                      *)
LEMMA StepTyped == TreasuryTypeOK /\ [TreasuryNext]_treasuryVars => TreasuryTypeOK'
  <1> SUFFICES ASSUME TreasuryTypeOK, [TreasuryNext]_treasuryVars PROVE TreasuryTypeOK'
    OBVIOUS
  <1>1. CASE Administer
    BY <1>1, AdministerTyped
  <1>2. ASSUME NEW a \in Account, NEW n \in Amount, Deposit(a, n) PROVE TreasuryTypeOK'
    BY <1>2, TreasuryAssumption DEF Deposit, TreasuryTypeOK, configVars
  <1>3. ASSUME NEW a \in Account, NEW n \in Amount, Withdraw(a, n) PROVE TreasuryTypeOK'
    BY <1>3, PaysOutTyped DEF Withdraw, TreasuryTypeOK, configVars
  <1>4. ASSUME NEW a \in Account, NEW to \in Account, NEW n \in Amount, ProposeWithdraw(a, to, n)
        PROVE  TreasuryTypeOK'
    <2>1. NextId \in Id /\ nextId' = NextId + 1
      BY <1>4 DEF ProposeWithdraw
    <2>2. nextId' \in 1..(MaxId + 1)
      BY <2>1, TreasuryAssumption DEF Id
    <2>3. [to |-> to, amount |-> n, approvals |-> {}, executed |-> FALSE] \in Proposal
      BY DEF Proposal
    <2>4. proposal' \in [Id -> Proposal \cup {None}]
      BY <1>4, <2>1, <2>3 DEF ProposeWithdraw, TreasuryTypeOK
    <2>5. QED
      BY <1>4, <2>2, <2>4 DEF ProposeWithdraw, TreasuryTypeOK, configVars
  <1>5. ASSUME NEW a \in Account, NEW d \in Id, ApproveWithdraw(a, d) PROVE TreasuryTypeOK'
    <2>1. proposal' \in [Id -> Proposal \cup {None}]
      BY <1>5, ProposalTyped DEF ApproveWithdraw, Pending, TreasuryTypeOK
    <2>2. QED
      BY <1>5, <2>1 DEF ApproveWithdraw, TreasuryTypeOK, configVars
  <1>6. ASSUME NEW a \in Account, NEW d \in Id, ExecuteWithdraw(a, d) PROVE TreasuryTypeOK'
    <2>1. proposal[d] \in Proposal
      BY <1>6, ProposalTyped DEF ExecuteWithdraw, Pending
    <2>2. wallet' \in [Account -> Nat] /\ held' \in Nat
      BY <1>6, <2>1, PaysOutTyped DEF ExecuteWithdraw, Proposal
    <2>3. proposal' \in [Id -> Proposal \cup {None}]
      BY <1>6, ProposalTyped DEF ExecuteWithdraw, Pending, TreasuryTypeOK
    <2>4. QED
      BY <1>6, <2>2, <2>3 DEF ExecuteWithdraw, TreasuryTypeOK, configVars
  <1>7. CASE UNCHANGED treasuryVars
    BY <1>7 DEF treasuryVars, configVars, TreasuryTypeOK
  <1>8. QED
    BY <1>1, <1>2, <1>3, <1>4, <1>5, <1>6, <1>7 DEF TreasuryNext

(* The treasury's storage and balances keep their types.                    *)
THEOREM TreasuryTypeCorrect == TreasurySpec => []TreasuryTypeOK
  BY InitTyped, StepTyped, PTL DEF TreasurySpec

-----------------------------------------------------------------------------
(* The invariant behind ExecutedWithQuorum: no executed proposal lacks the smallest
   quorum, which is inductive because while there are members a real quorum is in
   force, and votes can be counted.                                         *)
QuorumInForce == members # <<>> => threshold >= LeastQuorum
VotesFinite == \A d \in Id : proposal[d] # None => IsFiniteSet(proposal[d].approvals)
QuorumStands ==
  \A d \in Id : proposal[d] # None /\ proposal[d].executed =>
                  Cardinality(proposal[d].approvals) >= LeastQuorum
QuorumInv == QuorumInForce /\ VotesFinite /\ QuorumStands

(* Only governance calls touch members and threshold.                       *)
LEMMA GovernanceKept ==
  ASSUME QuorumInv, UNCHANGED <<members, threshold, proposal>> PROVE QuorumInv'
  BY DEF QuorumInv, QuorumInForce, VotesFinite, QuorumStands

LEMMA InitQuorum == TreasuryInit => QuorumInv
  BY DEF TreasuryInit, QuorumInv, QuorumInForce, VotesFinite, QuorumStands

LEMMA StepQuorum ==
  TreasuryTypeOK /\ QuorumInv /\ [TreasuryNext]_treasuryVars => QuorumInv'
  <1> SUFFICES ASSUME TreasuryTypeOK, QuorumInv, [TreasuryNext]_treasuryVars PROVE QuorumInv'
    OBVIOUS
  <1>1. ASSUME NEW list \in MemberList, NEW t \in Threshold, SetGovernance(list, t)
        PROVE  QuorumInv'
    <2>1. list # <<>> => t >= LeastQuorum
      BY <1>1, TreasuryAssumption DEF SetGovernance, ValidGovernance
    <2>2. QED
      BY <1>1, <2>1 DEF SetGovernance, QuorumInv, QuorumInForce, VotesFinite, QuorumStands
  <1>2. CASE Administer
    BY <1>1, <1>2, GovernanceKept DEF Administer, Initialize, SetAllowed, SetMaxWithdrawal
  <1>3. ASSUME NEW a \in Account, NEW n \in Amount, Deposit(a, n) \/ Withdraw(a, n)
        PROVE  QuorumInv'
    BY <1>3, GovernanceKept DEF Deposit, Withdraw, configVars
  <1>4. ASSUME NEW a \in Account, NEW to \in Account, NEW n \in Amount, ProposeWithdraw(a, to, n)
        PROVE  QuorumInv'
    <2>1. IsFiniteSet({})
      BY FS_EmptySet
    <2>2. /\ members' = members /\ threshold' = threshold
          /\ \A d \in Id : IF d = NextId
               THEN proposal'[d] = [to |-> to, amount |-> n, approvals |-> {}, executed |-> FALSE]
               ELSE proposal'[d] = proposal[d]
      BY <1>4 DEF ProposeWithdraw, configVars, TreasuryTypeOK
    <2>3. /\ members' = members /\ threshold' = threshold
          /\ \A d \in Id : \/ proposal'[d] = proposal[d]
                           \/ proposal'[d].approvals = {} /\ ~proposal'[d].executed
      BY <2>2
    <2>4. QED
      BY <2>1, <2>3 DEF QuorumInv, QuorumInForce, VotesFinite, QuorumStands
  <1>5. ASSUME NEW a \in Account, NEW d \in Id, ApproveWithdraw(a, d) PROVE QuorumInv'
    <2>1. proposal[d] \in Proposal /\ ~proposal[d].executed /\ proposal[d] # None
      BY <1>5, ProposalTyped DEF ApproveWithdraw, Pending
    <2>2. IsFiniteSet(proposal[d].approvals \cup {a})
      BY <2>1, FS_AddElement DEF QuorumInv, VotesFinite
    <2>3. /\ members' = members /\ threshold' = threshold
          /\ \A x \in Id : x # d => proposal'[x] = proposal[x]
          /\ proposal'[d] = [proposal[d] EXCEPT !.approvals = @ \cup {a}]
      BY <1>5 DEF ApproveWithdraw, configVars, TreasuryTypeOK
    <2>4. ~proposal'[d].executed /\ proposal'[d].approvals = proposal[d].approvals \cup {a}
      BY <2>1, <2>3 DEF Proposal
    <2>5. QED
      BY <2>2, <2>3, <2>4 DEF QuorumInv, QuorumInForce, VotesFinite, QuorumStands
  <1>6. ASSUME NEW a \in Account, NEW d \in Id, ExecuteWithdraw(a, d) PROVE QuorumInv'
    <2>1. proposal[d] \in Proposal /\ proposal[d] # None
      BY <1>6, ProposalTyped DEF ExecuteWithdraw, Pending
    <2>2. members # <<>>
      BY <1>6 DEF ExecuteWithdraw, IsMember
    <2>3. Cardinality(proposal[d].approvals) \in Nat
      BY <2>1, FS_CardinalityType DEF QuorumInv, VotesFinite
    <2>4. Cardinality(proposal[d].approvals) >= LeastQuorum
      BY <1>6, <2>2, <2>3, TreasuryAssumption
      DEF ExecuteWithdraw, HasQuorum, QuorumInv, QuorumInForce, TreasuryTypeOK
    <2>5. /\ members' = members /\ threshold' = threshold
          /\ \A x \in Id : x # d => proposal'[x] = proposal[x]
          /\ proposal'[d] = [proposal[d] EXCEPT !.executed = TRUE]
      BY <1>6 DEF ExecuteWithdraw, configVars, TreasuryTypeOK
    <2>6. proposal'[d].approvals = proposal[d].approvals
      BY <2>1, <2>5 DEF Proposal
    <2>7. QED
      BY <2>1, <2>4, <2>5, <2>6 DEF QuorumInv, QuorumInForce, VotesFinite, QuorumStands
  <1>7. CASE UNCHANGED treasuryVars
    BY <1>7, GovernanceKept DEF treasuryVars, configVars
  <1>8. QED
    BY <1>2, <1>3, <1>4, <1>5, <1>6, <1>7 DEF TreasuryNext

\* What a call may do to votes and executions.
FairBallots ==
  \A d \in Id :
    /\ Pays(d) => Cardinality(Votes(d)) >= threshold
    /\ \A a \in Votes(d)' : a \in Votes(d) \/ IsMember(a)

LEMMA SameBallot ==
  ASSUME NEW d \in Id, proposal'[d] = proposal[d] PROVE ~Pays(d) /\ Votes(d)' = Votes(d)
  BY DEF Pays, Paid, Votes

LEMMA StepBallots == TreasuryTypeOK /\ [TreasuryNext]_treasuryVars => FairBallots
  <1> SUFFICES ASSUME TreasuryTypeOK, [TreasuryNext]_treasuryVars PROVE FairBallots
    OBVIOUS
  <1>1. CASE UNCHANGED proposal
    BY <1>1, SameBallot DEF FairBallots
  <1>2. ASSUME NEW a \in Account, NEW to \in Account, NEW n \in Amount, ProposeWithdraw(a, to, n)
        PROVE  FairBallots
    <2>1. \A d \in Id : \/ proposal'[d] = proposal[d]
                        \/ proposal'[d].approvals = {} /\ ~proposal'[d].executed
      <3>1. \A d \in Id : IF d = NextId
               THEN proposal'[d] = [to |-> to, amount |-> n, approvals |-> {}, executed |-> FALSE]
               ELSE proposal'[d] = proposal[d]
        BY <1>2 DEF ProposeWithdraw, TreasuryTypeOK
      <3>2. QED
        BY <3>1
    <2>2. ASSUME NEW d \in Id, proposal'[d] # proposal[d]
          PROVE  ~Pays(d) /\ Votes(d)' = {}
      BY <2>1, <2>2 DEF Pays, Paid, Votes
    <2>3. QED
      BY <2>2, SameBallot DEF FairBallots
  <1>3. ASSUME NEW a \in Account, NEW d \in Id, ApproveWithdraw(a, d) PROVE FairBallots
    <2>1. proposal[d] \in Proposal /\ ~proposal[d].executed /\ proposal[d] # None /\ IsMember(a)
      BY <1>3, ProposalTyped DEF ApproveWithdraw, Pending
    <2>2. /\ \A x \in Id : x # d => proposal'[x] = proposal[x]
          /\ proposal'[d] = [proposal[d] EXCEPT !.approvals = @ \cup {a}]
      BY <1>3 DEF ApproveWithdraw, TreasuryTypeOK
    <2>3. ~proposal'[d].executed /\ proposal'[d].approvals = proposal[d].approvals \cup {a}
      BY <2>1, <2>2 DEF Proposal
    <2>4. ~Pays(d) /\ \A b \in Votes(d)' : b \in Votes(d) \/ b = a
      BY <2>1, <2>3 DEF Pays, Paid, Votes
    <2>5. QED
      BY <2>1, <2>2, <2>4, SameBallot DEF FairBallots
  <1>4. ASSUME NEW a \in Account, NEW d \in Id, ExecuteWithdraw(a, d) PROVE FairBallots
    <2>1. proposal[d] \in Proposal /\ proposal[d] # None /\ Cardinality(proposal[d].approvals) >= threshold
      BY <1>4, ProposalTyped DEF ExecuteWithdraw, Pending, HasQuorum
    <2>2. /\ \A x \in Id : x # d => proposal'[x] = proposal[x]
          /\ proposal'[d] = [proposal[d] EXCEPT !.executed = TRUE]
      BY <1>4 DEF ExecuteWithdraw, TreasuryTypeOK
    <2>3. proposal'[d].approvals = proposal[d].approvals
      BY <2>1, <2>2 DEF Proposal
    <2>4. Cardinality(Votes(d)) >= threshold /\ \A b \in Votes(d)' : b \in Votes(d)
      BY <2>1, <2>3 DEF Votes
    <2>5. QED
      BY <2>2, <2>4, SameBallot DEF FairBallots
  <1>5. QED
    BY <1>1, <1>2, <1>3, <1>4
    DEF TreasuryNext, Administer, Initialize, SetAllowed, SetMaxWithdrawal, SetGovernance,
      Deposit, Withdraw, treasuryVars

(* Whatever the administrator does to members and threshold, a withdrawal executes
   with as many votes as the threshold then in force, each cast by an account that
   was a member when it voted, and never with less than the smallest quorum. *)
THEOREM ExecutedWithQuorumHolds == TreasurySpec => ExecutedWithQuorum
  <1> DEFINE Stands == \A d \in Id : Paid(d) => Cardinality(Votes(d)) >= LeastQuorum
             Fair == \A d \in Id :
                       /\ Pays(d) => Cardinality(Votes(d)) >= threshold
                       /\ \A a \in Votes(d)' : a \in Votes(d) \/ IsMember(a)
  <1>1. QuorumInv => Stands
    BY DEF QuorumInv, QuorumStands, Paid, Votes
  <1>2. TreasuryTypeOK /\ [TreasuryNext]_treasuryVars => Fair
    BY StepBallots DEF FairBallots
  <1> HIDE DEF Stands, Fair
  <1>3. TreasurySpec => []Stands /\ [][Fair]_treasuryVars
    BY <1>1, <1>2, InitTyped, StepTyped, InitQuorum, StepQuorum, PTL DEF TreasurySpec
  <1>4. QED
    BY <1>3 DEF ExecutedWithQuorum, Stands, Fair

-----------------------------------------------------------------------------
(* The ids at and past the counter are free.                                *)
FreshIds == \A d \in Id : d >= NextId => proposal[d] = None

LEMMA InitFresh == TreasuryInit => FreshIds
  BY DEF TreasuryInit, FreshIds

LEMMA StepFresh ==
  TreasuryTypeOK /\ FreshIds /\ [TreasuryNext]_treasuryVars => FreshIds'
  <1> SUFFICES ASSUME TreasuryTypeOK, FreshIds, [TreasuryNext]_treasuryVars PROVE FreshIds'
    OBVIOUS
  <1>1. ASSUME NEW list \in MemberList, NEW t \in Threshold, SetGovernance(list, t)
        PROVE  FreshIds'
    <2>1. nextId' = NextId /\ proposal' = proposal
      BY <1>1, SeededIsNext DEF SetGovernance
    <2>2. NextId' = NextId
      BY <2>1, NextIdTyped, TreasuryAssumption DEF NextId
    <2>3. QED
      BY <2>1, <2>2 DEF FreshIds
  <1>2. ASSUME UNCHANGED nextId, \A d \in Id : proposal[d] = None => proposal'[d] = None
        PROVE  FreshIds'
    BY <1>2 DEF FreshIds, NextId
  <1>3. CASE Administer
    BY <1>1, <1>2, <1>3 DEF Administer, Initialize, SetAllowed, SetMaxWithdrawal
  <1>4. ASSUME NEW a \in Account, NEW n \in Amount, Deposit(a, n) \/ Withdraw(a, n)
        PROVE  FreshIds'
    BY <1>2, <1>4 DEF Deposit, Withdraw
  <1>5. ASSUME NEW a \in Account, NEW to \in Account, NEW n \in Amount, ProposeWithdraw(a, to, n)
        PROVE  FreshIds'
    <2>1. NextId' = NextId + 1
      BY <1>5, NextIdTyped, TreasuryAssumption DEF ProposeWithdraw, NextId
    <2>2. \A d \in Id : d # NextId => proposal'[d] = proposal[d]
      BY <1>5 DEF ProposeWithdraw, TreasuryTypeOK
    <2>3. \A d \in Id : d >= NextId' => d >= NextId /\ d # NextId
      BY <2>1, NextIdTyped DEF Id
    <2>4. QED
      BY <2>2, <2>3 DEF FreshIds
  <1>6. ASSUME NEW a \in Account, NEW d \in Id, ApproveWithdraw(a, d) \/ ExecuteWithdraw(a, d)
        PROVE  FreshIds'
    <2>1. proposal[d] # None /\ UNCHANGED nextId
      BY <1>6 DEF ApproveWithdraw, ExecuteWithdraw, Pending
    <2>2. \A x \in Id : x # d => proposal'[x] = proposal[x]
      BY <1>6 DEF ApproveWithdraw, ExecuteWithdraw, TreasuryTypeOK
    <2>3. QED
      BY <1>2, <2>1, <2>2
  <1>7. CASE UNCHANGED treasuryVars
    BY <1>2, <1>7 DEF treasuryVars
  <1>8. QED
    BY <1>3, <1>4, <1>5, <1>6, <1>7 DEF TreasuryNext

-----------------------------------------------------------------------------
(* What the refinement shows of a stored proposal.                          *)
LEMMA BallotOfProposal ==
  ASSUME TreasuryTypeOK, NEW d \in Id, proposal[d] # None
  PROVE  /\ BallotOf(d) \in Vault!Ballots /\ BallotOf(d) # None
         /\ BallotOf(d).to = proposal[d].to /\ BallotOf(d).amount = proposal[d].amount
         /\ BallotOf(d).voters = proposal[d].approvals
         /\ BallotOf(d).paid = proposal[d].executed
  <1>1. proposal[d] \in Proposal
    BY DEF TreasuryTypeOK
  <1>2. BallotOf(d) \in Vault!Ballots
    BY <1>1 DEF BallotOf, Proposal, Vault!Ballots
  <1>3. BallotOf(d) # None
    BY <1>2, AbsentAssumption
  <1>4. QED
    BY <1>2, <1>3 DEF BallotOf

LEMMA StepKeepsVault ==
  TreasuryTypeOK /\ QuorumInv /\ FreshIds /\ [TreasuryNext]_treasuryVars
    => [Vault!VaultNext]_(Vault!vaultVars)
  <1> SUFFICES ASSUME TreasuryTypeOK, QuorumInv, FreshIds, [TreasuryNext]_treasuryVars
               PROVE  [Vault!VaultNext]_(Vault!vaultVars)
    OBVIOUS
  <1> DEFINE ballot == [d \in Id |-> BallotOf(d)]
  <1>1. ASSUME UNCHANGED proposal PROVE ballot' = ballot
    BY <1>1 DEF BallotOf
  <1>2. CASE Administer \/ UNCHANGED treasuryVars
    <2>1. UNCHANGED <<proposal, wallet, held>>
      BY <1>2 DEF Administer, Initialize, SetAllowed, SetMaxWithdrawal, SetGovernance, treasuryVars
    <2>2. QED
      BY <1>1, <2>1 DEF Vault!vaultVars
  <1>3. ASSUME NEW a \in Account, NEW n \in Amount, Deposit(a, n) PROVE Vault!VaultNext
    <2>1. Vault!Receive(a, n)
      BY <1>1, <1>3 DEF Vault!Receive, Deposit
    <2>2. QED
      BY <2>1 DEF Vault!VaultNext
  <1>4. ASSUME NEW a \in Account, NEW n \in Amount, Withdraw(a, n) PROVE Vault!VaultNext
    <2>1. Vault!Disburse(a, n)
      BY <1>1, <1>4 DEF Vault!Disburse, Vault!Transfer, Withdraw, PaysOut, Covered
    <2>2. QED
      BY <2>1 DEF Vault!VaultNext
  <1>5. ASSUME NEW a \in Account, NEW to \in Account, NEW n \in Amount, ProposeWithdraw(a, to, n)
        PROVE  Vault!VaultNext
    <2> DEFINE id == NextId
               fresh == [to |-> to, amount |-> n, approvals |-> {}, executed |-> FALSE]
               terms == [to |-> to, amount |-> n, voters |-> {}, paid |-> FALSE]
    <2>1. id \in Id /\ proposal[id] = None
      BY <1>5, NextIdTyped DEF ProposeWithdraw, FreshIds
    <2>2. ballot[id] = None
      BY <2>1 DEF BallotOf
    <2>3. proposal' = [proposal EXCEPT ![id] = fresh]
      BY <1>5 DEF ProposeWithdraw
    <2>4. fresh # None
      <3>1. fresh \in Proposal
        BY DEF Proposal
      <3>2. QED
        BY <3>1, AbsentAssumption
    <2>5. \A x \in Id : BallotOf(x)' = IF x = id THEN terms ELSE BallotOf(x)
      <3>1. ASSUME NEW x \in Id, x # id PROVE BallotOf(x)' = BallotOf(x)
        BY <2>3, <3>1 DEF BallotOf, TreasuryTypeOK
      <3>2. ASSUME NEW x \in Id, x = id PROVE BallotOf(x)' = terms
        BY <2>1, <2>3, <2>4, <3>2 DEF BallotOf, TreasuryTypeOK
      <3>3. QED
        BY <3>1, <3>2
    <2>6. ballot' = [ballot EXCEPT ![id] = terms]
      BY <2>5
    <2>7. Vault!OpenBallot(id, to, n)
      BY <1>5, <2>2, <2>6 DEF Vault!OpenBallot, ProposeWithdraw
    <2>8. QED
      BY <2>1, <2>7 DEF Vault!VaultNext
  <1>6. ASSUME NEW a \in Account, NEW d \in Id, ApproveWithdraw(a, d) PROVE Vault!VaultNext
    <2>1. proposal[d] \in Proposal /\ proposal[d] # None /\ ~proposal[d].executed
      BY <1>6, ProposalTyped DEF ApproveWithdraw, Pending
    <2>2. proposal'[d] = [proposal[d] EXCEPT !.approvals = @ \cup {a}]
      BY <1>6 DEF ApproveWithdraw, TreasuryTypeOK
    <2>3. proposal'[d] \in Proposal /\ proposal'[d] # None
      BY <2>1, <2>2, ProposalTyped, AbsentAssumption
    <2>4. BallotOf(d)' = [BallotOf(d) EXCEPT !.voters = @ \cup {a}]
      BY <2>1, <2>2, <2>3 DEF BallotOf, Proposal
    <2>5. \A x \in Id : x # d => BallotOf(x)' = BallotOf(x)
      BY <1>6 DEF ApproveWithdraw, BallotOf, TreasuryTypeOK
    <2>6. ballot' = [ballot EXCEPT ![d].voters = @ \cup {a}]
      BY <2>4, <2>5
    <2>7. Vault!Vote(d, a)
      BY <1>6, <2>1, <2>6, BallotOfProposal DEF Vault!Vote, ApproveWithdraw
    <2>8. QED
      BY <2>7 DEF Vault!VaultNext
  <1>7. ASSUME NEW a \in Account, NEW d \in Id, ExecuteWithdraw(a, d) PROVE Vault!VaultNext
    <2>1. proposal[d] \in Proposal /\ proposal[d] # None /\ ~proposal[d].executed
      BY <1>7, ProposalTyped DEF ExecuteWithdraw, Pending
    <2>2. proposal'[d] = [proposal[d] EXCEPT !.executed = TRUE]
      BY <1>7 DEF ExecuteWithdraw, TreasuryTypeOK
    <2>3. proposal'[d] \in Proposal /\ proposal'[d] # None
      BY <1>7, <2>1, <2>2, ProposalTyped, AbsentAssumption
    <2>4. BallotOf(d)' = [BallotOf(d) EXCEPT !.paid = TRUE]
      <3>1. /\ proposal'[d].to = proposal[d].to /\ proposal'[d].amount = proposal[d].amount
            /\ proposal'[d].approvals = proposal[d].approvals /\ proposal'[d].executed = TRUE
        BY <2>1, <2>2 DEF Proposal
      <3>2. BallotOf(d) \in Vault!Ballots /\ BallotOf(d)' \in Vault!Ballots
        BY <2>1, <2>3 DEF BallotOf, Proposal, Vault!Ballots
      <3>3. /\ BallotOf(d)'.to = BallotOf(d).to /\ BallotOf(d)'.amount = BallotOf(d).amount
            /\ BallotOf(d)'.voters = BallotOf(d).voters /\ BallotOf(d)'.paid = TRUE
        BY <2>1, <2>3, <3>1 DEF BallotOf
      <3>4. QED
        BY <3>2, <3>3 DEF Vault!Ballots
    <2>5. \A x \in Id : x # d => BallotOf(x)' = BallotOf(x)
      BY <1>7 DEF ExecuteWithdraw, BallotOf, TreasuryTypeOK
    <2>6. ballot' = [ballot EXCEPT ![d].paid = TRUE]
      BY <2>4, <2>5
    <2>7. Cardinality(proposal[d].approvals) >= LeastQuorum
      <3>1. members # <<>>
        BY <1>7 DEF ExecuteWithdraw, IsMember
      <3>2. Cardinality(proposal[d].approvals) \in Nat
        BY <2>1, FS_CardinalityType DEF QuorumInv, VotesFinite
      <3>3. QED
        BY <1>7, <3>1, <3>2, TreasuryAssumption
        DEF ExecuteWithdraw, HasQuorum, QuorumInv, QuorumInForce, TreasuryTypeOK
    <2>8. Vault!Transfer(ballot[d].to, ballot[d].amount)
      BY <1>7, <2>1, BallotOfProposal DEF Vault!Transfer, ExecuteWithdraw, PaysOut, Covered
    <2>9. Vault!PayBallot(d)
      <3>1. proposal[d].approvals \in SUBSET Account
        BY <2>1 DEF Proposal
      <3>2. ballot[d].voters \in {S \in SUBSET Account : Cardinality(S) >= LeastQuorum}
        BY <2>1, <2>7, <3>1, BallotOfProposal
      <3>3. ballot[d] # None /\ ~ballot[d].paid
        BY <2>1, BallotOfProposal
      <3>4. QED
        BY <2>6, <2>8, <3>2, <3>3 DEF Vault!PayBallot
    <2>10. QED
      BY <2>9 DEF Vault!VaultNext
  <1>8. QED
    BY <1>2, <1>3, <1>4, <1>5, <1>6, <1>7 DEF TreasuryNext

LEMMA InitKeepsVault == TreasuryInit => Vault!VaultInit
  BY TreasuryAssumption DEF TreasuryInit, Vault!VaultInit, BallotOf

(* The contract keeps the promise of TreasuryVault: a ballot's terms stay, its
   votes only grow, and it pays once, to its payee, with a quorum behind it,
   whatever the administrator reconfigures in between.                      *)
THEOREM KeepsVaultHolds == TreasurySpec => KeepsVault
  <1>1. TreasuryInit => TreasuryTypeOK /\ QuorumInv /\ FreshIds /\ Vault!VaultInit
    BY InitTyped, InitQuorum, InitFresh, InitKeepsVault
  <1>2. TreasuryTypeOK /\ QuorumInv /\ FreshIds /\ [TreasuryNext]_treasuryVars
          => TreasuryTypeOK' /\ QuorumInv' /\ FreshIds' /\ [Vault!VaultNext]_(Vault!vaultVars)
    BY StepTyped, StepQuorum, StepFresh, StepKeepsVault
  <1>3. QED
    BY <1>1, <1>2, PTL DEF TreasurySpec, KeepsVault, Vault!VaultSpec

-----------------------------------------------------------------------------
(***************************************************************************)
(* The lifecycle: TreasuryService, the contract and the indexer together.  *)
(***************************************************************************)
LEMMA TxRow ==
  ASSUME NEW x \in Tx
  PROVE  /\ x.call = "deposit" => x.row \in DepositRow
         /\ x.call # "deposit" => x.row \in WithdrawalRow /\ x.call \in {"propose", "approve", "execute"}
         /\ x.by \in Account
  BY LifecycleAssumption DEF Envelopes

\* An envelope whose row is of one table is a call of that table.
LEMMA RowTx ==
  ASSUME NEW x \in Tx
  PROVE  /\ x.row \in DepositRow => x.call = "deposit"
         /\ x.row \in WithdrawalRow => x.call # "deposit"
  BY LifecycleAssumption DEF Envelopes

\* What a call leaves behind: one event, of a proposal that is there; no vote and no
\* payment of any proposal undone.
Called(e) ==
  /\ e \in Event
  /\ events' = Append(events, e)
  /\ e.topic # "deposit" => e.id \in Id /\ proposal'[e.id] # None
  /\ e.topic = "wprop" => proposal[e.id] = None
  /\ e.topic = "wappr" => proposal[e.id] # None /\ ~proposal[e.id].executed
                          /\ e.by \in proposal'[e.id].approvals
  /\ e.topic = "wexec" => proposal'[e.id].executed

VotesKept ==
  \A d \in Id : proposal[d] # None =>
    /\ proposal'[d] # None
    /\ proposal[d].approvals \subseteq proposal'[d].approvals
    /\ proposal[d].executed => proposal'[d].executed

LEMMA ProposeCalled ==
  ASSUME TypeOK, FreshIds, NEW a \in Account, NEW x \in Tx \cup {Foreign},
         ProposeWithdraw(a, Payee, Price), Publish("wprop", NextId, a, x)
  PROVE  VotesKept /\ \E e \in Event : e.tx = x /\ Called(e)
  <1> DEFINE fresh == [to |-> Payee, amount |-> Price, approvals |-> {}, executed |-> FALSE]
  <1>1. fresh \in Proposal
    BY LifecycleAssumption DEF Proposal
  <1>2. PICK n \in Id : n = NextId
    BY DEF ProposeWithdraw
  <1>3. proposal' = [proposal EXCEPT ![n] = fresh]
    BY <1>2 DEF ProposeWithdraw
  <1> HIDE DEF fresh
  <1>4. proposal[n] = None
    BY <1>2, NextIdTyped DEF TypeOK, FreshIds
  <1>5. proposal'[n] = fresh /\ \A d \in Id : d # n => proposal'[d] = proposal[d]
    BY <1>3 DEF TypeOK, TreasuryTypeOK
  <1>6. fresh # None
    BY <1>1, AbsentAssumption
  <1>7. VotesKept
    BY <1>4, <1>5 DEF VotesKept
  <1> DEFINE e == [topic |-> "wprop", id |-> n, by |-> a, tx |-> x]
  <1>8. e \in Event /\ e.topic = "wprop" /\ e.id = n /\ e.tx = x
    BY DEF Event
  <1>9. events' = Append(events, e)
    BY <1>2 DEF Publish
  <1> HIDE DEF e
  <1>10. Called(e)
    BY <1>4, <1>5, <1>6, <1>8, <1>9 DEF Called
  <1>11. QED
    BY <1>7, <1>8, <1>10

LEMMA ApproveCalled ==
  ASSUME TypeOK, NEW a \in Account, NEW d \in Id, NEW x \in Tx \cup {Foreign},
         ApproveWithdraw(a, d), Publish("wappr", d, a, x)
  PROVE  VotesKept /\ \E e \in Event : e.tx = x /\ Called(e)
  <1>1. /\ proposal[d] # None /\ ~proposal[d].executed
        /\ proposal' = [proposal EXCEPT ![d].approvals = @ \cup {a}]
    BY DEF ApproveWithdraw, Pending
  <1>2. /\ proposal[d] \in Proposal
        /\ [proposal[d] EXCEPT !.approvals = @ \cup {a}] \in Proposal
    BY <1>1, ProposalTyped DEF TypeOK
  <1>3. /\ proposal'[d] = [proposal[d] EXCEPT !.approvals = @ \cup {a}]
        /\ \A y \in Id : y # d => proposal'[y] = proposal[y]
    BY <1>1 DEF TypeOK, TreasuryTypeOK
  <1>4. /\ proposal'[d] # None
        /\ proposal'[d].approvals = proposal[d].approvals \cup {a}
        /\ proposal'[d].executed = proposal[d].executed
    <2>1. proposal'[d] # None
      BY <1>2, <1>3, AbsentAssumption
    <2>2. QED
      BY <1>2, <1>3, <2>1 DEF Proposal
  <1>5. VotesKept
    BY <1>3, <1>4 DEF VotesKept
  <1> DEFINE e == [topic |-> "wappr", id |-> d, by |-> a, tx |-> x]
  <1>6. e \in Event /\ e.topic = "wappr" /\ e.id = d /\ e.tx = x /\ e.by = a
    BY DEF Event
  <1>7. events' = Append(events, e)
    BY DEF Publish
  <1> HIDE DEF e
  <1>8. Called(e)
    BY <1>1, <1>4, <1>6, <1>7 DEF Called
  <1>9. QED
    BY <1>5, <1>6, <1>8

LEMMA ExecuteCalled ==
  ASSUME TypeOK, NEW a \in Account, NEW d \in Id, NEW x \in Tx \cup {Foreign},
         ExecuteWithdraw(a, d), Publish("wexec", d, a, x)
  PROVE  VotesKept /\ \E e \in Event : e.tx = x /\ Called(e)
  <1>1. proposal[d] # None /\ proposal' = [proposal EXCEPT ![d].executed = TRUE]
    BY DEF ExecuteWithdraw, Pending
  <1>2. /\ proposal[d] \in Proposal
        /\ [proposal[d] EXCEPT !.executed = TRUE] \in Proposal
    BY <1>1, ProposalTyped DEF TypeOK
  <1>3. /\ proposal'[d] = [proposal[d] EXCEPT !.executed = TRUE]
        /\ \A y \in Id : y # d => proposal'[y] = proposal[y]
    BY <1>1 DEF TypeOK, TreasuryTypeOK
  <1>4. /\ proposal'[d] # None
        /\ proposal'[d].approvals = proposal[d].approvals
        /\ proposal'[d].executed
    <2>1. proposal'[d] # None
      BY <1>2, <1>3, AbsentAssumption
    <2>2. QED
      BY <1>2, <1>3, <2>1 DEF Proposal
  <1>5. VotesKept
    BY <1>3, <1>4 DEF VotesKept
  <1> DEFINE e == [topic |-> "wexec", id |-> d, by |-> a, tx |-> x]
  <1>6. e \in Event /\ e.topic = "wexec" /\ e.id = d /\ e.tx = x
    BY DEF Event
  <1>7. events' = Append(events, e)
    BY DEF Publish
  <1> HIDE DEF e
  <1>8. Called(e)
    BY <1>4, <1>6, <1>7 DEF Called
  <1>9. QED
    BY <1>5, <1>6, <1>8

LEMMA DepositCalled ==
  ASSUME TypeOK, NEW a \in Account, NEW x \in Tx \cup {Foreign},
         Deposit(a, Price), Publish("deposit", None, a, x)
  PROVE  VotesKept /\ \E e \in Event : e.tx = x /\ Called(e)
  <1>1. VotesKept
    BY DEF Deposit, VotesKept
  <1> DEFINE e == [topic |-> "deposit", id |-> None, by |-> a, tx |-> x]
  <1>2. e \in Event /\ e.topic = "deposit" /\ e.tx = x
    BY DEF Event
  <1>3. events' = Append(events, e)
    BY DEF Publish
  <1> HIDE DEF e
  <1>4. QED
    BY <1>1, <1>2, <1>3 DEF Called

(* An invocation is a call the contract's own Next allows.                  *)
LEMMA InvokeCalls ==
  ASSUME TypeOK, FreshIds, NEW call, NEW d, NEW a \in Account, NEW x \in Tx \cup {Foreign},
         call \in {"approve", "execute"} => d \in Id, Invoke(call, d, a, x)
  PROVE  TreasuryNext /\ VotesKept /\ \E e \in Event : e.tx = x /\ Called(e)
  <1>1. Payee \in Account /\ Price \in Amount
    BY LifecycleAssumption
  <1>2. CASE Deposit(a, Price) /\ Publish("deposit", None, a, x)
    BY <1>1, <1>2, DepositCalled DEF TreasuryNext
  <1>3. CASE ProposeWithdraw(a, Payee, Price) /\ Publish("wprop", NextId, a, x)
    BY <1>1, <1>3, ProposeCalled DEF TreasuryNext
  <1>4. CASE d \in Id /\ ApproveWithdraw(a, d) /\ Publish("wappr", d, a, x)
    BY <1>4, ApproveCalled DEF TreasuryNext
  <1>5. CASE d \in Id /\ ExecuteWithdraw(a, d) /\ Publish("wexec", d, a, x)
    BY <1>5, ExecuteCalled DEF TreasuryNext
  <1>6. QED
    BY <1>2, <1>3, <1>4, <1>5 DEF Invoke

-----------------------------------------------------------------------------
(* The inductive invariant.                                                 *)

\* A busy request submits an envelope that was prepared.
Requests ==
  \A h \in Handler : req[h].at # "idle" => req[h].tx \in Tx /\ fate[req[h].tx] # "none"

\* A row has one envelope that makes it, prepared with the row; approvals and
\* executions are prepared for a row that knows its proposal.
Opens(x) == x.call \in {"deposit", "propose"} /\ fate[x] # "none"

Prepared ==
  /\ \A x, y \in Tx : Opens(x) /\ Opens(y) /\ x.row = y.row => x = y
  /\ \A x \in Tx : fate[x] # "none" =>
       /\ x.call = "deposit" => deposit[x.row].status # "ABSENT"
       /\ x.call # "deposit" => withdrawal[x.row].status # "ABSENT"
       /\ x.call \in {"approve", "execute"} => withdrawal[x.row].contractId # None

\* The proposal's event that gave row r its id, met by the indexer.
BroughtBy(r, k) ==
  /\ events[k].topic = "wprop"
  /\ events[k].id = withdrawal[r].contractId
  /\ events[k].tx = withdrawal[r].hash

\* The hash of a row is its own envelope, its id that of the envelope's event.
Rows ==
  \A r \in WithdrawalRow :
    /\ withdrawal[r].hash # NoTx =>
         /\ withdrawal[r].hash \in Tx /\ withdrawal[r].hash.row = r
         /\ withdrawal[r].hash.call = "propose" /\ fate[withdrawal[r].hash] # "none"
    /\ withdrawal[r].contractId # None =>
         /\ withdrawal[r].hash # NoTx
         /\ withdrawal[r].status \in {"PROPOSED", "APPROVED", "EXECUTED"}
         /\ \E k \in 1..seen : BroughtBy(r, k)
    /\ withdrawal[r].contractId = None =>
         withdrawal[r].approvals = {} /\ withdrawal[r].status \in {"ABSENT", "PROPOSED", "FAILED"}
    /\ withdrawal[r].status = "FAILED" =>
         withdrawal[r].hash # NoTx /\ fate[withdrawal[r].hash] = "reverted"

Deposits ==
  \A r \in DepositRow :
    /\ deposit[r].hash # NoTx =>
         /\ deposit[r].hash \in Tx /\ deposit[r].hash.row = r
         /\ deposit[r].hash.call = "deposit" /\ fate[deposit[r].hash] # "none"
    /\ deposit[r].status = "CONFIRMED" => deposit[r].hash # NoTx /\ fate[deposit[r].hash] = "applied"
    /\ deposit[r].status = "FAILED" => deposit[r].hash # NoTx /\ fate[deposit[r].hash] = "reverted"

\* The log: an applied envelope has one event; every event is of a proposal that is
\* there and records its vote or its payment; votes follow the proposal and go
\* before its execution.
Log ==
  \A k \in DOMAIN events :
    /\ events[k].tx # Foreign =>
         /\ fate[events[k].tx] = "applied"
         /\ \A i \in DOMAIN events : events[i].tx = events[k].tx => i = k
    /\ events[k].topic # "deposit" =>
         /\ proposal[events[k].id] # None
         /\ \A i \in DOMAIN events :
              events[i].topic = "wprop" /\ events[i].id = events[k].id => i <= k
    /\ events[k].topic = "wappr" => events[k].by \in proposal[events[k].id].approvals
    /\ events[k].topic = "wexec" =>
         /\ proposal[events[k].id].executed
         /\ \A i \in DOMAIN events :
              events[i].topic = "wappr" /\ events[i].id = events[k].id => i < k

\* What the rows show, the contract has.
Shown ==
  \A r \in WithdrawalRow : withdrawal[r].contractId # None =>
    /\ withdrawal[r].status = "EXECUTED" => proposal[withdrawal[r].contractId].executed
    /\ withdrawal[r].approvals \subseteq proposal[withdrawal[r].contractId].approvals

\* A tick in the middle of an approval holds votes of the row's own proposal.
Stashed ==
  \A t \in Tick : stash[t] # None =>
    /\ stash[t].event \in DOMAIN events /\ stash[t].event <= seen + 1
    /\ events[stash[t].event].topic = "wappr"
    /\ withdrawal[stash[t].row].contractId # None
    /\ events[stash[t].event].id = withdrawal[stash[t].row].contractId
    /\ stash[t].read \subseteq proposal[withdrawal[stash[t].row].contractId].approvals

LEMMA EventTyped ==
  ASSUME TypeOK
  PROVE  \A k \in DOMAIN events :
           /\ events[k] \in Event /\ events[k].tx \in Tx \cup {Foreign} /\ events[k].by \in Account
           /\ events[k].topic \in {"deposit", "wprop", "wappr", "wexec"}
           /\ events[k].topic # "deposit" => events[k].id \in Id
  <1>1. \A k \in DOMAIN events : events[k] \in Event
    BY DEF TypeOK, CallsTypeOK
  <1>2. QED
    BY <1>1 DEF Event

LEMMA IdNotNone == \A d \in Id : d # None
  BY TreasuryAssumption DEF Id

LEMMA Positions ==
  ASSUME TypeOK
  PROVE  /\ DOMAIN events = 1..Len(events) /\ Len(events) \in Nat
         /\ seen \in Nat /\ seen <= Len(events)
         /\ \A k \in DOMAIN events : k \in Nat /\ 1 <= k /\ k <= Len(events)
  BY DEF TypeOK, CallsTypeOK

LEMMA CallOf ==
  ASSUME TypeOK, Prepared, NEW x \in Tx, fate[x] # "none"
  PROVE  x.call \in {"approve", "execute"} => ContractIdOf(x) \in Id
  BY TxRow DEF Prepared, ContractIdOf, TypeOK, WithdrawalRec

LEMMA UpsetTyped ==
  ASSUME CallsTypeOK(Event), NEW kind \in {"again", "dropped", "died"}, Upset(kind)
  PROVE  upsets' \in [UpsetKind -> 0..(MaxForeign + MaxUpsets)]
  <1>1. /\ upsets["again"] \in Nat /\ upsets["dropped"] \in Nat /\ upsets["died"] \in Nat
        /\ upsets \in [UpsetKind -> 0..(MaxForeign + MaxUpsets)]
    BY CallsAssumption DEF CallsTypeOK, UpsetKind
  <1>2. upsets[kind] + 1 \in 0..(MaxForeign + MaxUpsets)
    BY <1>1, CallsAssumption DEF Upset, UpsetTotal
  <1>3. QED
    BY <1>1, <1>2 DEF Upset

LEMMA ForeignTyped ==
  ASSUME CallsTypeOK(Event), CalledDirectly
  PROVE  upsets' \in [UpsetKind -> 0..(MaxForeign + MaxUpsets)]
  <1>1. upsets["foreign"] + 1 \in 0..(MaxForeign + MaxUpsets)
    BY CallsAssumption DEF CallsTypeOK, UpsetKind, CalledDirectly
  <1>2. QED
    BY <1>1 DEF CallsTypeOK, CalledDirectly

LEMMA PrepareTyped ==
  ASSUME CallsTypeOK(Event), NEW x \in Tx, Prepare(x) \/ Reverts(x)
  PROVE  CallsTypeOK(Event)'
  BY DEF CallsTypeOK, Prepare, Reverts, Fate

LEMMA StartTyped ==
  ASSUME CallsTypeOK(Event), NEW h \in Handler, NEW x \in Tx, Start(h, x)
  PROVE  CallsTypeOK(Event)'
  BY DEF CallsTypeOK, Start

LEMMA NetworkTyped ==
  ASSUME CallsTypeOK(Event), NEW h \in Handler, CallNetwork(h)
  PROVE  CallsTypeOK(Event)'
  <1>1. fate' \in [Tx -> Fate]
    BY DEF CallsTypeOK, CallNetwork, Fate
  <1>2. req' \in [Handler -> [at : {"idle", "calling", "waiting", "threw"}, tx : Tx \cup {NoTx}]]
    BY SMTT(20) DEF CallsTypeOK, CallNetwork
  <1>3. QED
    BY <1>1, <1>2 DEF CallsTypeOK, CallNetwork

LEMMA DoneTyped ==
  ASSUME CallsTypeOK(Event), NEW h \in Handler, Done(h)
  PROVE  CallsTypeOK(Event)'
  BY DEF CallsTypeOK, Done, Idle

LEMMA DiesTyped ==
  ASSUME CallsTypeOK(Event), NEW h \in Handler, Dies(h)
  PROVE  CallsTypeOK(Event)'
  <1>1. upsets' \in [UpsetKind -> 0..(MaxForeign + MaxUpsets)]
    BY UpsetTyped DEF Dies
  <1>2. req' \in [Handler -> [at : {"idle", "calling", "waiting", "threw"}, tx : Tx \cup {NoTx}]]
    BY DEF CallsTypeOK, Dies, Idle
  <1>3. QED
    BY <1>1, <1>2 DEF CallsTypeOK, Dies

LEMMA MetTyped ==
  ASSUME CallsTypeOK(Event), NEW k \in DOMAIN events, Delivered(k) \/ Dropped(k)
  PROVE  CallsTypeOK(Event)'
  <1>1. upsets' \in [UpsetKind -> 0..(MaxForeign + MaxUpsets)]
    BY UpsetTyped DEF Delivered, Dropped, CallsTypeOK
  <1>2. seen' \in 0..Len(events)
    BY DEF CallsTypeOK, Delivered, Dropped, First
  <1>3. QED
    BY <1>1, <1>2 DEF CallsTypeOK, Delivered, Dropped

(* What the composed system does to the contract, the contract allows.         *)
LEMMA StepContract == TypeOK /\ FreshIds /\ Prepared /\ [Next]_vars => [TreasuryNext]_treasuryVars
  <1> SUFFICES ASSUME TypeOK, FreshIds, Prepared, [Next]_vars PROVE [TreasuryNext]_treasuryVars
    OBVIOUS
  <1>1. CASE UNCHANGED <<treasuryVars>>
    BY <1>1
  <1>2. ASSUME DirectCall PROVE [TreasuryNext]_treasuryVars
    <2>1. CASE Administer
      BY <2>1 DEF TreasuryNext
    <2>2. CASE Withdraw(Payee, Price)
      BY <2>2, LifecycleAssumption DEF TreasuryNext
    <2>3. ASSUME NEW call, NEW d \in Id, NEW a \in Account, Invoke(call, d, a, Foreign)
          PROVE  TreasuryNext
      BY <2>3, InvokeCalls
    <2>4. QED
      BY <1>2, <2>1, <2>2, <2>3 DEF DirectCall
  <1>3. ASSUME NEW x \in Tx, TxApplies(x) PROVE [TreasuryNext]_treasuryVars
    <2>1. fate[x] # "none" /\ Invoke(x.call, ContractIdOf(x), x.by, x)
      BY <1>3 DEF TxApplies, Applies
    <2>2. QED
      BY <2>1, TxRow, CallOf, InvokeCalls
  <1> QED
    BY <1>1, <1>2, <1>3
    DEF Next, vars, apiVars, callVars, TxReverts, PrepareAction, CreateDeposit,
      ProposeWithdrawal, SubmitDeposit, SubmitUnclaimed, Calls, PersistHash, PersistFailed,
      GiveBack, HandlerDies, ReconcileOne, ApprovalIgnored, EventDropped,
      OnWithdrawalApproved, WriteApproval, Accepted, CallNetwork, Delivered, Dies, Done,
      Dropped, OnTreasuryDeposit, OnWithdrawalExecuted, OnWithdrawalProposed, Prepare,
      Refused, Reverts, Start, Threw, Upset

\* What was decided stays decided.
FateKept ==
  \A x \in Tx : /\ fate[x] \in {"applied", "reverted"} => fate'[x] = fate[x]
                /\ fate[x] # "none" => fate'[x] # "none"

LEMMA StepFate == TypeOK /\ [Next]_vars => FateKept
  <1> SUFFICES ASSUME TypeOK, [Next]_vars PROVE FateKept
    OBVIOUS
  <1>1. CASE UNCHANGED <<fate>>
    BY <1>1 DEF FateKept
  <1>2. ASSUME NEW x \in Tx, TxApplies(x) PROVE FateKept
    BY <1>2 DEF TxApplies, Applies, callVars, FateKept, TypeOK, CallsTypeOK
  <1>3. ASSUME NEW x \in Tx, TxReverts(x) PROVE FateKept
    BY <1>3 DEF TxReverts, Reverts, callVars, FateKept, TypeOK, CallsTypeOK
  <1>4. ASSUME NEW x \in Tx, PrepareAction(x) PROVE FateKept
    BY <1>4 DEF PrepareAction, Prepare, callVars, FateKept, TypeOK, CallsTypeOK
  <1>5. ASSUME NEW r \in DepositRow, CreateDeposit(r) PROVE FateKept
    BY <1>5 DEF CreateDeposit, Prepare, callVars, FateKept, TypeOK, CallsTypeOK
  <1>6. ASSUME NEW r \in WithdrawalRow, ProposeWithdrawal(r) PROVE FateKept
    BY <1>6 DEF ProposeWithdrawal, Prepare, callVars, FateKept, TypeOK, CallsTypeOK
  <1>7. ASSUME NEW h \in Handler, Calls(h) PROVE FateKept
    BY <1>7 DEF Calls, CallNetwork, callVars, FateKept, TypeOK, CallsTypeOK
  <1> QED
    BY <1>1, <1>2, <1>3, <1>4, <1>5, <1>6, <1>7
    DEF Next, vars, apiVars, callVars, DirectCall, SubmitDeposit, SubmitUnclaimed,
      PersistHash, PersistFailed, GiveBack, HandlerDies, ReconcileOne, ApprovalIgnored,
      EventDropped, OnWithdrawalApproved, WriteApproval, Accepted, CalledDirectly, Delivered,
      Dies, Done, Dropped, OnTreasuryDeposit, OnWithdrawalExecuted, OnWithdrawalProposed,
      Refused, Start, Threw, Upset

\* The ledger publishes nothing, or the event of one call, by nobody of the API or
\* by an envelope that was queued.
Quiet == UNCHANGED <<events, proposal>>

Publishes(e) ==
  /\ Called(e) /\ VotesKept
  /\ UNCHANGED <<seen, req, deposit, withdrawal, stash>>
  /\ \/ e.tx = Foreign /\ fate' = fate
     \/ /\ e.tx \in Tx /\ fate[e.tx] = "queued"
        /\ fate' = [fate EXCEPT ![e.tx] = "applied"]
        /\ upsets' = upsets

LEMMA StepLedger == TypeOK /\ FreshIds /\ Prepared /\ [Next]_vars => Quiet \/ \E e \in Event : Publishes(e)
  <1> SUFFICES ASSUME TypeOK, FreshIds, Prepared, [Next]_vars PROVE Quiet \/ \E e \in Event : Publishes(e)
    OBVIOUS
  <1>1. CASE UNCHANGED <<events, treasuryVars>>
    BY <1>1 DEF treasuryVars, Quiet
  <1>2. ASSUME DirectCall PROVE Quiet \/ \E e \in Event : Publishes(e)
    <2>1. CASE Administer /\ UNCHANGED events
      BY <2>1 DEF Administer, Initialize, SetAllowed, SetMaxWithdrawal, SetGovernance, Quiet
    <2>2. CASE Withdraw(Payee, Price) /\ UNCHANGED events
      BY <2>2 DEF Withdraw, Quiet
    <2>3. ASSUME NEW call, NEW d \in Id, NEW a \in Account, Invoke(call, d, a, Foreign)
          PROVE  \E e \in Event : Publishes(e)
      <3>1. PICK e \in Event : e.tx = Foreign /\ Called(e) /\ VotesKept
        BY <2>3, InvokeCalls
      <3>2. QED
        BY <1>2, <3>1 DEF DirectCall, CalledDirectly, Publishes
    <2>4. QED
      BY <1>2, <2>1, <2>2, <2>3 DEF DirectCall
  <1>3. ASSUME NEW x \in Tx, TxApplies(x) PROVE Quiet \/ \E e \in Event : Publishes(e)
    <2>1. fate[x] = "queued" /\ Invoke(x.call, ContractIdOf(x), x.by, x)
      BY <1>3 DEF TxApplies, Applies
    <2>2. PICK e \in Event : e.tx = x /\ Called(e) /\ VotesKept
      BY <2>1, TxRow, CallOf, InvokeCalls
    <2>3. QED
      BY <1>3, <2>1, <2>2 DEF TxApplies, Applies, Publishes
  <1> QED
    BY <1>1, <1>2, <1>3
    DEF Next, vars, apiVars, callVars, TxReverts, PrepareAction, CreateDeposit,
      ProposeWithdrawal, SubmitDeposit, SubmitUnclaimed, Calls, PersistHash, PersistFailed,
      GiveBack, HandlerDies, ReconcileOne, ApprovalIgnored, EventDropped,
      OnWithdrawalApproved, WriteApproval, Accepted, CallNetwork, Delivered, Dies, Done,
      Dropped, OnTreasuryDeposit, OnWithdrawalExecuted, OnWithdrawalProposed, Prepare,
      Refused, Reverts, Start, Threw, Upset

\* Nothing published is taken back, nothing recorded is undone.
Grown ==
  /\ VotesKept /\ FateKept
  /\ DOMAIN events \subseteq DOMAIN events' /\ seen' \in Nat /\ seen <= seen'
  /\ \A k \in DOMAIN events : events'[k] = events[k]

LEMMA AppendsOne ==
  ASSUME TypeOK, NEW e \in Event, Called(e)
  PROVE  /\ Len(events') = Len(events) + 1 /\ Len(events) \in Nat
         /\ DOMAIN events = 1..Len(events) /\ DOMAIN events' = 1..(Len(events) + 1)
         /\ events'[Len(events) + 1] = e
         /\ \A k \in DOMAIN events : events'[k] = events[k]
  BY DEF TypeOK, CallsTypeOK, Called

LEMMA StepSeen == TypeOK /\ Stashed /\ [Next]_vars => (seen' \in Nat /\ seen <= seen')
  <1> SUFFICES ASSUME TypeOK, Stashed, [Next]_vars PROVE (seen' \in Nat /\ seen <= seen')
    OBVIOUS
  <1>1. CASE UNCHANGED <<seen>>
    BY <1>1, Positions
  <1>2. ASSUME DirectCall PROVE (seen' \in Nat /\ seen <= seen')
    BY <1>2, Positions DEF DirectCall, CalledDirectly
  <1>3. ASSUME NEW x \in Tx, TxApplies(x) PROVE (seen' \in Nat /\ seen <= seen')
    BY <1>3, Positions DEF TxApplies, Applies
  <1>4. ASSUME NEW k \in DOMAIN events, ReconcileOne(k) PROVE (seen' \in Nat /\ seen <= seen')
    BY <1>4, Positions DEF ReconcileOne, Delivered, First, Again
  <1>5. ASSUME NEW k \in DOMAIN events, ApprovalIgnored(k) PROVE (seen' \in Nat /\ seen <= seen')
    BY <1>5, Positions DEF ApprovalIgnored, Delivered, First, Again
  <1>6. ASSUME NEW k \in DOMAIN events, EventDropped(k) PROVE (seen' \in Nat /\ seen <= seen')
    BY <1>6, Positions DEF EventDropped, Dropped, First
  <1>7. ASSUME NEW t \in Tick, WriteApproval(t) PROVE (seen' \in Nat /\ seen <= seen')
    <2>1. stash[t].event \in Nat
      BY <1>7, Positions DEF WriteApproval, Stashed
    <2>2. QED
      BY <1>7, <2>1, Positions DEF WriteApproval
  <1> QED
    BY <1>1, <1>2, <1>3, <1>4, <1>5, <1>6, <1>7
    DEF Next, vars, apiVars, callVars, TxReverts, PrepareAction, CreateDeposit,
      ProposeWithdrawal, SubmitDeposit, SubmitUnclaimed, Calls, PersistHash, PersistFailed,
      GiveBack, HandlerDies, OnWithdrawalApproved, Accepted, CallNetwork, Dies, Done,
      Prepare, Refused, Reverts, Start, Threw, Upset

LEMMA StepGrown ==
  ASSUME TypeOK, FreshIds, Prepared, Stashed, [Next]_vars PROVE Grown
  <1>1. FateKept /\ seen' \in Nat /\ seen <= seen'
    BY StepFate, StepSeen
  <1>2. CASE Quiet
    BY <1>1, <1>2 DEF Quiet, Grown, VotesKept
  <1>3. ASSUME NEW e \in Event, Publishes(e) PROVE Grown
    <2>1. Called(e) /\ VotesKept
      BY <1>3 DEF Publishes
    <2>2. /\ DOMAIN events = 1..Len(events) /\ DOMAIN events' = 1..(Len(events) + 1)
          /\ Len(events) \in Nat /\ \A k \in DOMAIN events : events'[k] = events[k]
      BY <2>1, AppendsOne
    <2>3. DOMAIN events \subseteq DOMAIN events'
      BY <2>2
    <2>4. QED
      BY <1>1, <2>1, <2>2, <2>3 DEF Grown
  <1>4. QED
    BY <1>2, <1>3, StepLedger

\* TypeOK without the contract's part.
DepositsTyped == deposit \in [DepositRow -> DepositRec]
WithdrawalsTyped == withdrawal \in [WithdrawalRow -> WithdrawalRec]
StashTyped ==
  stash \in [Tick -> [event : Nat \ {0}, row : WithdrawalRow, read : SUBSET Account] \cup {None}]

LEMMA StepCallsTyped == TypeOK /\ FreshIds /\ Prepared /\ Stashed /\ [Next]_vars => CallsTypeOK(Event)'
  <1> SUFFICES ASSUME TypeOK, FreshIds, Prepared, Stashed, [Next]_vars PROVE CallsTypeOK(Event)'
    OBVIOUS
  <1>1. CASE UNCHANGED <<callVars>>
    BY <1>1 DEF callVars, TypeOK, CallsTypeOK
  <1>2. ASSUME DirectCall PROVE CallsTypeOK(Event)'
    <2>1. events' \in Seq(Event) /\ Len(events) <= Len(events')
      <3>1. CASE Quiet
        BY <3>1 DEF Quiet, TypeOK, CallsTypeOK
      <3>2. ASSUME NEW e \in Event, Called(e) PROVE events' \in Seq(Event) /\ Len(events) <= Len(events')
        BY <3>2 DEF Called, TypeOK, CallsTypeOK
      <3>3. QED
        BY <3>1, <3>2, StepLedger DEF Publishes
    <2>2. upsets' \in [UpsetKind -> 0..(MaxForeign + MaxUpsets)]
      BY <1>2, ForeignTyped DEF DirectCall, TypeOK
    <2>3. QED
      BY <1>2, <2>1, <2>2, Positions DEF DirectCall, CalledDirectly, TypeOK, CallsTypeOK
  <1>3. ASSUME NEW x \in Tx, TxApplies(x) PROVE CallsTypeOK(Event)'
    <2>1. events' \in Seq(Event) /\ Len(events) <= Len(events')
      <3>1. CASE Quiet
        BY <3>1 DEF Quiet, TypeOK, CallsTypeOK
      <3>2. ASSUME NEW e \in Event, Called(e) PROVE events' \in Seq(Event) /\ Len(events) <= Len(events')
        BY <3>2 DEF Called, TypeOK, CallsTypeOK
      <3>3. QED
        BY <3>1, <3>2, StepLedger DEF Publishes
    <2>2. fate' \in [Tx -> Fate]
      BY <1>3 DEF TxApplies, Applies, TypeOK, CallsTypeOK, Fate
    <2>3. QED
      BY <1>3, <2>1, <2>2, Positions DEF TxApplies, Applies, TypeOK, CallsTypeOK
  <1>4. ASSUME NEW x \in Tx, TxReverts(x) PROVE CallsTypeOK(Event)'
    BY <1>4, PrepareTyped DEF TxReverts, TypeOK
  <1>5. ASSUME NEW x \in Tx, PrepareAction(x) PROVE CallsTypeOK(Event)'
    BY <1>5, PrepareTyped DEF PrepareAction, TypeOK
  <1>6. ASSUME NEW r \in DepositRow, CreateDeposit(r) PROVE CallsTypeOK(Event)'
    BY <1>6, PrepareTyped DEF CreateDeposit, TypeOK
  <1>7. ASSUME NEW r \in WithdrawalRow, ProposeWithdrawal(r) PROVE CallsTypeOK(Event)'
    BY <1>7, PrepareTyped DEF ProposeWithdrawal, TypeOK
  <1>8. ASSUME NEW h \in Handler, NEW x \in Tx, SubmitDeposit(h, x) PROVE CallsTypeOK(Event)'
    BY <1>8, StartTyped DEF SubmitDeposit, TypeOK
  <1>9. ASSUME NEW h \in Handler, NEW x \in Tx, SubmitUnclaimed(h, x) PROVE CallsTypeOK(Event)'
    BY <1>9, StartTyped DEF SubmitUnclaimed, TypeOK
  <1>10. ASSUME NEW h \in Handler, Calls(h) PROVE CallsTypeOK(Event)'
    BY <1>10, NetworkTyped DEF Calls, TypeOK
  <1>11. ASSUME NEW h \in Handler, PersistHash(h) PROVE CallsTypeOK(Event)'
    BY <1>11, DoneTyped DEF PersistHash, Accepted, TypeOK
  <1>12. ASSUME NEW h \in Handler, PersistFailed(h) PROVE CallsTypeOK(Event)'
    BY <1>12, DoneTyped DEF PersistFailed, Refused, TypeOK
  <1>13. ASSUME NEW h \in Handler, GiveBack(h) PROVE CallsTypeOK(Event)'
    BY <1>13, DoneTyped DEF GiveBack, Threw, TypeOK
  <1>14. ASSUME NEW h \in Handler, HandlerDies(h) PROVE CallsTypeOK(Event)'
    BY <1>14, DiesTyped DEF HandlerDies, TypeOK
  <1>15. ASSUME NEW k \in DOMAIN events, ReconcileOne(k) PROVE CallsTypeOK(Event)'
    BY <1>15, MetTyped DEF ReconcileOne, TypeOK
  <1>16. ASSUME NEW k \in DOMAIN events, ApprovalIgnored(k) PROVE CallsTypeOK(Event)'
    BY <1>16, MetTyped DEF ApprovalIgnored, TypeOK
  <1>17. ASSUME NEW k \in DOMAIN events, EventDropped(k) PROVE CallsTypeOK(Event)'
    BY <1>17, MetTyped DEF EventDropped, TypeOK
  <1>18. ASSUME NEW t \in Tick, WriteApproval(t) PROVE CallsTypeOK(Event)'
    <2>1. stash[t].event \in DOMAIN events
      BY <1>18 DEF WriteApproval, Stashed
    <2>2. upsets' \in [UpsetKind -> 0..(MaxForeign + MaxUpsets)]
      BY <1>18, UpsetTyped DEF WriteApproval, TypeOK, CallsTypeOK
    <2>3. seen' \in 0..Len(events)
      BY <1>18, <2>1, Positions DEF WriteApproval, TypeOK, CallsTypeOK
    <2>4. QED
      BY <1>18, <2>2, <2>3 DEF WriteApproval, TypeOK, CallsTypeOK
  <1> QED
    BY <1>1, <1>2, <1>3, <1>4, <1>5, <1>6, <1>7, <1>8, <1>9, <1>10, <1>11, <1>12, <1>13,
      <1>14, <1>15, <1>16, <1>17, <1>18
    DEF Next, vars, apiVars, callVars, OnWithdrawalApproved

LEMMA DepositMoves ==
  ASSUME NEW old \in DepositRec
  PROVE  [old EXCEPT !.status = "CONFIRMED"] \in DepositRec
  BY DEF DepositRec

LEMMA WithdrawalMoves ==
  ASSUME NEW old \in WithdrawalRec, NEW d \in Id
  PROVE  [old EXCEPT !.contractId = d, !.status = "PROPOSED"] \in WithdrawalRec
  BY DEF WithdrawalRec

LEMMA StepDepositsTyped == TypeOK /\ Requests /\ [Next]_vars => DepositsTyped'
  <1> SUFFICES ASSUME TypeOK, Requests, [Next]_vars PROVE DepositsTyped'
    OBVIOUS
  <1>1. CASE UNCHANGED <<deposit>>
    BY <1>1 DEF DepositsTyped, TypeOK
  <1>2. ASSUME NEW r \in DepositRow, CreateDeposit(r) PROVE DepositsTyped'
    BY <1>2, TxRow DEF CreateDeposit, Accepted, Refused, Threw, Requests, OnTreasuryDeposit,
      OnWithdrawalProposed, OnWithdrawalExecuted, DepositsTyped, TypeOK, DepositRec
  <1>3. ASSUME NEW h \in Handler, NEW x \in Tx, SubmitDeposit(h, x) PROVE DepositsTyped'
    BY <1>3, TxRow DEF SubmitDeposit, Accepted, Refused, Threw, Requests, OnTreasuryDeposit,
      OnWithdrawalProposed, OnWithdrawalExecuted, DepositsTyped, TypeOK, DepositRec
  <1>4. ASSUME NEW h \in Handler, PersistHash(h) PROVE DepositsTyped'
    BY <1>4, TxRow DEF PersistHash, Accepted, Refused, Threw, Requests, OnTreasuryDeposit,
      OnWithdrawalProposed, OnWithdrawalExecuted, DepositsTyped, TypeOK, DepositRec
  <1>5. ASSUME NEW h \in Handler, PersistFailed(h) PROVE DepositsTyped'
    BY <1>5, TxRow DEF PersistFailed, Accepted, Refused, Threw, Requests, OnTreasuryDeposit,
      OnWithdrawalProposed, OnWithdrawalExecuted, DepositsTyped, TypeOK, DepositRec
  <1>6. ASSUME NEW h \in Handler, GiveBack(h) PROVE DepositsTyped'
    BY <1>6, TxRow DEF GiveBack, Accepted, Refused, Threw, Requests, OnTreasuryDeposit,
      OnWithdrawalProposed, OnWithdrawalExecuted, DepositsTyped, TypeOK, DepositRec
  <1>7. ASSUME NEW k \in DOMAIN events, ReconcileOne(k) PROVE DepositsTyped'
    <2>1. CASE OnTreasuryDeposit(events[k])
      BY <2>1, DepositMoves DEF OnTreasuryDeposit, DepositsTyped, TypeOK
    <2>2. CASE UNCHANGED deposit
      BY <2>2 DEF DepositsTyped, TypeOK
    <2>3. QED
      BY <1>7, <2>1, <2>2 DEF ReconcileOne, OnWithdrawalProposed, OnWithdrawalExecuted
  <1> QED
    BY <1>1, <1>2, <1>3, <1>4, <1>5, <1>6, <1>7
    DEF Next, vars, apiVars, callVars, DirectCall, TxApplies, TxReverts, PrepareAction,
      ProposeWithdrawal, SubmitUnclaimed, Calls, HandlerDies, ApprovalIgnored, EventDropped,
      OnWithdrawalApproved, WriteApproval, Applies, CallNetwork, CalledDirectly, Delivered,
      Dies, Dropped, Prepare, Reverts, Start, Upset

LEMMA WithHashTyped ==
  ASSUME NEW old \in WithdrawalRec, NEW x \in Tx PROVE WithHash(old, x) \in WithdrawalRec
  BY DEF WithHash, WithdrawalRec

LEMMA StepWithdrawalsTyped == TypeOK /\ Requests /\ Stashed /\ [Next]_vars => WithdrawalsTyped'
  <1> SUFFICES ASSUME TypeOK, Requests, Stashed, [Next]_vars PROVE WithdrawalsTyped'
    OBVIOUS
  <1>1. CASE UNCHANGED <<withdrawal>>
    BY <1>1 DEF WithdrawalsTyped, TypeOK
  <1>2. ASSUME NEW r \in WithdrawalRow, ProposeWithdrawal(r) PROVE WithdrawalsTyped'
    BY <1>2 DEF ProposeWithdrawal, WithdrawalsTyped, TypeOK, WithdrawalRec
  <1>3. ASSUME NEW h \in Handler, PersistHash(h) PROVE WithdrawalsTyped'
    <2>1. req[h].tx \in Tx
      BY <1>3 DEF PersistHash, Accepted, Requests
    <2>2. QED
      BY <1>3, <2>1, TxRow, WithHashTyped DEF PersistHash, WithdrawalsTyped, TypeOK
  <1>4. ASSUME NEW h \in Handler, PersistFailed(h) PROVE WithdrawalsTyped'
    <2>1. req[h].tx \in Tx
      BY <1>4 DEF PersistFailed, Refused, Requests
    <2>2. QED
      <3>1. \A old \in WithdrawalRec : [old EXCEPT !.status = "FAILED", !.hash = req[h].tx] \in WithdrawalRec
        BY <2>1 DEF WithdrawalRec
      <3>2. QED
        BY <1>4, <2>1, <3>1, TxRow DEF PersistFailed, WithdrawalsTyped, TypeOK
  <1>5. ASSUME NEW k \in DOMAIN events, ReconcileOne(k) PROVE WithdrawalsTyped'
    <2>1. CASE OnTreasuryDeposit(events[k])
      BY <2>1 DEF OnTreasuryDeposit, WithdrawalsTyped, TypeOK
    <2>2. CASE events[k].topic = "wprop" /\ OnWithdrawalProposed(events[k])
      <3>1. events[k].id \in Id
        BY <2>2, EventTyped
      <3>2. QED
        BY <2>2, <3>1, WithdrawalMoves DEF OnWithdrawalProposed, WithdrawalsTyped, TypeOK
    <2>3. CASE OnWithdrawalExecuted(events[k])
      <3>1. events[k].tx \in Tx \cup {NoTx, Foreign}
        BY EventTyped
      <3>2. \A old \in WithdrawalRec : [old EXCEPT !.status = "EXECUTED", !.executedHash = events[k].tx] \in WithdrawalRec
        BY <3>1 DEF WithdrawalRec
      <3>3. QED
        BY <2>3, <3>2 DEF OnWithdrawalExecuted, WithdrawalsTyped, TypeOK
    <2>4. QED
      BY <1>5, <2>1, <2>2, <2>3 DEF ReconcileOne
  <1>6. ASSUME NEW t \in Tick, WriteApproval(t) PROVE WithdrawalsTyped'
    <2>1. stash[t].event \in DOMAIN events /\ stash[t].read \subseteq Account /\ stash[t].row \in WithdrawalRow
      BY <1>6 DEF WriteApproval, Stashed, TypeOK
    <2>2. (stash[t].read \cup {events[stash[t].event].by}) \subseteq Account
      BY <2>1, EventTyped
    <2>3. QED
      BY <1>6, <2>1, <2>2 DEF WriteApproval, WithdrawalsTyped, TypeOK, WithdrawalRec
  <1> QED
    BY <1>1, <1>2, <1>3, <1>4, <1>5, <1>6
    DEF Next, vars, apiVars, callVars, DirectCall, TxApplies, TxReverts, PrepareAction,
      CreateDeposit, SubmitDeposit, SubmitUnclaimed, Calls, GiveBack, HandlerDies,
      ApprovalIgnored, EventDropped, OnWithdrawalApproved, Applies, CallNetwork,
      CalledDirectly, Delivered, Dies, Done, Dropped, Prepare, Reverts, Start, Threw, Upset

LEMMA StepStashTyped == TypeOK /\ [Next]_vars => StashTyped'
  <1> SUFFICES ASSUME TypeOK, [Next]_vars PROVE StashTyped'
    OBVIOUS
  <1>1. CASE UNCHANGED <<stash>>
    BY <1>1 DEF StashTyped, TypeOK
  <1>2. ASSUME NEW t \in Tick, NEW k \in DOMAIN events, OnWithdrawalApproved(t, k) PROVE StashTyped'
    BY <1>2, Positions DEF OnWithdrawalApproved, Linked, StashTyped, TypeOK, WithdrawalRec
  <1>3. ASSUME NEW t \in Tick, WriteApproval(t) PROVE StashTyped'
    BY <1>3 DEF WriteApproval, StashTyped, TypeOK
  <1> QED
    BY <1>1, <1>2, <1>3
    DEF Next, vars, apiVars, callVars, DirectCall, TxApplies, TxReverts, PrepareAction,
      CreateDeposit, ProposeWithdrawal, SubmitDeposit, SubmitUnclaimed, Calls, PersistHash,
      PersistFailed, GiveBack, HandlerDies, ReconcileOne, ApprovalIgnored, EventDropped,
      Accepted, Applies, CallNetwork, CalledDirectly, Delivered, Dies, Done, Dropped,
      OnTreasuryDeposit, OnWithdrawalExecuted, OnWithdrawalProposed, Prepare, Refused,
      Reverts, Start, Threw, Upset

LEMMA StepLifeTyped ==
  ASSUME TypeOK, FreshIds, Requests, Prepared, Stashed, [Next]_vars PROVE TypeOK'
  <1>1. TreasuryTypeOK'
    BY StepContract, StepTyped DEF TypeOK
  <1>2. CallsTypeOK(Event)' /\ DepositsTyped' /\ WithdrawalsTyped' /\ StashTyped'
    BY StepCallsTyped, StepDepositsTyped, StepWithdrawalsTyped, StepStashTyped
  <1>3. QED
    BY <1>1, <1>2 DEF TypeOK, DepositsTyped, WithdrawalsTyped, StashTyped

-----------------------------------------------------------------------------
(* What a step may do to a row, field by field.                             *)

\* The indexer's handler has the event at k: the next one, or an old one again.
Handles(k) ==
  /\ k \in DOMAIN events
  /\ \/ k = seen + 1 /\ seen' = k /\ upsets' = upsets
     \/ k <= seen /\ seen' = seen /\ upsets'["again"] = upsets["again"] + 1

OwnCall(r, x, name) == x \in Tx /\ x.row = r /\ x.call = name /\ fate[x] # "none"

Inserted(r) ==
  /\ withdrawal[r].status = "ABSENT" /\ withdrawal'[r].status = "PROPOSED"
  /\ withdrawal'[r].contractId = withdrawal[r].contractId
  /\ withdrawal'[r].approvals = withdrawal[r].approvals
  /\ withdrawal'[r].hash = withdrawal[r].hash

Hashed(r) ==
  /\ withdrawal'[r].hash = withdrawal[r].hash \/ OwnCall(r, withdrawal'[r].hash, "propose")
  /\ withdrawal'[r].contractId = withdrawal[r].contractId
  /\ withdrawal'[r].approvals = withdrawal[r].approvals
  /\ withdrawal'[r].status = withdrawal[r].status

Refuted(r) ==
  /\ OwnCall(r, withdrawal'[r].hash, "propose") /\ fate[withdrawal'[r].hash] = "reverted"
  /\ withdrawal'[r].status = "FAILED"
  /\ withdrawal'[r].contractId = withdrawal[r].contractId
  /\ withdrawal'[r].approvals = withdrawal[r].approvals

Identified(r, k) ==
  /\ Handles(k) /\ events[k].topic = "wprop"
  /\ withdrawal[r].hash = events[k].tx /\ withdrawal'[r].hash = withdrawal[r].hash
  /\ withdrawal'[r].contractId = events[k].id
  /\ withdrawal'[r].approvals = withdrawal[r].approvals
  /\ withdrawal'[r].status = "PROPOSED"

Settled(r, k) ==
  /\ Handles(k) /\ events[k].topic = "wexec"
  /\ withdrawal[r].contractId = events[k].id /\ withdrawal'[r].contractId = withdrawal[r].contractId
  /\ withdrawal'[r].hash = withdrawal[r].hash
  /\ withdrawal'[r].approvals = withdrawal[r].approvals
  /\ withdrawal'[r].status = "EXECUTED"

Voted(r, t) ==
  /\ stash[t] # None /\ stash[t].row = r /\ Handles(stash[t].event)
  /\ withdrawal'[r].contractId = withdrawal[r].contractId
  /\ withdrawal'[r].hash = withdrawal[r].hash
  /\ withdrawal'[r].approvals = stash[t].read \cup {events[stash[t].event].by}
  /\ withdrawal'[r].status = "APPROVED"

RowMoves(r) ==
  \/ Inserted(r) \/ Hashed(r) \/ Refuted(r)
  \/ \E k \in DOMAIN events : Identified(r, k) \/ Settled(r, k)
  \/ \E t \in Tick : Voted(r, t)

RowsMove == \A r \in WithdrawalRow : withdrawal'[r] = withdrawal[r] \/ RowMoves(r)

LEMMA WhenDelivered ==
  ASSUME TypeOK, NEW k \in DOMAIN events, Delivered(k) PROVE Handles(k)
  <1>1. Upset("again") => upsets'["again"] = upsets["again"] + 1
    BY DEF Upset, TypeOK, CallsTypeOK, UpsetKind
  <1>2. QED
    BY <1>1, Positions DEF Delivered, First, Again, Handles

LEMMA WithHashFields ==
  ASSUME NEW old \in WithdrawalRec, NEW x
  PROVE  /\ WithHash(old, x).status = old.status
         /\ WithHash(old, x).contractId = old.contractId
         /\ WithHash(old, x).approvals = old.approvals
         /\ WithHash(old, x).hash = IF x.call = "propose" THEN x ELSE old.hash
  BY DEF WithHash, WithdrawalRec

LEMMA RowTyped ==
  ASSUME TypeOK, NEW r \in WithdrawalRow
  PROVE  /\ withdrawal[r] \in WithdrawalRec
         /\ withdrawal[r].contractId \in Id \cup {None} /\ withdrawal[r].approvals \subseteq Account
         /\ withdrawal[r].hash \in Tx \cup {NoTx}
  <1>1. withdrawal[r] \in WithdrawalRec
    BY DEF TypeOK
  <1>2. QED
    BY <1>1 DEF WithdrawalRec

LEMMA StepRows == TypeOK /\ Requests /\ Stashed /\ [Next]_vars => RowsMove
  <1> SUFFICES ASSUME TypeOK, Requests, Stashed, [Next]_vars PROVE RowsMove
    OBVIOUS
  <1>1. CASE UNCHANGED <<withdrawal>>
    BY <1>1 DEF RowsMove
  <1>2. ASSUME NEW r \in WithdrawalRow, ProposeWithdrawal(r) PROVE RowsMove
    <2>1. ASSUME NEW q \in WithdrawalRow PROVE withdrawal'[q] = withdrawal[q] \/ Inserted(q)
      <3>1. CASE q = r
        BY <1>2, <3>1, RowTyped DEF ProposeWithdrawal, Inserted, TypeOK, WithdrawalRec
      <3>2. CASE q # r
        BY <1>2, <3>2 DEF ProposeWithdrawal, TypeOK
      <3>3. QED
        BY <3>1, <3>2
    <2>2. QED
      BY <2>1 DEF RowsMove, RowMoves
  <1>3. ASSUME NEW h \in Handler, PersistHash(h) PROVE RowsMove
    <2>1. req[h].tx \in Tx /\ fate[req[h].tx] # "none"
      BY <1>3 DEF PersistHash, Accepted, Requests
    <2>2. ASSUME NEW q \in WithdrawalRow PROVE withdrawal'[q] = withdrawal[q] \/ Hashed(q)
      <3>1. CASE q = req[h].tx.row /\ req[h].tx.call # "deposit"
        <4>1. withdrawal'[q] = WithHash(withdrawal[q], req[h].tx)
          BY <1>3, <3>1 DEF PersistHash, TypeOK
        <4>2. /\ withdrawal'[q].status = withdrawal[q].status
              /\ withdrawal'[q].contractId = withdrawal[q].contractId
              /\ withdrawal'[q].approvals = withdrawal[q].approvals
              /\ withdrawal'[q].hash = IF req[h].tx.call = "propose" THEN req[h].tx ELSE withdrawal[q].hash
          BY <4>1, RowTyped, WithHashFields
        <4>3. QED
          BY <2>1, <3>1, <4>2 DEF Hashed, OwnCall
      <3>2. CASE q # req[h].tx.row \/ req[h].tx.call = "deposit"
        BY <1>3, <3>2 DEF PersistHash, TypeOK
      <3>3. QED
        BY <3>1, <3>2
    <2>3. QED
      BY <2>2 DEF RowsMove, RowMoves
  <1>4. ASSUME NEW h \in Handler, PersistFailed(h) PROVE RowsMove
    <2>1. req[h].tx \in Tx /\ fate[req[h].tx] = "reverted"
      BY <1>4 DEF PersistFailed, Refused, Requests
    <2>2. ASSUME NEW q \in WithdrawalRow PROVE withdrawal'[q] = withdrawal[q] \/ Refuted(q)
      <3>1. CASE q = req[h].tx.row /\ req[h].tx.call = "propose"
        <4>1. withdrawal'[q] = [withdrawal[q] EXCEPT !.status = "FAILED", !.hash = req[h].tx]
          BY <1>4, <3>1 DEF PersistFailed, TypeOK
        <4>2. QED
          BY <2>1, <3>1, <4>1, RowTyped DEF Refuted, OwnCall, WithdrawalRec
      <3>2. CASE q # req[h].tx.row \/ req[h].tx.call # "propose"
        BY <1>4, <3>2 DEF PersistFailed, TypeOK
      <3>3. QED
        BY <3>1, <3>2
    <2>3. QED
      BY <2>2 DEF RowsMove, RowMoves
  <1>5. ASSUME NEW k \in DOMAIN events, ReconcileOne(k) PROVE RowsMove
    <2>1. Handles(k)
      BY <1>5, WhenDelivered DEF ReconcileOne
    <2>2. CASE UNCHANGED withdrawal
      BY <2>2 DEF RowsMove
    <2>3. ASSUME events[k].topic = "wprop", OnWithdrawalProposed(events[k]), NEW q \in WithdrawalRow
          PROVE  withdrawal'[q] = withdrawal[q] \/ Identified(q, k)
      <3>1. CASE withdrawal[q].hash = events[k].tx
        <4>1. withdrawal'[q] = [withdrawal[q] EXCEPT !.contractId = events[k].id, !.status = "PROPOSED"]
          BY <2>3, <3>1 DEF OnWithdrawalProposed
        <4>2. QED
          BY <2>1, <2>3, <3>1, <4>1, RowTyped DEF Identified, WithdrawalRec
      <3>2. CASE withdrawal[q].hash # events[k].tx
        BY <2>3, <3>2 DEF OnWithdrawalProposed
      <3>3. QED
        BY <3>1, <3>2
    <2>4. ASSUME events[k].topic = "wexec", OnWithdrawalExecuted(events[k]), NEW q \in WithdrawalRow
          PROVE  withdrawal'[q] = withdrawal[q] \/ Settled(q, k)
      <3>1. CASE Executes(q, events[k])
        <4>1. withdrawal'[q] = [withdrawal[q] EXCEPT !.status = "EXECUTED", !.executedHash = events[k].tx]
          BY <2>4, <3>1 DEF OnWithdrawalExecuted
        <4>2. withdrawal[q].contractId = events[k].id
          BY <3>1 DEF Executes
        <4>3. QED
          BY <2>1, <2>4, <4>1, <4>2, RowTyped DEF Settled, WithdrawalRec
      <3>2. CASE ~Executes(q, events[k])
        BY <2>4, <3>2 DEF OnWithdrawalExecuted
      <3>3. QED
        BY <3>1, <3>2
    <2>5. QED
      BY <1>5, <2>2, <2>3, <2>4 DEF ReconcileOne, OnTreasuryDeposit, RowsMove, RowMoves
  <1>6. ASSUME NEW t \in Tick, WriteApproval(t) PROVE RowsMove
    <2>1. /\ stash[t] # None /\ stash[t].event \in DOMAIN events
          /\ stash[t].event <= seen + 1 /\ stash[t].row \in WithdrawalRow
      BY <1>6 DEF WriteApproval, Stashed, TypeOK
    <2>2. Handles(stash[t].event)
      <3>1. CASE stash[t].event <= seen
        <4>1. Upset("again") /\ seen' = seen
          BY <1>6, <3>1 DEF WriteApproval
        <4>2. upsets'["again"] = upsets["again"] + 1
          BY <4>1 DEF Upset, TypeOK, CallsTypeOK, UpsetKind
        <4>3. QED
          BY <2>1, <3>1, <4>1, <4>2 DEF Handles
      <3>2. CASE ~(stash[t].event <= seen)
        <4>1. stash[t].event = seen + 1
          BY <2>1, <3>2, Positions
        <4>2. QED
          BY <1>6, <2>1, <3>2, <4>1 DEF WriteApproval, Handles
      <3>3. QED
        BY <3>1, <3>2
    <2>3. ASSUME NEW q \in WithdrawalRow PROVE withdrawal'[q] = withdrawal[q] \/ Voted(q, t)
      <3>1. CASE q = stash[t].row
        <4>1. withdrawal'[q] = [withdrawal[q] EXCEPT !.approvals = stash[t].read \cup {events[stash[t].event].by},
                                                     !.status = "APPROVED"]
          BY <1>6, <3>1 DEF WriteApproval, TypeOK
        <4>2. QED
          BY <2>1, <2>2, <3>1, <4>1, RowTyped DEF Voted, WithdrawalRec
      <3>2. CASE q # stash[t].row
        BY <1>6, <3>2 DEF WriteApproval, TypeOK
      <3>3. QED
        BY <3>1, <3>2
    <2>4. QED
      BY <2>3 DEF RowsMove, RowMoves
  <1> QED
    BY <1>1, <1>2, <1>3, <1>4, <1>5, <1>6
    DEF Next, vars, apiVars, callVars, DirectCall, TxApplies, TxReverts, PrepareAction,
      CreateDeposit, SubmitDeposit, SubmitUnclaimed, Calls, GiveBack, HandlerDies,
      ApprovalIgnored, EventDropped, OnWithdrawalApproved, Applies, CallNetwork,
      CalledDirectly, Delivered, Dies, Done, Dropped, Prepare, Reverts, Start, Threw, Upset

(* The same for a deposit.                                                  *)
DepositChanges(r) ==
  \/ deposit'[r].hash = deposit[r].hash /\ deposit'[r].status \in {"AWAITING_SIGN", "SUBMITTED"}
  \/ OwnCall(r, deposit'[r].hash, "deposit") /\ deposit'[r].status = deposit[r].status
  \/ /\ OwnCall(r, deposit'[r].hash, "deposit")
     /\ deposit'[r].status = "FAILED" /\ fate[deposit'[r].hash] = "reverted"
  \/ /\ deposit'[r].hash = deposit[r].hash /\ deposit'[r].status = "CONFIRMED"
     /\ \E k \in DOMAIN events : deposit[r].hash = events[k].tx

DepositsMove == \A r \in DepositRow : deposit'[r] = deposit[r] \/ DepositChanges(r)

LEMMA DepositTyped ==
  ASSUME TypeOK, NEW r \in DepositRow
  PROVE  deposit[r] \in DepositRec /\ deposit[r].hash \in Tx \cup {NoTx}
  <1>1. deposit[r] \in DepositRec
    BY DEF TypeOK
  <1>2. QED
    BY <1>1 DEF DepositRec

LEMMA StepDeposits == TypeOK /\ Requests /\ [Next]_vars => DepositsMove
  <1> SUFFICES ASSUME TypeOK, Requests, [Next]_vars PROVE DepositsMove
    OBVIOUS
  <1>1. CASE UNCHANGED <<deposit>>
    BY <1>1 DEF DepositsMove
  <1>2. ASSUME NEW r \in DepositRow, CreateDeposit(r) PROVE DepositsMove
    <2>2. ASSUME NEW q \in DepositRow PROVE deposit'[q] = deposit[q] \/ DepositChanges(q)
      <3>1. CASE q = r
        <4>1. deposit'[q] = [deposit[q] EXCEPT !.status = "AWAITING_SIGN"]
          BY <1>2, <3>1 DEF CreateDeposit, TypeOK
        <4>2. QED
          BY <1>2, <3>1, <4>1, DepositTyped DEF CreateDeposit, DepositChanges, OwnCall,
            DepositRec
      <3>2. CASE ~(q = r)
        BY <1>2, <3>2 DEF CreateDeposit, TypeOK
      <3>3. QED
        BY <3>1, <3>2
    <2>3. QED
      BY <2>2 DEF DepositsMove
  <1>3. ASSUME NEW h \in Handler, NEW x \in Tx, SubmitDeposit(h, x) PROVE DepositsMove
    <2>2. ASSUME NEW q \in DepositRow PROVE deposit'[q] = deposit[q] \/ DepositChanges(q)
      <3>1. CASE q = x.row
        <4>1. deposit'[q] = [deposit[q] EXCEPT !.status = "SUBMITTED"]
          BY <1>3, <3>1 DEF SubmitDeposit, TypeOK
        <4>2. QED
          BY <1>3, <3>1, <4>1, DepositTyped DEF SubmitDeposit, DepositChanges, OwnCall,
            DepositRec
      <3>2. CASE ~(q = x.row)
        BY <1>3, <3>2 DEF SubmitDeposit, TypeOK
      <3>3. QED
        BY <3>1, <3>2
    <2>3. QED
      BY <2>2 DEF DepositsMove
  <1>4. ASSUME NEW h \in Handler, PersistHash(h) PROVE DepositsMove
    <2>1. req[h].tx \in Tx /\ fate[req[h].tx] # "none"
      BY <1>4 DEF PersistHash, Accepted, Requests
    <2>2. ASSUME NEW q \in DepositRow PROVE deposit'[q] = deposit[q] \/ DepositChanges(q)
      <3>1. CASE q = req[h].tx.row /\ req[h].tx.call = "deposit"
        <4>1. deposit'[q] = [deposit[q] EXCEPT !.hash = req[h].tx]
          BY <1>4, <3>1, <2>1 DEF PersistHash, TypeOK
        <4>2. QED
          BY <1>4, <3>1, <4>1, <2>1, DepositTyped DEF PersistHash, DepositChanges, OwnCall,
            DepositRec
      <3>2. CASE ~(q = req[h].tx.row /\ req[h].tx.call = "deposit")
        BY <1>4, <3>2 DEF PersistHash, TypeOK
      <3>3. QED
        BY <3>1, <3>2
    <2>3. QED
      BY <2>2 DEF DepositsMove
  <1>5. ASSUME NEW h \in Handler, PersistFailed(h) PROVE DepositsMove
    <2>1. req[h].tx \in Tx /\ fate[req[h].tx] = "reverted"
      BY <1>5 DEF PersistFailed, Refused, Requests
    <2>2. ASSUME NEW q \in DepositRow PROVE deposit'[q] = deposit[q] \/ DepositChanges(q)
      <3>1. CASE q = req[h].tx.row /\ req[h].tx.call = "deposit"
        <4>1. deposit'[q] = [status |-> "FAILED", hash |-> req[h].tx]
          BY <1>5, <3>1, <2>1 DEF PersistFailed, TypeOK
        <4>2. QED
          BY <1>5, <3>1, <4>1, <2>1, DepositTyped DEF PersistFailed, DepositChanges, OwnCall,
            DepositRec
      <3>2. CASE ~(q = req[h].tx.row /\ req[h].tx.call = "deposit")
        BY <1>5, <3>2 DEF PersistFailed, TypeOK
      <3>3. QED
        BY <3>1, <3>2
    <2>3. QED
      BY <2>2 DEF DepositsMove
  <1>6. ASSUME NEW h \in Handler, GiveBack(h) PROVE DepositsMove
    <2>2. ASSUME NEW q \in DepositRow PROVE deposit'[q] = deposit[q] \/ DepositChanges(q)
      <3>1. CASE q = req[h].tx.row /\ req[h].tx.call = "deposit" /\ deposit[req[h].tx.row].status = "SUBMITTED"
        <4>1. deposit'[q] = [deposit[q] EXCEPT !.status = "AWAITING_SIGN"]
          BY <1>6, <3>1 DEF GiveBack, TypeOK
        <4>2. deposit'[q].hash = deposit[q].hash /\ deposit'[q].status = "AWAITING_SIGN"
          BY <4>1, DepositTyped DEF DepositRec
        <4>3. QED
          BY <4>2 DEF DepositChanges
      <3>2. CASE ~(q = req[h].tx.row /\ req[h].tx.call = "deposit" /\ deposit[req[h].tx.row].status = "SUBMITTED")
        BY <1>6, <3>2 DEF GiveBack, TypeOK
      <3>3. QED
        BY <3>1, <3>2
    <2>3. QED
      BY <2>2 DEF DepositsMove
  <1>7. ASSUME NEW k \in DOMAIN events, ReconcileOne(k) PROVE DepositsMove
    <2>1. CASE OnTreasuryDeposit(events[k])
      <3>1. ASSUME NEW q \in DepositRow PROVE deposit'[q] = deposit[q] \/ DepositChanges(q)
        <4>1. CASE deposit[q].hash = events[k].tx /\ deposit[q].status = "SUBMITTED"
          <5>1. deposit'[q] = [deposit[q] EXCEPT !.status = "CONFIRMED"]
            BY <2>1, <4>1 DEF OnTreasuryDeposit
          <5>2. QED
            BY <4>1, <5>1, DepositTyped DEF DepositChanges, DepositRec
        <4>2. CASE ~(deposit[q].hash = events[k].tx /\ deposit[q].status = "SUBMITTED")
          BY <2>1, <4>2 DEF OnTreasuryDeposit
        <4>3. QED
          BY <4>1, <4>2
      <3>2. QED
        BY <3>1 DEF DepositsMove
    <2>2. CASE UNCHANGED deposit
      BY <2>2 DEF DepositsMove
    <2>3. QED
      BY <1>7, <2>1, <2>2 DEF ReconcileOne, OnWithdrawalProposed, OnWithdrawalExecuted
  <1> QED
    BY <1>1, <1>2, <1>3, <1>4, <1>5, <1>6, <1>7
    DEF Next, vars, apiVars, callVars, DirectCall, TxApplies, TxReverts, PrepareAction,
      ProposeWithdrawal, SubmitUnclaimed, Calls, HandlerDies, ApprovalIgnored, EventDropped,
      OnWithdrawalApproved, WriteApproval, Applies, CallNetwork, CalledDirectly, Delivered,
      Dies, Dropped, Prepare, Reverts, Start, Upset

-----------------------------------------------------------------------------
(* The parts of the invariant are kept.                                     *)

LEMMA NoneIsNoTx == NoTx \notin Tx /\ Foreign \notin Tx /\ NoTx # Foreign
  BY CallsAssumption

\* The only event of a row's envelope is the one that brought its id.
LEMMA OwnEvent ==
  ASSUME TypeOK, Rows, Log, NEW r \in WithdrawalRow, withdrawal[r].contractId # None
  PROVE  /\ withdrawal[r].hash \in Tx /\ fate[withdrawal[r].hash] = "applied"
         /\ withdrawal[r].contractId \in Id /\ proposal[withdrawal[r].contractId] # None
         /\ \A k \in DOMAIN events :
              events[k].tx = withdrawal[r].hash =>
                k <= seen /\ events[k].topic = "wprop" /\ events[k].id = withdrawal[r].contractId
  <1>1. withdrawal[r].hash # NoTx /\ withdrawal[r].hash \in Tx
    BY DEF Rows
  <1>2. PICK i \in 1..seen : BroughtBy(r, i)
    BY DEF Rows
  <1>3. i \in DOMAIN events /\ i <= seen
    BY Positions
  <1>4. events[i].tx = withdrawal[r].hash /\ events[i].tx # Foreign
    BY <1>1, <1>2, NoneIsNoTx DEF BroughtBy
  <1>5. \A k \in DOMAIN events : events[k].tx = events[i].tx => k = i
    BY <1>3, <1>4 DEF Log
  <1>6. fate[events[i].tx] = "applied" /\ proposal[events[i].id] # None
    BY <1>2, <1>3, <1>4 DEF Log, BroughtBy
  <1>7. QED
    BY <1>1, <1>2, <1>3, <1>4, <1>5, <1>6, RowTyped DEF BroughtBy

LEMMA IdStays ==
  ASSUME TypeOK, Rows, Log, RowsMove, NEW r \in WithdrawalRow, withdrawal[r].contractId # None
  PROVE  withdrawal'[r].contractId = withdrawal[r].contractId
  <1>1. ASSUME NEW k \in DOMAIN events, Identified(r, k)
        PROVE  withdrawal'[r].contractId = withdrawal[r].contractId
    BY <1>1, OwnEvent DEF Identified
  <1>2. QED
    BY <1>1 DEF RowsMove, RowMoves, Inserted, Hashed, Refuted, Settled, Voted

LEMMA StepRequests == TypeOK /\ Requests /\ [Next]_vars => Requests'
  <1> SUFFICES ASSUME TypeOK, Requests, [Next]_vars PROVE Requests'
    OBVIOUS
  <1>1. CASE UNCHANGED <<req>>
    <2>1. FateKept
      BY StepFate
    <2>2. QED
      BY <1>1, <2>1 DEF Requests, FateKept
  <1>2. ASSUME NEW h \in Handler, NEW x \in Tx, SubmitDeposit(h, x) PROVE Requests'
    <2>1. FateKept
      BY StepFate
    <2>2. QED
      BY <1>2, <2>1 DEF SubmitDeposit, Start, Idle, Requests, FateKept, TypeOK, CallsTypeOK
  <1>3. ASSUME NEW h \in Handler, NEW x \in Tx, SubmitUnclaimed(h, x) PROVE Requests'
    <2>1. FateKept
      BY StepFate
    <2>2. QED
      BY <1>3, <2>1 DEF SubmitUnclaimed, Start, Idle, Requests, FateKept, TypeOK, CallsTypeOK
  <1>4. ASSUME NEW h \in Handler, Calls(h) PROVE Requests'
    <2>1. FateKept
      BY StepFate
    <2>2. QED
      BY <1>4, <2>1 DEF Calls, CallNetwork, Idle, Requests, FateKept, TypeOK, CallsTypeOK
  <1>5. ASSUME NEW h \in Handler, PersistHash(h) PROVE Requests'
    <2>1. FateKept
      BY StepFate
    <2>2. QED
      BY <1>5, <2>1 DEF PersistHash, Accepted, Done, Idle, Requests, FateKept, TypeOK,
        CallsTypeOK
  <1>6. ASSUME NEW h \in Handler, PersistFailed(h) PROVE Requests'
    <2>1. FateKept
      BY StepFate
    <2>2. QED
      BY <1>6, <2>1 DEF PersistFailed, Refused, Done, Idle, Requests, FateKept, TypeOK,
        CallsTypeOK
  <1>7. ASSUME NEW h \in Handler, GiveBack(h) PROVE Requests'
    <2>1. FateKept
      BY StepFate
    <2>2. QED
      BY <1>7, <2>1 DEF GiveBack, Threw, Done, Idle, Requests, FateKept, TypeOK, CallsTypeOK
  <1>8. ASSUME NEW h \in Handler, HandlerDies(h) PROVE Requests'
    <2>1. FateKept
      BY StepFate
    <2>2. QED
      BY <1>8, <2>1 DEF HandlerDies, Dies, Upset, Idle, Requests, FateKept, TypeOK, CallsTypeOK
  <1> QED
    BY <1>1, <1>2, <1>3, <1>4, <1>5, <1>6, <1>7, <1>8
    DEF Next, vars, apiVars, callVars, DirectCall, TxApplies, TxReverts, PrepareAction,
      CreateDeposit, ProposeWithdrawal, ReconcileOne, ApprovalIgnored, EventDropped,
      OnWithdrawalApproved, WriteApproval, Applies, CalledDirectly, Delivered, Dropped,
      OnTreasuryDeposit, OnWithdrawalExecuted, OnWithdrawalProposed, Prepare, Reverts

\* Only these prepare an envelope.
OpensNew(x) ==
  /\ fate[x] = "none" /\ fate' = [fate EXCEPT ![x] = "prepared"]
  /\ \/ x.call = "deposit" /\ deposit[x.row].status = "ABSENT" /\ deposit'[x.row].status = "AWAITING_SIGN"
     \/ x.call = "propose" /\ withdrawal[x.row].status = "ABSENT" /\ withdrawal'[x.row].status = "PROPOSED"
     \/ x.call \in {"approve", "execute"} /\ withdrawal[x.row].contractId # None

OpensNone == \A x \in Tx : fate'[x] # "none" => fate[x] # "none"

LEMMA StepOpens == TypeOK /\ [Next]_vars => OpensNone \/ \E y \in Tx : OpensNew(y)
  <1> SUFFICES ASSUME TypeOK, [Next]_vars PROVE OpensNone \/ \E y \in Tx : OpensNew(y)
    OBVIOUS
  <1>1. CASE UNCHANGED <<fate>>
    BY <1>1 DEF OpensNone
  <1>2. ASSUME NEW x \in Tx, TxApplies(x) PROVE OpensNone \/ \E y \in Tx : OpensNew(y)
    BY <1>2 DEF TxApplies, Applies, OpensNone, TypeOK, CallsTypeOK
  <1>3. ASSUME NEW x \in Tx, TxReverts(x) PROVE OpensNone \/ \E y \in Tx : OpensNew(y)
    BY <1>3 DEF TxReverts, Reverts, OpensNone, TypeOK, CallsTypeOK
  <1>4. ASSUME NEW x \in Tx, PrepareAction(x) PROVE OpensNone \/ \E y \in Tx : OpensNew(y)
    <2>1. withdrawal[x.row].contractId # None
      BY <1>4, TxRow DEF PrepareAction, ContractIdOf
    <2>2. OpensNew(x)
      BY <1>4, <2>1 DEF PrepareAction, Prepare, OpensNew
    <2>3. QED
      BY <2>2
  <1>5. ASSUME NEW r \in DepositRow, CreateDeposit(r) PROVE OpensNone \/ \E y \in Tx : OpensNew(y)
    <2>1. PICK x \in Tx : x.row = r /\ Prepare(x)
      BY <1>5 DEF CreateDeposit
    <2>2. deposit'[r].status = "AWAITING_SIGN"
      BY <1>5 DEF CreateDeposit, TypeOK, DepositRec
    <2>3. OpensNew(x)
      BY <1>5, <2>1, <2>2, RowTx DEF CreateDeposit, Prepare, OpensNew
    <2>4. QED
      BY <2>3
  <1>6. ASSUME NEW r \in WithdrawalRow, ProposeWithdrawal(r) PROVE OpensNone \/ \E y \in Tx : OpensNew(y)
    <2>1. PICK x \in Tx : x.row = r /\ x.call = "propose" /\ Prepare(x)
      BY <1>6 DEF ProposeWithdrawal
    <2>2. withdrawal'[r].status = "PROPOSED"
      BY <1>6 DEF ProposeWithdrawal, TypeOK, WithdrawalRec
    <2>3. OpensNew(x)
      BY <1>6, <2>1, <2>2 DEF ProposeWithdrawal, Prepare, OpensNew
    <2>4. QED
      BY <2>3
  <1>7. ASSUME NEW h \in Handler, Calls(h) PROVE OpensNone \/ \E y \in Tx : OpensNew(y)
    BY <1>7 DEF Calls, CallNetwork, OpensNone, TypeOK, CallsTypeOK
  <1> QED
    BY <1>1, <1>2, <1>3, <1>4, <1>5, <1>6, <1>7
    DEF Next, vars, apiVars, callVars, DirectCall, SubmitDeposit, SubmitUnclaimed,
      PersistHash, PersistFailed, GiveBack, HandlerDies, ReconcileOne, ApprovalIgnored,
      EventDropped, OnWithdrawalApproved, WriteApproval, Accepted, CalledDirectly, Delivered,
      Dies, Done, Dropped, OnTreasuryDeposit, OnWithdrawalExecuted, OnWithdrawalProposed,
      Refused, Start, Threw, Upset

LEMMA StepPrepared ==
  ASSUME TypeOK, Rows, Log, Prepared, RowsMove, DepositsMove, FateKept,
         OpensNone \/ \E x \in Tx : OpensNew(x)
  PROVE  Prepared'
  <1>1. \A r \in WithdrawalRow : withdrawal[r].status # "ABSENT" => withdrawal'[r].status # "ABSENT"
    BY DEF RowsMove, RowMoves, Inserted, Hashed, Refuted, Identified, Settled, Voted
  <1>2. \A r \in WithdrawalRow : withdrawal[r].contractId # None => withdrawal'[r].contractId # None
    BY IdStays
  <1>3. \A r \in DepositRow : deposit[r].status # "ABSENT" => deposit'[r].status # "ABSENT"
    BY DEF DepositsMove, DepositChanges
  <1>4. CASE OpensNone
    BY <1>1, <1>2, <1>3, <1>4, TxRow DEF OpensNone, Prepared, Opens
  <1>5. ASSUME NEW x \in Tx, OpensNew(x) PROVE Prepared'
    <2>1. \A y \in Tx : fate'[y] # "none" => y = x \/ fate[y] # "none"
      BY <1>5 DEF OpensNew, TypeOK, CallsTypeOK
    <2>2. x.call \in {"deposit", "propose"} => \A y \in Tx : Opens(y) => y.row # x.row
      BY <1>5, TxRow, LifecycleAssumption DEF OpensNew, Prepared, Opens
    <2>3. \A y, z \in Tx : Opens(y)' /\ Opens(z)' /\ y.row = z.row => y = z
      BY <2>1, <2>2 DEF Prepared, Opens
    <2>4. /\ x.call = "deposit" => deposit'[x.row].status # "ABSENT"
          /\ x.call # "deposit" => withdrawal'[x.row].status # "ABSENT"
          /\ x.call \in {"approve", "execute"} => withdrawal'[x.row].contractId # None
      BY <1>1, <1>2, <1>5, TxRow DEF OpensNew, Rows
    <2>5. ASSUME NEW y \in Tx, fate'[y] # "none"
          PROVE  /\ y.call = "deposit" => deposit'[y.row].status # "ABSENT"
                 /\ y.call # "deposit" => withdrawal'[y.row].status # "ABSENT"
                 /\ y.call \in {"approve", "execute"} => withdrawal'[y.row].contractId # None
      BY <1>1, <1>2, <1>3, <2>1, <2>4, <2>5, TxRow DEF Prepared
    <2>6. QED
      BY <2>3, <2>5 DEF Prepared
  <1>6. QED
    BY <1>4, <1>5

\* Two envelopes that open one row are one.
LEMMA OneOpens ==
  ASSUME Prepared, NEW r, NEW x, NEW y, NEW name \in {"deposit", "propose"},
         OwnCall(r, x, name), OwnCall(r, y, name)
  PROVE  x = y
  BY DEF Prepared, Opens, OwnCall

LEMMA StepRowsKept ==
  ASSUME TypeOK, Rows, Log, Prepared, Stashed, RowsMove, Grown
  PROVE  Rows'
  <1> SUFFICES ASSUME NEW r \in WithdrawalRow
      PROVE /\ withdrawal'[r].hash # NoTx => OwnCall(r, withdrawal'[r].hash, "propose")
            /\ withdrawal'[r].contractId # None =>
                 /\ withdrawal'[r].hash # NoTx
                 /\ withdrawal'[r].status \in {"PROPOSED", "APPROVED", "EXECUTED"}
                 /\ \E k \in 1..seen' : BroughtBy(r, k)'
            /\ withdrawal'[r].contractId = None =>
                 withdrawal'[r].approvals = {} /\ withdrawal'[r].status \in {"ABSENT", "PROPOSED", "FAILED"}
            /\ withdrawal'[r].status = "FAILED" =>
                 withdrawal'[r].hash # NoTx /\ fate[withdrawal'[r].hash] = "reverted"
    BY DEF Rows, Grown, FateKept, OwnCall
  <1> DEFINE old == withdrawal[r]
             new == withdrawal'[r]
  <1>1. /\ old.hash # NoTx => OwnCall(r, old.hash, "propose")
        /\ old.contractId # None => old.hash # NoTx /\ old.status \in {"PROPOSED", "APPROVED", "EXECUTED"}
        /\ old.contractId = None => old.approvals = {} /\ old.status \in {"ABSENT", "PROPOSED", "FAILED"}
        /\ old.status = "FAILED" => old.hash # NoTx /\ fate[old.hash] = "reverted"
    BY DEF Rows, OwnCall
  <1>2. ASSUME old.contractId # None, new.contractId = old.contractId, new.hash = old.hash
        PROVE  \E k \in 1..seen' : BroughtBy(r, k)'
    <2>1. PICK k \in 1..seen : BroughtBy(r, k)
      BY <1>2 DEF Rows
    <2>2. k \in DOMAIN events /\ k \in 1..seen'
      BY Positions DEF Grown
    <2>3. QED
      BY <1>2, <2>1, <2>2 DEF BroughtBy, Grown
  <1>3. CASE new = old
    BY <1>1, <1>2, <1>3
  <1>4. CASE Inserted(r)
    BY <1>1, <1>4 DEF Inserted
  <1>5. ASSUME old.hash # NoTx, OwnCall(r, new.hash, "propose") PROVE new.hash = old.hash
    BY <1>1, <1>5, OneOpens
  <1>6. CASE Hashed(r)
    <2>1. old.hash # NoTx => new.hash = old.hash
      BY <1>5, <1>6 DEF Hashed
    <2>2. new.hash # NoTx => OwnCall(r, new.hash, "propose")
      BY <1>1, <1>6 DEF Hashed
    <2>3. QED
      BY <1>1, <1>2, <1>6, <2>1, <2>2 DEF Hashed
  <1>7. CASE Refuted(r)
    <2>1. old.contractId = None
      <3>1. old.contractId # None => old.hash = new.hash /\ fate[old.hash] = "applied"
        BY <1>1, <1>5, <1>7, OwnEvent DEF Refuted
      <3>2. QED
        BY <1>7, <3>1 DEF Refuted
    <2>2. new.hash # NoTx
      BY <1>7, NoneIsNoTx DEF Refuted, OwnCall
    <2>3. QED
      BY <1>1, <1>7, <2>1, <2>2 DEF Refuted
  <1>8. ASSUME NEW k \in DOMAIN events, Identified(r, k)
        PROVE  /\ new.hash # NoTx /\ OwnCall(r, new.hash, "propose")
               /\ new.contractId # None /\ new.status = "PROPOSED"
               /\ \E i \in 1..seen' : BroughtBy(r, i)'
    <2>1. new.hash # NoTx /\ OwnCall(r, new.hash, "propose")
      BY <1>1, <1>8, EventTyped, NoneIsNoTx DEF Identified
    <2>2. k \in 1..seen'
      BY <1>8, Positions DEF Identified, Handles
    <2>3. new.contractId # None
      BY <1>8, EventTyped, IdNotNone DEF Identified
    <2>4. BroughtBy(r, k)'
      BY <1>8 DEF BroughtBy, Identified, Grown
    <2>5. QED
      BY <1>8, <2>1, <2>2, <2>3, <2>4 DEF Identified
  <1>9. ASSUME NEW k \in DOMAIN events, Settled(r, k)
        PROVE  old.contractId # None /\ new.contractId = old.contractId /\ new.hash = old.hash /\ new.status = "EXECUTED"
    BY <1>9, EventTyped, IdNotNone DEF Settled
  <1>10. ASSUME NEW t \in Tick, Voted(r, t)
        PROVE  old.contractId # None /\ new.contractId = old.contractId /\ new.hash = old.hash /\ new.status = "APPROVED"
    BY <1>10 DEF Voted, Stashed
  <1> HIDE DEF old, new
  <1>11. (old.contractId # None /\ new.contractId = old.contractId /\ new.hash = old.hash
            /\ new.status \in {"APPROVED", "EXECUTED"})
          => /\ new.hash # NoTx /\ OwnCall(r, new.hash, "propose") /\ new.contractId # None
             /\ \E k \in 1..seen' : BroughtBy(r, k)'
    BY <1>1, <1>2
  <1>12. CASE RowMoves(r)
    BY <1>4, <1>6, <1>7, <1>8, <1>9, <1>10, <1>11, <1>12 DEF RowMoves, old, new
  <1>13. QED
    BY <1>3, <1>12 DEF RowsMove, old, new

LEMMA StepDepositsKept ==
  ASSUME TypeOK, Deposits, Log, Prepared, DepositsMove, FateKept
  PROVE  Deposits'
  <1> SUFFICES ASSUME NEW r \in DepositRow
      PROVE /\ deposit'[r].hash # NoTx => OwnCall(r, deposit'[r].hash, "deposit")
            /\ deposit'[r].status = "CONFIRMED" => deposit'[r].hash # NoTx /\ fate[deposit'[r].hash] = "applied"
            /\ deposit'[r].status = "FAILED" => deposit'[r].hash # NoTx /\ fate[deposit'[r].hash] = "reverted"
    BY DEF Deposits, FateKept, OwnCall
  <1> DEFINE old == deposit[r]
             new == deposit'[r]
  <1>1. /\ old.hash # NoTx => OwnCall(r, old.hash, "deposit")
        /\ old.status = "CONFIRMED" => old.hash # NoTx /\ fate[old.hash] = "applied"
        /\ old.status = "FAILED" => old.hash # NoTx /\ fate[old.hash] = "reverted"
    BY DEF Deposits, OwnCall
  <1>2. \A k \in DOMAIN events : old.hash = events[k].tx => old.hash # NoTx /\ fate[old.hash] = "applied"
    BY EventTyped, DepositTyped, NoneIsNoTx DEF Log
  <1>3. OwnCall(r, new.hash, "deposit") /\ old.hash # NoTx => new.hash = old.hash
    BY <1>1, OneOpens
  <1>4. OwnCall(r, new.hash, "deposit") => new.hash # NoTx
    BY NoneIsNoTx DEF OwnCall
  <1> HIDE DEF old, new
  <1>5. old = new \/ DepositChanges(r)
    BY DEF DepositsMove, old, new
  <1>6. CASE DepositChanges(r)
    BY <1>1, <1>2, <1>3, <1>4, <1>6 DEF DepositChanges, old, new
  <1>7. QED
    BY <1>1, <1>5, <1>6 DEF old, new

LEMMA OneMore ==
  \A n \in Nat : /\ n + 1 \in Nat /\ n + 1 \notin 1..n /\ n + 1 \in 1..(n + 1)
                 /\ \A k \in 1..(n + 1) : k = n + 1 \/ (k \in 1..n /\ k < n + 1)
  OBVIOUS

LEMMA StepLog ==
  ASSUME TypeOK, Log, FateKept, VotesKept, Quiet \/ \E e \in Event : Publishes(e)
  PROVE  Log'
  <1>1. CASE Quiet
    BY <1>1, EventTyped DEF Quiet, Log, FateKept
  <1>2. ASSUME NEW e \in Event, Publishes(e) PROVE Log'
    <2>0. PICK m \in Nat : m = Len(events)
      BY Positions
    <2> DEFINE n == m + 1
    <2>1. /\ Called(e)
          /\ DOMAIN events = 1..m /\ DOMAIN events' = 1..n
          /\ events'[n] = e /\ \A k \in DOMAIN events : events'[k] = events[k]
      BY <1>2, <2>0, AppendsOne DEF Publishes
    <2>2. /\ n \in Nat /\ n \notin DOMAIN events /\ n \in DOMAIN events'
          /\ \A k \in DOMAIN events' : k = n \/ (k \in DOMAIN events /\ k < n)
      BY <2>1, OneMore
    <2> HIDE DEF n
    <2>3. /\ e.tx # Foreign => fate'[e.tx] = "applied" /\ \A i \in DOMAIN events : events[i].tx # e.tx
          /\ e.topic # "deposit" => e.id \in Id /\ proposal'[e.id] # None
          /\ e.topic = "wprop" => proposal[e.id] = None
          /\ e.topic = "wappr" => ~proposal[e.id].executed /\ e.by \in proposal'[e.id].approvals
          /\ e.topic = "wexec" => proposal'[e.id].executed
      BY <1>2, <2>1 DEF Publishes, Called, Log, TypeOK, CallsTypeOK
    <2>4. ASSUME NEW k \in DOMAIN events
          PROVE  /\ events[k].tx # Foreign => fate'[events[k].tx] = "applied" /\ events[k].tx # e.tx
                 /\ events[k].topic # "deposit" =>
                      /\ events[k].id \in Id /\ proposal'[events[k].id] # None
                      /\ ~(e.topic = "wprop" /\ e.id = events[k].id)
                 /\ events[k].topic = "wappr" => events[k].by \in proposal'[events[k].id].approvals
                 /\ events[k].topic = "wexec" =>
                      proposal'[events[k].id].executed /\ ~(e.topic = "wappr" /\ e.id = events[k].id)
      BY <2>3, EventTyped DEF Log, FateKept, VotesKept
    <2>5. ASSUME NEW k \in DOMAIN events'
          PROVE  /\ events'[k].tx # Foreign =>
                      /\ fate'[events'[k].tx] = "applied"
                      /\ \A i \in DOMAIN events' : events'[i].tx = events'[k].tx => i = k
                 /\ events'[k].topic # "deposit" =>
                      /\ proposal'[events'[k].id] # None
                      /\ \A i \in DOMAIN events' :
                           events'[i].topic = "wprop" /\ events'[i].id = events'[k].id => i <= k
                 /\ events'[k].topic = "wappr" => events'[k].by \in proposal'[events'[k].id].approvals
                 /\ events'[k].topic = "wexec" =>
                      /\ proposal'[events'[k].id].executed
                      /\ \A i \in DOMAIN events' :
                           events'[i].topic = "wappr" /\ events'[i].id = events'[k].id => i < k
      <3>1. CASE k = n
        BY <2>1, <2>2, <2>3, <2>4, <3>1, Positions
      <3>2. CASE k \in DOMAIN events
        BY <2>1, <2>2, <2>3, <2>4, <3>2 DEF Log
      <3>3. QED
        BY <2>2, <3>1, <3>2
    <2>6. QED
      BY <2>5 DEF Log
  <1>3. QED
    BY <1>1, <1>2

LEMMA StepShown ==
  ASSUME TypeOK, Rows, Log, Stashed, Shown, RowsMove, VotesKept
  PROVE  Shown'
  <1> SUFFICES ASSUME NEW r \in WithdrawalRow, withdrawal'[r].contractId # None
      PROVE /\ withdrawal'[r].status = "EXECUTED" => proposal'[withdrawal'[r].contractId].executed
            /\ withdrawal'[r].approvals \subseteq proposal'[withdrawal'[r].contractId].approvals
    BY DEF Shown
  <1>1. CASE withdrawal[r].contractId = None
    <2>1. withdrawal[r].approvals = {} /\ withdrawal[r].status \in {"ABSENT", "PROPOSED", "FAILED"}
      BY <1>1 DEF Rows
    <2>2. \A k \in DOMAIN events : ~Settled(r, k)
      BY <1>1, EventTyped, IdNotNone DEF Settled
    <2>3. \A t \in Tick : ~Voted(r, t)
      BY <1>1 DEF Voted, Stashed
    <2>4. QED
      BY <1>1, <2>1, <2>2, <2>3 DEF RowsMove, RowMoves, Inserted, Hashed, Refuted, Identified
  <1>2. CASE withdrawal[r].contractId # None
    <2> DEFINE d == withdrawal[r].contractId
    <2>1. withdrawal'[r].contractId = d
      BY <1>2, IdStays
    <2>2. d \in Id /\ proposal[d] # None
      BY <1>2, OwnEvent
    <2>3. /\ withdrawal[r].status = "EXECUTED" => proposal[d].executed
          /\ withdrawal[r].approvals \subseteq proposal[d].approvals
      BY <1>2 DEF Shown
    <2>4. \A k \in DOMAIN events : Settled(r, k) => proposal[d].executed
      BY DEF Settled, Log
    <2>5. ASSUME NEW t \in Tick, Voted(r, t)
          PROVE  withdrawal'[r].status = "APPROVED" /\ withdrawal'[r].approvals \subseteq proposal[d].approvals
      BY <2>5 DEF Voted, Stashed, Log
    <2>6. /\ withdrawal'[r].status = "EXECUTED" => proposal[d].executed
          /\ withdrawal'[r].approvals \subseteq proposal[d].approvals
      BY <2>3, <2>4, <2>5 DEF RowsMove, RowMoves, Inserted, Hashed, Refuted, Identified, Settled
    <2>7. QED
      BY <2>1, <2>2, <2>6 DEF VotesKept
  <1>3. QED
    BY <1>1, <1>2

\* A tick takes an approval up, with the list it read.
Taken(t) ==
  \E r \in WithdrawalRow, k \in DOMAIN events :
    /\ stash'[t] = [event |-> k, row |-> r, read |-> withdrawal[r].approvals]
    /\ events[k].topic = "wappr" /\ events[k].id = withdrawal[r].contractId
    /\ k <= seen + 1
    /\ UNCHANGED <<withdrawal, seen>>

StashMoves == \A t \in Tick : stash'[t] = stash[t] \/ stash'[t] = None \/ Taken(t)

LEMMA StepStash == TypeOK /\ [Next]_vars => StashMoves
  <1> SUFFICES ASSUME TypeOK, [Next]_vars PROVE StashMoves
    OBVIOUS
  <1>1. CASE UNCHANGED <<stash>>
    BY <1>1 DEF StashMoves
  <1>2. ASSUME NEW t \in Tick, NEW k \in DOMAIN events, OnWithdrawalApproved(t, k) PROVE StashMoves
    <2>1. PICK r \in Linked(events[k].id) :
                 stash' = [stash EXCEPT ![t] = [event |-> k, row |-> r, read |-> withdrawal[r].approvals]]
      BY <1>2 DEF OnWithdrawalApproved
    <2>2. r \in WithdrawalRow /\ withdrawal[r].contractId = events[k].id
      BY <2>1 DEF Linked
    <2>3. k <= seen + 1
      BY <1>2, Positions DEF OnWithdrawalApproved, First, Again
    <2>4. Taken(t)
      BY <1>2, <2>1, <2>2, <2>3 DEF Taken, OnWithdrawalApproved, callVars, TypeOK
    <2>5. \A q \in Tick : q # t => stash'[q] = stash[q]
      BY <2>1 DEF TypeOK
    <2>6. QED
      BY <2>4, <2>5 DEF StashMoves
  <1>3. ASSUME NEW t \in Tick, WriteApproval(t) PROVE StashMoves
    BY <1>3 DEF WriteApproval, StashMoves, TypeOK
  <1> QED
    BY <1>1, <1>2, <1>3
    DEF Next, vars, apiVars, callVars, DirectCall, TxApplies, TxReverts, PrepareAction,
      CreateDeposit, ProposeWithdrawal, SubmitDeposit, SubmitUnclaimed, Calls, PersistHash,
      PersistFailed, GiveBack, HandlerDies, ReconcileOne, ApprovalIgnored, EventDropped,
      Accepted, Applies, CallNetwork, CalledDirectly, Delivered, Dies, Done, Dropped,
      OnTreasuryDeposit, OnWithdrawalExecuted, OnWithdrawalProposed, Prepare, Refused,
      Reverts, Start, Threw, Upset

LEMMA StepStashed ==
  ASSUME TypeOK, Rows, Log, Stashed, Shown, RowsMove, StashMoves, Grown
  PROVE  Stashed'
  <1> SUFFICES ASSUME NEW t \in Tick, stash'[t] # None
      PROVE /\ stash'[t].event \in DOMAIN events' /\ stash'[t].event <= seen' + 1
            /\ events'[stash'[t].event].topic = "wappr"
            /\ withdrawal'[stash'[t].row].contractId # None
            /\ events'[stash'[t].event].id = withdrawal'[stash'[t].row].contractId
            /\ stash'[t].read \subseteq proposal'[withdrawal'[stash'[t].row].contractId].approvals
    BY DEF Stashed
  <1>1. CASE stash'[t] = stash[t]
    <2> DEFINE r == stash[t].row
               d == withdrawal[r].contractId
    <2>1. /\ stash[t].event \in DOMAIN events /\ stash[t].event <= seen + 1
          /\ events[stash[t].event].topic = "wappr"
          /\ d # None /\ events[stash[t].event].id = d
          /\ stash[t].read \subseteq proposal[d].approvals
      BY <1>1 DEF Stashed
    <2>2. r \in WithdrawalRow
      BY <1>1 DEF TypeOK
    <2>3. withdrawal'[r].contractId = d /\ d \in Id /\ proposal[d] # None
      BY <2>1, <2>2, IdStays, OwnEvent
    <2>4. stash[t].event <= seen' + 1
      BY <2>1, Positions DEF Grown
    <2>5. stash[t].read \subseteq proposal'[d].approvals
      BY <2>1, <2>3 DEF Grown, VotesKept
    <2>6. QED
      BY <1>1, <2>1, <2>3, <2>4, <2>5 DEF Grown
  <1>2. CASE Taken(t)
    <2>1. PICK r \in WithdrawalRow, k \in DOMAIN events :
            /\ stash'[t] = [event |-> k, row |-> r, read |-> withdrawal[r].approvals]
            /\ events[k].topic = "wappr" /\ events[k].id = withdrawal[r].contractId
            /\ k <= seen + 1
            /\ UNCHANGED <<withdrawal, seen>>
      BY <1>2 DEF Taken
    <2>2. withdrawal[r].contractId # None
      BY <2>1, EventTyped, IdNotNone
    <2>3. withdrawal[r].contractId \in Id /\ proposal[withdrawal[r].contractId] # None
      BY <2>2, OwnEvent
    <2>4. withdrawal[r].approvals \subseteq proposal'[withdrawal[r].contractId].approvals
      BY <2>2, <2>3 DEF Shown, Grown, VotesKept
    <2>5. QED
      BY <2>1, <2>2, <2>4 DEF Grown
  <1>3. QED
    BY <1>1, <1>2 DEF StashMoves

RowsInv == /\ TypeOK /\ FreshIds /\ Requests /\ Prepared /\ Rows
           /\ Deposits /\ Log /\ Shown /\ Stashed

LEMMA InitRows == Init => RowsInv
  <1> SUFFICES ASSUME Init PROVE RowsInv
    OBVIOUS
  <1> USE DEF Init
  <1>1. TreasuryTypeOK /\ FreshIds
    BY InitTyped, InitFresh
  <1>2. /\ \A x \in Tx : fate[x] = "none"
        /\ \A h \in Handler : req[h].at = "idle"
        /\ events = <<>> /\ seen = 0 /\ DOMAIN events = {}
    BY DEF CallsInit, CallsInitAfter, Idle
  <1>3. CallsTypeOK(Event)
    BY CallsAssumption DEF CallsInit, CallsInitAfter, CallsTypeOK, Idle, Fate, UpsetKind
  <1>4. /\ \A r \in DepositRow : deposit[r].status = "ABSENT" /\ deposit[r].hash = NoTx
        /\ \A r \in WithdrawalRow : /\ withdrawal[r].status = "ABSENT" /\ withdrawal[r].contractId = None
                                    /\ withdrawal[r].approvals = {} /\ withdrawal[r].hash = NoTx
        /\ \A t \in Tick : stash[t] = None
    BY DEF RowsInit
  <1>5. TypeOK
    BY <1>1, <1>3 DEF RowsInit, TypeOK, DepositRec, WithdrawalRec
  <1>6. Requests /\ Prepared /\ Rows /\ Deposits /\ Log /\ Shown /\ Stashed
    BY <1>2, <1>4 DEF Requests, Prepared, Opens, Rows, Deposits, Log, Shown, Stashed
  <1>7. QED
    BY <1>1, <1>5, <1>6 DEF RowsInv

LEMMA StepRowsInv == RowsInv /\ [Next]_vars => RowsInv'
  <1> SUFFICES ASSUME RowsInv, [Next]_vars PROVE RowsInv'
    OBVIOUS
  <1> USE DEF RowsInv
  <1>1. TypeOK' /\ Requests' /\ Grown /\ FateKept /\ VotesKept
    BY StepLifeTyped, StepRequests, StepGrown DEF Grown
  <1>2. FreshIds'
    BY StepContract, StepFresh DEF TypeOK
  <1>3. RowsMove /\ DepositsMove /\ StashMoves
    BY StepRows, StepDeposits, StepStash
  <1>4. Prepared'
    BY <1>1, <1>3, StepOpens, StepPrepared
  <1>5. Rows' /\ Shown' /\ Stashed'
    BY <1>1, <1>3, StepRowsKept, StepShown, StepStashed
  <1>6. Deposits'
    BY <1>1, <1>3, StepDepositsKept
  <1>7. Log'
    BY <1>1, StepLedger, StepLog
  <1>8. QED
    BY <1>1, <1>2, <1>4, <1>5, <1>6, <1>7

LEMMA RowsEvidence == RowsInv => WithdrawalOnEvidence
  <1> SUFFICES ASSUME RowsInv PROVE WithdrawalOnEvidence
    OBVIOUS
  <1> USE DEF RowsInv
  <1>1. ASSUME NEW r \in WithdrawalRow, withdrawal[r].contractId # None
        PROVE  \E k \in DOMAIN events : /\ events[k].topic = "wprop"
                                        /\ events[k].id = withdrawal[r].contractId
                                        /\ events[k].tx # Foreign /\ events[k].tx.row = r
    <2>1. PICK k \in 1..seen : BroughtBy(r, k)
      BY <1>1 DEF Rows
    <2>2. k \in DOMAIN events
      BY Positions
    <2>3. withdrawal[r].hash \in Tx /\ withdrawal[r].hash.row = r
      BY <1>1 DEF Rows
    <2>4. QED
      BY <2>1, <2>2, <2>3, NoneIsNoTx DEF BroughtBy
  <1>2. ASSUME NEW r \in WithdrawalRow, withdrawal[r].status = "EXECUTED"
        PROVE  Executed(withdrawal[r].contractId)
    <2>1. withdrawal[r].contractId # None
      BY <1>2 DEF Rows
    <2>2. QED
      BY <1>2, <2>1, OwnEvent DEF Shown, Executed
  <1>3. \A r \in WithdrawalRow : withdrawal[r].approvals # {} => withdrawal[r].contractId # None
    BY DEF Rows
  <1>4. \A r \in WithdrawalRow : withdrawal[r].contractId # None =>
          withdrawal[r].approvals \subseteq proposal[withdrawal[r].contractId].approvals
    BY DEF Shown
  <1>5. \A r \in WithdrawalRow : withdrawal[r].status = "FAILED" => fate[withdrawal[r].hash] = "reverted"
    BY DEF Rows
  <1>6. \A r \in DepositRow : /\ deposit[r].status = "CONFIRMED" => fate[deposit[r].hash] = "applied"
                              /\ deposit[r].status = "FAILED" => fate[deposit[r].hash] = "reverted"
    BY DEF Deposits
  <1>7. QED
    BY <1>1, <1>2, <1>3, <1>4, <1>5, <1>6 DEF WithdrawalOnEvidence

(* Every outcome a treasury row shows is one the ledger produced, whatever was
   submitted twice, replayed, dropped or left by a dead request, and whoever
   used the contract without the API.                                       *)
THEOREM WithdrawalOnEvidenceHolds == Spec => []WithdrawalOnEvidence
  BY InitRows, StepRowsInv, RowsEvidence, PTL DEF Spec

(* The API, its wallets and the indexer leave the contract what it promises: the
   composed system is a behaviour of TreasurySpec, so it keeps TreasuryVault and
   executes nothing without a quorum.                                       *)
THEOREM LifecycleKeepsVault == Spec => TreasurySpec /\ KeepsVault /\ ExecutedWithQuorum
  <1>1. Init => TreasuryInit
    BY DEF Init
  <1>2. RowsInv /\ [Next]_vars => [TreasuryNext]_treasuryVars
    BY StepContract DEF RowsInv
  <1>3. Spec => TreasurySpec
    BY <1>1, <1>2, InitRows, StepRowsInv, PTL DEF Spec, TreasurySpec
  <1>4. QED
    BY <1>3, KeepsVaultHolds, ExecutedWithQuorumHolds

-----------------------------------------------------------------------------
(* Nothing is missed.                                                       *)

\* A vote, or the execution, of proposal d among the first n events.
VoteMet(d, a, n) == \E k \in 1..n : events[k].topic = "wappr" /\ events[k].id = d /\ events[k].by = a
ExecMet(d, n)    == \E k \in 1..n : events[k].topic = "wexec" /\ events[k].id = d

UpToDate(r) ==
  /\ \A a \in Account : a \in withdrawal[r].approvals <=> VoteMet(withdrawal[r].contractId, a, seen)
  /\ withdrawal[r].status = "EXECUTED" <=> ExecMet(withdrawal[r].contractId, seen)

RowsUpToDate == \A r \in WithdrawalRow : withdrawal[r].contractId # None => UpToDate(r)

\* While nothing is lost, a tick that has the next event read the list as it still is.
ReadsUpToDate ==
  \A t \in Tick : stash[t] # None /\ stash[t].event = seen + 1 =>
                    stash[t].read = withdrawal[stash[t].row].approvals

Complete == NoEventLost => RowsUpToDate /\ ReadsUpToDate

LEMMA CompleteMissesNothing == TypeOK /\ Complete => NothingMissed
  <1> SUFFICES ASSUME TypeOK, Complete, NoEventLost, NEW r \in WithdrawalRow,
                      withdrawal[r].contractId # None
      PROVE  LET d == withdrawal[r].contractId
                 Met(topic) == {k \in 1..seen : events[k].topic = topic /\ events[k].id = d}
             IN  /\ withdrawal[r].approvals = {events[k].by : k \in Met("wappr")}
                 /\ (withdrawal[r].status = "EXECUTED") <=> (Met("wexec") # {})
    BY DEF NothingMissed
  <1>1. UpToDate(r) /\ withdrawal[r].approvals \subseteq Account
    BY RowTyped DEF Complete, RowsUpToDate
  <1>2. \A k \in 1..seen : events[k].by \in Account
    BY Positions, EventTyped
  <1>3. QED
    BY <1>1, <1>2 DEF UpToDate, VoteMet, ExecMet

LEMMA UpsetsGrow ==
  ASSUME TypeOK, NEW kind \in {"again", "dropped", "died"}, Upset(kind)
  PROVE  NoEventLost' => NoEventLost /\ kind = "died"
  <1>1. /\ upsets["again"] \in Nat /\ upsets["dropped"] \in Nat
        /\ upsets' = [upsets EXCEPT ![kind] = @ + 1] /\ DOMAIN upsets = UpsetKind
    BY DEF TypeOK, CallsTypeOK, Upset, UpsetKind
  <1>2. QED
    BY <1>1 DEF NoEventLost, UpsetKind

LEMMA StepNoEventLost == TypeOK /\ [Next]_vars => (NoEventLost' => NoEventLost)
  <1> SUFFICES ASSUME TypeOK, [Next]_vars PROVE (NoEventLost' => NoEventLost)
    OBVIOUS
  <1>1. CASE UNCHANGED <<upsets>>
    BY <1>1 DEF NoEventLost
  <1>2. ASSUME DirectCall PROVE (NoEventLost' => NoEventLost)
    BY <1>2 DEF DirectCall, CalledDirectly, NoEventLost, TypeOK, CallsTypeOK, UpsetKind
  <1>3. ASSUME NEW h \in Handler, HandlerDies(h) PROVE (NoEventLost' => NoEventLost)
    BY <1>3, UpsetsGrow DEF HandlerDies, Dies, Upset, NoEventLost
  <1>4. ASSUME NEW k \in DOMAIN events, ReconcileOne(k) PROVE (NoEventLost' => NoEventLost)
    BY <1>4, UpsetsGrow DEF ReconcileOne, Delivered, OnTreasuryDeposit, OnWithdrawalProposed,
      OnWithdrawalExecuted, NoEventLost
  <1>5. ASSUME NEW k \in DOMAIN events, ApprovalIgnored(k) PROVE (NoEventLost' => NoEventLost)
    BY <1>5, UpsetsGrow DEF ApprovalIgnored, Delivered, NoEventLost
  <1>6. ASSUME NEW k \in DOMAIN events, EventDropped(k) PROVE (NoEventLost' => NoEventLost)
    BY <1>6, UpsetsGrow DEF EventDropped, Dropped, NoEventLost
  <1>7. ASSUME NEW t \in Tick, WriteApproval(t) PROVE (NoEventLost' => NoEventLost)
    BY <1>7, UpsetsGrow DEF WriteApproval, NoEventLost
  <1> QED
    BY <1>1, <1>2, <1>3, <1>4, <1>5, <1>6, <1>7
    DEF Next, vars, apiVars, callVars, TxApplies, TxReverts, PrepareAction, CreateDeposit,
      ProposeWithdrawal, SubmitDeposit, SubmitUnclaimed, Calls, PersistHash, PersistFailed,
      GiveBack, OnWithdrawalApproved, Accepted, Applies, CallNetwork, Done, Prepare, Refused,
      Reverts, Start, Threw

\* A step that meets no event leaves what the rows show.
LEMMA QuietComplete ==
  ASSUME RowsInv, NoEventLost, NoEventLost', RowsUpToDate, ReadsUpToDate,
         RowsMove, StashMoves, Grown, seen' = seen
  PROVE  RowsUpToDate' /\ ReadsUpToDate'
  <1> USE DEF RowsInv
  <1>1. ASSUME NEW k \in DOMAIN events, Handles(k) PROVE FALSE
    <2>1. upsets["again"] = 0 /\ upsets'["again"] = 0
      BY DEF NoEventLost
    <2>2. QED
      BY <1>1, <2>1, Positions DEF Handles
  <1>2. ASSUME NEW r \in WithdrawalRow
        PROVE  withdrawal'[r] = withdrawal[r] \/ Inserted(r) \/ Hashed(r) \/ Refuted(r)
    <2>1. \A k \in DOMAIN events : ~Identified(r, k) /\ ~Settled(r, k)
      BY <1>1 DEF Identified, Settled
    <2>2. \A t \in Tick : ~Voted(r, t)
      BY <1>1 DEF Voted, Handles
    <2>3. QED
      BY <2>1, <2>2 DEF RowsMove, RowMoves
  <1>3. ASSUME NEW r \in WithdrawalRow
        PROVE  /\ withdrawal'[r].contractId = withdrawal[r].contractId
               /\ withdrawal'[r].approvals = withdrawal[r].approvals
    BY <1>2 DEF Inserted, Hashed, Refuted
  <1>4. ASSUME NEW r \in WithdrawalRow, withdrawal[r].contractId # None
        PROVE  withdrawal'[r].status = "EXECUTED" <=> withdrawal[r].status = "EXECUTED"
    <2>1. withdrawal[r].status # "ABSENT" /\ fate[withdrawal[r].hash] = "applied"
      BY <1>4, OwnEvent DEF Rows
    <2>2. ~Refuted(r)
      <3>1. ASSUME Refuted(r) PROVE withdrawal'[r].hash = withdrawal[r].hash
        <4>1. OwnCall(r, withdrawal[r].hash, "propose")
          BY <1>4 DEF Rows, OwnCall
        <4>2. QED
          BY <3>1, <4>1, OneOpens DEF Refuted
      <3>2. QED
        BY <2>1, <3>1 DEF Refuted
    <2>3. QED
      BY <1>2, <2>1, <2>2 DEF Inserted, Hashed
  <1>5. \A d, a : VoteMet(d, a, seen)' <=> VoteMet(d, a, seen)
    BY Positions DEF VoteMet, Grown
  <1>6. \A d : ExecMet(d, seen)' <=> ExecMet(d, seen)
    BY Positions DEF ExecMet, Grown
  <1>7. RowsUpToDate'
    BY <1>3, <1>4, <1>5, <1>6 DEF RowsUpToDate, UpToDate
  <1>8. ASSUME NEW t \in Tick, stash'[t] # None, stash'[t].event = seen' + 1
        PROVE  stash'[t].read = withdrawal'[stash'[t].row].approvals
    <2>1. CASE stash'[t] = stash[t]
      <3>1. stash[t].row \in WithdrawalRow
        BY <1>8, <2>1 DEF TypeOK
      <3>2. QED
        BY <1>3, <1>8, <2>1, <3>1 DEF ReadsUpToDate
    <2>2. CASE Taken(t)
      BY <1>3, <2>2 DEF Taken
    <2>3. QED
      BY <1>8, <2>1, <2>2 DEF StashMoves
  <1>9. QED
    BY <1>7, <1>8 DEF ReadsUpToDate

\* The next event is met.
Meets(k) == k = seen + 1 /\ seen' = k /\ k \in DOMAIN events /\ UNCHANGED events

LEMMA NextMet ==
  ASSUME TypeOK, NEW k, Meets(k)
  PROVE  /\ \A d, a : VoteMet(d, a, seen)' <=>
              \/ VoteMet(d, a, seen)
              \/ events[k].topic = "wappr" /\ events[k].id = d /\ events[k].by = a
         /\ \A d : ExecMet(d, seen)' <=>
              ExecMet(d, seen) \/ (events[k].topic = "wexec" /\ events[k].id = d)
  <1>1. \A i : i \in 1..seen' <=> i \in 1..seen \/ i = k
    BY Positions DEF Meets
  <1>2. QED
    BY <1>1 DEF Meets, VoteMet, ExecMet

\* A tick in the middle of an approval is behind by then.
LEMMA ReadsBehind ==
  ASSUME TypeOK, Stashed, StashMoves, NEW k, Meets(k) PROVE ReadsUpToDate'
  <1> SUFFICES ASSUME NEW t \in Tick, stash'[t] # None, stash'[t].event = seen' + 1 PROVE FALSE
    BY DEF ReadsUpToDate
  <1>1. ~Taken(t)
    <2>1. Taken(t) => seen' = seen
      BY DEF Taken
    <2>2. seen' # seen
      BY Positions DEF Meets
    <2>3. QED
      BY <2>1, <2>2
  <1>2. stash'[t] = stash[t] /\ stash[t].event \in Nat /\ stash[t].event <= seen + 1
    BY <1>1, Positions DEF StashMoves, Stashed
  <1>3. QED
    BY <1>2, Positions DEF Meets

\* The execution's event comes after every vote's.
LEMMA VotesFirst ==
  ASSUME TypeOK, Log, NEW k, Meets(k), events[k].topic = "wappr"
  PROVE  ~ExecMet(events[k].id, seen)
  <1> SUFFICES ASSUME NEW i \in 1..seen, events[i].topic = "wexec", events[i].id = events[k].id
               PROVE  FALSE
    BY DEF ExecMet
  <1>1. i \in DOMAIN events /\ k \in DOMAIN events
    BY Positions DEF Meets
  <1>2. k < i
    BY <1>1 DEF Log
  <1>3. QED
    BY <1>2, Positions DEF Meets

\* No two rows share a proposal.
LEMMA IdsDiffer ==
  ASSUME RowsInv, NEW r \in WithdrawalRow, NEW q \in WithdrawalRow,
         withdrawal[r].contractId # None, withdrawal[r].contractId = withdrawal[q].contractId
  PROVE  r = q
  <1> USE DEF RowsInv
  <1>1. PICK i \in 1..seen : BroughtBy(r, i)
    BY DEF Rows
  <1>2. PICK j \in 1..seen : BroughtBy(q, j)
    BY DEF Rows
  <1>3. i \in DOMAIN events /\ j \in DOMAIN events /\ i \in Nat /\ j \in Nat
    BY Positions
  <1>4. i <= j /\ j <= i
    BY <1>1, <1>2, <1>3 DEF Log, BroughtBy
  <1>5. withdrawal[r].hash = withdrawal[q].hash
    BY <1>1, <1>2, <1>3, <1>4 DEF BroughtBy
  <1>6. QED
    BY <1>5 DEF Rows

LEMMA MeetsPayment ==
  ASSUME RowsInv, RowsUpToDate, NEW k, Meets(k), events[k].topic = "deposit", withdrawal' = withdrawal
  PROVE  RowsUpToDate'
  <1>1. TypeOK
    BY DEF RowsInv
  <1>2. QED
    BY <1>1, NextMet DEF RowsUpToDate, UpToDate

LEMMA MeetsProposal ==
  ASSUME RowsInv, RowsUpToDate, NEW k, Meets(k), events[k].topic = "wprop",
         OnWithdrawalProposed(events[k])
  PROVE  RowsUpToDate'
  <1> USE DEF RowsInv
  <1> SUFFICES ASSUME NEW r \in WithdrawalRow, withdrawal'[r].contractId # None PROVE UpToDate(r)'
    BY DEF RowsUpToDate
  <1>1. k \in DOMAIN events
    BY DEF Meets
  <1>2. CASE withdrawal[r].hash # events[k].tx
    <2>1. withdrawal'[r] = withdrawal[r]
      BY <1>2 DEF OnWithdrawalProposed
    <2>2. UpToDate(r)
      BY <2>1 DEF RowsUpToDate
    <2>3. QED
      BY <2>1, <2>2, NextMet DEF UpToDate
  <1>3. CASE withdrawal[r].hash = events[k].tx
    <2>1. withdrawal'[r] = [withdrawal[r] EXCEPT !.contractId = events[k].id, !.status = "PROPOSED"]
      BY <1>3 DEF OnWithdrawalProposed
    <2>2. /\ withdrawal'[r].contractId = events[k].id /\ withdrawal'[r].status = "PROPOSED"
          /\ withdrawal'[r].approvals = withdrawal[r].approvals
      BY <2>1, RowTyped DEF WithdrawalRec
    <2>3. withdrawal[r].contractId = None
      BY <1>1, <1>3, OwnEvent, Positions DEF Meets
    <2>4. withdrawal[r].approvals = {}
      BY <2>3 DEF Rows
    <2>5. ASSUME NEW i \in 1..seen, events[i].topic # "deposit" PROVE events[i].id # events[k].id
      <3>1. i \in DOMAIN events /\ i < k
        BY Positions DEF Meets
      <3>2. events[i].id = events[k].id => k <= i
        BY <1>1, <2>5, <3>1 DEF Log
      <3>3. QED
        BY <3>1, <3>2, Positions DEF Meets
    <2>6. /\ \A a : ~VoteMet(events[k].id, a, seen)
          /\ ~ExecMet(events[k].id, seen)
      BY <2>5 DEF VoteMet, ExecMet
    <2>7. QED
      BY <2>2, <2>4, <2>6, NextMet DEF UpToDate
  <1>4. QED
    BY <1>2, <1>3

LEMMA MeetsExecution ==
  ASSUME RowsInv, RowsUpToDate, NEW k, Meets(k), events[k].topic = "wexec",
         OnWithdrawalExecuted(events[k])
  PROVE  RowsUpToDate'
  <1> USE DEF RowsInv
  <1> SUFFICES ASSUME NEW r \in WithdrawalRow, withdrawal'[r].contractId # None PROVE UpToDate(r)'
    BY DEF RowsUpToDate
  <1>1. CASE Executes(r, events[k])
    <2>1. withdrawal'[r] = [withdrawal[r] EXCEPT !.status = "EXECUTED", !.executedHash = events[k].tx]
      BY <1>1 DEF OnWithdrawalExecuted
    <2>2. /\ withdrawal'[r].contractId = withdrawal[r].contractId /\ withdrawal'[r].status = "EXECUTED"
          /\ withdrawal'[r].approvals = withdrawal[r].approvals
      BY <2>1, RowTyped DEF WithdrawalRec
    <2>3. withdrawal[r].contractId = events[k].id /\ UpToDate(r)
      BY <1>1, <2>2 DEF Executes, RowsUpToDate
    <2>4. QED
      BY <2>2, <2>3, NextMet DEF UpToDate
  <1>2. CASE ~Executes(r, events[k])
    <2>1. withdrawal'[r] = withdrawal[r]
      BY <1>2 DEF OnWithdrawalExecuted
    <2>2. UpToDate(r)
      BY <2>1 DEF RowsUpToDate
    <2>3. withdrawal[r].contractId = events[k].id => withdrawal[r].status = "EXECUTED"
      BY <1>2, <2>1 DEF Executes, Rows
    <2>4. QED
      BY <2>1, <2>2, <2>3, NextMet DEF UpToDate
  <1>3. QED
    BY <1>1, <1>2

LEMMA MeetsKnownVote ==
  ASSUME RowsInv, RowsUpToDate, NEW k, Meets(k), ApprovalIgnored(k)
  PROVE  RowsUpToDate'
  <1> USE DEF RowsInv
  <1> SUFFICES ASSUME NEW r \in WithdrawalRow, withdrawal'[r].contractId # None PROVE UpToDate(r)'
    BY DEF RowsUpToDate
  <1>1. withdrawal' = withdrawal /\ events[k].topic = "wappr"
    BY DEF ApprovalIgnored
  <1>2. UpToDate(r) /\ withdrawal[r].status \in {"PROPOSED", "APPROVED", "EXECUTED"}
    BY <1>1 DEF RowsUpToDate, Rows
  <1>3. withdrawal[r].contractId = events[k].id => events[k].by \in withdrawal[r].approvals
    <2>1. withdrawal[r].contractId = events[k].id => withdrawal[r].status # "EXECUTED"
      BY <1>1, <1>2, VotesFirst DEF UpToDate
    <2>2. QED
      BY <1>2, <2>1 DEF ApprovalIgnored, Linked
  <1>4. events[k].by \in Account
    BY EventTyped DEF Meets
  <1>5. QED
    BY <1>1, <1>2, <1>3, <1>4, NextMet DEF UpToDate

LEMMA MeetsVote ==
  ASSUME RowsInv, RowsUpToDate, ReadsUpToDate, NEW t \in Tick, Meets(stash[t].event), WriteApproval(t)
  PROVE  RowsUpToDate'
  <1> USE DEF RowsInv
  <1> SUFFICES ASSUME NEW r \in WithdrawalRow, withdrawal'[r].contractId # None PROVE UpToDate(r)'
    BY DEF RowsUpToDate
  <1> DEFINE k == stash[t].event
             own == stash[t].row
  <1>1. /\ stash[t] # None /\ k \in DOMAIN events /\ events[k].topic = "wappr"
        /\ own \in WithdrawalRow /\ withdrawal[own].contractId # None
        /\ events[k].id = withdrawal[own].contractId
        /\ stash[t].read = withdrawal[own].approvals
    BY DEF WriteApproval, Stashed, TypeOK, ReadsUpToDate, Meets
  <1>2. withdrawal' = [withdrawal EXCEPT ![own].approvals = stash[t].read \cup {events[k].by},
                                         ![own].status = "APPROVED"]
    BY DEF WriteApproval
  <1>3. CASE r = own
    <2>1. withdrawal'[r] = [withdrawal[r] EXCEPT !.approvals = withdrawal[r].approvals \cup {events[k].by},
                                                 !.status = "APPROVED"]
      BY <1>1, <1>2, <1>3 DEF TypeOK
    <2>2. /\ withdrawal'[r].contractId = withdrawal[r].contractId /\ withdrawal'[r].status = "APPROVED"
          /\ withdrawal'[r].approvals = withdrawal[r].approvals \cup {events[k].by}
      BY <2>1, RowTyped DEF WithdrawalRec
    <2>3. UpToDate(r) /\ ~ExecMet(withdrawal[r].contractId, seen)
      BY <1>1, <1>3, VotesFirst DEF RowsUpToDate
    <2>4. QED
      BY <1>1, <1>3, <2>2, <2>3, NextMet DEF UpToDate
  <1>4. CASE r # own
    <2>1. withdrawal'[r] = withdrawal[r]
      BY <1>2, <1>4 DEF TypeOK
    <2>2. UpToDate(r)
      BY <2>1 DEF RowsUpToDate
    <2>3. withdrawal[r].contractId # events[k].id
      BY <1>1, <1>4, <2>1, IdsDiffer
    <2>4. QED
      BY <1>1, <2>1, <2>2, <2>3, NextMet DEF UpToDate
  <1>5. QED
    BY <1>3, <1>4

LEMMA StepMeets == RowsInv /\ NoEventLost /\ NoEventLost' /\ RowsUpToDate /\ ReadsUpToDate /\ [Next]_vars => (seen' = seen \/ (RowsUpToDate' /\ \E i \in DOMAIN events : Meets(i)))
  <1> SUFFICES ASSUME RowsInv, NoEventLost, NoEventLost', RowsUpToDate, ReadsUpToDate, [Next]_vars PROVE (seen' = seen \/ (RowsUpToDate' /\ \E i \in DOMAIN events : Meets(i)))
    OBVIOUS
  <1>1. CASE UNCHANGED <<seen>>
    BY <1>1
  <1>2. ASSUME DirectCall PROVE (seen' = seen \/ (RowsUpToDate' /\ \E i \in DOMAIN events : Meets(i)))
    BY <1>2 DEF DirectCall, CalledDirectly
  <1>3. ASSUME NEW x \in Tx, TxApplies(x) PROVE (seen' = seen \/ (RowsUpToDate' /\ \E i \in DOMAIN events : Meets(i)))
    BY <1>3 DEF TxApplies, Applies
  <1>4. ASSUME NEW k \in DOMAIN events, ReconcileOne(k) PROVE (seen' = seen \/ (RowsUpToDate' /\ \E i \in DOMAIN events : Meets(i)))
    <2>1. CASE seen' # seen
      <3>1. Meets(k)
        BY <1>4, <2>1 DEF ReconcileOne, Delivered, First, Meets
      <3>2. CASE OnTreasuryDeposit(events[k]) /\ events[k].topic = "deposit"
        BY <3>1, <3>2, MeetsPayment DEF OnTreasuryDeposit
      <3>3. QED
        BY <1>4, <3>1, <3>2, MeetsProposal, MeetsExecution DEF ReconcileOne
    <2>2. QED
      BY <2>1
  <1>5. ASSUME NEW k \in DOMAIN events, ApprovalIgnored(k) PROVE (seen' = seen \/ (RowsUpToDate' /\ \E i \in DOMAIN events : Meets(i)))
    <2>1. Meets(k)
      BY <1>5, Positions DEF ApprovalIgnored, Delivered, First, Again, Meets, RowsInv
    <2>2. QED
      BY <1>5, <2>1, MeetsKnownVote
  <1>6. ASSUME NEW k \in DOMAIN events, EventDropped(k) PROVE (seen' = seen \/ (RowsUpToDate' /\ \E i \in DOMAIN events : Meets(i)))
    <2>1. FALSE
      BY <1>6, UpsetsGrow DEF EventDropped, Dropped, RowsInv
    <2>2. QED
      BY <2>1
  <1>7. ASSUME NEW t \in Tick, WriteApproval(t) PROVE (seen' = seen \/ (RowsUpToDate' /\ \E i \in DOMAIN events : Meets(i)))
    <2>1. CASE seen' # seen
      <3>1. stash[t] # None /\ seen' = stash[t].event /\ ~(stash[t].event <= seen) /\ UNCHANGED events
        BY <1>7, <2>1 DEF WriteApproval
      <3>2. stash[t].event \in DOMAIN events /\ stash[t].event <= seen + 1
        BY <3>1 DEF RowsInv, Stashed
      <3>3. Meets(stash[t].event)
        BY <3>1, <3>2, Positions DEF Meets, RowsInv
      <3>4. QED
        BY <1>7, <3>2, <3>3, MeetsVote
    <2>2. QED
      BY <2>1
  <1> QED
    BY <1>1, <1>2, <1>3, <1>4, <1>5, <1>6, <1>7
    DEF Next, vars, apiVars, callVars, TxReverts, PrepareAction, CreateDeposit,
      ProposeWithdrawal, SubmitDeposit, SubmitUnclaimed, Calls, PersistHash, PersistFailed,
      GiveBack, HandlerDies, OnWithdrawalApproved, Accepted, CallNetwork, Dies, Done,
      Prepare, Refused, Reverts, Start, Threw, Upset

LEMMA StepComplete == RowsInv /\ Complete /\ [Next]_vars => Complete'
  <1> SUFFICES ASSUME RowsInv, Complete, [Next]_vars, NoEventLost' PROVE RowsUpToDate' /\ ReadsUpToDate'
    BY DEF Complete
  <1>1. TypeOK /\ Rows /\ Log /\ Stashed
    BY DEF RowsInv
  <1>2. NoEventLost /\ RowsUpToDate /\ ReadsUpToDate
    BY <1>1, StepNoEventLost DEF Complete
  <1>3. RowsMove /\ StashMoves /\ Grown
    BY StepRows, StepStash, StepGrown DEF RowsInv
  <1>4. CASE seen' = seen
    BY <1>2, <1>3, <1>4, QuietComplete
  <1>5. seen' = seen \/ (RowsUpToDate' /\ \E k \in DOMAIN events : Meets(k))
    BY <1>2, StepMeets
  <1>6. QED
    BY <1>1, <1>3, <1>4, <1>5, ReadsBehind

(* As long as no event is dropped or handed over again, a row that knows its
   proposal shows the votes and the execution of every event the indexer went
   through, however many ticks and requests overlap.                        *)
THEOREM NothingMissedHolds == Spec => []NothingMissed
  <1>1. Init => Complete
    <2> SUFFICES ASSUME Init PROVE RowsUpToDate /\ ReadsUpToDate
      BY DEF Complete
    <2>1. /\ \A r \in WithdrawalRow : withdrawal[r].contractId = None
          /\ \A t \in Tick : stash[t] = None
      BY DEF Init, RowsInit
    <2>2. QED
      BY <2>1 DEF RowsUpToDate, ReadsUpToDate
  <1>2. RowsInv /\ Complete => NothingMissed
    BY CompleteMissesNothing DEF RowsInv
  <1>3. QED
    BY <1>1, <1>2, InitRows, StepRowsInv, StepComplete, PTL DEF Spec
=============================================================================
