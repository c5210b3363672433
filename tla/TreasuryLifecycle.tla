---------------------------- MODULE TreasuryLifecycle ----------------------------
(***************************************************************************)
(* The treasury feature end to end: TreasuryService (API requests), the    *)
(* treasury contract, and the indexer handlers that bring its events back  *)
(* to the TreasuryOperation and TreasuryWithdrawal tables.                 *)
(*                                                                         *)
(* Abstractions: every row has the same terms (Payee, Price); the wallet   *)
(* signs the envelope that was prepared for the row.                       *)
(***************************************************************************)
EXTENDS TreasuryContract, ContractCalls

CONSTANTS
  DepositRow,     \* rows of TreasuryOperation
  WithdrawalRow,  \* rows of TreasuryWithdrawal
  Wallet,         \* the API user's wallets; other members vote without the API
  Payee, Price,
  Tick            \* indexer ticks that may run at the same time (TTL-only lock)

Envelopes == [row : DepositRow, call : {"deposit"}, by : Wallet]
               \cup [row : WithdrawalRow, call : {"propose", "approve", "execute"}, by : Wallet]

ASSUME LifecycleAssumption ==
  /\ Tx \subseteq Envelopes
  /\ Wallet \subseteq Account
  /\ Payee \in Account
  /\ Price \in Amount
  /\ DepositRow \cap WithdrawalRow = {}
  /\ None \notin Tx

VARIABLES
  deposit,     \* TreasuryOperation rows
  withdrawal,  \* TreasuryWithdrawal rows
  stash        \* per tick: the approval event it is writing, and the list it read

apiVars == <<deposit, withdrawal, stash, callVars>>
vars == <<treasuryVars, apiVars>>

Event == [topic : {"deposit"}, id : {None}, by : Account, tx : Tx \cup {Foreign}]
           \cup [topic : {"wprop", "wappr", "wexec"}, id : Id, by : Account, tx : Tx \cup {Foreign}]
DepositRec    == [status : {"ABSENT", "AWAITING_SIGN", "SUBMITTED", "CONFIRMED", "FAILED"},
                  hash : Tx \cup {NoTx}]
WithdrawalRec == [status : {"ABSENT", "PROPOSED", "APPROVED", "EXECUTED", "FAILED"},
                  contractId : Id \cup {None}, approvals : SUBSET Account,
                  hash : Tx \cup {NoTx}, approveHash : Tx \cup {NoTx},
                  executedHash : Tx \cup {NoTx, Foreign}]

TypeOK ==
  /\ TreasuryTypeOK
  /\ CallsTypeOK(Event)
  /\ deposit \in [DepositRow -> DepositRec]
  /\ withdrawal \in [WithdrawalRow -> WithdrawalRec]
  /\ stash \in [Tick -> [event : Nat \ {0}, row : WithdrawalRow, read : SUBSET Account] \cup {None}]

RowsInit ==
  /\ deposit = [r \in DepositRow |-> [status |-> "ABSENT", hash |-> NoTx]]
  /\ withdrawal = [r \in WithdrawalRow |->
       [status |-> "ABSENT", contractId |-> None, approvals |-> {},
        hash |-> NoTx, approveHash |-> NoTx, executedHash |-> NoTx]]
  /\ stash = [k \in Tick |-> None]

Init == TreasuryInit /\ CallsInit /\ RowsInit

-----------------------------------------------------------------------------
(* The ledger.                                                              *)

Publish(topic, d, a, x) ==
  events' = Append(events, [topic |-> topic, id |-> d, by |-> a, tx |-> x])

\* One invocation, by account a in transaction x.
Invoke(call, d, a, x) ==
  \/ call = "deposit" /\ Deposit(a, Price) /\ Publish("deposit", None, a, x)
  \/ call = "propose" /\ ProposeWithdraw(a, Payee, Price) /\ Publish("wprop", NextId, a, x)
  \/ call = "approve" /\ ApproveWithdraw(a, d) /\ Publish("wappr", d, a, x)
  \/ call = "execute" /\ ExecuteWithdraw(a, d) /\ Publish("wexec", d, a, x)

ContractIdOf(x) == IF x.row \in WithdrawalRow THEN withdrawal[x.row].contractId ELSE None

TxApplies(x) ==
  /\ Applies(x)
  /\ Invoke(x.call, ContractIdOf(x), x.by, x)
  /\ UNCHANGED <<deposit, withdrawal, stash>>

TxReverts(x) == Reverts(x) /\ UNCHANGED <<treasuryVars, deposit, withdrawal, stash>>

\* Members and donors who do not use the API; the administrator.
DirectCall ==
  /\ CalledDirectly
  /\ \/ \E call \in {"deposit", "propose", "approve", "execute"}, d \in Id, a \in Account :
          Invoke(call, d, a, Foreign)
     \/ Administer /\ UNCHANGED events
     \/ Withdraw(Payee, Price) /\ UNCHANGED events
  /\ UNCHANGED <<deposit, withdrawal, stash>>

-----------------------------------------------------------------------------
(* TreasuryService.                                                         *)

\* createDeposit and proposeWithdrawal: simulated, prepared, then inserted.
CreateDeposit(r) ==
  /\ deposit[r].status = "ABSENT"
  /\ allowed
  /\ \E x \in Tx : x.row = r /\ wallet[x.by] >= Price /\ Prepare(x)
  /\ deposit' = [deposit EXCEPT ![r].status = "AWAITING_SIGN"]
  /\ UNCHANGED <<treasuryVars, withdrawal, stash>>

ProposeWithdrawal(r) ==
  /\ withdrawal[r].status = "ABSENT"
  /\ \E x \in Tx : x.row = r /\ x.call = "propose" /\ MayPropose(x.by) /\ Prepare(x)
  /\ withdrawal' = [withdrawal EXCEPT ![r].status = "PROPOSED"]
  /\ UNCHANGED <<treasuryVars, deposit, stash>>

\* approve and execute write nothing; the simulation runs the contract's checks.
PrepareAction(x) ==
  /\ x.call \in {"approve", "execute"}
  /\ ContractIdOf(x) # None
  /\ x.call = "execute" => withdrawal[x.row].status # "EXECUTED"
  /\ IsMember(x.by) /\ Pending(ContractIdOf(x))
  /\ IF x.call = "approve" THEN x.by \notin proposal[ContractIdOf(x)].approvals
                           ELSE HasQuorum(ContractIdOf(x))
  /\ Prepare(x)
  /\ UNCHANGED <<treasuryVars, deposit, withdrawal, stash>>

\* submitDeposit claims the row; its WHERE repeats the check.
SubmitDeposit(h, x) ==
  /\ x.call = "deposit"
  /\ deposit[x.row].status = "AWAITING_SIGN"
  /\ Start(h, x)
  /\ deposit' = [deposit EXCEPT ![x.row].status = "SUBMITTED"]
  /\ UNCHANGED <<treasuryVars, withdrawal, stash>>

\* submitProposal and confirmAction read the row and claim nothing.
SubmitUnclaimed(h, x) ==
  /\ \/ x.call = "propose" /\ withdrawal[x.row].contractId = None
     \/ x.call = "approve" /\ withdrawal[x.row].approveHash = NoTx
     \/ x.call = "execute" /\ withdrawal[x.row].executedHash = NoTx
  /\ Start(h, x)
  /\ UNCHANGED <<treasuryVars, deposit, withdrawal, stash>>

Calls(h) == CallNetwork(h) /\ UNCHANGED <<treasuryVars, deposit, withdrawal, stash>>

\* After an accepted call: the hash, by row id alone.
\* (Mutant: the execution is taken for granted.)
ExecutedEagerly(old, x) ==
  [old EXCEPT !.hash         = IF x.call = "propose" THEN x ELSE @,
              !.approveHash  = IF x.call = "approve" THEN x ELSE @,
              !.executedHash = IF x.call = "execute" THEN x ELSE @,
              !.status       = IF x.call = "execute" THEN "EXECUTED" ELSE @]
WithHash(old, x) ==
  [old EXCEPT !.hash         = IF x.call = "propose" THEN x ELSE @,
              !.approveHash  = IF x.call = "approve" THEN x ELSE @,
              !.executedHash = IF x.call = "execute" THEN x ELSE @]

PersistHash(h) ==
  LET x == req[h].tx
  IN  /\ Accepted(h)
      /\ IF x.call = "deposit"
         THEN /\ deposit' = [deposit EXCEPT ![x.row].hash = x]
              /\ UNCHANGED withdrawal
         ELSE /\ withdrawal' = [withdrawal EXCEPT ![x.row] = WithHash(@, x)]
              /\ UNCHANGED deposit
      /\ UNCHANGED <<treasuryVars, stash>>

\* A revert fails the row of a deposit or a proposal; an action's leaves no trace.
PersistFailed(h) ==
  LET x == req[h].tx
  IN  /\ Refused(h)
      /\ deposit' = IF x.call = "deposit"
                    THEN [deposit EXCEPT ![x.row] = [status |-> "FAILED", hash |-> x]] ELSE deposit
      /\ withdrawal' = IF x.call = "propose"
                       THEN [withdrawal EXCEPT ![x.row].status = "FAILED", ![x.row].hash = x]
                       ELSE withdrawal
      /\ UNCHANGED <<treasuryVars, stash>>

\* An exception gives the deposit's claim back.
GiveBack(h) ==
  LET x == req[h].tx
  IN  /\ Threw(h)
      /\ deposit' = IF x.call = "deposit" /\ deposit[x.row].status = "SUBMITTED"
                    THEN [deposit EXCEPT ![x.row].status = "AWAITING_SIGN"] ELSE deposit
      /\ UNCHANGED <<treasuryVars, withdrawal, stash>>

HandlerDies(h) == Dies(h) /\ UNCHANGED <<treasuryVars, deposit, withdrawal, stash>>

-----------------------------------------------------------------------------
(* ContractReconciliationService.                                           *)

Linked(d) == {r \in WithdrawalRow : withdrawal[r].contractId = d}

OnTreasuryDeposit(e) ==
  /\ deposit' = [r \in DepositRow |->
       IF deposit[r].hash = e.tx /\ deposit[r].status = "SUBMITTED"
       THEN [deposit[r] EXCEPT !.status = "CONFIRMED"] ELSE deposit[r]]
  /\ UNCHANGED <<withdrawal, stash>>

\* The update's WHERE has the hash and no status.
OnWithdrawalProposed(e) ==
  /\ withdrawal' = [r \in WithdrawalRow |->
       IF withdrawal[r].hash = e.tx
       THEN [withdrawal[r] EXCEPT !.contractId = e.id, !.status = "PROPOSED"] ELSE withdrawal[r]]
  /\ UNCHANGED <<deposit, stash>>

\* (Mutant: matched by the hash, like a proposal.)
ExecutesByHash(r, e) == withdrawal[r].executedHash = e.tx /\ withdrawal[r].status \in {"PROPOSED", "APPROVED"}
Executes(r, e) == withdrawal[r].contractId = e.id /\ withdrawal[r].status \in {"PROPOSED", "APPROVED"}

OnWithdrawalExecuted(e) ==
  /\ withdrawal' = [r \in WithdrawalRow |->
       IF Executes(r, e)
       THEN [withdrawal[r] EXCEPT !.status = "EXECUTED", !.executedHash = e.tx] ELSE withdrawal[r]]
  /\ UNCHANGED <<deposit, stash>>

ReconcileOne(k) ==
  /\ Delivered(k)
  /\ \/ events[k].topic = "deposit" /\ OnTreasuryDeposit(events[k])
     \/ events[k].topic = "wprop" /\ OnWithdrawalProposed(events[k])
     \/ events[k].topic = "wexec" /\ OnWithdrawalExecuted(events[k])
  /\ UNCHANGED treasuryVars

\* onWithdrawalApproved reads the row ...
OnWithdrawalApproved(t, k) ==
  /\ stash[t] = None
  /\ events[k].topic = "wappr"
  /\ \E r \in Linked(events[k].id) :
       /\ withdrawal[r].status \in {"PROPOSED", "APPROVED"}
       /\ events[k].by \notin withdrawal[r].approvals
       /\ stash' = [stash EXCEPT ![t] = [event |-> k, row |-> r, read |-> withdrawal[r].approvals]]
  /\ First(k) \/ (Again(k) /\ UpsetTotal < MaxUpsets)
  /\ UNCHANGED <<treasuryVars, deposit, withdrawal, callVars>>

\* ... and writes the longer list and the status by id alone.  The row's threshold
\* is the column's default, 0, so the first approval makes it APPROVED.
WriteApproval(t) ==
  LET s == stash[t]
      next == s.read \cup {events[s.event].by}
  IN  /\ s # None
      /\ IF s.event <= seen THEN Upset("again") /\ UNCHANGED seen ELSE seen' = s.event /\ UNCHANGED upsets
      /\ withdrawal' = [withdrawal EXCEPT ![s.row].approvals = next, ![s.row].status = "APPROVED"]
      /\ stash' = [stash EXCEPT ![t] = None]
      /\ UNCHANGED <<treasuryVars, deposit, fate, events, req>>

\* Nothing to approve: no such row, a settled one, or a member counted already.
ApprovalIgnored(k) ==
  /\ events[k].topic = "wappr"
  /\ \A r \in Linked(events[k].id) : \/ withdrawal[r].status \notin {"PROPOSED", "APPROVED"}
                                     \/ events[k].by \in withdrawal[r].approvals
  /\ First(k)
  /\ Delivered(k)
  /\ UNCHANGED <<treasuryVars, deposit, withdrawal, stash>>

EventDropped(k) == Dropped(k) /\ UNCHANGED <<treasuryVars, deposit, withdrawal, stash>>

Next ==
  \/ DirectCall
  \/ \E x \in Tx : TxApplies(x) \/ TxReverts(x) \/ PrepareAction(x)
  \/ \E r \in DepositRow : CreateDeposit(r)
  \/ \E r \in WithdrawalRow : ProposeWithdrawal(r)
  \/ \E h \in Handler, x \in Tx : SubmitDeposit(h, x) \/ SubmitUnclaimed(h, x)
  \/ \E h \in Handler : \/ Calls(h) \/ PersistHash(h) \/ PersistFailed(h)
                        \/ GiveBack(h) \/ HandlerDies(h)
  \/ \E k \in DOMAIN events : \/ ReconcileOne(k) \/ ApprovalIgnored(k) \/ EventDropped(k)
                              \/ \E t \in Tick : OnWithdrawalApproved(t, k)
  \/ \E t \in Tick : WriteApproval(t)

Spec == Init /\ [][Next]_vars

-----------------------------------------------------------------------------
Executed(d) == d # None /\ proposal[d] # None /\ proposal[d].executed

(* "The API never marks EXECUTED on its own" (treasury.service.ts:29), nor any
   other outcome: an executed row's proposal was executed, its approvals are
   votes the contract counted, its id is that of the proposal its own envelope
   made, and a deposit or a proposal ends as the ledger ended its envelope.  *)
WithdrawalOnEvidence ==
  /\ \A r \in WithdrawalRow :
       /\ withdrawal[r].status = "EXECUTED" => Executed(withdrawal[r].contractId)
       /\ withdrawal[r].approvals # {} =>
            /\ withdrawal[r].contractId # None
            /\ withdrawal[r].approvals \subseteq proposal[withdrawal[r].contractId].approvals
       /\ withdrawal[r].contractId # None =>
            \E k \in DOMAIN events : /\ events[k].topic = "wprop"
                                    /\ events[k].id = withdrawal[r].contractId
                                    /\ events[k].tx # Foreign /\ events[k].tx.row = r
       /\ withdrawal[r].status = "FAILED" => fate[withdrawal[r].hash] = "reverted"
  /\ \A r \in DepositRow :
       /\ deposit[r].status = "CONFIRMED" => fate[deposit[r].hash] = "applied"
       /\ deposit[r].status = "FAILED" => fate[deposit[r].hash] = "reverted"

(* As long as no event is dropped or handed over again, a row that knows its
   proposal shows exactly the votes and the execution the indexer has been
   through, whoever cast them and whichever ticks and requests overlapped.   *)
NothingMissed ==
  NoEventLost =>
    \A r \in WithdrawalRow :
      LET d == withdrawal[r].contractId
          Met(topic) == {k \in 1..seen : events[k].topic = topic /\ events[k].id = d}
      IN  d # None => /\ withdrawal[r].approvals = {events[k].by : k \in Met("wappr")}
                      /\ (withdrawal[r].status = "EXECUTED") <=> (Met("wexec") # {})

(* contract-reconciliation.service.ts:32-36: every transition is guarded, so an
   event that is delivered again never applies twice; in particular an executed
   withdrawal stays executed.  (It does not: the proposal's event resets it.) *)
ExecutedIsFinal ==
  [][\A r \in WithdrawalRow : withdrawal[r].status = "EXECUTED" => withdrawal'[r].status = "EXECUTED"]_vars
=================================================================================
