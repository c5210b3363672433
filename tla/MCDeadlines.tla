------------------------------- MODULE MCDeadlines -------------------------------
(* TLC instance of what the clock decides, in two themes that share no state: the
   escrow contract under every caller, whose deadlines pass ("escrows"), and
   plans that fall due under both timers ("plans").                           *)
EXTENDS EscrowContract, ScheduledPayments

VARIABLE focus

MCInit == ContractInit /\ Init /\ focus \in {"escrows", "plans"}
MCNext ==
  \/ focus = "escrows" /\ UNCHANGED <<focus, vars>> /\ ContractNext
  \/ focus = "plans" /\ UNCHANGED <<focus, contractVars>> /\ Next

\* The fairness of FairContractSpec and FairSpec, each owed in its own theme.
MCFairness ==
  /\ WF_contractVars(focus = "escrows" /\ LedgerCloses)
  /\ \A j \in Job : WF_vars(focus = "plans" /\ \E k \in Tick : AcquireLock(k, j))
  /\ \A k \in Tick : WF_vars(focus = "plans" /\ TickAdvances(k))
  /\ \A j \in Job : WF_vars(focus = "plans" /\ LockLapses(j))

MCSpec == MCInit /\ [][MCNext]_<<focus, contractVars, vars>> /\ MCFairness
==================================================================================
