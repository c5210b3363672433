----------------------------- MODULE MCSubscriptions -----------------------------
(* TLC instance: one plan, one subscriber with two rows.  Either time passes
   and a subscription is renewed, or the subscriber cancels and subscribes
   again.                                                                    *)
EXTENDS SubscriptionLifecycle

CONSTANTS p1, r1, r2, u

VARIABLE focus

Env(row, call, n) == [row |-> row, call |-> call, n |-> n]
MCTx == {Env(p1, "create_plan", 1), Env(r1, "subscribe", 1), Env(r2, "subscribe", 1),
         Env(r1, "renew", 1), Env(r1, "cancel", 1)}
MCPlanOf == [r \in {r1, r2} |-> p1]
MCOwner == [r \in {r1, r2} |-> u]

\* The envelopes that take part.
Part == {Env(p1, "create_plan", 1), Env(r1, "subscribe", 1)} \cup
        (IF focus = "billing" THEN {Env(r1, "renew", 1)}
                              ELSE {Env(r2, "subscribe", 1), Env(r1, "cancel", 1)})

MCInit == Init /\ focus \in {"billing", "slots"}
MCNext ==
  /\ Next
  /\ \A x \in Tx \ Part : fate'[x] = "none"
  /\ focus = "slots" => now' = 0
  /\ UNCHANGED focus
MCSpec == MCInit /\ [][MCNext]_<<vars, focus>>
=================================================================================
