----------------------------- MODULE MCLinkCheckout ------------------------------
(* TLC instances: two payers whose requests meet at the link's totals; one payer who
   tries again while the listener meets both payments; two polls over the feed, with a
   payment that never met the API.                                             *)
EXTENDS LinkCheckout

CONSTANTS p1, p2, i1, i2, h1, h2, t1, t2

VARIABLE focus

Pages == IF focus = "totals" THEN Page ELSE {p1}
Requests == IF focus = "totals" THEN Handler ELSE {h1}
Polls == CASE focus = "totals" -> {} [] focus = "retry" -> {t1} [] focus = "feed" -> Tick
Rows == IF focus = "feed" THEN {i1} ELSE Intent

MCInit == Init /\ focus \in {"totals", "retry", "feed"}

\* Rows are made in the order of their names, the first by the first page.
MCNext ==
  /\ Next
  /\ \A p \in Page \ Pages : page'[p].at = "loading"
  /\ \A h \in Handler \ Requests : req'[h] = IdleReq
  /\ \A t \in Tick \ Polls : tick'[t] = IdleTick
  /\ \A i \in Intent \ Rows : row'[i] = "ABSENT"
  /\ expired' => focus = "retry"
  /\ IF focus = "feed" THEN \A p \in Page : page'[p].at # "rejected"
                      ELSE \A x \in Direct : ~OnLedger(x)'
  /\ row'[i2] # "ABSENT" => row'[i1] # "ABSENT"
  /\ env'[i1].by \in {None, p1}
  /\ UNCHANGED focus

\* Fairness of the polls a theme has; the theme without polls has none to be fair to.
MCFairness == \A t \in Tick : WF_vars((t \in Polls \/ focus = "totals") /\ PollStep(t))

MCSpec == MCInit /\ [][MCNext]_<<vars, focus>> /\ MCFairness
==================================================================================
