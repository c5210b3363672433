------------------------- MODULE LinkCheckoutProofs -------------------------
(***************************************************************************)
(* Proofs about LinkCheckout: the types, and the three safety properties   *)
(* of its run, from one inductive invariant (LinkInv) in six parts:        *)
(*   InHand   a busy request has its intent, a poll a record in the feed;  *)
(*   Flights  a request past the claim holds its row alone;                *)
(*   Pages    a page waits for its own intent;                             *)
(*   Told     who is about to tell the merchant stored the hash alone;     *)
(*   Totals   the counts of the link against the rows that succeeded.      *)
(***************************************************************************)
EXTENDS LinkCheckout, FiniteSetTheorems, TLAPS

(* A busy request has its intent, a poll between two records one in hand.   *)
HasIntent == \A h \in Handler : req[h].at # "idle" => req[h].of \in Intent
HasRecord ==
  /\ cursor <= Len(feed)
  /\ \A t \in Tick :
       /\ tick[t].pos <= tick[t].last /\ tick[t].last <= Len(feed)
       /\ tick[t].at \in {"event", "credit", "notify"} => tick[t].pos < tick[t].last
InHand == HasIntent /\ HasRecord

LEMMA SpentNat == \A p : Spent(p) \in Nat
  BY LinkAssumption, FS_Subset, FS_CardinalityType DEF Spent

LEMMA RecordTyped ==
  ASSUME TypeOK, InHand, NEW t \in Tick, tick[t].at \in {"event", "credit", "notify"}
  PROVE  Record(t) \in Payment
  <1>1. tick[t].pos + 1 \in 1..Len(feed)
    BY DEF TypeOK, InHand, HasRecord, TickRec
  <1>2. QED
    BY <1>1 DEF TypeOK, Record

LEMMA AnswerTyped ==
  ASSUME TypeOK, NEW i, NEW answer, Answer(i, answer)
  PROVE  page' \in [Page -> PageRec]
  BY DEF TypeOK, Answer, Shows, PageRec

LEMMA PassesTyped ==
  ASSUME TypeOK, NEW t \in Tick, Passes(t)
  PROVE  tick' \in [Tick -> TickRec]
  <1>1. tick[t].pos + 1 \in Nat /\ tick[t].last \in Nat
    BY DEF TypeOK, TickRec
  <1>2. QED
    BY <1>1 DEF TypeOK, Passes, TickRec

LEMMA InitTyped == Init => TypeOK
  <1> SUFFICES ASSUME Init PROVE TypeOK
    OBVIOUS
  <1>1. link \in LinkRec /\ page \in [Page -> PageRec] /\ env \in [Intent -> EnvRec]
    BY DEF Init, LinkRec, PageRec, EnvRec
  <1>2. req \in [Handler -> ReqRec] /\ tick \in [Tick -> TickRec]
    BY DEF Init, IdleReq, IdleTick, ReqRec, TickRec
  <1>3. feed \in Seq(Payment) /\ cursor \in Nat /\ told \in [Payment -> Nat] /\ faults \in 0..MaxFaults
    BY LinkAssumption DEF Init
  <1>4. QED
    BY <1>1, <1>2, <1>3 DEF Init, TypeOK

LEMMA StepTyped == TypeOK /\ InHand /\ [Next]_vars => TypeOK'
  <1> SUFFICES ASSUME TypeOK, InHand, [Next]_vars PROVE TypeOK'
    OBVIOUS
  <1>1. ASSUME LinkExpires PROVE TypeOK'
    <2>1. QED
      BY <1>1 DEF LinkExpires, linkVars, payVars, pollVars, TypeOK
  <1>2. ASSUME ExpireDue PROVE TypeOK'
    <2>1. link' \in LinkRec
      BY <1>2 DEF ExpireDue, TypeOK, LinkRec
    <2>2. QED
      BY <1>2, <2>1 DEF ExpireDue, linkVars, payVars, pollVars, TypeOK
  <1>3. ASSUME NEW p \in Page, LoadPage(p) PROVE TypeOK'
    <2>1. page' \in [Page -> PageRec]
      BY <1>3 DEF LoadPage, Payable, TypeOK, PageRec
    <2>2. QED
      BY <1>3, <2>1 DEF LoadPage, linkVars, payVars, pollVars, TypeOK
  <1>4. ASSUME NEW p \in Page, PayRefused(p) PROVE TypeOK'
    <2>1. page' \in [Page -> PageRec]
      BY <1>4 DEF PayRefused, TypeOK, PageRec
    <2>2. QED
      BY <1>4, <2>1 DEF PayRefused, linkVars, payVars, pollVars, TypeOK
  <1>5. ASSUME NEW p \in Page, SignAndPost(p) PROVE TypeOK'
    <2>1. page' \in [Page -> PageRec]
      BY <1>5 DEF SignAndPost, TypeOK, PageRec
    <2>2. env' \in [Intent -> EnvRec]
      BY <1>5 DEF SignAndPost, TypeOK, EnvRec
    <2>3. QED
      BY <1>5, <2>1, <2>2 DEF SignAndPost, linkVars, payVars, pollVars, TypeOK
  <1>6. ASSUME NEW p \in Page, WalletRejects(p) PROVE TypeOK'
    <2>1. page' \in [Page -> PageRec]
      BY <1>6 DEF WalletRejects, TypeOK, PageRec
    <2>2. QED
      BY <1>6, <2>1 DEF WalletRejects, linkVars, payVars, pollVars, TypeOK
  <1>7. ASSUME NEW p \in Page, RequestFails(p) PROVE TypeOK'
    <2>1. page' \in [Page -> PageRec]
      BY <1>7 DEF RequestFails, TypeOK, PageRec
    <2>2. QED
      BY <1>7, <2>1 DEF RequestFails, linkVars, payVars, pollVars, TypeOK
  <1>8. ASSUME NEW p \in Page, TryAgain(p) PROVE TypeOK'
    <2>1. page' \in [Page -> PageRec]
      BY <1>8 DEF TryAgain, TypeOK, PageRec
    <2>2. QED
      BY <1>8, <2>1 DEF TryAgain, linkVars, payVars, pollVars, TypeOK
  <1>9. ASSUME NEW p \in Page, NEW i \in Intent, PayLink(p, i) PROVE TypeOK'
    <2>1. page' \in [Page -> PageRec]
      BY <1>9 DEF PayLink, TypeOK, PageRec
    <2>2. row' \in [Intent -> {"ABSENT", "PENDING", "SUBMITTED", "SUCCEEDED"}]
      BY <1>9 DEF PayLink, TypeOK
    <2>3. env' \in [Intent -> EnvRec]
      BY <1>9, SpentNat DEF PayLink, TypeOK, EnvRec
    <2>4. QED
      BY <1>9, <2>1, <2>2, <2>3 DEF PayLink, linkVars, payVars, pollVars, TypeOK
  <1>10. ASSUME NEW h \in Handler, NEW i \in Intent, Claim(h, i) PROVE TypeOK'
    <2>1. row' \in [Intent -> {"ABSENT", "PENDING", "SUBMITTED", "SUCCEEDED"}]
      BY <1>10 DEF Claim, IdleReq, TypeOK, ReqRec
    <2>2. req' \in [Handler -> ReqRec]
      BY <1>10 DEF Claim, IdleReq, TypeOK, ReqRec
    <2>3. QED
      BY <1>10, <2>1, <2>2 DEF Claim, linkVars, payVars, pollVars, TypeOK
  <1>11. ASSUME NEW h \in Handler, ReachesNetwork(h) PROVE TypeOK'
    <2>1. env' \in [Intent -> EnvRec]
      BY <1>11 DEF ReachesNetwork, TypeOK, EnvRec, At, InHand, HasIntent
    <2>2. QED
      BY <1>11, <2>1 DEF ReachesNetwork, linkVars, payVars, pollVars, TypeOK
  <1>12. ASSUME NEW h \in Handler, NetworkAccepts(h) PROVE TypeOK'
    <2>1. req' \in [Handler -> ReqRec]
      BY <1>12 DEF NetworkAccepts, Goes, TypeOK, ReqRec
    <2>2. QED
      BY <1>12, <2>1 DEF NetworkAccepts, linkVars, payVars, pollVars, TypeOK
  <1>13. ASSUME NEW h \in Handler, NetworkThrows(h) PROVE TypeOK'
    <2>1. req' \in [Handler -> ReqRec]
      BY <1>13 DEF NetworkThrows, Goes, TypeOK, ReqRec
    <2>2. QED
      BY <1>13, <2>1 DEF NetworkThrows, linkVars, payVars, pollVars, TypeOK
  <1>14. ASSUME NEW h \in Handler, GiveBack(h) PROVE TypeOK'
    <2>1. row' \in [Intent -> {"ABSENT", "PENDING", "SUBMITTED", "SUCCEEDED"}]
      BY <1>14 DEF GiveBack, Ends, IdleReq, TypeOK, ReqRec
    <2>2. req' \in [Handler -> ReqRec]
      BY <1>14 DEF GiveBack, Ends, IdleReq, TypeOK, ReqRec
    <2>3. page' \in [Page -> PageRec]
      BY <1>14, AnswerTyped DEF GiveBack
    <2>4. QED
      BY <1>14, <2>1, <2>2, <2>3 DEF GiveBack, linkVars, payVars, pollVars, TypeOK
  <1>15. ASSUME NEW h \in Handler, PersistSuccess(h) PROVE TypeOK'
    <2>1. row' \in [Intent -> {"ABSENT", "PENDING", "SUBMITTED", "SUCCEEDED"}]
      BY <1>15 DEF PersistSuccess, Goes, TypeOK, ReqRec
    <2>2. req' \in [Handler -> ReqRec]
      BY <1>15 DEF PersistSuccess, Goes, TypeOK, ReqRec
    <2>3. QED
      BY <1>15, <2>1, <2>2 DEF PersistSuccess, linkVars, payVars, pollVars, TypeOK
  <1>16. ASSUME NEW h \in Handler, PersistThrows(h) PROVE TypeOK'
    <2>1. req' \in [Handler -> ReqRec]
      BY <1>16 DEF PersistThrows, Ends, IdleReq, TypeOK, ReqRec
    <2>2. page' \in [Page -> PageRec]
      BY <1>16, AnswerTyped DEF PersistThrows
    <2>3. QED
      BY <1>16, <2>1, <2>2 DEF PersistThrows, linkVars, payVars, pollVars, TypeOK
  <1>17. ASSUME NEW h \in Handler, ReadLink(h) PROVE TypeOK'
    <2>1. req' \in [Handler -> ReqRec]
      BY <1>17 DEF ReadLink, Ends, IdleReq, TypeOK, ReqRec, LinkRec
    <2>2. page' \in [Page -> PageRec]
      BY <1>17, AnswerTyped DEF ReadLink, TypeOK
    <2>3. QED
      BY <1>17, <2>1, <2>2 DEF ReadLink, linkVars, payVars, pollVars, TypeOK
  <1>18. ASSUME NEW h \in Handler, UpdateLink(h) PROVE TypeOK'
    <2>1. link' \in LinkRec
      <3>1. /\ link.status \in {"ACTIVE", "EXPIRED"}
            /\ link.payments + 1 \in Nat /\ req[h].read + 1 \in Nat
        BY DEF TypeOK, LinkRec, ReqRec
      <3>2. QED
        BY <1>18, <3>1 DEF UpdateLink, Credited, LinkRec
    <2>2. req' \in [Handler -> ReqRec]
      BY <1>18 DEF UpdateLink, Goes, Credited, TypeOK, ReqRec
    <2>3. QED
      BY <1>18, <2>1, <2>2 DEF UpdateLink, linkVars, payVars, pollVars, TypeOK
  <1>19. ASSUME NEW h \in Handler, NotifyMerchant(h) PROVE TypeOK'
    <2>1. req' \in [Handler -> ReqRec]
      BY <1>19 DEF NotifyMerchant, Ends, IdleReq, TypeOK, ReqRec
    <2>2. page' \in [Page -> PageRec]
      BY <1>19, AnswerTyped DEF NotifyMerchant
    <2>3. told' \in [Payment -> Nat]
      BY <1>19 DEF NotifyMerchant, At, InHand, HasIntent, TypeOK, Payment
    <2>4. QED
      BY <1>19, <2>1, <2>2, <2>3 DEF NotifyMerchant, linkVars, payVars, pollVars, TypeOK
  <1>20. ASSUME NEW h \in Handler, RequestDies(h) PROVE TypeOK'
    <2>1. req' \in [Handler -> ReqRec]
      BY <1>20 DEF RequestDies, Ends, IdleReq, Fault, TypeOK, ReqRec
    <2>2. page' \in [Page -> PageRec]
      BY <1>20, AnswerTyped DEF RequestDies
    <2>3. QED
      BY <1>20, <2>1, <2>2, LinkAssumption DEF RequestDies, linkVars, payVars, pollVars,
        TypeOK, Fault
  <1>21. ASSUME NEW t \in Tick, PollStarts(t) PROVE TypeOK'
    <2>1. tick' \in [Tick -> TickRec]
      BY <1>21 DEF PollStarts, TypeOK, TickRec
    <2>2. QED
      BY <1>21, <2>1 DEF PollStarts, linkVars, payVars, pollVars, TypeOK
  <1>22. ASSUME NEW t \in Tick, PollFetches(t) PROVE TypeOK'
    <2>1. tick' \in [Tick -> TickRec]
      <3> DEFINE end == tick[t].pos + PageLimit
                 last == IF end < Len(feed) THEN end ELSE Len(feed)
      <3>1. last \in Nat /\ tick[t].pos \in Nat
        BY LinkAssumption DEF TypeOK, TickRec
      <3>2. IdleTick \in TickRec /\ [at |-> "event", pos |-> tick[t].pos, last |-> last] \in TickRec
        BY <3>1 DEF IdleTick, TickRec
      <3> HIDE DEF last
      <3>3. QED
        BY <1>22, <3>2 DEF PollFetches, TypeOK, last
    <2>2. QED
      BY <1>22, <2>1 DEF PollFetches, linkVars, payVars, pollVars, TypeOK
  <1>23. ASSUME NEW t \in Tick, ClaimEvent(t) PROVE TypeOK'
    <2>1. tick' \in [Tick -> TickRec]
      <3>1. CASE Passes(t)
        BY <3>1, PassesTyped
      <3>2. CASE \E at \in {"credit", "notify"} : tick' = [tick EXCEPT ![t].at = at]
        BY <3>2 DEF TypeOK, TickRec
      <3>3. QED
        BY <1>23, <3>1, <3>2 DEF ClaimEvent
    <2>2. recorded' \subseteq Payment /\ credited' \subseteq Payment /\ lost' \subseteq Payment
      BY <1>23, RecordTyped DEF ClaimEvent, Stage, TypeOK
    <2>3. QED
      BY <1>23, <2>1, <2>2 DEF ClaimEvent, linkVars, payVars, pollVars, TypeOK
  <1>24. ASSUME NEW t \in Tick, CreditRecord(t) PROVE TypeOK'
    <2>1. tick' \in [Tick -> TickRec]
      <3>1. CASE Passes(t)
        BY <3>1, PassesTyped
      <3>2. CASE \E at \in {"credit", "notify"} : tick' = [tick EXCEPT ![t].at = at]
        BY <3>2 DEF TypeOK, TickRec
      <3>3. QED
        BY <1>24, <3>1, <3>2 DEF CreditRecord
    <2>2. recorded' \subseteq Payment /\ credited' \subseteq Payment /\ lost' \subseteq Payment
      BY <1>24, RecordTyped DEF CreditRecord, Stage, TypeOK
    <2>3. QED
      BY <1>24, <2>1, <2>2 DEF CreditRecord, linkVars, payVars, pollVars, TypeOK
  <1>25. ASSUME NEW t \in Tick, NotifyReceived(t) PROVE TypeOK'
    <2>1. tick' \in [Tick -> TickRec]
      BY <1>25, PassesTyped DEF NotifyReceived
    <2>2. told' \in [Payment -> Nat]
      BY <1>25, RecordTyped DEF NotifyReceived, Stage, TypeOK
    <2>3. QED
      BY <1>25, <2>1, <2>2 DEF NotifyReceived, linkVars, payVars, pollVars, TypeOK
  <1>26. ASSUME NEW t \in Tick, SaveCursor(t) PROVE TypeOK'
    <2>1. tick' \in [Tick -> TickRec]
      BY <1>26 DEF SaveCursor, IdleTick, NextCursor, TypeOK, TickRec
    <2>2. cursor' \in Nat
      BY <1>26 DEF SaveCursor, NextCursor, TypeOK, TickRec
    <2>3. QED
      BY <1>26, <2>1, <2>2 DEF SaveCursor, linkVars, payVars, pollVars, TypeOK
  <1>27. ASSUME NEW t \in Tick, RecordFails(t) PROVE TypeOK'
    <2>1. tick' \in [Tick -> TickRec]
      BY <1>27, PassesTyped DEF RecordFails
    <2>2. recorded' \subseteq Payment /\ credited' \subseteq Payment /\ lost' \subseteq Payment
      BY <1>27, RecordTyped DEF RecordFails, Stage, TypeOK
    <2>3. QED
      BY <1>27, <2>1, <2>2, LinkAssumption DEF RecordFails, linkVars, payVars, pollVars,
        TypeOK, Fault
  <1>28. ASSUME NEW t \in Tick, PollStops(t) PROVE TypeOK'
    <2>1. tick' \in [Tick -> TickRec]
      BY <1>28 DEF PollStops, IdleTick, Fault, TypeOK, TickRec
    <2>2. recorded' \subseteq Payment /\ credited' \subseteq Payment /\ lost' \subseteq Payment
      BY <1>28, RecordTyped DEF PollStops, Stage, TypeOK
    <2>3. QED
      BY <1>28, <2>1, <2>2, LinkAssumption DEF PollStops, linkVars, payVars, pollVars, TypeOK, Fault
  <1>29. ASSUME NEW i \in Intent, EnvelopeApplies(i) PROVE TypeOK'
    <2>1. env' \in [Intent -> EnvRec]
      BY <1>29 DEF EnvelopeApplies, TypeOK, EnvRec
    <2>2. feed' \in Seq(Payment)
      BY <1>29 DEF EnvelopeApplies, TypeOK, Payment
    <2>3. QED
      BY <1>29, <2>1, <2>2 DEF EnvelopeApplies, linkVars, payVars, pollVars, TypeOK
  <1>30. ASSUME NEW i \in Intent, EnvelopeDies(i) PROVE TypeOK'
    <2>1. env' \in [Intent -> EnvRec]
      BY <1>30 DEF EnvelopeDies, TypeOK, EnvRec
    <2>2. QED
      BY <1>30, <2>1 DEF EnvelopeDies, linkVars, payVars, pollVars, TypeOK
  <1>31. ASSUME NEW i \in Intent, ClaimRefused(i) PROVE TypeOK'
    <2>1. page' \in [Page -> PageRec]
      BY <1>31, AnswerTyped DEF ClaimRefused
    <2>2. QED
      BY <1>31, <2>1 DEF ClaimRefused, linkVars, payVars, pollVars, TypeOK
  <1>32. ASSUME NEW x \in Direct, DirectPayment(x) PROVE TypeOK'
    <2>1. feed' \in Seq(Payment)
      BY <1>32 DEF DirectPayment, TypeOK, Payment
    <2>2. QED
      BY <1>32, <2>1 DEF DirectPayment, linkVars, payVars, pollVars, TypeOK
  <1>33. CASE UNCHANGED vars
    BY <1>33 DEF vars, linkVars, payVars, pollVars, TypeOK
  <1> QED
    BY <1>1, <1>2, <1>3, <1>4, <1>5, <1>6, <1>7, <1>8, <1>9, <1>10, <1>11, <1>12, <1>13, <1>14,
      <1>15, <1>16, <1>17, <1>18, <1>19, <1>20, <1>21, <1>22, <1>23, <1>24, <1>25, <1>26,
      <1>27, <1>28, <1>29, <1>30, <1>31, <1>32, <1>33 DEF Next, PageStep, RequestStep, PollStep

-----------------------------------------------------------------------------
(* What the steps do to one slot.                                           *)
LEMMA GoesSlot ==
  ASSUME TypeOK, NEW h \in Handler, NEW stage, Goes(h, stage)
  PROVE  /\ req'[h].at = stage /\ req'[h].of = req[h].of /\ req'[h].read = req[h].read
         /\ \A g \in Handler : g # h => req'[g] = req[g]
  BY DEF TypeOK, ReqRec, Goes

LEMMA EndsSlot ==
  ASSUME TypeOK, NEW h \in Handler, Ends(h)
  PROVE  /\ req'[h].at = "idle"
         /\ \A g \in Handler : g # h => req'[g] = req[g]
  BY DEF TypeOK, ReqRec, Ends, IdleReq

LEMMA ClaimSlot ==
  ASSUME TypeOK, NEW h \in Handler, NEW i \in Intent, Claim(h, i)
  PROVE  /\ req[h].at = "idle"
         /\ req'[h].at = "calling" /\ req'[h].of = i
         /\ \A g \in Handler : g # h => req'[g] = req[g]
  BY DEF TypeOK, ReqRec, Claim, At, IdleReq

LEMMA ReadSlot ==
  ASSUME TypeOK, NEW h \in Handler, ReadLink(h), link.status = "ACTIVE"
  PROVE  /\ req'[h].at = "update" /\ req'[h].of = req[h].of /\ req'[h].read = link.collected
         /\ \A g \in Handler : g # h => req'[g] = req[g]
  BY DEF TypeOK, ReqRec, ReadLink

LEMMA PassesSlot ==
  ASSUME TypeOK, NEW t \in Tick, Passes(t)
  PROVE  /\ tick'[t].at \in {"event", "save"}
         /\ tick'[t].pos = tick[t].pos + 1 /\ tick'[t].last = tick[t].last
         /\ tick'[t].at = "event" => tick[t].pos + 1 # tick[t].last
         /\ \A u \in Tick : u # t => tick'[u] = tick[u]
  BY DEF TypeOK, TickRec, Passes

-----------------------------------------------------------------------------
LEMMA StepHasIntent == TypeOK /\ HasIntent /\ [Next]_vars => HasIntent'
  <1> SUFFICES ASSUME TypeOK, HasIntent, [Next]_vars PROVE HasIntent'
    OBVIOUS
  <1>1. CASE UNCHANGED <<req>>
    BY <1>1 DEF HasIntent
  <1>2. ASSUME NEW h \in Handler, NEW i \in Intent, Claim(h, i) PROVE HasIntent'
    BY <1>2, ClaimSlot DEF HasIntent
  <1>3. ASSUME NEW h \in Handler, NetworkAccepts(h) PROVE HasIntent'
    BY <1>3, GoesSlot DEF NetworkAccepts, HasIntent, At
  <1>4. ASSUME NEW h \in Handler, NetworkThrows(h) PROVE HasIntent'
    BY <1>4, GoesSlot DEF NetworkThrows, HasIntent, At
  <1>5. ASSUME NEW h \in Handler, GiveBack(h) PROVE HasIntent'
    BY <1>5, EndsSlot DEF GiveBack, HasIntent, At
  <1>6. ASSUME NEW h \in Handler, PersistSuccess(h) PROVE HasIntent'
    BY <1>6, GoesSlot DEF PersistSuccess, HasIntent, At
  <1>7. ASSUME NEW h \in Handler, PersistThrows(h) PROVE HasIntent'
    BY <1>7, EndsSlot DEF PersistThrows, HasIntent, At
  <1>8. ASSUME NEW h \in Handler, ReadLink(h) PROVE HasIntent'
    <2>1. CASE link.status = "ACTIVE"
      BY <1>8, <2>1, ReadSlot DEF HasIntent, ReadLink, At
    <2>2. CASE link.status # "ACTIVE"
      BY <1>8, <2>2, EndsSlot DEF HasIntent, ReadLink
    <2>3. QED
      BY <2>1, <2>2
  <1>9. ASSUME NEW h \in Handler, UpdateLink(h) PROVE HasIntent'
    BY <1>9, GoesSlot DEF UpdateLink, HasIntent, At
  <1>10. ASSUME NEW h \in Handler, NotifyMerchant(h) PROVE HasIntent'
    BY <1>10, EndsSlot DEF NotifyMerchant, HasIntent, At
  <1>11. ASSUME NEW h \in Handler, RequestDies(h) PROVE HasIntent'
    BY <1>11, EndsSlot DEF RequestDies, HasIntent, At
  <1> QED
    BY <1>1, <1>2, <1>3, <1>4, <1>5, <1>6, <1>7, <1>8, <1>9, <1>10, <1>11
    DEF Next, vars, linkVars, payVars, pollVars, PageStep, RequestStep, PollStep,
        LinkExpires, ExpireDue, LoadPage, PayRefused, SignAndPost, WalletRejects, RequestFails,
        TryAgain, PayLink, ReachesNetwork, PollStarts, PollFetches, ClaimEvent, CreditRecord,
        NotifyReceived, SaveCursor, RecordFails, PollStops, EnvelopeApplies, EnvelopeDies,
        ClaimRefused, DirectPayment

LEMMA TickNat ==
  ASSUME TypeOK
  PROVE  /\ \A t \in Tick : tick[t].pos \in Nat /\ tick[t].last \in Nat
         /\ Len(feed) \in Nat /\ cursor \in Nat
  BY DEF TypeOK, TickRec

LEMMA OneTick ==
  ASSUME HasRecord, NEW t \in Tick, feed' = feed, cursor' <= Len(feed),
         \A u \in Tick : u # t => tick'[u] = tick[u],
         tick'[t].pos <= tick'[t].last, tick'[t].last <= Len(feed),
         tick'[t].at \in {"event", "credit", "notify"} => tick'[t].pos < tick'[t].last
  PROVE  HasRecord'
  BY DEF HasRecord

LEMMA PassesInHand ==
  ASSUME TypeOK, HasRecord, NEW t \in Tick, Passes(t), feed' = feed, cursor' = cursor,
         tick[t].at \in {"event", "credit", "notify"}
  PROVE  HasRecord'
  <1>1. tick[t].pos < tick[t].last /\ tick[t].last <= Len(feed) /\ cursor <= Len(feed)
    BY DEF HasRecord
  <1>2. /\ tick'[t].pos <= tick'[t].last /\ tick'[t].last <= Len(feed)
        /\ tick'[t].at \in {"event", "credit", "notify"} => tick'[t].pos < tick'[t].last
    BY <1>1, PassesSlot, TickNat
  <1>3. \A u \in Tick : u # t => tick'[u] = tick[u]
    BY PassesSlot
  <1>4. QED
    BY <1>1, <1>2, <1>3, OneTick

LEMMA StepHasRecord == TypeOK /\ HasRecord /\ [Next]_vars => HasRecord'
  <1> SUFFICES ASSUME TypeOK, HasRecord, [Next]_vars PROVE HasRecord'
    OBVIOUS
  <1>1. CASE UNCHANGED <<tick, feed, cursor>>
    BY <1>1 DEF HasRecord
  <1>2. ASSUME NEW t \in Tick, PollStarts(t) PROVE HasRecord'
    BY <1>2 DEF PollStarts, Stage, HasRecord, TypeOK, TickRec, IdleTick, NextCursor
  <1>3. ASSUME NEW t \in Tick, PollFetches(t) PROVE HasRecord'
    <2> DEFINE end == tick[t].pos + PageLimit
               last == IF end < Len(feed) THEN end ELSE Len(feed)
    <2>1. /\ tick' = [tick EXCEPT ![t] = IF last = tick[t].pos THEN IdleTick
                                 ELSE [at |-> "event", pos |-> tick[t].pos, last |-> last]]
          /\ feed' = feed /\ cursor' = cursor
      BY <1>3 DEF PollFetches, TypeOK
    <2>2. tick[t].pos <= Len(feed) /\ tick[t].pos \in Nat /\ Len(feed) \in Nat /\ cursor <= Len(feed)
      BY TickNat DEF HasRecord
    <2>3. last \in Nat /\ tick[t].pos <= last /\ last <= Len(feed)
      BY <2>2, LinkAssumption
    <2> HIDE DEF last
    <2>4. \A u \in Tick : u # t => tick'[u] = tick[u]
      BY <2>1 DEF TypeOK
    <2>5. tick'[t] = IF last = tick[t].pos THEN IdleTick
                     ELSE [at |-> "event", pos |-> tick[t].pos, last |-> last]
      BY <2>1 DEF TypeOK
    <2>6. /\ tick'[t].pos <= tick'[t].last /\ tick'[t].last <= Len(feed)
          /\ tick'[t].at \in {"event", "credit", "notify"} => tick'[t].pos < tick'[t].last
      BY <2>2, <2>3, <2>5 DEF IdleTick
    <2>7. QED
      BY <2>1, <2>2, <2>4, <2>6, OneTick
  <1>4. ASSUME NEW t \in Tick, ClaimEvent(t) PROVE HasRecord'
    <2>1. CASE Record(t) \in recorded
      BY <1>4, <2>1, PassesInHand DEF ClaimEvent, Stage
    <2>2. CASE ~(Record(t) \in recorded)
      <3>1. tick' = [tick EXCEPT ![t].at = "credit"] /\ feed' = feed
        BY <1>4, <2>2 DEF ClaimEvent
      <3>2. QED
        BY <1>4, <3>1 DEF ClaimEvent, Stage, HasRecord, TypeOK, TickRec
    <2>3. QED
      BY <2>1, <2>2
  <1>5. ASSUME NEW t \in Tick, CreditRecord(t) PROVE HasRecord'
    <2>1. CASE HashStored(Record(t))
      BY <1>5, <2>1, PassesInHand DEF CreditRecord, Stage
    <2>2. CASE ~(HashStored(Record(t)))
      <3>1. tick' = [tick EXCEPT ![t].at = "notify"] /\ feed' = feed
        BY <1>5, <2>2 DEF CreditRecord
      <3>2. QED
        BY <1>5, <3>1 DEF CreditRecord, Stage, HasRecord, TypeOK, TickRec
    <2>3. QED
      BY <2>1, <2>2
  <1>6. ASSUME NEW t \in Tick, NotifyReceived(t) PROVE HasRecord'
    BY <1>6, PassesInHand DEF NotifyReceived, Stage
  <1>7. ASSUME NEW t \in Tick, SaveCursor(t) PROVE HasRecord'
    BY <1>7 DEF SaveCursor, Stage, HasRecord, TypeOK, TickRec, IdleTick, NextCursor
  <1>8. ASSUME NEW t \in Tick, RecordFails(t) PROVE HasRecord'
    BY <1>8, PassesInHand DEF RecordFails, Stage
  <1>9. ASSUME NEW t \in Tick, PollStops(t) PROVE HasRecord'
    BY <1>9 DEF PollStops, Stage, HasRecord, TypeOK, TickRec, IdleTick, NextCursor
  <1>10. ASSUME NEW i \in Intent, EnvelopeApplies(i) PROVE HasRecord'
    BY <1>10 DEF EnvelopeApplies, HasRecord, TypeOK, TickRec, pollVars, Payment
  <1>11. ASSUME NEW x \in Direct, DirectPayment(x) PROVE HasRecord'
    BY <1>11 DEF DirectPayment, HasRecord, TypeOK, TickRec, pollVars, Payment
  <1> QED
    BY <1>1, <1>2, <1>3, <1>4, <1>5, <1>6, <1>7, <1>8, <1>9, <1>10, <1>11
    DEF Next, vars, linkVars, payVars, pollVars, PageStep, RequestStep, PollStep,
        LinkExpires, ExpireDue, LoadPage, PayRefused, SignAndPost, WalletRejects, RequestFails,
        TryAgain, PayLink, Claim, ReachesNetwork, NetworkAccepts, NetworkThrows, GiveBack,
        PersistSuccess, PersistThrows, ReadLink, UpdateLink, NotifyMerchant, RequestDies,
        EnvelopeDies, ClaimRefused

-----------------------------------------------------------------------------
(* A request past the claim holds its row, alone, in the status its progress says;
   only an applied envelope makes a row SUCCEEDED.                          *)
Won == {"reconcile", "update", "notify"}
Flights ==
  /\ \A h \in Handler : req[h].at # "idle" =>
       /\ row[req[h].of] = IF req[h].at \in Won THEN "SUCCEEDED" ELSE "SUBMITTED"
       /\ req[h].at = "accepted" => env[req[h].of].fate = "applied"
       /\ \A g \in Handler : g # h /\ req[g].at # "idle" => req[g].of # req[h].of
  /\ \A i \in Intent : row[i] = "SUCCEEDED" => env[i].fate = "applied"

LEMMA InitFlights == Init => Flights
  BY DEF Init, Flights, IdleReq

LEMMA StepFlights == TypeOK /\ InHand /\ Flights /\ [Next]_vars => Flights'
  <1> SUFFICES ASSUME TypeOK, InHand, Flights, [Next]_vars PROVE Flights'
    OBVIOUS
  <1>1. CASE UNCHANGED <<req, row, env>>
    BY <1>1 DEF Flights, InHand, HasIntent, Won
  <1>2. ASSUME NEW h \in Handler, NEW i \in Intent, Claim(h, i) PROVE Flights'
    <2>1. \A g \in Handler : g # h /\ req[g].at # "idle" => req[g].of # i
      BY <1>2 DEF Claim, Flights, Won
    <2>2. /\ env' = env /\ row'[i] = "SUBMITTED"
          /\ \A j \in Intent : j # i => row'[j] = row[j]
      BY <1>2 DEF Claim, TypeOK
    <2>3. /\ req'[h].at = "calling" /\ req'[h].of = i
          /\ \A g \in Handler : g # h => req'[g] = req[g]
      BY <1>2, ClaimSlot
    <2>4. QED
      BY <2>1, <2>2, <2>3 DEF Flights, InHand, HasIntent, Won
  <1>3. ASSUME NEW h \in Handler, NetworkAccepts(h) PROVE Flights'
    BY <1>3 DEF NetworkAccepts, At, Goes, Flights, InHand, HasIntent, Won, TypeOK, ReqRec, EnvRec
  <1>4. ASSUME NEW h \in Handler, NetworkThrows(h) PROVE Flights'
    BY <1>4 DEF NetworkThrows, At, Goes, Flights, InHand, HasIntent, Won, TypeOK, ReqRec, EnvRec
  <1>5. ASSUME NEW h \in Handler, GiveBack(h) PROVE Flights'
    BY <1>5 DEF GiveBack, At, Ends, IdleReq, Flights, InHand, HasIntent, Won, TypeOK, ReqRec, EnvRec
  <1>6. ASSUME NEW h \in Handler, PersistSuccess(h) PROVE Flights'
    BY <1>6 DEF PersistSuccess, At, Goes, Flights, InHand, HasIntent, Won, TypeOK, ReqRec, EnvRec
  <1>7. ASSUME NEW h \in Handler, PersistThrows(h) PROVE Flights'
    BY <1>7 DEF PersistThrows, At, Ends, IdleReq, Flights, InHand, HasIntent, Won, TypeOK,
      ReqRec, EnvRec
  <1>8. ASSUME NEW h \in Handler, ReadLink(h) PROVE Flights'
    <2>1. row' = row /\ env' = env /\ req[h].at = "reconcile"
      BY <1>8 DEF ReadLink, At
    <2>2. CASE link.status = "ACTIVE"
      BY <1>8, <2>1, <2>2, ReadSlot DEF Flights, Won
    <2>3. CASE link.status # "ACTIVE"
      <3>1. Ends(h)
        BY <1>8, <2>3 DEF ReadLink
      <3>2. QED
        BY <2>1, <3>1, EndsSlot DEF Flights, Won
    <2>4. QED
      BY <2>2, <2>3
  <1>9. ASSUME NEW h \in Handler, UpdateLink(h) PROVE Flights'
    BY <1>9 DEF UpdateLink, At, Goes, Flights, InHand, HasIntent, Won, TypeOK, ReqRec, EnvRec
  <1>10. ASSUME NEW h \in Handler, NotifyMerchant(h) PROVE Flights'
    BY <1>10 DEF NotifyMerchant, At, Ends, IdleReq, Flights, InHand, HasIntent, Won, TypeOK,
      ReqRec, EnvRec
  <1>11. ASSUME NEW h \in Handler, RequestDies(h) PROVE Flights'
    BY <1>11 DEF RequestDies, At, Ends, IdleReq, Flights, InHand, HasIntent, Won, TypeOK,
      ReqRec, EnvRec
  <1>12. ASSUME NEW p \in Page, NEW i \in Intent, PayLink(p, i) PROVE Flights'
    BY <1>12 DEF PayLink, Flights, InHand, HasIntent, Won, TypeOK, ReqRec, EnvRec
  <1>13. ASSUME NEW p \in Page, SignAndPost(p) PROVE Flights'
    BY <1>13 DEF SignAndPost, Flights, InHand, HasIntent, Won, TypeOK, ReqRec, EnvRec
  <1>14. ASSUME NEW h \in Handler, ReachesNetwork(h) PROVE Flights'
    BY <1>14 DEF ReachesNetwork, At, Flights, InHand, HasIntent, Won, TypeOK, ReqRec, EnvRec
  <1>15. ASSUME NEW i \in Intent, EnvelopeApplies(i) PROVE Flights'
    BY <1>15 DEF EnvelopeApplies, Flights, InHand, HasIntent, Won, TypeOK, ReqRec, EnvRec
  <1>16. ASSUME NEW i \in Intent, EnvelopeDies(i) PROVE Flights'
    BY <1>16 DEF EnvelopeDies, Flights, InHand, HasIntent, Won, TypeOK, ReqRec, EnvRec
  <1> QED
    BY <1>1, <1>2, <1>3, <1>4, <1>5, <1>6, <1>7, <1>8, <1>9, <1>10, <1>11, <1>12, <1>13, <1>14,
      <1>15, <1>16
    DEF Next, vars, linkVars, payVars, pollVars, PageStep, RequestStep, PollStep,
        LinkExpires, ExpireDue, LoadPage, PayRefused, WalletRejects, RequestFails, TryAgain,
        PollStarts, PollFetches, ClaimEvent, CreditRecord, NotifyReceived, SaveCursor,
        RecordFails, PollStops, ClaimRefused, DirectPayment

-----------------------------------------------------------------------------
(* What a page waits for is its own intent, and success was paid.           *)
Pages ==
  /\ \A p \in Page : page[p].at \in {"signing", "submitting", "success"} =>
       /\ page[p].of \in Intent
       /\ row[page[p].of] # "ABSENT"
       /\ env[page[p].of].by = p
  /\ \A p \in Page : page[p].at = "success" => row[page[p].of] = "SUCCEEDED"

LEMMA InitPages == Init => Pages
  BY DEF Init, Pages

(* An answer keeps the pages, a SUCCEEDED one for a row that is.            *)
LEMMA AnswerPages ==
  ASSUME TypeOK, Pages, NEW i \in Intent, NEW answer, Answer(i, answer), env' = env,
         \A j \in Intent : row[j] # "ABSENT" => row'[j] # "ABSENT",
         \A j \in Intent : row[j] = "SUCCEEDED" => row'[j] = "SUCCEEDED",
         answer = "SUCCEEDED" => row'[i] = "SUCCEEDED"
  PROVE  Pages'
  <1>1. ASSUME NEW p \in Page
        PROVE  \/ page'[p] = page[p]
               \/ /\ page[p].at = "submitting" /\ page[p].of = i /\ page'[p].of = i
                  /\ page'[p].at = Shows(answer)
    BY DEF Answer, TypeOK, PageRec
  <1>2. Shows(answer) = "success" => answer = "SUCCEEDED"
    BY DEF Shows
  <1>3. QED
    BY <1>1, <1>2 DEF Pages, Shows

LEMMA StepPages == TypeOK /\ InHand /\ Flights /\ Pages /\ [Next]_vars => Pages'
  <1> SUFFICES ASSUME TypeOK, InHand, Flights, Pages, [Next]_vars PROVE Pages'
    OBVIOUS
  <1>1. CASE UNCHANGED <<page, row, env>>
    BY <1>1 DEF Pages
  <1>2. ASSUME NEW p \in Page, LoadPage(p) PROVE Pages'
    BY <1>2 DEF LoadPage, Pages, InHand, HasIntent, Flights, Won, TypeOK, ReqRec, EnvRec, PageRec
  <1>3. ASSUME NEW p \in Page, PayRefused(p) PROVE Pages'
    BY <1>3 DEF PayRefused, Pages, InHand, HasIntent, Flights, Won, TypeOK, ReqRec, EnvRec, PageRec
  <1>4. ASSUME NEW p \in Page, SignAndPost(p) PROVE Pages'
    BY <1>4 DEF SignAndPost, Pages, InHand, HasIntent, Flights, Won, TypeOK, ReqRec, EnvRec, PageRec
  <1>5. ASSUME NEW p \in Page, WalletRejects(p) PROVE Pages'
    BY <1>5 DEF WalletRejects, Pages, InHand, HasIntent, Flights, Won, TypeOK, ReqRec, EnvRec,
      PageRec
  <1>6. ASSUME NEW p \in Page, RequestFails(p) PROVE Pages'
    BY <1>6 DEF RequestFails, Pages, InHand, HasIntent, Flights, Won, TypeOK, ReqRec, EnvRec,
      PageRec
  <1>7. ASSUME NEW p \in Page, TryAgain(p) PROVE Pages'
    BY <1>7 DEF TryAgain, Pages, InHand, HasIntent, Flights, Won, TypeOK, ReqRec, EnvRec, PageRec
  <1>8. ASSUME NEW p \in Page, NEW i \in Intent, PayLink(p, i) PROVE Pages'
    BY <1>8 DEF PayLink, Pages, InHand, HasIntent, Flights, Won, TypeOK, ReqRec, EnvRec, PageRec
  <1>9. ASSUME NEW i \in Intent, ClaimRefused(i) PROVE Pages'
    <2>1. Answer(i, "already submitted") /\ env' = env /\ row' = row
      BY <1>9 DEF ClaimRefused
    <2>2. QED
      BY <2>1, AnswerPages
  <1>10. ASSUME NEW h \in Handler, NEW i \in Intent, Claim(h, i) PROVE Pages'
    BY <1>10 DEF Claim, At, IdleReq, Pages, InHand, HasIntent, Flights, Won, TypeOK, ReqRec,
      EnvRec, PageRec
  <1>11. ASSUME NEW h \in Handler, GiveBack(h) PROVE Pages'
    <2>1. Answer(req[h].of, "error") /\ env' = env /\ req[h].of \in Intent
      BY <1>11 DEF GiveBack, At, InHand, HasIntent
    <2>2. \A j \in Intent : row[j] # "ABSENT" => row'[j] # "ABSENT"
      BY <1>11 DEF GiveBack, TypeOK
    <2>3. \A j \in Intent : row[j] = "SUCCEEDED" => row'[j] = "SUCCEEDED"
      BY <1>11 DEF GiveBack, TypeOK
    <2>4. QED
      BY <2>1, <2>2, <2>3, AnswerPages
  <1>12. ASSUME NEW h \in Handler, PersistSuccess(h) PROVE Pages'
    BY <1>12 DEF PersistSuccess, At, Goes, Pages, InHand, HasIntent, Flights, Won, TypeOK,
      ReqRec, EnvRec, PageRec
  <1>13. ASSUME NEW h \in Handler, PersistThrows(h) PROVE Pages'
    <2>1. Answer(req[h].of, "error") /\ env' = env /\ row' = row /\ req[h].of \in Intent
      BY <1>13 DEF PersistThrows, At, InHand, HasIntent, payVars
    <2>2. TRUE
      BY <1>13 DEF PersistThrows, At, Flights, Won
    <2>3. QED
      BY <2>1, <2>2, AnswerPages
  <1>14. ASSUME NEW h \in Handler, ReadLink(h) PROVE Pages'
    <2>1. env' = env /\ row' = row /\ req[h].of \in Intent /\ row[req[h].of] = "SUCCEEDED"
      BY <1>14 DEF ReadLink, At, InHand, HasIntent, Flights, Won
    <2>2. CASE link.status = "ACTIVE"
      BY <1>14, <2>1, <2>2 DEF ReadLink, Pages
    <2>3. CASE link.status # "ACTIVE"
      <3>1. Answer(req[h].of, "SUCCEEDED")
        BY <1>14, <2>3 DEF ReadLink
      <3>2. QED
        BY <2>1, <3>1, AnswerPages
    <2>4. QED
      BY <2>2, <2>3
  <1>15. ASSUME NEW h \in Handler, NotifyMerchant(h) PROVE Pages'
    <2>1. Answer(req[h].of, "SUCCEEDED") /\ env' = env /\ row' = row /\ req[h].of \in Intent
      BY <1>15 DEF NotifyMerchant, At, InHand, HasIntent, payVars
    <2>2. row[req[h].of] = "SUCCEEDED"
      BY <1>15 DEF NotifyMerchant, At, Flights, Won
    <2>3. QED
      BY <2>1, <2>2, AnswerPages
  <1>16. ASSUME NEW h \in Handler, RequestDies(h) PROVE Pages'
    <2>1. Answer(req[h].of, "error") /\ env' = env /\ row' = row /\ req[h].of \in Intent
      BY <1>16 DEF RequestDies, At, InHand, HasIntent, payVars
    <2>2. TRUE
      BY <1>16 DEF RequestDies, At, Flights, Won
    <2>3. QED
      BY <2>1, <2>2, AnswerPages
  <1>17. ASSUME NEW h \in Handler, ReachesNetwork(h) PROVE Pages'
    BY <1>17 DEF ReachesNetwork, At, Pages, InHand, HasIntent, Flights, Won, TypeOK, ReqRec,
      EnvRec, PageRec
  <1>18. ASSUME NEW i \in Intent, EnvelopeApplies(i) PROVE Pages'
    BY <1>18 DEF EnvelopeApplies, Pages, InHand, HasIntent, Flights, Won, TypeOK, ReqRec,
      EnvRec, PageRec
  <1>19. ASSUME NEW i \in Intent, EnvelopeDies(i) PROVE Pages'
    BY <1>19 DEF EnvelopeDies, Pages, InHand, HasIntent, Flights, Won, TypeOK, ReqRec, EnvRec,
      PageRec
  <1> QED
    BY <1>1, <1>2, <1>3, <1>4, <1>5, <1>6, <1>7, <1>8, <1>9, <1>10, <1>11, <1>12, <1>13, <1>14,
      <1>15, <1>16, <1>17, <1>18, <1>19
    DEF Next, vars, linkVars, payVars, pollVars, PageStep, RequestStep, PollStep,
        LinkExpires, ExpireDue, NetworkAccepts, NetworkThrows, UpdateLink, PollStarts,
        PollFetches, ClaimEvent, CreditRecord, NotifyReceived, SaveCursor, RecordFails,
        PollStops, DirectPayment

LEMMA PagesGiveSuccess == TypeOK /\ Flights /\ Pages => SuccessIsPaid
  BY DEF TypeOK, Flights, Pages, SuccessIsPaid

-----------------------------------------------------------------------------
(* Who is about to tell the merchant has stored the hash alone, and told nobody. *)
Told ==
  /\ \A i \in Intent : ~(row[i] = "SUCCEEDED" /\ i \in credited)
  /\ \A x \in Payment : told[x] <= 1 /\ (told[x] # 0 => HashStored(x))
  /\ \A h \in Handler : req[h].at \in Won => told[req[h].of] = 0
  /\ \A t \in Tick : tick[t].at = "notify" =>
       /\ Record(t) \in credited /\ told[Record(t)] = 0
       /\ \A u \in Tick : u # t /\ tick[u].at = "notify" => Record(u) # Record(t)

LEMMA InitTold == Init => Told
  BY DEF Init, Told, IdleReq, IdleTick, Won

(* A step of a request or of a page touches no poll.                        *)
LEMMA PollsRest ==
  ASSUME Told, pollVars' = pollVars, feed' = feed, told' = told,
         \A i \in Intent : row'[i] = "SUCCEEDED" <=> row[i] = "SUCCEEDED",
         \A h \in Handler : req'[h].at \in Won => req[h].at \in Won /\ req'[h].of = req[h].of
  PROVE  Told'
  BY DEF Told, HashStored, Record, pollVars

(* A step of a poll that tells nobody and credits nothing.                  *)
LEMMA OnePoll ==
  ASSUME Told, NEW t \in Tick, row' = row, req' = req, feed' = feed, told' = told,
         credited' = credited, tick'[t].at # "notify",
         \A u \in Tick : u # t => tick'[u] = tick[u]
  PROVE  Told'
  BY DEF Told, HashStored, Record

(* The feed grows at its end: the record in hand stays.                     *)
LEMMA GrowsRecord ==
  ASSUME TypeOK, InHand, NEW x \in Payment, feed' = Append(feed, x), tick' = tick,
         NEW t \in Tick, tick[t].at = "notify"
  PROVE  Record(t)' = Record(t)
  <1>1. tick[t].pos + 1 \in 1..Len(feed)
    BY TickNat DEF InHand, HasRecord
  <1>2. QED
    BY <1>1 DEF TypeOK, Record

LEMMA GrowsTold ==
  ASSUME TypeOK, InHand, Told, NEW x \in Payment, feed' = Append(feed, x), pollVars' = pollVars,
         row' = row, req' = req, told' = told
  PROVE  Told'
  <1>1. \A t \in Tick : tick[t].at = "notify" => Record(t)' = Record(t)
    BY GrowsRecord DEF pollVars
  <1>2. QED
    BY <1>1 DEF Told, HashStored, pollVars

LEMMA StepTold == TypeOK /\ InHand /\ Flights /\ Told /\ [Next]_vars => Told'
  <1> SUFFICES ASSUME TypeOK, InHand, Flights, Told, [Next]_vars PROVE Told'
    OBVIOUS
  <1>1. CASE UNCHANGED <<row, req, tick, feed, credited, told>>
    BY <1>1 DEF Told, HashStored, Record
  <1>2. ASSUME NEW p \in Page, NEW i \in Intent, PayLink(p, i) PROVE Told'
    <2>1. pollVars' = pollVars /\ feed' = feed /\ told' = told
      BY <1>2 DEF PayLink, payVars, pollVars
    <2>2. \A j \in Intent : row'[j] = "SUCCEEDED" <=> row[j] = "SUCCEEDED"
      BY <1>2 DEF PayLink, TypeOK
    <2>3. \A g \in Handler : req'[g].at \in Won => req[g].at \in Won /\ req'[g].of = req[g].of
      BY <1>2 DEF PayLink
    <2>4. QED
      BY <2>1, <2>2, <2>3, PollsRest
  <1>3. ASSUME NEW h \in Handler, NEW i \in Intent, Claim(h, i) PROVE Told'
    <2>1. pollVars' = pollVars /\ feed' = feed /\ told' = told
      BY <1>3 DEF Claim, payVars, pollVars
    <2>2. \A j \in Intent : row'[j] = "SUCCEEDED" <=> row[j] = "SUCCEEDED"
      BY <1>3 DEF Claim, TypeOK
    <2>3. \A g \in Handler : req'[g].at \in Won => req[g].at \in Won /\ req'[g].of = req[g].of
      BY <1>3, ClaimSlot DEF Won
    <2>4. QED
      BY <2>1, <2>2, <2>3, PollsRest
  <1>4. ASSUME NEW h \in Handler, NetworkAccepts(h) PROVE Told'
    <2>1. pollVars' = pollVars /\ feed' = feed /\ told' = told
      BY <1>4 DEF NetworkAccepts, payVars, pollVars
    <2>2. \A j \in Intent : row'[j] = "SUCCEEDED" <=> row[j] = "SUCCEEDED"
      BY <1>4 DEF NetworkAccepts
    <2>3. \A g \in Handler : req'[g].at \in Won => req[g].at \in Won /\ req'[g].of = req[g].of
      BY <1>4, GoesSlot DEF NetworkAccepts, Won
    <2>4. QED
      BY <2>1, <2>2, <2>3, PollsRest
  <1>5. ASSUME NEW h \in Handler, NetworkThrows(h) PROVE Told'
    <2>1. pollVars' = pollVars /\ feed' = feed /\ told' = told
      BY <1>5 DEF NetworkThrows, payVars, pollVars
    <2>2. \A j \in Intent : row'[j] = "SUCCEEDED" <=> row[j] = "SUCCEEDED"
      BY <1>5 DEF NetworkThrows
    <2>3. \A g \in Handler : req'[g].at \in Won => req[g].at \in Won /\ req'[g].of = req[g].of
      BY <1>5, GoesSlot DEF NetworkThrows, Won
    <2>4. QED
      BY <2>1, <2>2, <2>3, PollsRest
  <1>6. ASSUME NEW h \in Handler, GiveBack(h) PROVE Told'
    <2>1. pollVars' = pollVars /\ feed' = feed /\ told' = told
      BY <1>6 DEF GiveBack, payVars, pollVars
    <2>2. \A j \in Intent : row'[j] = "SUCCEEDED" <=> row[j] = "SUCCEEDED"
      BY <1>6 DEF GiveBack, TypeOK
    <2>3. \A g \in Handler : req'[g].at \in Won => req[g].at \in Won /\ req'[g].of = req[g].of
      BY <1>6, EndsSlot DEF GiveBack, Won
    <2>4. QED
      BY <2>1, <2>2, <2>3, PollsRest
  <1>7. ASSUME NEW h \in Handler, PersistSuccess(h) PROVE Told'
    <2> DEFINE i == req[h].of
    <2>1. /\ i \in Intent /\ i \notin credited /\ row[i] = "SUBMITTED" /\ told[i] = 0
      BY <1>7 DEF PersistSuccess, At, InHand, HasIntent, Flights, Won, Told, HashStored, Payment
    <2>2. /\ row'[i] = "SUCCEEDED" /\ \A j \in Intent : j # i => row'[j] = row[j]
          /\ credited' = credited /\ told' = told /\ tick' = tick /\ feed' = feed
      BY <1>7, <2>1 DEF PersistSuccess, TypeOK, pollVars
    <2>3. /\ req'[h].of = i
          /\ \A g \in Handler : g # h => req'[g] = req[g]
      BY <1>7, GoesSlot DEF PersistSuccess
    <2> HIDE DEF i
    <2>4. \A x \in Payment : told'[x] # 0 => HashStored(x)'
      BY <2>1, <2>2 DEF Told, HashStored
    <2>5. \A t \in Tick : Record(t)' = Record(t)
      BY <2>2 DEF Record
    <2>6. \A g \in Handler : req'[g].at \in Won => told'[req'[g].of] = 0
      BY <2>1, <2>2, <2>3 DEF Told
    <2>7. QED
      BY <2>1, <2>2, <2>4, <2>5, <2>6 DEF Told
  <1>8. ASSUME NEW h \in Handler, PersistThrows(h) PROVE Told'
    <2>1. pollVars' = pollVars /\ feed' = feed /\ told' = told
      BY <1>8 DEF PersistThrows, payVars, pollVars
    <2>2. \A j \in Intent : row'[j] = "SUCCEEDED" <=> row[j] = "SUCCEEDED"
      BY <1>8 DEF PersistThrows
    <2>3. \A g \in Handler : req'[g].at \in Won => req[g].at \in Won /\ req'[g].of = req[g].of
      BY <1>8, EndsSlot DEF PersistThrows, Won
    <2>4. QED
      BY <2>1, <2>2, <2>3, PollsRest
  <1>9. ASSUME NEW h \in Handler, ReadLink(h) PROVE Told'
    <2>1. pollVars' = pollVars /\ feed' = feed /\ told' = told
      BY <1>9 DEF ReadLink, payVars, pollVars
    <2>2. \A j \in Intent : row'[j] = "SUCCEEDED" <=> row[j] = "SUCCEEDED"
      BY <1>9 DEF ReadLink
    <2>3. \A g \in Handler : req'[g].at \in Won => req[g].at \in Won /\ req'[g].of = req[g].of
      <3>1. CASE link.status = "ACTIVE"
        BY <1>9, <3>1, ReadSlot DEF ReadLink, At, Won
      <3>2. CASE link.status # "ACTIVE"
        BY <1>9, <3>2, EndsSlot DEF ReadLink, Won
      <3>3. QED
        BY <3>1, <3>2
    <2>4. QED
      BY <2>1, <2>2, <2>3, PollsRest
  <1>10. ASSUME NEW h \in Handler, UpdateLink(h) PROVE Told'
    <2>1. pollVars' = pollVars /\ feed' = feed /\ told' = told
      BY <1>10 DEF UpdateLink, payVars, pollVars
    <2>2. \A j \in Intent : row'[j] = "SUCCEEDED" <=> row[j] = "SUCCEEDED"
      BY <1>10 DEF UpdateLink
    <2>3. \A g \in Handler : req'[g].at \in Won => req[g].at \in Won /\ req'[g].of = req[g].of
      BY <1>10, GoesSlot DEF UpdateLink, At, Won
    <2>4. QED
      BY <2>1, <2>2, <2>3, PollsRest
  <1>11. ASSUME NEW h \in Handler, NotifyMerchant(h) PROVE Told'
    <2> DEFINE i == req[h].of
    <2>1. /\ i \in Intent /\ row[i] = "SUCCEEDED" /\ told[i] = 0 /\ i \notin credited
          /\ \A g \in Handler : g # h /\ req[g].at # "idle" => req[g].of # i
      BY <1>11 DEF NotifyMerchant, At, InHand, HasIntent, Flights, Won, Told
    <2>2. /\ told'[i] = 1 /\ \A x \in Payment : x # i => told'[x] = told[x]
          /\ row' = row /\ credited' = credited /\ tick' = tick /\ feed' = feed
      BY <1>11, <2>1 DEF NotifyMerchant, TypeOK, Payment, pollVars
    <2>3. req'[h].at = "idle" /\ \A g \in Handler : g # h => req'[g] = req[g]
      BY <1>11, EndsSlot DEF NotifyMerchant
    <2> HIDE DEF i
    <2>4. \A x \in Payment : told'[x] <= 1 /\ (told'[x] # 0 => HashStored(x)')
      BY <2>1, <2>2 DEF Told, HashStored
    <2>5. \A g \in Handler : req'[g].at \in Won => told'[req'[g].of] = 0
      BY <2>1, <2>2, <2>3 DEF Told, Won, Flights, InHand, HasIntent, Payment
    <2>6. \A t \in Tick : Record(t)' = Record(t)
      BY <2>2 DEF Record
    <2>7. \A t \in Tick : tick[t].at = "notify" => Record(t) \in Payment
      BY RecordTyped
    <2>8. QED
      BY <2>1, <2>2, <2>4, <2>5, <2>6, <2>7 DEF Told
  <1>12. ASSUME NEW h \in Handler, RequestDies(h) PROVE Told'
    <2>1. pollVars' = pollVars /\ feed' = feed /\ told' = told
      BY <1>12 DEF RequestDies, payVars, pollVars
    <2>2. \A j \in Intent : row'[j] = "SUCCEEDED" <=> row[j] = "SUCCEEDED"
      BY <1>12 DEF RequestDies
    <2>3. \A g \in Handler : req'[g].at \in Won => req[g].at \in Won /\ req'[g].of = req[g].of
      BY <1>12, EndsSlot DEF RequestDies, Won
    <2>4. QED
      BY <2>1, <2>2, <2>3, PollsRest
  <1>13. ASSUME NEW t \in Tick, PollStarts(t) PROVE Told'
    <2>1. tick'[t].at # "notify" /\ \A u \in Tick : u # t => tick'[u] = tick[u]
      BY <1>13 DEF PollStarts, TypeOK, TickRec
    <2>2. QED
      BY <1>13, <2>1, OnePoll DEF PollStarts, payVars
  <1>14. ASSUME NEW t \in Tick, PollFetches(t) PROVE Told'
    <2>1. tick'[t].at # "notify" /\ \A u \in Tick : u # t => tick'[u] = tick[u]
      BY <1>14 DEF PollFetches, TypeOK, TickRec, IdleTick
    <2>2. QED
      BY <1>14, <2>1, OnePoll DEF PollFetches, payVars
  <1>15. ASSUME NEW t \in Tick, ClaimEvent(t) PROVE Told'
    <2>1. tick'[t].at # "notify" /\ \A u \in Tick : u # t => tick'[u] = tick[u]
      <3>1. CASE Record(t) \in recorded
        BY <1>15, <3>1, PassesSlot DEF ClaimEvent
      <3>2. CASE Record(t) \notin recorded
        BY <1>15, <3>2 DEF ClaimEvent, TypeOK, TickRec
      <3>3. QED
        BY <3>1, <3>2
    <2>2. QED
      BY <1>15, <2>1, OnePoll DEF ClaimEvent, payVars
  <1>16. ASSUME NEW t \in Tick, CreditRecord(t) PROVE Told'
    <2>1. CASE HashStored(Record(t))
      <3>1. tick'[t].at # "notify" /\ \A u \in Tick : u # t => tick'[u] = tick[u]
        BY <1>16, <2>1, PassesSlot DEF CreditRecord
      <3>2. QED
        BY <1>16, <2>1, <3>1, OnePoll DEF CreditRecord, payVars
    <2>2. CASE ~HashStored(Record(t))
      <3> DEFINE x == Record(t)
      <3>1. x \in Payment
        BY <1>16, RecordTyped DEF CreditRecord, Stage
      <3>2. /\ credited' = credited \cup {x} /\ told' = told /\ row' = row /\ req' = req
            /\ tick'[t].pos = tick[t].pos /\ feed' = feed
            /\ \A u \in Tick : u # t => tick'[u] = tick[u]
        BY <1>16, <2>2 DEF CreditRecord, TypeOK, TickRec, payVars
      <3>3. \A u \in Tick : Record(u)' = Record(u)
        BY <3>2 DEF Record
      <3>4. x \notin credited /\ told[x] = 0 /\ (x \in Intent => row[x] # "SUCCEEDED")
        BY <2>2, <3>1 DEF HashStored, Told
      <3> HIDE DEF x
      <3>5. \A y \in Payment : told'[y] # 0 => HashStored(y)'
        BY <3>2 DEF Told, HashStored
      <3>6. \A u \in Tick : tick'[u].at = "notify" => u = t \/ (tick[u].at = "notify" /\ Record(u) # x)
        BY <3>2, <3>4 DEF Told
      <3>7. ASSUME NEW u \in Tick, tick'[u].at = "notify"
            PROVE  /\ Record(u)' \in credited' /\ told'[Record(u)'] = 0
                   /\ \A w \in Tick : w # u /\ tick'[w].at = "notify" => Record(w)' # Record(u)'
        <4>1. CASE u = t
          BY <3>2, <3>3, <3>4, <3>6, <3>7, <4>1 DEF x
        <4>2. CASE u # t
          BY <3>2, <3>3, <3>4, <3>6, <3>7, <4>2 DEF x, Told
        <4>3. QED
          BY <4>1, <4>2
      <3>8. QED
        BY <3>2, <3>4, <3>5, <3>7 DEF Told
    <2>3. QED
      BY <2>1, <2>2
  <1>17. ASSUME NEW t \in Tick, NotifyReceived(t) PROVE Told'
    <2> DEFINE x == Record(t)
    <2>1. /\ x \in Payment /\ x \in credited /\ told[x] = 0
          /\ \A u \in Tick : u # t /\ tick[u].at = "notify" => Record(u) # x
      BY <1>17, RecordTyped DEF NotifyReceived, Stage, Told
    <2>2. /\ told'[x] = 1 /\ \A y \in Payment : y # x => told'[y] = told[y]
          /\ row' = row /\ credited' = credited /\ req' = req /\ feed' = feed
      BY <1>17, <2>1 DEF NotifyReceived, TypeOK, payVars
    <2>3. tick'[t].at # "notify" /\ \A u \in Tick : u # t => tick'[u] = tick[u]
      BY <1>17, PassesSlot DEF NotifyReceived
    <2> HIDE DEF x
    <2>4. \A y \in Payment : told'[y] <= 1 /\ (told'[y] # 0 => HashStored(y)')
      BY <2>1, <2>2 DEF Told, HashStored
    <2>5. \A h \in Handler : req'[h].at \in Won => told'[req'[h].of] = 0
      BY <2>1, <2>2 DEF Told, Won, Flights, InHand, HasIntent, Payment
    <2>6. \A u \in Tick : u # t => Record(u)' = Record(u)
      BY <2>2, <2>3 DEF Record
    <2>7. \A u \in Tick : tick[u].at = "notify" => Record(u) \in Payment
      BY RecordTyped
    <2>8. QED
      BY <2>1, <2>2, <2>3, <2>4, <2>5, <2>6, <2>7 DEF Told
  <1>18. ASSUME NEW t \in Tick, SaveCursor(t) PROVE Told'
    <2>1. tick'[t].at # "notify" /\ \A u \in Tick : u # t => tick'[u] = tick[u]
      BY <1>18 DEF SaveCursor, TypeOK, TickRec, IdleTick
    <2>2. QED
      BY <1>18, <2>1, OnePoll DEF SaveCursor, payVars
  <1>19. ASSUME NEW t \in Tick, RecordFails(t) PROVE Told'
    <2>1. tick'[t].at # "notify" /\ \A u \in Tick : u # t => tick'[u] = tick[u]
      BY <1>19, PassesSlot DEF RecordFails
    <2>2. QED
      BY <1>19, <2>1, OnePoll DEF RecordFails, payVars
  <1>20. ASSUME NEW t \in Tick, PollStops(t) PROVE Told'
    <2>1. tick'[t].at # "notify" /\ \A u \in Tick : u # t => tick'[u] = tick[u]
      BY <1>20 DEF PollStops, TypeOK, TickRec, IdleTick
    <2>2. QED
      BY <1>20, <2>1, OnePoll DEF PollStops, payVars
  <1>21. ASSUME NEW i \in Intent, EnvelopeApplies(i) PROVE Told'
    BY <1>21, GrowsTold DEF EnvelopeApplies, Payment
  <1>22. ASSUME NEW x \in Direct, DirectPayment(x) PROVE Told'
    BY <1>22, GrowsTold DEF DirectPayment, Payment, payVars
  <1> QED
    BY <1>1, <1>2, <1>3, <1>4, <1>5, <1>6, <1>7, <1>8, <1>9, <1>10, <1>11, <1>12, <1>13, <1>14,
      <1>15, <1>16, <1>17, <1>18, <1>19, <1>20, <1>21, <1>22
    DEF Next, vars, linkVars, payVars, pollVars, PageStep, RequestStep, PollStep,
        LinkExpires, ExpireDue, LoadPage, PayRefused, SignAndPost, WalletRejects, RequestFails,
        TryAgain, ReachesNetwork, EnvelopeDies, ClaimRefused

LEMMA ToldOnce == Told => MerchantHearsOnce
  BY DEF Told, MerchantHearsOnce

-----------------------------------------------------------------------------
(* The payments the link may have counted: every SUCCEEDED row but those whose
   request has the count still before it.                                   *)
Counted == {i \in Intent : /\ row[i] = "SUCCEEDED"
                           /\ \A h \in Handler :
                                req[h].at \in {"reconcile", "update"} => req[h].of # i}

Totals ==
  /\ link.collected <= link.payments
  /\ link.payments <= Cardinality(Counted)
  /\ \A h \in Handler : req[h].at = "update" => req[h].read <= link.payments
  /\ ~overlapped =>
       /\ link.collected = link.payments
       /\ \A h \in Handler : req[h].at = "update" =>
            /\ req[h].read = link.collected
            /\ \A g \in Handler : g # h => req[g].at # "update"

LEMMA InitTotals == Init => Totals
  <1> SUFFICES ASSUME Init PROVE Totals
    OBVIOUS
  <1>1. Counted = {}
    BY DEF Init, Counted
  <1>2. Cardinality(Counted) = 0
    BY <1>1, FS_EmptySet
  <1>3. QED
    BY <1>2 DEF Init, Totals, IdleReq

LEMMA CountedFinite == IsFiniteSet(Counted) /\ Cardinality(Counted) \in Nat
  BY LinkAssumption, FS_Subset, FS_CardinalityType DEF Counted

LEMMA LinkNat ==
  ASSUME TypeOK
  PROVE  /\ link.payments \in Nat /\ link.collected \in Nat
         /\ \A h \in Handler : req[h].read \in Nat
  BY DEF TypeOK, LinkRec, ReqRec

LEMMA CountedGrows ==
  ASSUME TypeOK, Totals, Counted \subseteq Counted', link'.payments = link.payments
  PROVE  link'.payments <= Cardinality(Counted')
  <1>1. Counted' \subseteq Intent
    BY DEF Counted
  <1>2. IsFiniteSet(Counted')
    BY <1>1, LinkAssumption, FS_Subset
  <1>3. Cardinality(Counted) <= Cardinality(Counted')
    BY <1>2, FS_Subset
  <1>4. Cardinality(Counted) \in Nat /\ Cardinality(Counted') \in Nat
    BY <1>2, CountedFinite, FS_CardinalityType
  <1>5. QED
    BY <1>3, <1>4, LinkNat DEF Totals

(* A step that leaves the totals alone and lets no request read or go on to write. *)
LEMMA TotalsRest ==
  ASSUME TypeOK, Totals, link'.payments = link.payments, link'.collected = link.collected,
         overlapped' = overlapped, Counted \subseteq Counted',
         \A h \in Handler : req'[h].at = "update" =>
           req[h].at = "update" /\ req'[h].read = req[h].read
  PROVE  Totals'
  <1>1. link'.payments <= Cardinality(Counted')
    BY CountedGrows
  <1>2. QED
    BY <1>1 DEF Totals

LEMMA StepTotals == TypeOK /\ InHand /\ Flights /\ Totals /\ [Next]_vars => Totals'
  <1> SUFFICES ASSUME TypeOK, InHand, Flights, Totals, [Next]_vars PROVE Totals'
    OBVIOUS
  <1>1. CASE UNCHANGED <<link, overlapped, row, req>>
    BY <1>1 DEF Totals, Counted
  <1>2. ASSUME ExpireDue PROVE Totals'
    <2>1. link'.payments = link.payments /\ link'.collected = link.collected /\ overlapped' = overlapped
      BY <1>2 DEF ExpireDue, linkVars, TypeOK, LinkRec
    <2>2. Counted \subseteq Counted'
      BY <1>2 DEF ExpireDue, Counted, payVars
    <2>3. \A g \in Handler : req'[g].at = "update" => req[g].at = "update" /\ req'[g].read = req[g].read
      BY <1>2 DEF ExpireDue, payVars
    <2>4. QED
      BY <2>1, <2>2, <2>3, TotalsRest
  <1>3. ASSUME NEW p \in Page, NEW i \in Intent, PayLink(p, i) PROVE Totals'
    <2>1. link'.payments = link.payments /\ link'.collected = link.collected /\ overlapped' = overlapped
      BY <1>3 DEF PayLink, linkVars
    <2>2. Counted \subseteq Counted'
      BY <1>3 DEF PayLink, Counted, TypeOK
    <2>3. \A g \in Handler : req'[g].at = "update" => req[g].at = "update" /\ req'[g].read = req[g].read
      BY <1>3 DEF PayLink
    <2>4. QED
      BY <2>1, <2>2, <2>3, TotalsRest
  <1>4. ASSUME NEW h \in Handler, NEW i \in Intent, Claim(h, i) PROVE Totals'
    <2>1. link'.payments = link.payments /\ link'.collected = link.collected /\ overlapped' = overlapped
      BY <1>4 DEF Claim, linkVars
    <2>2. Counted \subseteq Counted'
      BY <1>4, ClaimSlot DEF Claim, Counted, TypeOK
    <2>3. \A g \in Handler : req'[g].at = "update" => req[g].at = "update" /\ req'[g].read = req[g].read
      BY <1>4, ClaimSlot
    <2>4. QED
      BY <2>1, <2>2, <2>3, TotalsRest
  <1>5. ASSUME NEW h \in Handler, NetworkAccepts(h) PROVE Totals'
    <2>1. link'.payments = link.payments /\ link'.collected = link.collected /\ overlapped' = overlapped
      BY <1>5 DEF NetworkAccepts, linkVars
    <2>2. Counted \subseteq Counted'
      BY <1>5, GoesSlot DEF NetworkAccepts, Counted
    <2>3. \A g \in Handler : req'[g].at = "update" => req[g].at = "update" /\ req'[g].read = req[g].read
      BY <1>5, GoesSlot DEF NetworkAccepts
    <2>4. QED
      BY <2>1, <2>2, <2>3, TotalsRest
  <1>6. ASSUME NEW h \in Handler, NetworkThrows(h) PROVE Totals'
    <2>1. link'.payments = link.payments /\ link'.collected = link.collected /\ overlapped' = overlapped
      BY <1>6 DEF NetworkThrows, linkVars
    <2>2. Counted \subseteq Counted'
      BY <1>6, GoesSlot DEF NetworkThrows, Counted
    <2>3. \A g \in Handler : req'[g].at = "update" => req[g].at = "update" /\ req'[g].read = req[g].read
      BY <1>6, GoesSlot DEF NetworkThrows
    <2>4. QED
      BY <2>1, <2>2, <2>3, TotalsRest
  <1>7. ASSUME NEW h \in Handler, GiveBack(h) PROVE Totals'
    <2>1. link'.payments = link.payments /\ link'.collected = link.collected /\ overlapped' = overlapped
      BY <1>7 DEF GiveBack, linkVars
    <2>2. Counted \subseteq Counted'
      BY <1>7, EndsSlot DEF GiveBack, Counted, TypeOK
    <2>3. \A g \in Handler : req'[g].at = "update" => req[g].at = "update" /\ req'[g].read = req[g].read
      BY <1>7, EndsSlot DEF GiveBack
    <2>4. QED
      BY <2>1, <2>2, <2>3, TotalsRest
  <1>8. ASSUME NEW h \in Handler, PersistSuccess(h) PROVE Totals'
    <2>1. link' = link /\ overlapped' = overlapped
      BY <1>8 DEF PersistSuccess, linkVars
    <2>2. req'[h].of = req[h].of /\ req'[h].at = "reconcile"
          /\ \A g \in Handler : g # h => req'[g] = req[g]
      BY <1>8, GoesSlot DEF PersistSuccess
    <2>3. row[req[h].of] = "SUBMITTED" /\ \A j \in Intent : j # req[h].of => row'[j] = row[j]
      BY <1>8 DEF PersistSuccess, At, Flights, Won, TypeOK
    <2>4. Counted \subseteq Counted'
      BY <2>2, <2>3 DEF Counted
    <2>5. QED
      BY <2>1, <2>2, <2>4, TotalsRest
  <1>9. ASSUME NEW h \in Handler, PersistThrows(h) PROVE Totals'
    <2>1. link'.payments = link.payments /\ link'.collected = link.collected /\ overlapped' = overlapped
      BY <1>9 DEF PersistThrows, linkVars
    <2>2. Counted \subseteq Counted'
      BY <1>9, EndsSlot DEF PersistThrows, Counted
    <2>3. \A g \in Handler : req'[g].at = "update" => req[g].at = "update" /\ req'[g].read = req[g].read
      BY <1>9, EndsSlot DEF PersistThrows
    <2>4. QED
      BY <2>1, <2>2, <2>3, TotalsRest
  <1>10. ASSUME NEW h \in Handler, ReadLink(h) PROVE Totals'
    <2>1. /\ link' = link /\ row' = row /\ req[h].at = "reconcile"
      BY <1>10 DEF ReadLink, At
    <2>2. CASE link.status = "ACTIVE"
      <3>1. /\ req'[h].at = "update" /\ req'[h].of = req[h].of /\ req'[h].read = link.collected
            /\ \A g \in Handler : g # h => req'[g] = req[g]
        BY <1>10, <2>2, ReadSlot
      <3>2. overlapped' = (overlapped \/ \E g \in Handler : req[g].at = "update")
        BY <1>10, <2>2 DEF ReadLink, At
      <3>3. Counted \subseteq Counted'
        BY <2>1, <3>1 DEF Counted
      <3>4. link'.payments <= Cardinality(Counted')
        BY <2>1, <3>3, CountedGrows
      <3>5. \A g \in Handler : req'[g].at = "update" => req'[g].read <= link'.payments
        BY <2>1, <3>1 DEF Totals
      <3>6. ~overlapped' => ~overlapped /\ \A g \in Handler : req[g].at # "update"
        BY <3>2
      <3>7. QED
        BY <2>1, <3>1, <3>4, <3>5, <3>6 DEF Totals
    <2>3. CASE link.status # "ACTIVE"
      <3>1. Ends(h) /\ overlapped' = overlapped
        BY <1>10, <2>3 DEF ReadLink
      <3>2. Counted \subseteq Counted'
        BY <2>1, <3>1, EndsSlot DEF Counted
      <3>3. QED
        BY <2>1, <3>1, <3>2, EndsSlot, TotalsRest
    <2>4. QED
      BY <2>2, <2>3
  <1>11. ASSUME NEW h \in Handler, UpdateLink(h) PROVE Totals'
    <2> DEFINE i == req[h].of
    <2>1. /\ req[h].at = "update" /\ i \in Intent /\ row[i] = "SUCCEEDED"
          /\ \A g \in Handler : g # h /\ req[g].at # "idle" => req[g].of # i
      BY <1>11 DEF UpdateLink, At, InHand, HasIntent, Flights, Won
    <2>2. /\ link'.payments = link.payments + 1 /\ link'.collected = req[h].read + 1
          /\ overlapped' = overlapped /\ row' = row
      BY <1>11 DEF UpdateLink, Credited
    <2>3. /\ req'[h].at = "notify"
          /\ \A g \in Handler : g # h => req'[g] = req[g]
      BY <1>11, GoesSlot DEF UpdateLink
    <2>4. i \notin Counted /\ Counted' = Counted \cup {i}
      BY <2>1, <2>2, <2>3 DEF Counted
    <2>5. Cardinality(Counted') = Cardinality(Counted) + 1
      BY <2>4, CountedFinite, FS_AddElement
    <2>6. /\ link.payments \in Nat /\ link.collected \in Nat /\ Cardinality(Counted) \in Nat
          /\ \A g \in Handler : req[g].read \in Nat
      BY LinkNat, CountedFinite
    <2>7. link'.collected <= link'.payments
      BY <2>1, <2>2, <2>6 DEF Totals
    <2>8. link'.payments <= Cardinality(Counted')
      BY <2>2, <2>5, <2>6 DEF Totals
    <2>9. \A g \in Handler : req'[g].at = "update" => req'[g].read <= link'.payments
      BY <2>2, <2>3, <2>6 DEF Totals
    <2>10. ~overlapped => link'.collected = link'.payments
      BY <2>1, <2>2, <2>6 DEF Totals
    <2>11. ~overlapped => \A g \in Handler : req'[g].at # "update"
      BY <2>1, <2>3 DEF Totals
    <2>12. QED
      BY <2>2, <2>7, <2>8, <2>9, <2>10, <2>11 DEF Totals
  <1>12. ASSUME NEW h \in Handler, NotifyMerchant(h) PROVE Totals'
    <2>1. link'.payments = link.payments /\ link'.collected = link.collected /\ overlapped' = overlapped
      BY <1>12 DEF NotifyMerchant, linkVars
    <2>2. Counted \subseteq Counted'
      BY <1>12, EndsSlot DEF NotifyMerchant, Counted
    <2>3. \A g \in Handler : req'[g].at = "update" => req[g].at = "update" /\ req'[g].read = req[g].read
      BY <1>12, EndsSlot DEF NotifyMerchant
    <2>4. QED
      BY <2>1, <2>2, <2>3, TotalsRest
  <1>13. ASSUME NEW h \in Handler, RequestDies(h) PROVE Totals'
    <2>1. link'.payments = link.payments /\ link'.collected = link.collected /\ overlapped' = overlapped
      BY <1>13 DEF RequestDies, linkVars
    <2>2. Counted \subseteq Counted'
      BY <1>13, EndsSlot DEF RequestDies, Counted
    <2>3. \A g \in Handler : req'[g].at = "update" => req[g].at = "update" /\ req'[g].read = req[g].read
      BY <1>13, EndsSlot DEF RequestDies
    <2>4. QED
      BY <2>1, <2>2, <2>3, TotalsRest
  <1> QED
    BY <1>1, <1>2, <1>3, <1>4, <1>5, <1>6, <1>7, <1>8, <1>9, <1>10, <1>11, <1>12, <1>13
    DEF Next, vars, linkVars, payVars, pollVars, PageStep, RequestStep, PollStep,
        LinkExpires, LoadPage, PayRefused, SignAndPost, WalletRejects, RequestFails, TryAgain,
        ReachesNetwork, PollStarts, PollFetches, ClaimEvent, CreditRecord, NotifyReceived,
        SaveCursor, RecordFails, PollStops, EnvelopeApplies, EnvelopeDies, ClaimRefused,
        DirectPayment

LEMMA TotalsGiveBacking == TypeOK /\ Totals => TotalsBacked
  <1> SUFFICES ASSUME TypeOK, Totals PROVE TotalsBacked
    OBVIOUS
  <1> DEFINE Paid == {i \in Intent : row[i] = "SUCCEEDED"}
  <1>1. Counted \subseteq Paid /\ IsFiniteSet(Paid)
    BY LinkAssumption, FS_Subset DEF Counted
  <1>2. Cardinality(Counted) <= Cardinality(Paid) /\ Cardinality(Paid) \in Nat
    BY <1>1, FS_Subset, FS_CardinalityType
  <1>3. QED
    BY <1>2, CountedFinite, LinkNat DEF Totals, TotalsBacked

-----------------------------------------------------------------------------
LinkInv == TypeOK /\ InHand /\ Flights /\ Pages /\ Told /\ Totals

LEMMA InitInHand == Init => InHand
  <1>1. Init => HasIntent
    BY DEF Init, HasIntent, IdleReq
  <1>2. Init => HasRecord
    BY DEF Init, HasRecord, IdleTick
  <1>3. QED
    BY <1>1, <1>2 DEF InHand

LEMMA InvHolds == Spec => []LinkInv
  <1>1. Init => LinkInv
    BY InitTyped, InitInHand, InitFlights, InitPages, InitTold, InitTotals DEF LinkInv
  <1>2. LinkInv /\ [Next]_vars => LinkInv'
    BY StepTyped, StepHasIntent, StepHasRecord, StepFlights, StepPages, StepTold, StepTotals
    DEF LinkInv, InHand
  <1>3. QED
    BY <1>1, <1>2, PTL DEF Spec

(* Every step of the page, of the requests and of the polls keeps the types. *)
THEOREM LinkTypeCorrect == Spec => []TypeOK
  BY InvHolds, PTL DEF LinkInv

(* A page that shows success has paid: its intent is on the ledger, from its payer,
   and recorded as SUCCEEDED (page.tsx and CheckoutService.submitSigned).   *)
THEOREM SuccessIsPaidHolds == Spec => []SuccessIsPaid
  <1>1. LinkInv => SuccessIsPaid
    BY PagesGiveSuccess DEF LinkInv
  <1>2. QED
    BY <1>1, InvHolds, PTL

(* The checkout and the Horizon listener, in any order, tell the merchant of a
   payment at most once, and only one of them records it.                   *)
THEOREM MerchantHearsOnceHolds == Spec => []MerchantHearsOnce
  <1>1. LinkInv => MerchantHearsOnce
    BY ToldOnce DEF LinkInv
  <1>2. QED
    BY <1>1, InvHolds, PTL

(* The totals of the link are backed by payments, and agree while no two requests of
   reconcilePaymentLinkPayment overlap.                                     *)
THEOREM TotalsBackedHolds == Spec => []TotalsBacked
  <1>1. LinkInv => TotalsBacked
    BY TotalsGiveBacking DEF LinkInv
  <1>2. QED
    BY <1>1, InvHolds, PTL

=============================================================================
