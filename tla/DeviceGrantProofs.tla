------------------------- MODULE DeviceGrantProofs -------------------------
(***************************************************************************)
(* A device code mints once, a poll that is barred when it comes is never  *)
(* served, and an approval stands: for any number of polls and decisions   *)
(* and for either code store.                                              *)
(***************************************************************************)
EXTENDS DeviceGrant, TLAPS

USE DeviceAssumption DEF Calls, PCs, PollPC, DecisionPC, Answers

\* In the initial state nothing is issued and every call is idle.
LEMMA SingleUseInit == Init => SingleUseInv
  BY DEF Init, SingleUseInv, CallsTyped, OnlyIssued, ClaimedIsGone, SingleUse, Claimed

\* A step that creates no record, claims no code and starts no poll: it may
\* delete records and answer calls that claimed nothing, or give the answer
\* of a call that did.
Quiet ==
    /\ issued' = issued /\ live' \subseteq live
    /\ CallsTyped'
    /\ \A p \in Polls : /\ code'[p] = code[p]
                        /\ pc'[p] = "idle" <=> pc[p] = "idle"
                        /\ pc'[p] = "idle" => ans'[p] = ans[p]
                        /\ Claimed(p)' => Claimed(p)

\* Quiet steps preserve the invariant.
LEMMA QuietKeeps == SingleUseInv /\ Quiet => SingleUseInv'
<1> SUFFICES ASSUME SingleUseInv, Quiet PROVE SingleUseInv'
  OBVIOUS
<1>1. CallsTyped'
  BY DEF Quiet
<1>2. OnlyIssued'
  BY DEF Quiet, SingleUseInv, OnlyIssued
<1>3. ClaimedIsGone'
  BY DEF Quiet, SingleUseInv, ClaimedIsGone
<1>4. SingleUse'
  BY DEF Quiet, SingleUseInv, SingleUse
<1> QED
  BY <1>1, <1>2, <1>3, <1>4 DEF SingleUseInv

\* A call of /device/verify touches no poll.
LEMMA DecisionQuiet ==
  ASSUME SingleUseInv, NEW d \in Deciders,
         issued' = issued, live' \subseteq live,
         \/ code' = code
         \/ \E c \in Codes : code' = [code EXCEPT ![d] = c],
         NEW l \in PCs, pc' = [pc EXCEPT ![d] = l],
         \/ ans' = ans
         \/ \E a \in Answers : ans' = [ans EXCEPT ![d] = a]
  PROVE  Quiet
<1>1. \A p \in Polls : p # d /\ p \in Calls /\ d \in Calls
  OBVIOUS
<1>2. \A p \in Polls : pc'[p] = pc[p] /\ ans'[p] = ans[p] /\ code'[p] = code[p]
  BY <1>1 DEF SingleUseInv, CallsTyped
<1>3. CallsTyped'
  BY <1>1 DEF SingleUseInv, CallsTyped
<1> QED
  BY <1>2, <1>3 DEF Quiet, Claimed

\* A poll past its start that moves on without a claim.
LEMMA PollQuiet ==
  ASSUME SingleUseInv, NEW p \in Polls, pc[p] # "idle",
         issued' = issued, live' \subseteq live, code' = code,
         \/ /\ \E l \in PCs \ {"idle", "mint"} : pc' = [pc EXCEPT ![p] = l]
            /\ ans' = ans
         \/ /\ pc' = [pc EXCEPT ![p] = "done"]
            /\ \E a \in Answers : /\ ans' = [ans EXCEPT ![p] = a]
                                  /\ a = "ok" => pc[p] = "mint"
  PROVE  Quiet
<1>1. p \in Calls /\ \A q \in Polls : q \in Calls
  OBVIOUS
<1>2. CallsTyped'
  BY <1>1 DEF SingleUseInv, CallsTyped
<1>3. \A q \in Polls : q # p => pc'[q] = pc[q] /\ ans'[q] = ans[q]
  BY <1>1 DEF SingleUseInv, CallsTyped
<1>4. pc'[p] # "idle" /\ (Claimed(p)' => Claimed(p))
  BY <1>1 DEF SingleUseInv, CallsTyped, Claimed
<1>5. \A q \in Polls : /\ pc'[q] = "idle" <=> pc[q] = "idle"
                       /\ pc'[q] = "idle" => ans'[q] = ans[q]
                       /\ Claimed(q)' => Claimed(q)
  BY <1>3, <1>4 DEF Claimed
<1> QED
  BY <1>2, <1>5 DEF Quiet

\* POST /device/code gives a record to a code no call has.
LEMMA RequestCodeKeeps ==
  ASSUME SingleUseInv, NEW c \in Codes, RequestCode(c)
  PROVE  SingleUseInv'
<1>1. issued' = issued \cup {c} /\ live' = live \cup {c} /\ c \notin issued
      /\ pc' = pc /\ ans' = ans /\ code' = code
  BY DEF RequestCode, calls
<1>2. CallsTyped'
  BY <1>1 DEF SingleUseInv, CallsTyped
<1>3. OnlyIssued'
  BY <1>1 DEF SingleUseInv, OnlyIssued
<1>4. ClaimedIsGone'
  BY <1>1 DEF SingleUseInv, OnlyIssued, ClaimedIsGone, Claimed
<1>5. SingleUse'
  BY <1>1 DEF SingleUseInv, SingleUse, Claimed
<1> QED
  BY <1>2, <1>3, <1>4, <1>5 DEF SingleUseInv

\* A poll that comes has claimed nothing.
LEMMA PollKeeps ==
  ASSUME SingleUseInv, NEW p \in Polls, Poll(p)
  PROVE  SingleUseInv'
<1>1. PICK c \in issued : code' = [code EXCEPT ![p] = c]
  BY DEF Poll
<1>2. /\ pc[p] = "idle" /\ pc' = [pc EXCEPT ![p] = "get"] /\ ans' = ans
      /\ issued' = issued /\ live' = live
  BY DEF Poll, Goto, store
<1>3. p \in Calls /\ c \in Codes /\ \A q \in Polls : q \in Calls
  BY DEF SingleUseInv, OnlyIssued
<1>4. CallsTyped'
  BY <1>1, <1>2, <1>3 DEF SingleUseInv, CallsTyped
<1>5. /\ pc'[p] = "get" /\ ans'[p] = "none" /\ code'[p] = c
      /\ \A q \in Polls : q # p => pc'[q] = pc[q] /\ code'[q] = code[q]
  BY <1>1, <1>2, <1>3 DEF SingleUseInv, CallsTyped, OnlyIssued
<1>6. ~Claimed(p)' /\ \A q \in Polls : q # p => (Claimed(q)' <=> Claimed(q))
  BY <1>2, <1>5 DEF Claimed
<1>7. OnlyIssued'
  BY <1>2, <1>5 DEF SingleUseInv, OnlyIssued
<1>8. ClaimedIsGone'
  BY <1>2, <1>5, <1>6 DEF SingleUseInv, ClaimedIsGone
<1>9. SingleUse'
  BY <1>5, <1>6 DEF SingleUseInv, SingleUse
<1> QED
  BY <1>4, <1>7, <1>8, <1>9 DEF SingleUseInv

\* A claim takes a record that was there, so nobody else has claimed it.
LEMMA ClaimKeeps ==
  ASSUME SingleUseInv, NEW p \in Polls, ConsumeIfApproved(p)
  PROVE  SingleUseInv'
<1> DEFINE c == code[p]
<1>1. /\ pc[p] = "claim" /\ issued' = issued /\ code' = code /\ live' \subseteq live
  BY DEF ConsumeIfApproved
<1>2. CASE Found(c) /\ rec[c].approved
  <2>1. /\ c \in live /\ live' = live \ {c}
        /\ pc' = [pc EXCEPT ![p] = "mint"] /\ ans' = ans
    BY <1>2 DEF ConsumeIfApproved, Found, Goto
  <2>2. p \in Calls /\ \A q \in Polls : q \in Calls
    OBVIOUS
  <2>3. CallsTyped'
    BY <1>1, <2>1, <2>2 DEF SingleUseInv, CallsTyped
  <2>4. pc'[p] = "mint" /\ \A q \in Polls : q # p => pc'[q] = pc[q]
    BY <2>1, <2>2 DEF SingleUseInv, CallsTyped
  <2>5. \A q \in Polls : q # p => (Claimed(q)' <=> Claimed(q))
    BY <2>1, <2>4 DEF Claimed
  <2>6. OnlyIssued'
    BY <1>1, <2>1, <2>4 DEF SingleUseInv, OnlyIssued
  <2>7. ClaimedIsGone'
    BY <1>1, <2>1, <2>4, <2>5 DEF SingleUseInv, ClaimedIsGone
  <2>8. \A q \in Polls : Claimed(q) => code[q] # c
    BY <2>1 DEF SingleUseInv, ClaimedIsGone
  <2>9. SingleUse'
    BY <1>1, <2>5, <2>8 DEF SingleUseInv, SingleUse
  <2> QED
    BY <2>3, <2>6, <2>7, <2>9 DEF SingleUseInv
<1>3. CASE ~(Found(c) /\ rec[c].approved)
  <2>1. pc' = [pc EXCEPT ![p] = "done"] /\ ans' = [ans EXCEPT ![p] = "invalid_grant"]
    BY <1>3 DEF ConsumeIfApproved, Answer
  <2>2. Quiet
    BY <1>1, <2>1, PollQuiet
  <2> QED
    BY <2>2, QuietKeeps
<1> QED
  BY <1>2, <1>3

\* The other steps of a poll are quiet.
LEMMA OtherPollStepsQuiet ==
  ASSUME SingleUseInv, NEW p \in Polls,
         \/ GetByDeviceCode(p) \/ UpdateLastPoll(p) \/ Delete(p)
         \/ ConsumeIfApprovedFails(p) \/ MintAndRespond(p)
  PROVE  Quiet
<1>1. CASE GetByDeviceCode(p)
  <2>1. /\ pc[p] = "get" /\ issued' = issued /\ code' = code /\ live' \subseteq live
    BY <1>1 DEF GetByDeviceCode, AfterGet
  <2>2. \/ pc' = [pc EXCEPT ![p] = "update"] /\ ans' = ans
        \/ pc' = [pc EXCEPT ![p] = "done"] /\ ans' = [ans EXCEPT ![p] = "invalid_grant"]
    BY <1>1 DEF GetByDeviceCode, Goto, Answer
  <2> QED
    BY <2>1, <2>2, PollQuiet
<1>2. CASE UpdateLastPoll(p)
  <2>1. /\ pc[p] = "update" /\ issued' = issued /\ code' = code /\ live' = live
    BY <1>2 DEF UpdateLastPoll, calls
  <2>2. \/ \E l \in {"delete", "claim"} : pc' = [pc EXCEPT ![p] = l] /\ ans' = ans
        \/ /\ pc' = [pc EXCEPT ![p] = "done"]
           /\ \E a \in {"slow_down", "authorization_pending"} : ans' = [ans EXCEPT ![p] = a]
    BY <1>2 DEF UpdateLastPoll, GateVerdict, Goto, Answer
  <2> QED
    BY <2>1, <2>2, PollQuiet
<1>3. CASE Delete(p)
  <2>1. /\ pc[p] = "delete" /\ issued' = issued /\ code' = code /\ live' \subseteq live
        /\ pc' = [pc EXCEPT ![p] = "done"] /\ ans' = [ans EXCEPT ![p] = "access_denied"]
    BY <1>3 DEF Delete, calls, Answer
  <2> QED
    BY <2>1, PollQuiet
<1>4. CASE ConsumeIfApprovedFails(p)
  <2>1. /\ pc[p] = "claim" /\ issued' = issued /\ code' = code /\ live' \subseteq live
        /\ pc' = [pc EXCEPT ![p] = "done"] /\ ans' = [ans EXCEPT ![p] = "invalid_grant"]
    BY <1>4 DEF ConsumeIfApprovedFails, calls, Answer
  <2> QED
    BY <2>1, PollQuiet
<1>5. CASE MintAndRespond(p)
  <2>1. /\ pc[p] = "mint" /\ issued' = issued /\ code' = code /\ live' = live
        /\ pc' = [pc EXCEPT ![p] = "done"]
        /\ \E a \in {"invalid_grant", "ok", "server_error"} : ans' = [ans EXCEPT ![p] = a]
    BY <1>5 DEF MintAndRespond, store, calls, Answer
  <2> QED
    BY <2>1, PollQuiet
<1> QED
  BY <1>1, <1>2, <1>3, <1>4, <1>5
\* A decision, whichever store it goes to, is quiet.
LEMMA DecisionStepsQuiet ==
  ASSUME SingleUseInv, NEW d \in Deciders, DecisionStep(d)
  PROVE  Quiet
<1>1. CASE Verify(d)
  <2>1. PICK c \in issued : code' = [code EXCEPT ![d] = c]
    BY <1>1 DEF Verify
  <2>2. /\ issued' = issued /\ live' = live /\ c \in Codes
        /\ pc' = [pc EXCEPT ![d] = "lookup"] /\ ans' = ans
    BY <1>1 DEF Verify, Goto, store, SingleUseInv, OnlyIssued
  <2> QED
    BY <2>1, <2>2, DecisionQuiet
<1>2. CASE GetByUserCode(d)
  <2>1. /\ issued' = issued /\ code' = code /\ live' \subseteq live
    BY <1>2 DEF GetByUserCode, AfterGet, calls
  <2>2. \/ (\E l \in {"decide", "read"} : pc' = [pc EXCEPT ![d] = l]) /\ ans' = ans
        \/ pc' = [pc EXCEPT ![d] = "done"] /\ ans' = [ans EXCEPT ![d] = "invalid_grant"]
    BY <1>2 DEF GetByUserCode, Goto, Answer
  <2> QED
    BY <2>1, <2>2, DecisionQuiet
<1>3. CASE MutateRead(d)
  <2>1. /\ issued' = issued /\ code' = code /\ live' \subseteq live
    BY <1>3 DEF MutateRead, AfterGet
  <2>2. \/ pc' = [pc EXCEPT ![d] = "write"] /\ ans' = ans
        \/ pc' = [pc EXCEPT ![d] = "done"] /\ ans' = [ans EXCEPT ![d] = "invalid_grant"]
    BY <1>3 DEF MutateRead, Goto, Answer
  <2> QED
    BY <2>1, <2>2, DecisionQuiet
<1>4. CASE Decide(d) \/ MutateWrite(d) \/ MutateFails(d)
  <2>1. /\ issued' = issued /\ code' = code /\ live' = live
        /\ pc' = [pc EXCEPT ![d] = "done"]
        /\ \E a \in {"ok", "invalid_grant"} : ans' = [ans EXCEPT ![d] = a]
    BY <1>4 DEF Decide, MutateWrite, MutateFails, Answer, calls
  <2> QED
    BY <2>1, DecisionQuiet
<1> QED
  BY <1>1, <1>2, <1>3, <1>4 DEF DecisionStep

\* A refused lookup is quiet, be it a poll's or a decision's.
LEMMA LookupFailsQuiet ==
  ASSUME SingleUseInv, NEW w \in Calls, LookupFails(w)
  PROVE  Quiet
<1>1. /\ pc[w] # "idle" /\ issued' = issued /\ code' = code /\ live' = live
      /\ pc' = [pc EXCEPT ![w] = "done"] /\ ans' = [ans EXCEPT ![w] = "invalid_grant"]
  BY DEF LookupFails, Answer, calls, store
<1>2. CASE w \in Polls
  BY <1>1, <1>2, PollQuiet
<1>3. CASE w \in Deciders
  BY <1>1, <1>3, DecisionQuiet
<1> QED
  BY <1>2, <1>3

\* Expiry, administration, time and stuttering touch no call.
LEMMA BackgroundQuiet ==
  ASSUME SingleUseInv,
         \/ SweepExpired \/ (\E u \in Users : SuspendUser(u)) \/ Tick \/ UNCHANGED vars
  PROVE  Quiet
<1>1. /\ issued' = issued /\ live' \subseteq live
      /\ pc' = pc /\ ans' = ans /\ code' = code
  BY DEF SweepExpired, SuspendUser, Tick, vars, store, calls
<1>2. CallsTyped'
  BY <1>1 DEF SingleUseInv, CallsTyped
<1> QED
  BY <1>1, <1>2 DEF Quiet, Claimed

\* Every step of the grant preserves the invariant.
LEMMA SingleUseStep == SingleUseInv /\ [Next]_vars => SingleUseInv'
<1> SUFFICES ASSUME SingleUseInv, [Next]_vars PROVE SingleUseInv'
  OBVIOUS
<1>1. CASE \E c \in Codes : RequestCode(c)
  BY <1>1, RequestCodeKeeps
<1>2. CASE \E p \in Polls : PollStep(p)
  BY <1>2, PollKeeps, ClaimKeeps, OtherPollStepsQuiet, QuietKeeps DEF PollStep
<1>3. CASE \E d \in Deciders : DecisionStep(d)
  BY <1>3, DecisionStepsQuiet, QuietKeeps
<1>4. CASE \E w \in Calls : LookupFails(w)
  BY <1>4, LookupFailsQuiet, QuietKeeps
<1>5. CASE SweepExpired \/ (\E u \in Users : SuspendUser(u)) \/ Tick \/ UNCHANGED vars
  BY <1>5, BackgroundQuiet, QuietKeeps
<1>6. CASE Quiescent
  BY <1>6, BackgroundQuiet, QuietKeeps DEF Quiescent
<1> QED
  BY <1>1, <1>2, <1>3, <1>4, <1>5, <1>6 DEF Next

\* For any number of codes, polls and decisions, with failing Redis commands
\* and lost replies: of the polls that race for an approved code at most one
\* gets past ConsumeIfApproved to the mint.
THEOREM SingleUseAlways == Spec => []SingleUse
<1>1. SingleUseInv => SingleUse
  BY DEF SingleUseInv
<1> QED
  BY <1>1, SingleUseInit, SingleUseStep, PTL DEF Spec

(***************************************************************************)
(* Barred polls and approvals.  What a poll, a decision and the record     *)
(* they share hold between the steps of a call.                            *)
(***************************************************************************)
Views == [rec : Record, slow : BOOLEAN, at : Nat]

RecordsTyped ==
    /\ now \in Nat /\ suspended \subseteq Users
    /\ rec \in [Codes -> Record]
    /\ view \in [Calls -> Views]
    /\ who \in [Calls -> Clients \cup Users \cup {Nobody}]
    /\ \A d \in Deciders : who[d] \in Users \cup {Nobody}
    /\ choice \in [Deciders -> {"none", "approve", "deny"}]
    /\ start \in [Polls -> [barred : BOOLEAN, shut : SUBSET Users]]

\* A decision under way has a code and a choice, and keeps them.
DecisionsBound ==
    \A d \in Deciders :
        /\ pc[d] = "idle" => ans[d] = "none" /\ choice[d] = "none"
        /\ pc[d] # "idle" => code[d] \in issued /\ choice[d] # "none"

\* The record a Redis decision is about to write back differs from the stored
\* one at most in what was decided.
WriterFresh ==
    \A d \in Deciders : pc[d] = "write" =>
        /\ view[d].rec.client = rec[code[d]].client
        /\ view[d].rec.expires = rec[code[d]].expires

\* A sealed code stays denied: no approval on its way has missed the denial.
SealedDenied ==
    \A c \in sealed :
        /\ c \in issued
        /\ c \in live => rec[c].denied
        /\ \A d \in Deciders :
              pc[d] = "write" /\ code[d] = c /\ choice[d] = "approve" => view[d].rec.denied

\* What barred a poll when it came still bars it when it looks its code up;
\* past the lookup only a denied code is left, and that goes to no claim.
BarredStays ==
    \A p \in Polls : start[p].barred =>
        /\ pc[p] \in {"get", "update", "delete", "done"} /\ ans[p] # "ok"
        /\ pc[p] = "get" => \/ code[p] \notin live \/ Expired(code[p])
                            \/ who[p] # rec[code[p]].client \/ code[p] \in sealed
        /\ pc[p] = "update" => view[p].rec.denied

\* Who was suspended when a poll came still is, and is not served.
ShutStays ==
    \A p \in Polls :
        /\ start[p].shut \subseteq suspended
        /\ ans[p] = "ok" => pc[p] = "done" /\ view[p].rec.user \notin start[p].shut

DecisionInv ==
    /\ SingleUseInv /\ RecordsTyped /\ DecisionsBound /\ WriterFresh /\ SealedDenied
    /\ BarredStays /\ ShutStays /\ ApprovalKept

\* In the initial state no poll is barred and no decision is under way.
LEMMA DecisionInit == Init => DecisionInv
<1> SUFFICES ASSUME Init PROVE DecisionInv
  OBVIOUS
<1>1. SingleUseInv
  BY SingleUseInit
<1>2. NoRecord \in Record /\ NoView \in Views
  BY DEF Views, NoRecord, NoView, Record
<1>3. RecordsTyped
  BY <1>2 DEF Init, RecordsTyped, NoStart
<1>4. DecisionsBound /\ WriterFresh /\ SealedDenied
  BY DEF Init, DecisionsBound, WriterFresh, SealedDenied
<1>5. BarredStays /\ ShutStays /\ ApprovalKept
  BY DEF Init, BarredStays, ShutStays, ApprovalKept, NoStart
<1> QED
  BY <1>1, <1>3, <1>4, <1>5 DEF DecisionInv

\* A new code is no call's, and no decision has touched it.
LEMMA RequestCodeDecided ==
  ASSUME DecisionInv, SingleUseInv', NEW c \in Codes, RequestCode(c)
  PROVE  DecisionInv'
<1> USE DEF DecisionInv, SingleUseInv, OnlyIssued, RecordsTyped, calls
<1>1. PICK a \in Clients :
        rec' = [rec EXCEPT ![c] = [NoRecord EXCEPT !.client = a, !.expires = now + TTL]]
  BY DEF RequestCode
<1>2. [NoRecord EXCEPT !.client = a, !.expires = now + TTL] \in Record
  <2>1. now + TTL \in Nat
    OBVIOUS
  <2>2. NoRecord \in Record
    BY DEF NoRecord, Record
  <2> QED
    BY <2>1, <2>2 DEF Record
<1>3. RecordsTyped'
  BY <1>1, <1>2 DEF RequestCode
<1>4. DecisionsBound' /\ ShutStays'
  BY DEF RequestCode, DecisionsBound, ShutStays
<1>5. \A e \in issued : rec'[e] = rec[e] /\ (e \in live' => e \in live)
  BY <1>1 DEF RequestCode
<1>6. WriterFresh' /\ ApprovalKept'
  BY <1>5 DEF RequestCode, DecisionsBound, WriterFresh, ApprovalKept
<1>7. SealedDenied'
  BY <1>5 DEF RequestCode, SealedDenied
<1>8. BarredStays'
  BY <1>5 DEF RequestCode, BarredStays, Expired
<1> QED
  BY <1>3, <1>4, <1>6, <1>7, <1>8

\* A poll notes what stands against it the moment it comes.
LEMMA PollDecided ==
  ASSUME DecisionInv, SingleUseInv', NEW p \in Polls, Poll(p)
  PROVE  DecisionInv'
<1> USE DEF DecisionInv, SingleUseInv, CallsTyped, OnlyIssued, RecordsTyped, Poll, Goto, store
<1>1. RecordsTyped'
  OBVIOUS
<1>2. DecisionsBound' /\ WriterFresh' /\ SealedDenied' /\ ApprovalKept'
  BY DEF DecisionsBound, WriterFresh, SealedDenied, ApprovalKept
<1>3. BarredStays'
  BY DEF BarredStays, Expired
<1>4. ShutStays'
  BY DEF ShutStays
<1> QED
  BY <1>1, <1>2, <1>3, <1>4

\* The lookup of a barred poll finds no record of its client's, or a denied one.
LEMMA GetDecided ==
  ASSUME DecisionInv, SingleUseInv', NEW p \in Polls, GetByDeviceCode(p)
  PROVE  DecisionInv'
<1> USE DEF DecisionInv, SingleUseInv, CallsTyped, OnlyIssued, RecordsTyped
<1>1. /\ pc[p] = "get" /\ code[p] \in Codes /\ live' \subseteq live
      /\ UNCHANGED <<now, issued, rec, suspended, code, who, choice, sealed, start>>
  BY DEF GetByDeviceCode, AfterGet
<1>2. \/ /\ Found(code[p]) /\ rec[code[p]].client = who[p]
         /\ \E s \in BOOLEAN :
               view' = [view EXCEPT ![p] = [rec |-> rec[code[p]], at |-> now, slow |-> s]]
         /\ pc' = [pc EXCEPT ![p] = "update"] /\ ans' = ans
      \/ /\ view' = view
         /\ pc' = [pc EXCEPT ![p] = "done"] /\ ans' = [ans EXCEPT ![p] = "invalid_grant"]
  BY DEF GetByDeviceCode, Goto, Answer
<1>3. RecordsTyped'
  <2>1. \A s \in BOOLEAN : [rec |-> rec[code[p]], at |-> now, slow |-> s]
                              \in Views
    BY <1>1 DEF Views
  <2> QED
    BY <1>1, <1>2, <2>1
<1>4. \A w \in Calls : w # p => pc'[w] = pc[w] /\ ans'[w] = ans[w] /\ view'[w] = view[w]
  BY <1>2
<1>5. DecisionsBound' /\ WriterFresh' /\ ApprovalKept'
  BY <1>1, <1>4 DEF DecisionsBound, WriterFresh, ApprovalKept
<1>6. SealedDenied'
  BY <1>1, <1>4 DEF SealedDenied
<1>7. BarredStays'
  BY <1>1, <1>2, <1>4 DEF BarredStays, SealedDenied, Found, Expired
<1>8. ShutStays'
  <2>1. ans'[p] # "ok"
    BY <1>1, <1>2 DEF ShutStays
  <2> QED
    BY <1>1, <1>4, <2>1 DEF ShutStays
<1> QED
  BY <1>3, <1>5, <1>6, <1>7, <1>8

\* Writing the poll time and acting on the record that was read: a denied
\* record never leads to a claim.
LEMMA UpdateDecided ==
  ASSUME DecisionInv, SingleUseInv', NEW p \in Polls, UpdateLastPoll(p)
  PROVE  DecisionInv'
<1> USE DEF DecisionInv, SingleUseInv, CallsTyped, OnlyIssued, RecordsTyped, UpdateLastPoll,
            GateVerdict, Goto, Answer, calls
<1>1. RecordsTyped'
  OBVIOUS
<1>2. DecisionsBound' /\ WriterFresh' /\ SealedDenied' /\ ApprovalKept'
  BY DEF DecisionsBound, WriterFresh, SealedDenied, ApprovalKept
<1>3. BarredStays'
  BY DEF BarredStays, Expired
<1>4. ShutStays'
  BY DEF ShutStays
<1> QED
  BY <1>1, <1>2, <1>3, <1>4

\* A claim takes the record as it stands; a barred poll makes none.
LEMMA ClaimDecided ==
  ASSUME DecisionInv, SingleUseInv', NEW p \in Polls, ConsumeIfApproved(p)
  PROVE  DecisionInv'
<1> USE DEF DecisionInv, SingleUseInv, CallsTyped, OnlyIssued, RecordsTyped
<1>1. /\ pc[p] = "claim" /\ code[p] \in Codes /\ live' \subseteq live
      /\ UNCHANGED <<now, issued, rec, suspended, code, who, choice, sealed, start>>
  BY DEF ConsumeIfApproved
<1>2. \/ /\ view' = [view EXCEPT ![p] = [view[p] EXCEPT !.rec = rec[code[p]]]]
         /\ pc' = [pc EXCEPT ![p] = "mint"] /\ ans' = ans
      \/ /\ view' = view
         /\ pc' = [pc EXCEPT ![p] = "done"] /\ ans' = [ans EXCEPT ![p] = "invalid_grant"]
  BY DEF ConsumeIfApproved, Goto, Answer
<1>3. RecordsTyped'
  <2>1. [view[p] EXCEPT !.rec = rec[code[p]]] \in Views
    BY <1>1 DEF Views
  <2>2. view' \in [Calls -> Views]
    BY <1>2, <2>1
  <2> QED
    BY <1>1, <2>2
<1>4. \A w \in Calls : w # p => pc'[w] = pc[w] /\ ans'[w] = ans[w] /\ view'[w] = view[w]
  BY <1>2
<1>5. DecisionsBound' /\ WriterFresh' /\ ApprovalKept'
  BY <1>1, <1>4 DEF DecisionsBound, WriterFresh, ApprovalKept
<1>6. SealedDenied'
  BY <1>1, <1>4 DEF SealedDenied
<1>7. BarredStays'
  BY <1>1, <1>4 DEF BarredStays, Expired
<1>8. ShutStays'
  <2>1. ans'[p] # "ok"
    BY <1>1, <1>2 DEF ShutStays
  <2> QED
    BY <1>1, <1>4, <2>1 DEF ShutStays
<1> QED
  BY <1>3, <1>5, <1>6, <1>7, <1>8

\* A poll that is answered, at the mint or before: only the mint serves it, and
\* not for a suspended user.
LEMMA AnswerDecided ==
  ASSUME DecisionInv, SingleUseInv', NEW p \in Polls,
         Delete(p) \/ ConsumeIfApprovedFails(p) \/ MintAndRespond(p)
  PROVE  DecisionInv'
<1> USE DEF DecisionInv, SingleUseInv, CallsTyped, OnlyIssued, RecordsTyped
<1>1. /\ pc[p] \in {"delete", "claim", "mint"} /\ live' \subseteq live
      /\ UNCHANGED <<now, issued, rec, suspended, code, who, choice, view, sealed, start>>
  BY DEF Delete, ConsumeIfApprovedFails, MintAndRespond, store, calls
<1>2. PICK a : /\ pc' = [pc EXCEPT ![p] = "done"] /\ ans' = [ans EXCEPT ![p] = a]
               /\ a = "ok" => pc[p] = "mint" /\ view[p].rec.user \notin suspended
  BY DEF Delete, ConsumeIfApprovedFails, MintAndRespond, Answer
<1>3. RecordsTyped'
  BY <1>1
<1>4. DecisionsBound' /\ WriterFresh' /\ SealedDenied' /\ ApprovalKept'
  BY <1>1, <1>2 DEF DecisionsBound, WriterFresh, SealedDenied, ApprovalKept
<1>5. BarredStays'
  BY <1>1, <1>2 DEF BarredStays, Expired
<1>6. ShutStays'
  BY <1>1, <1>2 DEF ShutStays
<1> QED
  BY <1>3, <1>4, <1>5, <1>6

\* A decision that comes, looks its code up or reads the record writes nothing.
LEMMA ReadDecided ==
  ASSUME DecisionInv, SingleUseInv', NEW d \in Deciders,
         Verify(d) \/ GetByUserCode(d) \/ MutateRead(d)
  PROVE  DecisionInv'
<1> USE DEF DecisionInv, SingleUseInv, CallsTyped, OnlyIssued, RecordsTyped
<1>1. /\ live' \subseteq live /\ UNCHANGED <<now, issued, rec, suspended, sealed, start>>
  BY DEF Verify, GetByUserCode, MutateRead, AfterGet, store
<1>2. \A w \in Calls : w # d => /\ pc'[w] = pc[w] /\ ans'[w] = ans[w] /\ view'[w] = view[w]
                                /\ code'[w] = code[w] /\ who'[w] = who[w]
  BY DEF Verify, GetByUserCode, MutateRead, Goto, Answer, calls
<1>3. BarredStays' /\ ShutStays'
  <2>1. \A p \in Polls : /\ pc'[p] = pc[p] /\ ans'[p] = ans[p] /\ view'[p] = view[p]
                         /\ code'[p] = code[p] /\ who'[p] = who[p]
    BY <1>2
  <2>2. \A p \in Polls : Expired(code[p])' <=> Expired(code[p])
    BY <1>1, <2>1 DEF Expired
  <2> QED
    BY <1>1, <2>1, <2>2 DEF BarredStays, ShutStays
<1>4. CASE Verify(d)
  <2> USE <1>4 DEF Verify, Goto
  <2>1. RecordsTyped' /\ DecisionsBound'
    BY <1>1 DEF DecisionsBound
  <2>2. WriterFresh' /\ SealedDenied'
    BY <1>1, <1>2 DEF WriterFresh, SealedDenied
  <2>3. ApprovalKept'
    BY <1>1, <1>2 DEF DecisionsBound, ApprovalKept
  <2> QED
    BY <1>3, <2>1, <2>2, <2>3
<1>5. CASE GetByUserCode(d) \/ MutateRead(d)
  <2>1. /\ pc[d] \in {"lookup", "read"} /\ code[d] \in Codes
        /\ UNCHANGED <<code, who, choice>>
    BY <1>5 DEF GetByUserCode, MutateRead, DecisionsBound, calls
  <2>2. \/ /\ view' = view /\ ans' = ans
           /\ pc' = [pc EXCEPT ![d] = "decide"] \/ pc' = [pc EXCEPT ![d] = "read"]
        \/ /\ view' = [view EXCEPT ![d] = [view[d] EXCEPT !.rec = rec[code[d]]]] /\ ans' = ans
           /\ pc' = [pc EXCEPT ![d] = "write"] /\ code[d] \in live
        \/ /\ view' = view
           /\ pc' = [pc EXCEPT ![d] = "done"] /\ ans' = [ans EXCEPT ![d] = "invalid_grant"]
    BY <1>5 DEF GetByUserCode, MutateRead, Found, Goto, Answer, calls
  <2>3. RecordsTyped'
    <3>1. [view[d] EXCEPT !.rec = rec[code[d]]] \in Views
      BY <2>1 DEF Views
    <3>2. view' \in [Calls -> Views]
      BY <2>2, <3>1
    <3> QED
      BY <1>1, <2>1, <3>2
  <2>4. DecisionsBound'
    BY <1>1, <2>1, <2>2 DEF DecisionsBound
  <2>5. pc'[d] = "write" => view'[d].rec = rec[code[d]] /\ code[d] \in live
    BY <2>1, <2>2 DEF Views
  <2>6. WriterFresh'
    BY <1>1, <1>2, <2>1, <2>5 DEF WriterFresh
  <2>9. SealedDenied'
    <3>1. ASSUME NEW e \in sealed, NEW o \in Deciders,
                 pc'[o] = "write", code[o] = e, choice[o] = "approve"
          PROVE  view'[o].rec.denied
      BY <1>1, <1>2, <2>5, <3>1 DEF SealedDenied
    <3> QED
      BY <1>1, <2>1, <3>1 DEF SealedDenied
  <2>7. ans'[d] = "ok" => ans[d] = "ok"
    BY <2>2
  <2>8. ApprovalKept'
    BY <1>1, <1>2, <2>1, <2>7 DEF ApprovalKept
  <2> QED
    BY <1>3, <2>3, <2>4, <2>6, <2>8, <2>9
<1> QED
  BY <1>4, <1>5

\* A decision on record n of its code reaches the store: under the memory
\* store's lock n is the stored record, in Redis the one read before.
LEMMA WriteDecided ==
  ASSUME DecisionInv, SingleUseInv', NEW d \in Deciders, NEW n \in Record, NEW a \in Answers,
         pc[d] \in {"decide", "write"}, code[d] \in live, Seal(d),
         n.client = rec[code[d]].client, n.expires = rec[code[d]].expires,
         choice[d] = "approve" /\ code[d] \in sealed => n.denied,
         rec' = [rec EXCEPT ![code[d]] = Decided(n, d)],
         pc' = [pc EXCEPT ![d] = "done"], ans' = [ans EXCEPT ![d] = a],
         UNCHANGED <<backend, now, issued, live, lastPoll, suspended, calls, start>>
  PROVE  DecisionInv'
<1> USE DEF DecisionInv, SingleUseInv, CallsTyped, OnlyIssued, RecordsTyped, calls
<1> DEFINE c == code[d]
           m == Decided(n, d)
<1>1. c \in Codes /\ c \in issued /\ choice[d] \in {"approve", "deny"}
  BY DEF DecisionsBound
<1>2. /\ m \in Record /\ m.client = rec[c].client /\ m.expires = rec[c].expires
      /\ choice[d] = "approve" => m.approved /\ m.denied = n.denied
      /\ choice[d] = "deny" => m.denied
  <2>1. who[d] \in Users \cup {Nobody}
    OBVIOUS
  <2> QED
    BY <1>1, <2>1 DEF Decided, Record
<1> HIDE DEF m
<1>3. /\ rec'[c] = m /\ \A e \in Codes : e # c => rec'[e] = rec[e]
      /\ \A w \in Calls : w # d => pc'[w] = pc[w] /\ ans'[w] = ans[w]
      /\ pc'[d] = "done"
  BY <1>1 DEF m
<1>4. RecordsTyped'
  BY <1>1, <1>2 DEF m
<1>5. DecisionsBound'
  BY <1>3 DEF DecisionsBound
<1>6. \A e \in Codes : rec'[e].client = rec[e].client /\ rec'[e].expires = rec[e].expires
  BY <1>2, <1>3
<1>7. WriterFresh'
  BY <1>3, <1>6 DEF WriterFresh, DecisionsBound
<1>8. SealedDenied'
  <2>1. ASSUME NEW e \in sealed' PROVE e \in issued' /\ (e \in live' => rec'[e].denied)
    BY <1>1, <1>2, <1>3, <2>1 DEF Seal, SealedDenied
  <2>2. ASSUME NEW e \in sealed', NEW o \in Deciders,
               pc'[o] = "write", code'[o] = e, choice'[o] = "approve"
        PROVE  view'[o].rec.denied
    BY <1>3, <2>2 DEF Seal, SealedDenied
  <2> QED
    BY <2>1, <2>2 DEF SealedDenied
<1>9. BarredStays'
  <2>1. sealed \subseteq sealed' /\ \A p \in Polls : pc'[p] = pc[p] /\ ans'[p] = ans[p]
    BY <1>3 DEF Seal
  <2> QED
    BY <1>6, <2>1 DEF BarredStays, Expired
<1>10. ShutStays'
  BY <1>3 DEF ShutStays
<1>11. ApprovalKept'
  BY <1>1, <1>2, <1>3 DEF ApprovalKept, DecisionsBound
<1> QED
  BY <1>4, <1>5, <1>7, <1>8, <1>9, <1>10, <1>11

\* A decision ends and no record changes: a lookup failed, the code is gone, or
\* a Redis write finds no key to overwrite.
LEMMA EndDecided ==
  ASSUME DecisionInv, SingleUseInv', NEW d \in Deciders, NEW a \in Answers,
         pc[d] # "idle", a = "ok" => code[d] \notin live,
         rec' = rec, pc' = [pc EXCEPT ![d] = "done"], ans' = [ans EXCEPT ![d] = a],
         sealed' = sealed \/ (Seal(d) /\ code[d] \notin live),
         UNCHANGED <<backend, now, issued, live, lastPoll, suspended, calls, start>>
  PROVE  DecisionInv'
<1> USE DEF DecisionInv, SingleUseInv, CallsTyped, OnlyIssued, RecordsTyped, calls
<1>1. RecordsTyped'
  OBVIOUS
<1>2. DecisionsBound' /\ WriterFresh' /\ ShutStays'
  BY DEF DecisionsBound, WriterFresh, ShutStays
<1>3. SealedDenied'
  BY DEF DecisionsBound, SealedDenied, Seal
<1>4. BarredStays'
  BY DEF BarredStays, Expired, Seal
<1>5. ApprovalKept'
  BY DEF ApprovalKept
<1> QED
  BY <1>1, <1>2, <1>3, <1>4, <1>5

\* Approve and Deny, in either store and with failing commands.
LEMMA DecideDecided ==
  ASSUME DecisionInv, SingleUseInv', NEW d \in Deciders,
         Decide(d) \/ MutateWrite(d) \/ MutateFails(d)
  PROVE  DecisionInv'
<1> DEFINE c == code[d]
<1>1. /\ pc[d] \in {"decide", "read", "write"} /\ c \in Codes
      /\ UNCHANGED <<backend, now, issued, live, lastPoll, suspended, calls, start>>
  BY DEF Decide, MutateWrite, MutateFails, DecisionInv, DecisionsBound, SingleUseInv, OnlyIssued
<1>2. CASE Decide(d)
  <2>1. CASE Found(c)
    <3>1. /\ rec' = [rec EXCEPT ![c] = Decided(rec[c], d)] /\ Seal(d) /\ c \in live
          /\ pc' = [pc EXCEPT ![d] = "done"] /\ ans' = [ans EXCEPT ![d] = "ok"]
          /\ pc[d] = "decide"
      BY <1>2, <2>1 DEF Decide, Answer, Found
    <3>2. rec[c] \in Record /\ (c \in sealed => rec[c].denied)
      BY <1>1, <3>1 DEF DecisionInv, RecordsTyped, SealedDenied
    <3> QED
      BY <1>1, <3>1, <3>2, WriteDecided
  <2>2. CASE ~Found(c)
    BY <1>1, <1>2, <2>2, EndDecided DEF Decide, Answer
  <2> QED
    BY <2>1, <2>2
<1>3. ASSUME pc[d] = "write"
      PROVE  /\ view[d].rec \in Record
             /\ view[d].rec.client = rec[c].client /\ view[d].rec.expires = rec[c].expires
             /\ choice[d] = "approve" /\ c \in sealed => view[d].rec.denied
  BY <1>3 DEF DecisionInv, RecordsTyped, Views, WriterFresh, SealedDenied
<1>4. CASE MutateWrite(d)
  <2>1. /\ pc[d] = "write" /\ Seal(d)
        /\ pc' = [pc EXCEPT ![d] = "done"] /\ ans' = [ans EXCEPT ![d] = "ok"]
    BY <1>4 DEF MutateWrite, Answer
  <2>2. CASE c \in live
    <3>1. rec' = [rec EXCEPT ![c] = Decided(view[d].rec, d)]
      BY <1>4, <2>2 DEF MutateWrite
    <3> QED
      BY <1>1, <1>3, <2>1, <2>2, <3>1, WriteDecided
  <2>3. CASE c \notin live
    <3>1. rec' = rec
      BY <1>1, <1>4, <2>3 DEF MutateWrite, DecisionInv, RecordsTyped
    <3> QED
      BY <1>1, <2>1, <2>3, <3>1, EndDecided
  <2> QED
    BY <2>2, <2>3
<1>5. CASE MutateFails(d)
  <2>1. pc' = [pc EXCEPT ![d] = "done"] /\ ans' = [ans EXCEPT ![d] = "invalid_grant"]
    BY <1>5 DEF MutateFails, Answer
  <2>2. CASE rec' = rec /\ sealed' = sealed
    BY <1>1, <2>1, <2>2, EndDecided
  <2>3. CASE pc[d] = "write" /\ c \in live /\ Seal(d)
              /\ rec' = [rec EXCEPT ![c] = Decided(view[d].rec, d)]
    BY <1>1, <1>3, <2>1, <2>3, WriteDecided
  <2> QED
    BY <1>5, <2>2, <2>3 DEF MutateFails
<1> QED
  BY <1>2, <1>4, <1>5

\* A failed lookup ends its call; expiry, suspension and time bar no less.
LEMMA BackgroundDecided ==
  ASSUME DecisionInv, SingleUseInv',
         \/ \E w \in Calls : LookupFails(w)
         \/ SweepExpired \/ (\E u \in Users : SuspendUser(u)) \/ Tick \/ UNCHANGED vars
  PROVE  DecisionInv'
<1> USE DEF DecisionInv, SingleUseInv, CallsTyped, OnlyIssued, RecordsTyped, calls, store
<1>1. CASE \E w \in Calls : LookupFails(w)
  <2>1. PICK w \in Calls : LookupFails(w)
    BY <1>1
  <2> USE <2>1 DEF LookupFails, Answer
  <2>2. RecordsTyped'
    OBVIOUS
  <2>3. DecisionsBound' /\ WriterFresh' /\ SealedDenied' /\ ApprovalKept'
    BY DEF DecisionsBound, WriterFresh, SealedDenied, ApprovalKept
  <2>4. BarredStays' /\ ShutStays'
    BY DEF BarredStays, Expired, ShutStays
  <2> QED
    BY <2>2, <2>3, <2>4
<1>2. CASE SweepExpired \/ (\E u \in Users : SuspendUser(u)) \/ Tick \/ UNCHANGED vars
  <2>1. /\ UNCHANGED <<issued, rec, pc, code, who, choice, view, ans, sealed, start>>
        /\ live' \subseteq live /\ suspended \subseteq suspended' /\ suspended' \subseteq Users
        /\ now' \in Nat /\ now <= now'
    BY <1>2 DEF SweepExpired, SuspendUser, Tick, vars
  <2>2. RecordsTyped'
    BY <2>1
  <2>3. DecisionsBound' /\ WriterFresh' /\ SealedDenied' /\ ApprovalKept'
    BY <2>1 DEF DecisionsBound, WriterFresh, SealedDenied, ApprovalKept
  <2>4. \A e \in Codes : Expired(e) => Expired(e)'
    BY <2>1 DEF Expired, Record
  <2>5. BarredStays' /\ ShutStays'
    BY <2>1, <2>4 DEF BarredStays, ShutStays
  <2> QED
    BY <2>2, <2>3, <2>5
<1> QED
  BY <1>1, <1>2

\* Every step of the grant preserves the invariant.
LEMMA DecisionStepKeeps == DecisionInv /\ [Next]_vars => DecisionInv'
<1> SUFFICES ASSUME DecisionInv, [Next]_vars PROVE DecisionInv'
  OBVIOUS
<1>1. SingleUseInv'
  BY SingleUseStep DEF DecisionInv
<1>2. CASE \E c \in Codes : RequestCode(c)
  BY <1>1, <1>2, RequestCodeDecided
<1>3. CASE \E p \in Polls : PollStep(p)
  BY <1>1, <1>3, PollDecided, GetDecided, UpdateDecided, ClaimDecided, AnswerDecided DEF PollStep
<1>4. CASE \E d \in Deciders : DecisionStep(d)
  BY <1>1, <1>4, ReadDecided, DecideDecided DEF DecisionStep
<1>5. CASE \/ \E w \in Calls : LookupFails(w)
           \/ SweepExpired \/ (\E u \in Users : SuspendUser(u)) \/ Tick \/ UNCHANGED vars
  BY <1>1, <1>5, BackgroundDecided
<1>6. CASE Quiescent
  BY <1>5, <1>6 DEF Quiescent
<1> QED
  BY <1>2, <1>3, <1>4, <1>5, <1>6 DEF Next

\* A poll that comes when its code is spent, expired, another client's or
\* denied for good is never answered with a token, nor one whose user was
\* suspended before it came: over either store, whatever decisions interleave.
THEOREM BarredPollsRefused == Spec => []BarredPollNeverServed
<1>1. DecisionInv => BarredPollNeverServed
  BY DEF DecisionInv, BarredStays, ShutStays, BarredPollNeverServed
<1> QED
  BY <1>1, DecisionInit, DecisionStepKeeps, PTL DEF Spec

\* An approval that was answered with 200 is not undone by polls, by failing
\* commands or by other approvals: only a denial can take it back.
THEOREM ApprovalsStand == Spec => []ApprovalKept
<1>1. DecisionInv => ApprovalKept
  BY DEF DecisionInv
<1> QED
  BY <1>1, DecisionInit, DecisionStepKeeps, PTL DEF Spec
=============================================================================
