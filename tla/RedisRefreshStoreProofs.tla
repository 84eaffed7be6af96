----------------------- MODULE RedisRefreshStoreProofs -----------------------
(***************************************************************************)
(* What the commands of the Redis store keep, however many calls interleave *)
(* and wherever they crash: revoked families stay revoked, reuse leaves     *)
(* evidence, and every family is the chain of RefreshFamily.  For every     *)
(* value of the constants.                                                  *)
(***************************************************************************)
EXTENDS RedisRefreshStore, TLAPS

(***************************************************************************)
(* Where a worker can be.                                                  *)
(***************************************************************************)
\* Issuing, up to and including the member script.
MintPC == {"set", "subject", "client", "member"}

\* Past the member script: the name of a token that may have joined its set.
JoinedPC == {"undoKey", "undoSubject", "undoClient", "done"}

\* Holding a token that GETDEL returned.
TakenPC == {"check2", "grant"} \cup MintPC

CleanPC == {"delKey", "delMark", "srem"}

PresentedPC == ConsumePC \cup DeletePC \cup InspectPC \cup {"grant"}

(***************************************************************************)
(* The invariants.                                                         *)
(***************************************************************************)
\* Keys, sets and workers hold values of their types.
TypeOK ==
    /\ active \subseteq Workers /\ famof \subseteq Workers /\ members \subseteq Workers
    /\ tomb \subseteq Families /\ expired \subseteq Workers
    /\ index \in [Indexes -> SUBSET Workers]
    /\ pc \in [Workers -> PCs]
    /\ tok \in [Workers -> Workers]
    /\ fam \in [Workers -> Families \cup {Nobody}]
    /\ idx \in [Workers -> Indexes]
    /\ todo \in [Workers -> SUBSET Workers]
    /\ cur \in [Workers -> Workers]
    /\ result \in [Workers -> Results]
    /\ late \in [Workers -> BOOLEAN]
    /\ leafed \subseteq Workers
    /\ spentBy \in [Workers -> Workers \cup {Nobody}]

\* Who has a family, an answer, a presented token, a key or a place in a set.
Bookkeeping ==
    /\ \A w \in Workers : pc[w] \in {"idle"} \cup BulkPC => fam[w] = Nobody
    /\ \A w \in Workers : pc[w] \notin {"idle", "done"} \cup BulkPC => fam[w] \in Families
    /\ \A w \in Workers : result[w] # "none" => pc[w] = "done"
    /\ \A w \in Workers : pc[w] \in PresentedPC => tok[w] # w
    /\ \A w \in Workers : tok[w] # w =>
          pc[w] # "idle" /\ tok[w] \in Handed /\ fam[tok[w]] = fam[w]
    /\ \A t \in Handed \cup members : fam[t] \in Families
    /\ \A t \in active : pc[t] \in {"subject", "client", "member"} \cup JoinedPC
    /\ \A t \in members \cup leafed : pc[t] \in JoinedPC
    /\ expired \subseteq Handed

\* A token that a client holds is in its family's set, unless the cleanup of
\* a revoked family has taken it out, its key first.
HandedJoined ==
    \A t \in Handed : t \in members \/ (fam[t] \in tomb /\ t \notin active)

\* A cleanup comes after the tombstone, works on its own family, and has in
\* its snapshot every member that is left.
CleanupCovers ==
    \A w \in Workers :
        /\ pc[w] \in CleanPC \cup {"snapshot"} => fam[w] \in tomb
        /\ pc[w] \in CleanPC =>
              /\ \A t \in todo[w] \cup {cur[w]} : fam[t] = fam[w] /\ pc[t] \in JoinedPC
              /\ \A t \in members : fam[t] = fam[w] => t \in todo[w] \cup {cur[w]}
        /\ pc[w] \in {"delMark", "srem"} => cur[w] \notin active

\* A DeleteFamily that ran to its end left a tombstone and no member.
RevokedEmpty ==
    \A w \in Workers : result[w] = "revoked" =>
        fam[w] \in tomb /\ \A t \in members : fam[t] # fam[w]

StoreInv == TypeOK /\ Bookkeeping /\ HandedJoined /\ CleanupCovers /\ RevokedEmpty

\* A call that began after the tombstone never gets past a check.
LateRefused ==
    \A w \in Workers : late[w] =>
        /\ fam[w] \in tomb /\ result[w] # "ok"
        /\ pc[w] \notin {"idle", "mark", "getdel", "check2", "grant"} \cup IssuePC

LateInv == StoreInv /\ LateRefused

\* A token that is about to be removed has its marker in place, only what
\* expired is collected, and only what a client held was removed.
MarkedFirst ==
    /\ \A w \in Workers : pc[w] = "getdel" =>
          tok[w] \in famof \cup expired \/ fam[tok[w]] \in tomb \/ Bulked
    /\ \A w \in Workers : pc[w] \in {"gcKey", "gcMark"} => tok[w] \in expired
    /\ \A t \in Workers : spentBy[t] \in Workers => t \in Handed

EvidenceInv == StoreInv /\ MarkedFirst /\ ReuseEvidence

\* A family that is not revoked has one holder: a leaf or a rotation.
OneHolder ==
    \A f \in Families \ tomb : \A a, b \in Leaves(f) \cup Rotating(f) : a = b

\* A login under way is alone in its family.
LoginAlone ==
    \A w \in Workers : pc[w] \in MintPC /\ tok[w] = w =>
        \A v \in Workers : v # w => fam[v] # fam[w]

\* A spent token is gone for good, and who rotates it, or succeeded it, spent it.
SpentOnce ==
    /\ \A t \in Workers : spentBy[t] # Nobody => t \notin active /\ pc[t] = "done"
    /\ \A w \in Workers : tok[w] # w /\ (pc[w] \in TakenPC \/ w \in leafed) =>
          spentBy[tok[w]] = w

ChainInv == StoreInv /\ OneHolder /\ LoginAlone /\ SpentOnce

(***************************************************************************)
(* What one step can change.                                               *)
(***************************************************************************)
\* Worker q takes no part in the step.
Still(q) ==
    /\ pc'[q] = pc[q] /\ tok'[q] = tok[q] /\ fam'[q] = fam[q] /\ todo'[q] = todo[q]
    /\ cur'[q] = cur[q] /\ result'[q] = result[q] /\ late'[q] = late[q]

\* Worker q takes the step.
Acts(q) ==
    Call(q) \/ Consume(q) \/ Issue(q) \/ DeleteFamily(q) \/ InspectStep(q) \/ Bulk(q) \/ Fault(q)

\* Tombstones and expiries stay, a call keeps its token and its family, an
\* answer is final, and a key deleted after its issue is never set again.
Grows ==
    /\ tomb \subseteq tomb' /\ expired \subseteq expired' /\ leafed \subseteq leafed'
    /\ \A q \in Workers : pc[q] # "idle" =>
          /\ pc'[q] # "idle" /\ tok'[q] = tok[q] /\ fam'[q] = fam[q] /\ late'[q] = late[q]
    /\ \A q \in Workers : pc[q] = "done" => Still(q)
    /\ \A q \in Workers : pc[q] \in JoinedPC =>
          pc'[q] \in JoinedPC /\ (q \in active' => q \in active)

(***************************************************************************)
(* Types.                                                                  *)
(***************************************************************************)
\* The next token of a cleanup's snapshot is well typed.
LEMMA NextTokenTyped ==
    ASSUME TypeOK, NEW w \in Workers, NEW rest \in SUBSET Workers,
           NEW first \in PCs, NEW l \in PCs, NEW a \in Results,
           NextToken(w, rest, first, Goto(w, l)) \/ NextToken(w, rest, first, Finish(w, a))
    PROVE  /\ pc' \in [Workers -> PCs] /\ result' \in [Workers -> Results]
           /\ todo' \in [Workers -> SUBSET Workers] /\ cur' \in [Workers -> Workers]
<1>1. "done" \in PCs BY DEF PCs
<1> QED BY <1>1 DEF NextToken, Goto, Finish, TypeOK

\* So is where a worker goes.
LEMMA ControlTyped ==
    ASSUME TypeOK, NEW w \in Workers
    PROVE  /\ \A l \in PCs : Goto(w, l) =>
                 pc' \in [Workers -> PCs] /\ result' \in [Workers -> Results]
           /\ \A a \in Results : Finish(w, a) =>
                 pc' \in [Workers -> PCs] /\ result' \in [Workers -> Results]
<1>1. "done" \in PCs BY DEF PCs
<1> QED BY <1>1 DEF Goto, Finish, TypeOK

\* A worker's step keeps the types.
LEMMA TypeActs ==
    ASSUME TypeOK, Bookkeeping, NEW w \in Workers, Acts(w) PROVE TypeOK'
<1> USE DEF TypeOK
<1>1. /\ {"idle", "grant", "done", "get", "check1", "mark", "getdel", "check2", "family", "set",
          "subject", "client", "member", "undoKey", "undoSubject", "undoClient"} \subseteq PCs
      /\ {"exists", "tombstone", "snapshot", "delKey", "delMark", "srem", "inspect", "gcKey",
          "gcMark", "inspectCheck", "bulkRead", "bulkKey", "bulkMark", "bulkIndex"} \subseteq PCs
      /\ {"ok", "not_found", "refused", "revoked", "cleared", "error"} \subseteq Results
      /\ "subject" \in Indexes /\ "client" \in Indexes
  BY DEF PCs, ConsumePC, IssuePC, DeletePC, InspectPC, BulkPC, Results, Indexes
<1>2. CASE Login(w) BY <1>1, <1>2 DEF Goto, Finish, Login, redis, ghosts
<1>3. CASE Refresh(w) \/ Revoke(w)
  <2>1. PICK l \in {"get", "inspect"} : Present(w, l) BY <1>3 DEF Refresh, Revoke
  <2>2. PICK t \in Handed : /\ tok' = [tok EXCEPT ![w] = t]
                            /\ fam' = [fam EXCEPT ![w] = fam[t]]
                            /\ late' = [late EXCEPT ![w] = fam[t] \in tomb]
    BY <2>1 DEF Present
  <2>3. PICK b \in BOOLEAN : late' = [late EXCEPT ![w] = b]
    <3>1. CASE fam[t] \in tomb
      <4>1. (fam[t] \in tomb) = TRUE BY <3>1
      <4> QED BY <2>2, <4>1
    <3>2. CASE fam[t] \notin tomb
      <4>1. (fam[t] \in tomb) = FALSE BY <3>2
      <4> QED BY <2>2, <4>1
    <3> QED BY <3>1, <3>2
  <2>4. late' \in [Workers -> BOOLEAN] BY <2>3
  <2>5. t \in Workers BY DEF Handed
  <2>6. pc' \in [Workers -> PCs] /\ result' \in [Workers -> Results]
    BY <1>1, <2>1, ControlTyped DEF Present
  <2> QED BY <2>1, <2>2, <2>4, <2>5, <2>6 DEF Present, redis
<1>4. CASE BulkDelete(w) BY <1>1, <1>4 DEF Goto, Finish, BulkDelete, redis, ghosts
<1>5. CASE Get(w) \/ CheckBefore(w) \/ CheckAfter(w) \/ ConsumedFamily(w) \/ HandlerVerdict(w)
  <2>1. pc' \in [Workers -> PCs] /\ result' \in [Workers -> Results]
    BY <1>1, <1>5, ControlTyped DEF Get, CheckBefore, CheckAfter, ConsumedFamily, HandlerVerdict
  <2>2. UNCHANGED <<redis, local, ghosts>>
    BY <1>5 DEF Get, CheckBefore, CheckAfter, ConsumedFamily, HandlerVerdict
  <2> QED BY <2>1, <2>2 DEF redis, local, ghosts
<1>6. CASE PrepareConsumeMarker(w) \/ GetDel(w)
  BY <1>1, <1>6 DEF Goto, Finish, PrepareConsumeMarker, GetDel, local, ghosts
<1>7. CASE SetActive(w) \/ IndexAdd(w)
  BY <1>1, <1>7 DEF Goto, Finish, SetActive, IndexAdd, local, ghosts, Indexes
<1>8. CASE AddFamilyMember(w)
  BY <1>1, <1>8 DEF Goto, Finish, AddFamilyMember, local
<1>9. CASE UndoIssue(w)
  BY <1>1, <1>9 DEF Goto, Finish, UndoIssue, local, ghosts, Indexes
<1>10. CASE FamilyExists(w) \/ MarkFamilyRevoked(w)
  <2>1. pc[w] = "tombstone" => fam[w] \in Families
    BY DEF Bookkeeping, BulkPC
  <2>2. pc' \in [Workers -> PCs] /\ result' \in [Workers -> Results]
    BY <1>1, <1>10, ControlTyped DEF FamilyExists, MarkFamilyRevoked
  <2>3. tomb' \subseteq Families
    BY <1>10, <2>1 DEF FamilyExists, MarkFamilyRevoked, redis
  <2>4. UNCHANGED <<active, famof, members, index, expired, local, ghosts>>
    BY <1>10 DEF FamilyExists, MarkFamilyRevoked, redis
  <2> QED BY <2>2, <2>3, <2>4 DEF local, ghosts
<1>11. CASE CleanKey(w) \/ CleanMarker(w)
  BY <1>1, <1>11 DEF Goto, Finish, CleanKey, CleanMarker, local, ghosts
<1>12. CASE FamilyTokens(w)
  <2>1. {t \in members : fam[t] = fam[w]} \in SUBSET Workers OBVIOUS
  <2>2. NextToken(w, {t \in members : fam[t] = fam[w]}, "delKey", Finish(w, "revoked"))
    BY <1>12 DEF FamilyTokens
  <2>3. /\ pc' \in [Workers -> PCs] /\ result' \in [Workers -> Results]
        /\ todo' \in [Workers -> SUBSET Workers] /\ cur' \in [Workers -> Workers]
    BY <1>1, <2>1, <2>2, NextTokenTyped
  <2> QED BY <1>12, <2>3 DEF FamilyTokens, redis, ghosts
<1>13. CASE CleanMember(w)
  <2>1. NextToken(w, todo[w], "delKey", Finish(w, "revoked")) BY <1>13 DEF CleanMember
  <2>2. /\ pc' \in [Workers -> PCs] /\ result' \in [Workers -> Results]
        /\ todo' \in [Workers -> SUBSET Workers] /\ cur' \in [Workers -> Workers]
    BY <1>1, <2>1, NextTokenTyped
  <2> QED BY <1>13, <2>2 DEF CleanMember, ghosts
<1>14. CASE InspectStep(w)
  <2>1. pc' \in [Workers -> PCs] /\ result' \in [Workers -> Results]
    BY <1>1, <1>14, ControlTyped DEF InspectStep, Inspect, InspectCheck, InspectCollect
  <2>2. /\ active' \subseteq active /\ famof' \subseteq famof
        /\ UNCHANGED <<members, tomb, index, expired, local, ghosts>>
    BY <1>14 DEF InspectStep, Inspect, InspectCheck, InspectCollect, redis
  <2> QED BY <2>1, <2>2 DEF local, ghosts
<1>15. CASE BulkRead(w)
  <2>1. NextToken(w, index[idx[w]], "bulkKey", Goto(w, "bulkIndex")) BY <1>15 DEF BulkRead
  <2>2. /\ pc' \in [Workers -> PCs] /\ result' \in [Workers -> Results]
        /\ todo' \in [Workers -> SUBSET Workers] /\ cur' \in [Workers -> Workers]
    BY <1>1, <2>1, NextTokenTyped
  <2> QED BY <1>15, <2>2 DEF BulkRead, redis, ghosts
<1>16. CASE BulkKey(w) \/ BulkIndex(w)
  BY <1>1, <1>16 DEF Goto, Finish, BulkKey, BulkIndex, local, ghosts
<1>17. CASE BulkMarker(w)
  <2>1. NextToken(w, todo[w], "bulkKey", Goto(w, "bulkIndex")) BY <1>17 DEF BulkMarker
  <2>2. /\ pc' \in [Workers -> PCs] /\ result' \in [Workers -> Results]
        /\ todo' \in [Workers -> SUBSET Workers] /\ cur' \in [Workers -> Workers]
    BY <1>1, <2>1, NextTokenTyped
  <2> QED BY <1>17, <2>2 DEF BulkMarker, ghosts
<1>18. CASE Abort(w)
  BY <1>1, <1>18 DEF Goto, Finish, Abort, redis, ghosts
<1>19. CASE Skip(w)
  <2>1. CASE pc[w] = "bulkMark" /\ NextToken(w, todo[w], "bulkKey", Goto(w, "bulkIndex"))
    <3>1. /\ pc' \in [Workers -> PCs] /\ result' \in [Workers -> Results]
          /\ todo' \in [Workers -> SUBSET Workers] /\ cur' \in [Workers -> Workers]
      BY <1>1, <2>1, NextTokenTyped
    <3> QED BY <1>19, <3>1 DEF Skip, redis, ghosts
  <2>2. CASE ~(pc[w] = "bulkMark" /\ NextToken(w, todo[w], "bulkKey", Goto(w, "bulkIndex")))
    <3>1. pc' \in [Workers -> PCs] /\ result' \in [Workers -> Results]
      BY <1>1, <1>19, <2>2, ControlTyped DEF Skip
    <3>2. UNCHANGED <<redis, tok, fam, idx, todo, cur, ghosts>>
      BY <1>19, <2>2 DEF Skip
    <3> QED BY <3>1, <3>2 DEF redis, ghosts
  <2> QED BY <2>1, <2>2
<1>20. CASE GetDelRetried(w) BY <1>1, <1>20 DEF Goto, Finish, GetDelRetried, local
<1>21. CASE AddFamilyMemberFails(w) BY <1>1, <1>21 DEF Goto, Finish, AddFamilyMemberFails, local
<1> QED BY <1>2, <1>3, <1>4, <1>5, <1>6, <1>7, <1>8, <1>9, <1>10, <1>11, <1>12, <1>13, <1>14,
          <1>15, <1>16, <1>17, <1>18, <1>19, <1>20, <1>21
     DEF Acts, Call, Consume, Issue, DeleteFamily, Bulk, Fault

\* Every step keeps the types.
LEMMA TypeNext ==
    ASSUME TypeOK, Bookkeeping, [Next]_vars PROVE TypeOK'
<1>1. CASE UNCHANGED vars
  BY <1>1 DEF vars, redis, local, ghosts, TypeOK
<1>2. CASE Quiescent BY <1>1, <1>2 DEF Quiescent
<1>3. ASSUME NEW t \in Workers, Expire(t) \/ Evict(t) PROVE TypeOK'
  BY <1>3 DEF Expire, Evict, Handed, TypeOK, local, ghosts
<1> QED BY <1>1, <1>2, <1>3, TypeActs DEF Next, Acts

(***************************************************************************)
(* What one step can change.                                               *)
(***************************************************************************)
\* A worker's step leaves the other workers alone.
LEMMA OthersStill ==
    ASSUME TypeOK, NEW w \in Workers, Acts(w), NEW q \in Workers, q # w
    PROVE  Still(q)
<1> USE DEF TypeOK, Still, Goto, Finish, NextToken
<1>1. CASE Call(w)
  BY <1>1 DEF Call, Login, Refresh, Revoke, BulkDelete, Present, redis, ghosts
<1>2. CASE Consume(w)
  BY <1>2 DEF Consume, Get, CheckBefore, PrepareConsumeMarker, GetDel, CheckAfter,
       ConsumedFamily, HandlerVerdict, local, ghosts
<1>3. CASE Issue(w)
  BY <1>3 DEF Issue, SetActive, IndexAdd, AddFamilyMember, UndoIssue, local, ghosts
<1>4. CASE DeleteFamily(w)
  BY <1>4 DEF DeleteFamily, FamilyExists, MarkFamilyRevoked, FamilyTokens, CleanKey,
       CleanMarker, CleanMember, local, ghosts
<1>5. CASE InspectStep(w)
  BY <1>5 DEF InspectStep, Inspect, InspectCheck, InspectCollect, local, ghosts
<1>6. CASE Bulk(w)
  BY <1>6 DEF Bulk, BulkRead, BulkKey, BulkMarker, BulkIndex, local, ghosts
<1>7. CASE Abort(w) \/ GetDelRetried(w) \/ AddFamilyMemberFails(w)
  BY <1>7 DEF Abort, GetDelRetried, AddFamilyMemberFails, local, ghosts
<1>8. CASE Skip(w) BY <1>8 DEF Skip, local, ghosts
<1> QED BY <1>1, <1>2, <1>3, <1>4, <1>5, <1>6, <1>7, <1>8 DEF Acts, Fault

\* Time leaves every worker alone.
LEMMA TimeStill ==
    ASSUME NEW t \in Workers, Expire(t) \/ Evict(t) \/ Quiescent \/ UNCHANGED vars
    PROVE  UNCHANGED <<pc, tok, fam, idx, todo, cur, result, late, leafed, spentBy, members, tomb>>
BY DEF Expire, Evict, Quiescent, vars, redis, local, ghosts

\* A worker's step only grows what is kept.
LEMMA ActsGrows ==
    ASSUME TypeOK, NEW w \in Workers, Acts(w) PROVE Grows
<1> USE DEF TypeOK, JoinedPC, Goto, Finish, NextToken
<1>1. /\ tomb \subseteq tomb' /\ expired \subseteq expired' /\ leafed \subseteq leafed'
  BY DEF Acts, Call, Login, Refresh, Revoke, BulkDelete, Present, Consume, Get, CheckBefore,
       PrepareConsumeMarker, GetDel, CheckAfter, ConsumedFamily, HandlerVerdict, Issue,
       SetActive, IndexAdd, AddFamilyMember, UndoIssue, DeleteFamily, FamilyExists,
       MarkFamilyRevoked, FamilyTokens, CleanKey, CleanMarker, CleanMember, InspectStep,
       Inspect, InspectCheck, InspectCollect, Bulk, BulkRead, BulkKey, BulkMarker, BulkIndex,
       Fault, Abort, Skip, GetDelRetried, AddFamilyMemberFails, redis, ghosts
<1>2. pc[w] # "done"
  BY DEF Acts, Call, Login, Refresh, Revoke, BulkDelete, Present, Consume, Get, CheckBefore,
       PrepareConsumeMarker, GetDel, CheckAfter, ConsumedFamily, HandlerVerdict, Issue,
       SetActive, IndexAdd, AddFamilyMember, UndoIssue, DeleteFamily, FamilyExists,
       MarkFamilyRevoked, FamilyTokens, CleanKey, CleanMarker, CleanMember, InspectStep,
       Inspect, InspectCheck, InspectCollect, Bulk, BulkRead, BulkKey, BulkMarker, BulkIndex,
       Fault, Abort, Skip, GetDelRetried, AddFamilyMemberFails, Indexes
<1>3. ASSUME pc[w] # "idle"
      PROVE  pc'[w] # "idle" /\ tok'[w] = tok[w] /\ fam'[w] = fam[w] /\ late'[w] = late[w]
  <2>1. CASE Consume(w) \/ Issue(w) \/ InspectStep(w)
    BY <1>3, <2>1 DEF Consume, Get, CheckBefore, PrepareConsumeMarker, GetDel, CheckAfter,
       ConsumedFamily, HandlerVerdict, Issue, SetActive, IndexAdd, AddFamilyMember, UndoIssue,
       InspectStep, Inspect, InspectCheck, InspectCollect, local, ghosts
  <2>2. CASE DeleteFamily(w)
    BY <1>3, <2>2 DEF DeleteFamily, FamilyExists, MarkFamilyRevoked, FamilyTokens, CleanKey,
         CleanMarker, CleanMember, local, ghosts
  <2>3. CASE Bulk(w)
    BY <1>3, <2>3 DEF Bulk, BulkRead, BulkKey, BulkMarker, BulkIndex, local, ghosts
  <2>4. CASE Fault(w)
    BY <1>3, <2>4 DEF Fault, Abort, Skip, GetDelRetried, AddFamilyMemberFails, local, ghosts
  <2>5. ~Call(w) BY <1>3 DEF Call, Login, Refresh, Revoke, BulkDelete, Present
  <2> QED BY <2>1, <2>2, <2>3, <2>4, <2>5 DEF Acts
<1>4. ASSUME pc[w] \in JoinedPC PROVE pc'[w] \in JoinedPC
  <2>1. UndoIssue(w) \/ Abort(w) \/ Skip(w)
    BY <1>2, <1>4 DEF Acts, Call, Login, Refresh, Revoke, BulkDelete, Present, Consume, Get, CheckBefore,
       PrepareConsumeMarker, GetDel, CheckAfter, ConsumedFamily, HandlerVerdict, Issue,
       SetActive, IndexAdd, AddFamilyMember, DeleteFamily, FamilyExists,
       MarkFamilyRevoked, FamilyTokens, CleanKey, CleanMarker, CleanMember, InspectStep,
       Inspect, InspectCheck, InspectCollect, Bulk, BulkRead, BulkKey, BulkMarker, BulkIndex,
       Fault, GetDelRetried, AddFamilyMemberFails, Indexes
  <2> QED BY <1>4, <2>1 DEF UndoIssue, Abort, Skip
<1>5. ASSUME NEW q \in active', q \notin active PROVE q = w /\ pc[w] = "set"
  BY <1>5 DEF Acts, Call, Login, Refresh, Revoke, BulkDelete, Present, Consume, Get, CheckBefore,
       PrepareConsumeMarker, GetDel, CheckAfter, ConsumedFamily, HandlerVerdict, Issue,
       SetActive, IndexAdd, AddFamilyMember, UndoIssue, DeleteFamily, FamilyExists,
       MarkFamilyRevoked, FamilyTokens, CleanKey, CleanMarker, CleanMember, InspectStep,
       Inspect, InspectCheck, InspectCollect, Bulk, BulkRead, BulkKey, BulkMarker, BulkIndex,
       Fault, Abort, Skip, GetDelRetried, AddFamilyMemberFails, redis
<1> HIDE DEF TypeOK, Goto, Finish, NextToken
<1>6. \A q \in Workers : q # w => Still(q) BY OthersStill
<1>7. \A q \in Workers : pc[q] # "idle" =>
          /\ pc'[q] # "idle" /\ tok'[q] = tok[q] /\ fam'[q] = fam[q] /\ late'[q] = late[q]
  BY <1>3, <1>6 DEF Still
<1>8. \A q \in Workers : pc[q] \in JoinedPC =>
          pc'[q] \in JoinedPC /\ (q \in active' => q \in active)
  BY <1>4, <1>5, <1>6 DEF Still
<1> QED BY <1>1, <1>2, <1>6, <1>7, <1>8 DEF Grows

\* Every step only grows what is kept.
LEMMA StepGrows ==
    ASSUME TypeOK, [Next]_vars PROVE Grows
<1>1. CASE UNCHANGED vars
  BY <1>1 DEF vars, redis, local, ghosts, Grows, Still, TypeOK
<1>2. CASE Quiescent BY <1>1, <1>2 DEF Quiescent
<1>3. ASSUME NEW t \in Workers, Expire(t) \/ Evict(t) PROVE Grows
  BY <1>3 DEF Expire, Evict, local, ghosts, Grows, Still
<1> QED BY <1>1, <1>2, <1>3, ActsGrows DEF Next, Acts

\* A worker takes the step itself or is left alone.
LEMMA OneActs ==
    ASSUME TypeOK, [Next]_vars, NEW q \in Workers PROVE Still(q) \/ Acts(q)
<1>1. ASSUME NEW t \in Workers, Expire(t) \/ Evict(t) \/ Quiescent \/ UNCHANGED vars
      PROVE  Still(q)
  BY <1>1, TimeStill DEF Still
<1> QED BY <1>1, OthersStill DEF Next, Acts

\* An idle worker's step is the arrival of a call.
LEMMA Arrives ==
    ASSUME NEW w \in Workers, Acts(w), pc[w] = "idle" PROVE Call(w)
BY DEF Acts, Consume, Get, CheckBefore, PrepareConsumeMarker, GetDel, CheckAfter,
       ConsumedFamily, HandlerVerdict, Issue, SetActive, IndexAdd, AddFamilyMember,
       UndoIssue, DeleteFamily, FamilyExists, MarkFamilyRevoked, FamilyTokens, CleanKey,
       CleanMarker, CleanMember, InspectStep, Inspect, InspectCheck, InspectCollect, Bulk,
       BulkRead, BulkKey, BulkMarker, BulkIndex, Fault, Abort, Skip, GetDelRetried,
       AddFamilyMemberFails, PCs,
       BestEffort, Indexes

\* A call under way moves within its operation, and its end is final.
LEMMA Flow ==
    ASSUME TypeOK, NEW w \in Workers, Acts(w), pc[w] # "idle"
    PROVE  /\ pc'[w] \in BulkPC => pc[w] \in BulkPC
           /\ pc[w] \in BulkPC => pc'[w] \in BulkPC \cup {"done"}
           /\ pc'[w] \in PresentedPC => pc[w] \in PresentedPC
           /\ pc'[w] \in {"subject", "client", "member"} =>
                 pc[w] \in {"set", "subject", "client"}
           /\ pc'[w] = "set" => pc[w] = "grant"
           /\ pc[w] \in {"subject", "client", "member"} =>
                 pc'[w] \in {"client", "member"} \cup JoinedPC
           /\ result'[w] # result[w] => pc'[w] = "done"
<1> USE DEF TypeOK, Goto, Finish, BulkPC, PresentedPC, ConsumePC, DeletePC, InspectPC, JoinedPC
<1>1. CASE Consume(w)
  BY <1>1 DEF Consume, Get, CheckBefore, PrepareConsumeMarker, GetDel, CheckAfter,
       ConsumedFamily, HandlerVerdict
<1>2. CASE Issue(w)
  BY <1>2 DEF Issue, SetActive, IndexAdd, AddFamilyMember, UndoIssue, Indexes
<1>3. CASE DeleteFamily(w)
  BY <1>3 DEF DeleteFamily, FamilyExists, MarkFamilyRevoked, FamilyTokens, CleanKey,
       CleanMarker, CleanMember, NextToken
<1>4. CASE InspectStep(w)
  BY <1>4 DEF InspectStep, Inspect, InspectCheck, InspectCollect
<1>5. CASE Bulk(w)
  BY <1>5 DEF Bulk, BulkRead, BulkKey, BulkMarker, BulkIndex, NextToken
<1>6. CASE Abort(w) \/ GetDelRetried(w) \/ AddFamilyMemberFails(w)
  BY <1>6 DEF Abort, GetDelRetried, AddFamilyMemberFails
<1>7. CASE Skip(w) BY <1>7 DEF Skip, NextToken
<1>8. ~Call(w) BY DEF Call, Login, Refresh, Revoke, BulkDelete, Present
<1> QED BY <1>1, <1>2, <1>3, <1>4, <1>5, <1>6, <1>7, <1>8 DEF Acts, Fault

\* A token is handed out when it joined its family's set.
LEMMA HandedOut ==
    ASSUME TypeOK, NEW w \in Workers, Acts(w), result'[w] = "ok", result[w] # "ok"
    PROVE  AddFamilyMember(w) /\ pc[w] = "member" /\ ~FamilyRevoked(w)
           /\ members' = members \cup {w} /\ leafed' = leafed \cup ({w} \cap active)
<1> USE DEF TypeOK, Goto, Finish
<1>1. ~Consume(w)
  BY DEF Consume, Get, CheckBefore, PrepareConsumeMarker, GetDel, CheckAfter,
       ConsumedFamily, HandlerVerdict
<1>2. Issue(w) => AddFamilyMember(w)
  BY DEF Issue, SetActive, IndexAdd, UndoIssue
<1>3. ~DeleteFamily(w)
  BY DEF DeleteFamily, FamilyExists, MarkFamilyRevoked, FamilyTokens, CleanKey,
       CleanMarker, CleanMember, NextToken
<1>4. ~InspectStep(w) BY DEF InspectStep, Inspect, InspectCheck, InspectCollect
<1>5. ~Bulk(w) BY DEF Bulk, BulkRead, BulkKey, BulkMarker, BulkIndex, NextToken
<1>6. ~Fault(w)
  BY DEF Fault, Abort, GetDelRetried, AddFamilyMemberFails, Skip, NextToken
<1>7. ~Call(w) BY DEF Call, Login, Refresh, Revoke, BulkDelete, Present
<1>8. AddFamilyMember(w) BY <1>1, <1>2, <1>3, <1>4, <1>5, <1>6, <1>7 DEF Acts
<1> QED BY <1>8 DEF AddFamilyMember

\* What a call presents, a client holds; a login founds its family.
LEMMA Arrival ==
    ASSUME TypeOK, Bookkeeping, NEW w \in Workers, Call(w)
    PROVE  /\ pc[w] = "idle" /\ UNCHANGED <<redis, result, leafed, spentBy>>
           /\ \/ /\ pc'[w] = "set" /\ tok'[w] = w /\ fam'[w] \in Families
                 /\ \A v \in Workers : fam[v] # fam'[w]
                 /\ late' = late
              \/ /\ pc'[w] \in {"get", "inspect"}
                 /\ \E t \in Handed : /\ t # w /\ tok'[w] = t /\ fam'[w] = fam[t]
                                      /\ late'[w] = (fam[t] \in tomb)
              \/ /\ pc'[w] = "bulkRead" /\ tok'[w] = tok[w] /\ fam'[w] = fam[w] /\ late' = late
<1> USE DEF TypeOK, Goto, redis, ghosts
<1>1. CASE Login(w) BY <1>1 DEF Login
<1>2. CASE Refresh(w) \/ Revoke(w)
  <2>1. /\ pc[w] = "idle" /\ UNCHANGED <<redis, result, leafed, spentBy>>
        /\ pc'[w] \in {"get", "inspect"}
    BY <1>2 DEF Refresh, Revoke, Present
  <2>2. PICK t \in Handed : /\ tok' = [tok EXCEPT ![w] = t]
                            /\ fam' = [fam EXCEPT ![w] = fam[t]]
                            /\ late' = [late EXCEPT ![w] = fam[t] \in tomb]
    BY <1>2 DEF Refresh, Revoke, Present
  <2>3. t # w BY <2>1 DEF Handed, Bookkeeping
  <2>4. tok'[w] = t /\ fam'[w] = fam[t] BY <2>2
  <2>5. late'[w] = (fam[t] \in tomb) BY <2>2
  <2> QED BY <2>1, <2>3, <2>4, <2>5
<1>3. CASE BulkDelete(w) BY <1>3 DEF BulkDelete
<1> QED BY <1>1, <1>2, <1>3 DEF Call

\* A key, a place in a set or the right of a leaf is gained by a worker's own
\* command, and a token expires in its holder's hands.
LEMMA Gains ==
    ASSUME TypeOK, [Next]_vars, NEW t \in Workers
    PROVE  /\ t \in active' /\ t \notin active => Acts(t) /\ pc[t] = "set" /\ pc'[t] = "subject"
           /\ t \in members' /\ t \notin members =>
                 /\ Acts(t) /\ pc[t] = "member" /\ pc'[t] \in JoinedPC
                 /\ fam[t] \notin tomb /\ tomb' = tomb
           /\ t \in leafed' /\ t \notin leafed =>
                 /\ t \in active /\ t \in members' /\ pc[t] = "member" /\ pc'[t] \in JoinedPC
           /\ t \in expired' /\ t \notin expired => t \in Handed
<1> USE DEF TypeOK, JoinedPC
<1>1. CASE UNCHANGED vars \/ Quiescent BY <1>1 DEF vars, Quiescent, redis, ghosts
<1>2. ASSUME NEW u \in Workers, Expire(u) \/ Evict(u)
      PROVE  /\ active' \subseteq active /\ members' = members /\ leafed' = leafed
             /\ t \in expired' /\ t \notin expired => t \in Handed
  BY <1>2 DEF Expire, Evict, ghosts
<1>3. ASSUME NEW w \in Workers, Acts(w)
      PROVE  /\ t \in active' /\ t \notin active => t = w /\ pc[t] = "set" /\ pc'[t] = "subject"
             /\ (t \in members' /\ t \notin members) \/ (t \in leafed' /\ t \notin leafed) =>
                   t = w /\ (AddFamilyMember(w) \/ AddFamilyMemberFails(w))
             /\ expired' = expired
  <2>1. CASE SetActive(w) BY <2>1 DEF SetActive, Goto, ghosts
  <2>2. CASE AddFamilyMember(w) \/ AddFamilyMemberFails(w)
    BY <2>2 DEF AddFamilyMember, AddFamilyMemberFails
  <2>3. CASE ~SetActive(w) /\ ~AddFamilyMember(w) /\ ~AddFamilyMemberFails(w)
    BY <1>3, <2>3 DEF Acts, Call, Login, Refresh, Revoke, BulkDelete, Present, Consume, Get, CheckBefore,
       PrepareConsumeMarker, GetDel, CheckAfter, ConsumedFamily, HandlerVerdict, Issue,
       IndexAdd, UndoIssue, DeleteFamily, FamilyExists, MarkFamilyRevoked, FamilyTokens,
       CleanKey, CleanMarker, CleanMember, InspectStep, Inspect, InspectCheck,
       InspectCollect, Bulk, BulkRead, BulkKey, BulkMarker, BulkIndex, Fault, Abort, Skip,
       GetDelRetried,
       redis, ghosts
  <2> QED BY <2>1, <2>2, <2>3
<1>4. ASSUME AddFamilyMember(t) \/ AddFamilyMemberFails(t)
      PROVE  /\ pc[t] = "member" /\ pc'[t] \in JoinedPC /\ tomb' = tomb
             /\ members' # members => fam[t] \notin tomb
             /\ leafed' # leafed => t \in members' /\ t \in active
  <2>1. CASE AddFamilyMember(t)
    <3>1. CASE FamilyRevoked(t) BY <2>1, <3>1 DEF AddFamilyMember, Goto
    <3>2. CASE ~FamilyRevoked(t)
      <4>1. t \in members' BY <2>1, <3>2 DEF AddFamilyMember
      <4>2. leafed' # leafed => t \in active BY <2>1, <3>2 DEF AddFamilyMember
      <4> QED BY <2>1, <3>2, <4>1, <4>2 DEF AddFamilyMember, FamilyRevoked, Finish
    <3> QED BY <3>1, <3>2
  <2>2. CASE AddFamilyMemberFails(t)
    <3>1. CASE UNCHANGED <<members, leafed>>
      BY <2>2, <3>1 DEF AddFamilyMemberFails, Goto
    <3>2. CASE ~FamilyRevoked(t) /\ members' = members \cup {t}
               /\ leafed' = leafed \cup ({t} \cap active)
      <4>1. t \in members' BY <3>2
      <4>2. leafed' # leafed => t \in active BY <3>2
      <4> QED BY <2>2, <3>2, <4>1, <4>2 DEF AddFamilyMemberFails, FamilyRevoked, Goto
    <3> QED BY <2>2, <3>1, <3>2 DEF AddFamilyMemberFails
  <2> QED BY <1>4, <2>1, <2>2
<1> QED BY <1>1, <1>2, <1>3, <1>4 DEF Next, Acts

(***************************************************************************)
(* StoreInv.                                                               *)
(***************************************************************************)
\* What a client holds stays in its hands.
LEMMA HandedStay ==
    ASSUME Bookkeeping, Grows, NEW t \in Handed
    PROVE  t \in Handed' /\ Still(t) /\ pc[t] = "done"
BY DEF Handed, Bookkeeping, Grows, Still

\* Every step keeps the bookkeeping.
LEMMA BookkeepingNext ==
    ASSUME TypeOK, Bookkeeping, Grows, [Next]_vars PROVE Bookkeeping'
<1>1. ASSUME NEW w \in Workers
      PROVE  /\ pc'[w] \in {"idle"} \cup BulkPC => fam'[w] = Nobody
             /\ pc'[w] \notin {"idle", "done"} \cup BulkPC => fam'[w] \in Families
             /\ result'[w] # "none" => pc'[w] = "done"
             /\ pc'[w] \in PresentedPC => tok'[w] # w
             /\ tok'[w] # w => pc'[w] # "idle"
                               /\ \E t \in Handed : tok'[w] = t /\ fam'[w] = fam[t]
  <2>1. CASE Still(w) BY <2>1 DEF Still, Bookkeeping
  <2>2. CASE Acts(w) /\ pc[w] # "idle"
    <3>1. pc[w] # "done" \/ Still(w) BY DEF Grows
    <3>2. pc'[w] # "idle" /\ tok'[w] = tok[w] /\ fam'[w] = fam[w] BY <2>2 DEF Grows
    <3>3. /\ pc'[w] \in BulkPC => pc[w] \in BulkPC
          /\ pc[w] \in BulkPC => pc'[w] \in BulkPC \cup {"done"}
          /\ pc'[w] \in PresentedPC => pc[w] \in PresentedPC
          /\ result'[w] # result[w] => pc'[w] = "done"
      BY <2>2, Flow
    <3>4. CASE pc[w] # "done"
      <4>1. result[w] = "none" BY <3>4 DEF Bookkeeping
      <4>2. tok'[w] # w => tok[w] \in Handed /\ fam'[w] = fam[tok[w]]
        BY <3>2 DEF Bookkeeping
      <4>3. tok'[w] # w => \E t \in Handed : tok'[w] = t /\ fam'[w] = fam[t]
        BY <3>2, <4>2
      <4>4. /\ pc'[w] \in {"idle"} \cup BulkPC => fam'[w] = Nobody
            /\ pc'[w] \notin {"idle", "done"} \cup BulkPC => fam'[w] \in Families
        BY <2>2, <3>2, <3>3, <3>4 DEF Bookkeeping
      <4>5. pc'[w] \in PresentedPC => tok'[w] # w BY <3>2, <3>3 DEF Bookkeeping
      <4> QED BY <3>2, <3>3, <4>1, <4>3, <4>4, <4>5
    <3> QED BY <2>1, <3>1, <3>4
  <2>3. CASE Acts(w) /\ pc[w] = "idle"
    <3>1. Call(w) BY <2>3, Arrives
    <3>2. result'[w] = result[w] /\ result[w] = "none" /\ fam[w] = Nobody /\ tok[w] = w
      BY <2>3, <3>1, Arrival DEF Bookkeeping
    <3>3. CASE pc'[w] = "set" /\ tok'[w] = w /\ fam'[w] \in Families
      BY <3>2, <3>3 DEF BulkPC, PresentedPC, ConsumePC, DeletePC, InspectPC
    <3>4. CASE pc'[w] \in {"get", "inspect"}
               /\ \E t \in Handed : t # w /\ tok'[w] = t /\ fam'[w] = fam[t]
      BY <3>2, <3>4 DEF BulkPC, Bookkeeping
    <3>5. CASE pc'[w] = "bulkRead" /\ tok'[w] = tok[w] /\ fam'[w] = fam[w]
      BY <3>2, <3>5 DEF BulkPC, PresentedPC, ConsumePC, DeletePC, InspectPC
    <3> QED BY <3>1, <3>3, <3>4, <3>5, Arrival
  <2> QED BY <2>1, <2>2, <2>3, OneActs
<1>2. \A t \in Handed : t \in Handed' /\ fam'[t] = fam[t] BY HandedStay DEF Still
<1>3. ASSUME NEW w \in Workers, tok'[w] # w
      PROVE  tok'[w] \in Handed' /\ fam'[tok'[w]] = fam'[w]
  BY <1>1, <1>2, <1>3
<1>4. ASSUME NEW t \in Handed' \cup members' PROVE fam'[t] \in Families
  <2>1. t \in Workers BY <1>4, TypeNext DEF Handed, TypeOK
  <2>2. CASE t \in Handed BY <1>2, <2>2 DEF Bookkeeping
  <2>3. CASE t \in members
    BY <2>1, <2>3 DEF Bookkeeping, JoinedPC, Grows
  <2>4. CASE t \in Handed' /\ t \notin Handed
    <3>1. result'[t] = "ok" /\ result[t] # "ok" BY <2>1, <2>4 DEF Handed
    <3>2. Acts(t) BY <2>1, <3>1, OneActs DEF Still
    <3>3. pc[t] = "member" BY <2>1, <3>1, <3>2, HandedOut
    <3> QED BY <2>1, <3>3 DEF Bookkeeping, BulkPC, Grows
  <2>5. CASE t \in members' /\ t \notin members
    <3>1. pc[t] = "member" BY <2>1, <2>5, Gains
    <3> QED BY <2>1, <3>1 DEF Bookkeeping, BulkPC, Grows
  <2> QED BY <1>4, <2>2, <2>3, <2>4, <2>5
<1>5. ASSUME NEW t \in active'
      PROVE  pc'[t] \in {"subject", "client", "member"} \cup JoinedPC
  <2>1. t \in Workers BY <1>5, TypeNext DEF TypeOK
  <2>2. CASE t \notin active BY <1>5, <2>1, <2>2, Gains
  <2>3. CASE t \in active
    <3>1. pc[t] \in {"subject", "client", "member"} \cup JoinedPC BY <2>3 DEF Bookkeeping
    <3>2. CASE pc[t] \in JoinedPC BY <2>1, <3>2 DEF Grows
    <3>3. CASE pc[t] \in {"subject", "client", "member"}
      BY <2>1, <3>3, OneActs, Flow DEF Still
    <3> QED BY <3>1, <3>2, <3>3
  <2> QED BY <2>2, <2>3
<1>6. ASSUME NEW t \in members' \cup leafed' PROVE pc'[t] \in JoinedPC
  <2>1. t \in Workers BY <1>6, TypeNext DEF TypeOK
  <2>2. CASE t \in members \cup leafed BY <2>1, <2>2 DEF Bookkeeping, Grows
  <2>3. CASE t \notin members \cup leafed BY <1>6, <2>1, <2>3, Gains
  <2> QED BY <2>2, <2>3
<1>7. expired' \subseteq Handed'
  <2> SUFFICES ASSUME NEW t \in expired' PROVE t \in Handed' OBVIOUS
  <2>1. t \in Workers BY TypeNext DEF TypeOK
  <2>2. t \in Handed BY <2>1, Gains DEF Bookkeeping
  <2> QED BY <2>2, <1>2
<1> QED BY <1>1, <1>3, <1>4, <1>5, <1>6, <1>7 DEF Bookkeeping

\* Only a cleanup takes a token out of its family's set.
LEMMA Loses ==
    ASSUME TypeOK, [Next]_vars, NEW t \in members, t \notin members'
    PROVE  \E w \in Workers : pc[w] = "srem" /\ cur[w] = t /\ active' = active
<1>1. CASE \E w \in Workers : CleanMember(w) BY <1>1 DEF CleanMember
<1>2. CASE ~ \E w \in Workers : CleanMember(w)
  <2>1. \A w \in Workers : Expire(w) \/ Evict(w) \/ Quiescent \/ UNCHANGED vars => members' = members
    BY TimeStill
  <2>2. ASSUME NEW w \in Workers, Acts(w) PROVE members \subseteq members'
    BY <1>2, <2>2 DEF Acts, Call, Login, Refresh, Revoke, BulkDelete, Present, Consume, Get,
       CheckBefore, PrepareConsumeMarker, GetDel, CheckAfter, ConsumedFamily, HandlerVerdict,
       Issue, SetActive, IndexAdd, AddFamilyMember, UndoIssue, DeleteFamily, FamilyExists,
       MarkFamilyRevoked, FamilyTokens, CleanKey, CleanMarker, InspectStep, Inspect,
       InspectCheck, InspectCollect, Bulk, BulkRead, BulkKey, BulkMarker, BulkIndex, Fault,
       Abort, Skip, GetDelRetried, AddFamilyMemberFails, redis
  <2>3. t \in Workers BY DEF TypeOK
  <2> QED BY <2>1, <2>2, <2>3 DEF Next, Acts
<1> QED BY <1>1, <1>2

\* How a cleanup moves: snapshot, then key, marker and member of each token.
LEMMA CleanActs ==
    ASSUME TypeOK, NEW w \in Workers, Acts(w), pc'[w] \in CleanPC
    PROVE  /\ fam' = fam /\ tomb' = tomb
           /\ \/ /\ pc[w] = "snapshot" /\ pc'[w] = "delKey" /\ members' = members
                 /\ todo'[w] \cup {cur'[w]} = {t \in members : fam[t] = fam[w]}
              \/ /\ pc[w] = "srem" /\ pc'[w] = "delKey" /\ members' = members \ {cur[w]}
                 /\ todo'[w] \cup {cur'[w]} = todo[w]
              \/ /\ pc[w] \in {"delKey", "delMark"} /\ members' = members
                 /\ todo' = todo /\ cur' = cur
                 /\ pc[w] = "delKey" => cur[w] \notin active'
                 /\ pc[w] = "delMark" => active' = active
<1> USE DEF TypeOK, CleanPC
<1>1. CASE FamilyTokens(w)
  <2>1. PICK rest : rest = {t \in members : fam[t] = fam[w]} OBVIOUS
  <2>2. NextToken(w, rest, "delKey", Finish(w, "revoked")) BY <1>1, <2>1 DEF FamilyTokens
  <2>3. pc'[w] = "delKey" /\ todo'[w] \cup {cur'[w]} = rest
    BY <2>2 DEF NextToken, Goto, Finish
  <2> QED BY <1>1, <2>1, <2>3 DEF FamilyTokens, redis
<1>2. CASE CleanMember(w)
  <2>1. NextToken(w, todo[w], "delKey", Finish(w, "revoked")) BY <1>2 DEF CleanMember
  <2>2. pc'[w] = "delKey" /\ todo'[w] \cup {cur'[w]} = todo[w]
    BY <2>1 DEF NextToken, Goto, Finish
  <2> QED BY <1>2, <2>2 DEF CleanMember
<1>3. CASE CleanKey(w) \/ CleanMarker(w)
  BY <1>3 DEF CleanKey, CleanMarker, local
<1>4. FamilyTokens(w) \/ CleanMember(w) \/ CleanKey(w) \/ CleanMarker(w)
  <2> USE DEF Goto, Finish
  <2>1. ~Call(w) BY DEF Call, Login, Refresh, Revoke, BulkDelete, Present
  <2>2. ~Consume(w)
    BY DEF Consume, Get, CheckBefore, PrepareConsumeMarker, GetDel, CheckAfter,
           ConsumedFamily, HandlerVerdict
  <2>3. ~Issue(w) BY DEF Issue, SetActive, IndexAdd, AddFamilyMember, UndoIssue, Indexes
  <2>4. ~InspectStep(w) BY DEF InspectStep, Inspect, InspectCheck, InspectCollect
  <2>5. ~Bulk(w) BY DEF Bulk, BulkRead, BulkKey, BulkMarker, BulkIndex, NextToken
  <2>6. ~Fault(w)
    BY DEF Fault, Abort, Skip, GetDelRetried, AddFamilyMemberFails, NextToken
  <2>7. ~FamilyExists(w) /\ ~MarkFamilyRevoked(w) BY DEF FamilyExists, MarkFamilyRevoked
  <2> QED BY <2>1, <2>2, <2>3, <2>4, <2>5, <2>6, <2>7 DEF Acts, DeleteFamily
<1> QED BY <1>1, <1>2, <1>3, <1>4

\* The snapshot is taken after the tombstone.
LEMMA TombstoneFirst ==
    ASSUME TypeOK, NEW w \in Workers, Acts(w), pc'[w] = "snapshot"
    PROVE  fam'[w] \in tomb'
<1> USE DEF TypeOK, Goto, Finish
<1>1. ~Call(w) BY DEF Call, Login, Refresh, Revoke, BulkDelete, Present
<1>2. ~Consume(w)
  BY DEF Consume, Get, CheckBefore, PrepareConsumeMarker, GetDel, CheckAfter,
         ConsumedFamily, HandlerVerdict
<1>3. ~Issue(w) BY DEF Issue, SetActive, IndexAdd, AddFamilyMember, UndoIssue, Indexes
<1>4. ~InspectStep(w) BY DEF InspectStep, Inspect, InspectCheck, InspectCollect
<1>5. ~Bulk(w) BY DEF Bulk, BulkRead, BulkKey, BulkMarker, BulkIndex, NextToken
<1>6. ~Fault(w) BY DEF Fault, Abort, Skip, GetDelRetried, AddFamilyMemberFails, NextToken
<1>7. MarkFamilyRevoked(w)
  <2>1. DeleteFamily(w) BY <1>1, <1>2, <1>3, <1>4, <1>5, <1>6 DEF Acts
  <2> QED BY <2>1 DEF DeleteFamily, FamilyExists, FamilyTokens, CleanKey, CleanMarker,
                      CleanMember, NextToken
<1> QED BY <1>7 DEF MarkFamilyRevoked, local

\* A DeleteFamily ends when it finds nothing, or nothing more, to clean up.
LEMMA EndsRevoked ==
    ASSUME TypeOK, NEW w \in Workers, Acts(w), result'[w] = "revoked", result[w] # "revoked"
    PROVE  /\ fam' = fam /\ tomb' = tomb
           /\ \/ /\ pc[w] = "exists" /\ fam[w] \notin tomb
                 /\ \A t \in members : fam[t] # fam[w]
              \/ /\ pc[w] = "snapshot" /\ members' = members
                 /\ \A t \in members : fam[t] # fam[w]
              \/ pc[w] = "srem" /\ todo[w] = {} /\ members' = members \ {cur[w]}
<1> USE DEF TypeOK, Goto, Finish
<1>1. ~Call(w) BY DEF Call, Login, Refresh, Revoke, BulkDelete, Present
<1>2. ~Consume(w)
  BY DEF Consume, Get, CheckBefore, PrepareConsumeMarker, GetDel, CheckAfter,
         ConsumedFamily, HandlerVerdict
<1>3. ~Issue(w) BY DEF Issue, SetActive, IndexAdd, AddFamilyMember, UndoIssue, Indexes
<1>4. ~InspectStep(w) BY DEF InspectStep, Inspect, InspectCheck, InspectCollect
<1>5. ~Bulk(w) BY DEF Bulk, BulkRead, BulkKey, BulkMarker, BulkIndex, NextToken
<1>6. ~Fault(w) BY DEF Fault, Abort, Skip, GetDelRetried, AddFamilyMemberFails, NextToken
<1>7. FamilyExists(w) \/ FamilyTokens(w) \/ CleanMember(w)
  <2>1. DeleteFamily(w) BY <1>1, <1>2, <1>3, <1>4, <1>5, <1>6 DEF Acts
  <2> QED BY <2>1 DEF DeleteFamily, MarkFamilyRevoked, CleanKey, CleanMarker
<1>8. CASE FamilyExists(w)
  BY <1>8 DEF FamilyExists, FamilyRevoked, redis, local
<1>9. CASE FamilyTokens(w)
  <2>1. PICK rest : rest = {t \in members : fam[t] = fam[w]} OBVIOUS
  <2>2. NextToken(w, rest, "delKey", Finish(w, "revoked")) BY <1>9, <2>1 DEF FamilyTokens
  <2>3. rest = {} BY <2>2 DEF NextToken
  <2> QED BY <1>9, <2>1, <2>3 DEF FamilyTokens, redis
<1>10. CASE CleanMember(w)
  <2>1. NextToken(w, todo[w], "delKey", Finish(w, "revoked")) BY <1>10 DEF CleanMember
  <2>2. todo[w] = {} BY <2>1 DEF NextToken
  <2> QED BY <1>10, <2>2 DEF CleanMember
<1> QED BY <1>7, <1>8, <1>9, <1>10

\* A token a client holds leaves its set only with its family revoked.
LEMMA HandedJoinedNext ==
    ASSUME StoreInv, Grows, [Next]_vars PROVE HandedJoined'
<1>1. TypeOK /\ TypeOK' /\ Bookkeeping BY TypeNext DEF StoreInv
<1> SUFFICES ASSUME NEW t \in Handed'
             PROVE  t \in members' \/ (fam'[t] \in tomb' /\ t \notin active')
  BY DEF HandedJoined
<1>2. t \in Workers BY DEF Handed
<1>3. CASE t \notin Handed
  <2>1. result'[t] = "ok" /\ result[t] # "ok" BY <1>2, <1>3 DEF Handed
  <2>2. Acts(t) BY <1>1, <1>2, <2>1, OneActs DEF Still
  <2> QED BY <1>1, <1>2, <2>1, <2>2, HandedOut
<1>4. CASE t \in Handed
  <2>1. fam'[t] = fam[t] /\ pc[t] = "done" BY <1>1, <1>4, HandedStay DEF Still
  <2>2. t \in active' => t \in active BY <1>2, <2>1 DEF Grows, JoinedPC
  <2>3. CASE t \notin members
    BY <1>4, <2>1, <2>2, <2>3 DEF StoreInv, HandedJoined, Grows
  <2>4. CASE t \in members /\ t \notin members'
    <3>1. PICK w \in Workers : pc[w] = "srem" /\ cur[w] = t BY <1>1, <2>4, Loses
    <3>2. fam[t] = fam[w] /\ fam[w] \in tomb /\ t \notin active
      BY <3>1 DEF StoreInv, CleanupCovers, CleanPC
    <3> QED BY <2>1, <2>2, <3>2 DEF Grows
  <2> QED BY <2>3, <2>4
<1> QED BY <1>3, <1>4

\* A set only grows while its family is not revoked.
LEMMA RevokedSetsShrink ==
    ASSUME StoreInv, Grows, [Next]_vars, NEW t \in members', fam'[t] \in tomb
    PROVE  t \in members /\ fam'[t] = fam[t] /\ pc[t] \in JoinedPC
<1>1. TypeOK /\ TypeOK' /\ Bookkeeping BY TypeNext DEF StoreInv
<1>2. t \in Workers BY <1>1 DEF TypeOK
<1>3. t \in members BY <1>1, <1>2, Gains DEF Grows
<1> QED BY <1>1, <1>2, <1>3 DEF Bookkeeping, JoinedPC, Grows

\* Every step keeps what a cleanup covers.
LEMMA CleanupCoversNext ==
    ASSUME StoreInv, Grows, [Next]_vars PROVE CleanupCovers'
<1>1. TypeOK /\ TypeOK' /\ Bookkeeping BY TypeNext DEF StoreInv
<1> SUFFICES ASSUME NEW w \in Workers
             PROVE  /\ pc'[w] \in CleanPC \cup {"snapshot"} => fam'[w] \in tomb'
                    /\ pc'[w] \in CleanPC =>
                          /\ \A t \in todo'[w] \cup {cur'[w]} :
                                fam'[t] = fam'[w] /\ pc'[t] \in JoinedPC
                          /\ \A t \in members' :
                                fam'[t] = fam'[w] => t \in todo'[w] \cup {cur'[w]}
                    /\ pc'[w] \in {"delMark", "srem"} => cur'[w] \notin active'
  BY DEF CleanupCovers
<1>2. /\ pc[w] \in CleanPC \cup {"snapshot"} => fam[w] \in tomb /\ pc[w] # "idle"
      /\ pc[w] \in CleanPC =>
            /\ \A t \in todo[w] \cup {cur[w]} : fam[t] = fam[w] /\ pc[t] \in JoinedPC
            /\ \A t \in members : fam[t] = fam[w] => t \in todo[w] \cup {cur[w]}
      /\ pc[w] \in {"delMark", "srem"} => cur[w] \notin active
  BY DEF StoreInv, CleanupCovers, CleanPC
<1>3. \A t \in Workers : pc[t] \in JoinedPC =>
          /\ fam'[t] = fam[t] /\ pc'[t] \in JoinedPC /\ (t \in active' => t \in active)
  BY DEF Grows, JoinedPC
<1>4. todo[w] \subseteq Workers /\ cur[w] \in Workers BY <1>1 DEF TypeOK
<1>5. CASE Still(w)
  <2>1. CASE pc[w] \in CleanPC
    <3>1. fam[w] \in tomb /\ fam'[w] = fam[w] /\ tomb \subseteq tomb'
      BY <1>2, <1>5, <2>1 DEF Still, Grows
    <3>2. \A t \in members' : fam'[t] = fam[w] => t \in members /\ fam[t] = fam[w]
      BY <3>1, RevokedSetsShrink
    <3>3. \A t \in members' : fam'[t] = fam[w] => t \in todo[w] \cup {cur[w]}
      BY <1>2, <2>1, <3>2
    <3>4. \A t \in todo[w] \cup {cur[w]} : fam'[t] = fam[w] /\ pc'[t] \in JoinedPC
      BY <1>2, <1>3, <1>4, <2>1
    <3>5. pc[w] \in {"delMark", "srem"} => cur[w] \notin active'
      BY <1>2, <1>3, <1>4, <2>1
    <3> QED BY <1>5, <3>1, <3>3, <3>4, <3>5 DEF Still
  <2>2. CASE pc[w] \notin CleanPC
    BY <1>2, <1>5, <2>2 DEF Still, Grows, CleanPC
  <2> QED BY <2>1, <2>2
<1>6. CASE Acts(w) /\ pc'[w] \in CleanPC
  <2>1. fam' = fam /\ tomb' = tomb /\ pc[w] \in CleanPC \cup {"snapshot"}
    BY <1>1, <1>6, CleanActs DEF CleanPC
  <2>2. CASE pc[w] = "snapshot"
    <3>1. /\ pc'[w] = "delKey" /\ members' = members
          /\ todo'[w] \cup {cur'[w]} = {t \in members : fam[t] = fam[w]}
      BY <1>1, <1>6, <2>2, CleanActs
    <3>2. \A t \in members : pc'[t] \in JoinedPC BY <1>1, <1>3 DEF Bookkeeping, TypeOK
    <3> QED BY <1>2, <2>1, <2>2, <3>1, <3>2
  <2>3. CASE pc[w] = "srem"
    <3>1. /\ pc'[w] = "delKey" /\ members' = members \ {cur[w]}
          /\ todo'[w] \cup {cur'[w]} = todo[w]
      BY <1>1, <1>6, <2>3, CleanActs
    <3>2. \A t \in todo[w] : fam[t] = fam[w] /\ pc'[t] \in JoinedPC
      BY <1>2, <1>3, <1>4, <2>3 DEF CleanPC
    <3>3. \A t \in members' : fam[t] = fam[w] => t \in todo[w]
      BY <1>2, <2>3, <3>1 DEF CleanPC
    <3> QED BY <1>2, <2>1, <2>3, <3>1, <3>2, <3>3
  <2>4. CASE pc[w] \in {"delKey", "delMark"}
    <3>1. /\ members' = members /\ todo' = todo /\ cur' = cur
          /\ pc[w] = "delKey" => cur[w] \notin active'
          /\ pc[w] = "delMark" => active' = active
      BY <1>1, <1>6, <2>4, CleanActs
    <3>2. \A t \in todo[w] \cup {cur[w]} : fam[t] = fam[w] /\ pc'[t] \in JoinedPC
      BY <1>2, <1>3, <1>4, <2>4 DEF CleanPC
    <3>3. \A t \in members : fam[t] = fam[w] => t \in todo[w] \cup {cur[w]}
      BY <1>2, <2>4 DEF CleanPC
    <3>4. cur[w] \notin active' BY <1>2, <2>4, <3>1
    <3> QED BY <1>2, <2>1, <2>4, <3>1, <3>2, <3>3, <3>4
  <2> QED BY <2>1, <2>2, <2>3, <2>4 DEF CleanPC
<1>7. CASE Acts(w) /\ pc'[w] \notin CleanPC
  BY <1>1, <1>7, TombstoneFirst DEF CleanPC
<1> QED BY <1>1, <1>5, <1>6, <1>7, OneActs

\* Every step keeps what a finished DeleteFamily left.
LEMMA RevokedEmptyNext ==
    ASSUME StoreInv, Grows, [Next]_vars PROVE RevokedEmpty'
<1>1. TypeOK /\ Bookkeeping BY DEF StoreInv
<1> SUFFICES ASSUME NEW w \in Workers, result'[w] = "revoked"
             PROVE  fam'[w] \in tomb' /\ \A t \in members' : fam'[t] # fam'[w]
  BY DEF RevokedEmpty
<1>2. CASE result[w] = "revoked"
  <2>1. pc[w] = "done" /\ fam[w] \in tomb /\ \A t \in members : fam[t] # fam[w]
    BY <1>1, <1>2 DEF Bookkeeping, StoreInv, RevokedEmpty
  <2>2. fam'[w] = fam[w] BY <2>1 DEF Grows
  <2> QED BY <2>1, <2>2, RevokedSetsShrink DEF Grows
<1>3. CASE result[w] # "revoked"
  <2>1. Acts(w) BY <1>1, <1>3, OneActs DEF Still
  <2>2. fam' = fam /\ tomb' = tomb BY <1>1, <1>3, <2>1, EndsRevoked
  <2>3. ~(/\ pc[w] = "exists" /\ fam[w] \notin tomb /\ \A t \in members : fam[t] # fam[w])
    <3>1. pc[w] = "exists" => tok[w] \in Handed /\ fam[tok[w]] = fam[w]
      BY <1>1 DEF Bookkeeping, PresentedPC, DeletePC
    <3> QED BY <3>1 DEF StoreInv, HandedJoined
  <2>4. pc[w] \in {"snapshot", "srem"} => fam[w] \in tomb
    BY DEF StoreInv, CleanupCovers, CleanPC
  <2>5. pc[w] = "srem" => \A t \in members : fam[t] = fam[w] => t \in todo[w] \cup {cur[w]}
    BY DEF StoreInv, CleanupCovers, CleanPC
  <2> QED BY <1>1, <1>3, <2>1, <2>2, <2>3, <2>4, <2>5, EndsRevoked
<1> QED BY <1>2, <1>3

\* StoreInv is an invariant.
LEMMA StoreAlways == Spec => []StoreInv
<1>1. Init => StoreInv
  <2> SUFFICES ASSUME Init PROVE StoreInv OBVIOUS
  <2>1. TypeOK BY RedisAssumption DEF Init, TypeOK, PCs, Results, Indexes
  <2>2. Bookkeeping
    BY DEF Init, Bookkeeping, BulkPC, PresentedPC, ConsumePC, DeletePC, InspectPC, Handed
  <2>3. HandedJoined /\ CleanupCovers /\ RevokedEmpty
    BY DEF Init, HandedJoined, Handed, CleanupCovers, CleanPC, RevokedEmpty
  <2> QED BY <2>1, <2>2, <2>3 DEF StoreInv
<1>2. StoreInv /\ [Next]_vars => StoreInv'
  <2> SUFFICES ASSUME StoreInv, [Next]_vars PROVE StoreInv' OBVIOUS
  <2>1. Grows BY StepGrows DEF StoreInv
  <2>2. TypeOK' /\ Bookkeeping' BY <2>1, TypeNext, BookkeepingNext DEF StoreInv
  <2>3. HandedJoined' /\ CleanupCovers' /\ RevokedEmpty'
    BY <2>1, HandedJoinedNext, CleanupCoversNext, RevokedEmptyNext
  <2> QED BY <2>2, <2>3 DEF StoreInv
<1> QED BY <1>1, <1>2, PTL DEF Spec

\* A DeleteFamily that ran to its end leaves no token of the family that a
\* client holds: the tombstone precedes the snapshot, and the member script
\* refuses a tombstoned family.
THEOREM RevokedFamilyDead == Spec => []DeletedIsDead
<1>1. StoreInv => DeletedIsDead
  BY DEF StoreInv, HandedJoined, RevokedEmpty, DeletedIsDead
<1> QED BY <1>1, StoreAlways, PTL

(***************************************************************************)
(* LateInv.                                                                *)
(***************************************************************************)
\* A check of the tombstone comes before the removal of a token, and the
\* removal before the grant.
LEMMA CheckedOnTheWay ==
    ASSUME TypeOK, NEW w \in Workers, Acts(w), pc[w] # "idle", FamilyRevoked(w),
           pc[w] \notin {"mark", "getdel", "check2", "grant"} \cup IssuePC
    PROVE  pc'[w] \notin {"mark", "getdel", "check2", "grant"} \cup IssuePC
<1> USE DEF TypeOK, IssuePC, Goto, Finish, NextToken
<1>1. ~Call(w) BY DEF Call, Login, Refresh, Revoke, BulkDelete, Present
<1>2. CASE Consume(w)
  BY <1>2 DEF Consume, Get, CheckBefore, PrepareConsumeMarker, GetDel, CheckAfter,
       ConsumedFamily, HandlerVerdict
<1>3. ~Issue(w) BY DEF Issue, SetActive, IndexAdd, AddFamilyMember, UndoIssue, Indexes
<1>4. CASE DeleteFamily(w)
  BY <1>4 DEF DeleteFamily, FamilyExists, MarkFamilyRevoked, FamilyTokens, CleanKey,
       CleanMarker, CleanMember
<1>5. CASE InspectStep(w) BY <1>5 DEF InspectStep, Inspect, InspectCheck, InspectCollect
<1>6. CASE Bulk(w) BY <1>6 DEF Bulk, BulkRead, BulkKey, BulkMarker, BulkIndex
<1>7. CASE Fault(w)
  BY <1>7 DEF Fault, Abort, Skip, GetDelRetried, AddFamilyMemberFails
<1> QED BY <1>1, <1>2, <1>3, <1>4, <1>5, <1>6, <1>7 DEF Acts

\* Every step keeps a late call from getting past its checks.
LEMMA LateNext ==
    ASSUME LateInv, [Next]_vars PROVE LateRefused'
<1>1. TypeOK /\ Bookkeeping /\ Grows BY StepGrows DEF LateInv, StoreInv
<1> SUFFICES ASSUME NEW w \in Workers, late'[w]
             PROVE  /\ fam'[w] \in tomb' /\ result'[w] # "ok"
                    /\ pc'[w] \notin {"idle", "mark", "getdel", "check2", "grant"} \cup IssuePC
  BY DEF LateRefused
<1>2. late[w] => /\ fam[w] \in tomb /\ result[w] # "ok"
                 /\ pc[w] \notin {"idle", "mark", "getdel", "check2", "grant"} \cup IssuePC
  BY DEF LateInv, LateRefused
<1>3. CASE Still(w) BY <1>1, <1>2, <1>3 DEF Still, Grows
<1>4. CASE Acts(w) /\ pc[w] = "idle"
  <2>1. Call(w) BY <1>4, Arrives
  <2>2. ~late[w] BY <1>2, <1>4
  <2>3. late' # late BY <2>2
  <2>4. /\ pc'[w] \in {"get", "inspect"} /\ result' = result
        /\ \E t \in Handed : fam'[w] = fam[t] /\ late'[w] = (fam[t] \in tomb)
    BY <1>1, <2>1, <2>3, Arrival
  <2>5. fam'[w] \in tomb BY <2>4
  <2>6. result[w] = "none" BY <1>1, <1>4 DEF Bookkeeping
  <2> QED BY <1>1, <2>4, <2>5, <2>6 DEF Grows, IssuePC
<1>5. CASE Acts(w) /\ pc[w] # "idle"
  <2>1. pc'[w] # "idle" /\ fam'[w] = fam[w] /\ late'[w] = late[w] BY <1>1, <1>5 DEF Grows
  <2>2. late[w] BY <2>1
  <2>3. fam'[w] \in tomb' BY <1>1, <1>2, <2>1, <2>2 DEF Grows
  <2>4. pc'[w] \notin {"mark", "getdel", "check2", "grant"} \cup IssuePC
    BY <1>1, <1>2, <1>5, <2>2, CheckedOnTheWay DEF FamilyRevoked
  <2>5. result'[w] # "ok"
    <3>1. pc[w] # "member" BY <1>2, <2>2 DEF IssuePC
    <3> QED BY <1>1, <1>2, <1>5, <2>2, <3>1, HandedOut
  <2> QED BY <2>1, <2>3, <2>4, <2>5
<1> QED BY <1>1, <1>3, <1>4, <1>5, OneActs

\* From the tombstone on no refresh that begins is served, however little of
\* the cleanup was done.
THEOREM TombstoneRefuses == Spec => []LateNeverServed
<1>1. Init => LateRefused BY DEF Init, LateRefused
<1>2. StoreInv /\ LateRefused /\ [Next]_vars => LateRefused' BY LateNext DEF LateInv
<1>3. LateRefused => LateNeverServed BY DEF LateRefused, LateNeverServed
<1> QED BY <1>1, <1>2, <1>3, StoreAlways, PTL DEF Spec

(***************************************************************************)
(* EvidenceInv.                                                            *)
(***************************************************************************)
\* Only an expiry, the cleanup of a revoked family, a collection or a bulk
\* revocation removes reuse evidence.
LEMMA MarkerLost ==
    ASSUME TypeOK, [Next]_vars, NEW t \in famof, t \notin famof'
    PROVE  \/ t \in expired
           \/ \E w \in Workers : \/ pc[w] = "delMark" /\ cur[w] = t
                                 \/ pc[w] = "gcMark" /\ tok[w] = t
                                 \/ pc[w] = "bulkMark"
<1>1. CASE UNCHANGED vars \/ Quiescent BY <1>1 DEF vars, Quiescent, redis
<1>2. ASSUME NEW u \in Workers, Expire(u) \/ Evict(u) PROVE t \in expired
  BY <1>2 DEF Expire, Evict
<1>3. ASSUME NEW w \in Workers, Acts(w)
      PROVE  CleanMarker(w) \/ InspectCollect(w) \/ BulkMarker(w)
  BY <1>3 DEF Acts, Call, Login, Refresh, Revoke, BulkDelete, Present, Consume, Get,
       CheckBefore, PrepareConsumeMarker, GetDel, CheckAfter, ConsumedFamily, HandlerVerdict,
       Issue, SetActive, IndexAdd, AddFamilyMember, UndoIssue, DeleteFamily, FamilyExists,
       MarkFamilyRevoked, FamilyTokens, CleanKey, CleanMember, InspectStep, Inspect,
       InspectCheck, Bulk, BulkRead, BulkKey, BulkIndex, Fault, Abort, Skip, GetDelRetried,
       AddFamilyMemberFails, redis
<1>4. ASSUME NEW w \in Workers, CleanMarker(w) \/ InspectCollect(w) \/ BulkMarker(w)
      PROVE  \/ pc[w] = "delMark" /\ cur[w] = t
             \/ pc[w] = "gcMark" /\ tok[w] = t
             \/ pc[w] = "bulkMark"
  BY <1>4 DEF CleanMarker, InspectCollect, BulkMarker
<1> QED BY <1>1, <1>2, <1>3, <1>4 DEF Next, Acts

\* A token is spent by a worker that removes it, its marker in place.
LEMMA SpentWhenRemoved ==
    ASSUME TypeOK, [Next]_vars, NEW t \in Workers, spentBy'[t] # spentBy[t]
    PROVE  \E w \in Workers : pc[w] = "getdel" /\ tok[w] = t /\ famof' = famof
<1>1. CASE UNCHANGED vars \/ Quiescent BY <1>1 DEF vars, Quiescent, ghosts
<1>2. ASSUME NEW u \in Workers, Expire(u) \/ Evict(u) PROVE FALSE
  BY <1>2 DEF Expire, Evict, ghosts
<1>3. ASSUME NEW w \in Workers, Acts(w) PROVE GetDel(w) \/ GetDelRetried(w)
  BY <1>3 DEF Acts, Call, Login, Refresh, Revoke, BulkDelete, Present, Consume, Get,
       CheckBefore, PrepareConsumeMarker, CheckAfter, ConsumedFamily, HandlerVerdict,
       Issue, SetActive, IndexAdd, AddFamilyMember, UndoIssue, DeleteFamily, FamilyExists,
       MarkFamilyRevoked, FamilyTokens, CleanKey, CleanMarker, CleanMember, InspectStep,
       Inspect, InspectCheck, InspectCollect, Bulk, BulkRead, BulkKey, BulkMarker, BulkIndex,
       Fault, Abort, Skip, AddFamilyMemberFails, ghosts
<1>4. ASSUME NEW w \in Workers, GetDel(w) \/ GetDelRetried(w)
      PROVE  pc[w] = "getdel" /\ tok[w] = t /\ famof' = famof
  BY <1>4 DEF GetDel, GetDelRetried, TypeOK
<1> QED BY <1>1, <1>2, <1>3, <1>4 DEF Next, Acts

\* A worker removes a token once it has written the marker, and collects one
\* once it has seen it expired.
LEMMA BeforeRemoval ==
    ASSUME TypeOK, NEW w \in Workers, Acts(w)
    PROVE  /\ pc'[w] = "getdel" => tok' = tok /\ tok[w] \in famof'
           /\ pc'[w] \in {"gcKey", "gcMark"} =>
                 /\ tok' = tok
                 /\ tok[w] \in expired \/ pc[w] \in {"gcKey", "gcMark"}
<1> USE DEF TypeOK, Goto, Finish, NextToken
<1>1. CASE Call(w) BY <1>1 DEF Call, Login, Refresh, Revoke, BulkDelete, Present
<1>2. CASE Consume(w)
  BY <1>2 DEF Consume, Get, CheckBefore, PrepareConsumeMarker, GetDel, CheckAfter,
       ConsumedFamily, HandlerVerdict, local
<1>3. CASE Issue(w) BY <1>3 DEF Issue, SetActive, IndexAdd, AddFamilyMember, UndoIssue, Indexes
<1>4. CASE DeleteFamily(w)
  BY <1>4 DEF DeleteFamily, FamilyExists, MarkFamilyRevoked, FamilyTokens, CleanKey,
       CleanMarker, CleanMember
<1>5. CASE InspectStep(w)
  BY <1>5 DEF InspectStep, Inspect, InspectCheck, InspectCollect, local
<1>6. CASE Bulk(w) BY <1>6 DEF Bulk, BulkRead, BulkKey, BulkMarker, BulkIndex
<1>7. CASE Fault(w)
  BY <1>7 DEF Fault, Abort, Skip, GetDelRetried, AddFamilyMemberFails
<1> QED BY <1>1, <1>2, <1>3, <1>4, <1>5, <1>6, <1>7 DEF Acts

\* A marker in place stays while the token lives and its family or index is
\* not revoked.
LEMMA EvidenceStays ==
    ASSUME StoreInv, MarkedFirst, Grows, [Next]_vars, NEW t \in Workers,
           t \in famof \cup expired \/ fam[t] \in tomb \/ Bulked, pc[t] = "done"
    PROVE  t \in famof' \cup expired' \/ fam'[t] \in tomb' \/ Bulked'
<1>1. TypeOK /\ Bookkeeping BY DEF StoreInv
<1>2. Bulked => Bulked' BY DEF Bulked, Grows
<1>3. expired \subseteq expired' /\ tomb \subseteq tomb' /\ fam'[t] = fam[t]
  BY DEF Grows
<1>4. CASE t \in famof /\ t \notin famof'
  <2>1. CASE \E w \in Workers : pc[w] = "delMark" /\ cur[w] = t
    <3>1. fam[t] \in tomb BY <2>1 DEF StoreInv, CleanupCovers, CleanPC
    <3> QED BY <1>3, <3>1
  <2>2. CASE \E w \in Workers : pc[w] = "gcMark" /\ tok[w] = t
    <3>1. t \in expired BY <2>2 DEF MarkedFirst
    <3> QED BY <1>3, <3>1
  <2>3. CASE \E w \in Workers : pc[w] = "bulkMark"
    <3>1. Bulked BY <1>1, <2>3 DEF Bulked, Bookkeeping, BulkPC
    <3> QED BY <1>2, <3>1
  <2> QED BY <1>1, <1>3, <1>4, <2>1, <2>2, <2>3, MarkerLost
<1> QED BY <1>2, <1>3, <1>4

\* Every step keeps the evidence.
LEMMA EvidenceNext ==
    ASSUME EvidenceInv, [Next]_vars PROVE MarkedFirst' /\ ReuseEvidence'
<1>1. TypeOK /\ Bookkeeping /\ Grows /\ StoreInv /\ MarkedFirst
  BY StepGrows DEF EvidenceInv, StoreInv
<1>2. \A t \in Workers : t \in expired => t \in expired' BY <1>1 DEF Grows
<1>3. ASSUME NEW w \in Workers, pc'[w] = "getdel"
      PROVE  tok'[w] \in famof' \cup expired' \/ fam'[tok'[w]] \in tomb' \/ Bulked'
  <2>1. CASE Still(w)
    <3>1. PICK t \in Workers : t = tok[w] BY <1>1 DEF TypeOK
    <3>2. pc[w] = "getdel" /\ tok'[w] = t BY <1>3, <2>1, <3>1 DEF Still
    <3>3. t \in famof \cup expired \/ fam[t] \in tomb \/ Bulked
      BY <1>1, <3>1, <3>2 DEF MarkedFirst
    <3>4. t \in Handed BY <1>1, <3>1, <3>2 DEF Bookkeeping, PresentedPC, ConsumePC
    <3>5. pc[t] = "done" BY <1>1, <3>4, HandedStay
    <3> QED BY <1>1, <3>2, <3>3, <3>5, EvidenceStays
  <2>2. CASE Acts(w) BY <1>1, <1>3, <2>2, BeforeRemoval
  <2> QED BY <1>1, <2>1, <2>2, OneActs
<1>4. ASSUME NEW w \in Workers, pc'[w] \in {"gcKey", "gcMark"} PROVE tok'[w] \in expired'
  <2>1. tok[w] \in expired => tok[w] \in expired' BY <1>1 DEF Grows
  <2>2. CASE Still(w) BY <1>1, <1>4, <2>1, <2>2 DEF Still, MarkedFirst
  <2>3. CASE Acts(w) BY <1>1, <1>4, <2>1, <2>3, BeforeRemoval DEF MarkedFirst
  <2> QED BY <1>1, <2>2, <2>3, OneActs
<1>5. ASSUME NEW t \in Workers, spentBy'[t] \in Workers
      PROVE  /\ t \in Handed'
             /\ t \in famof' \cup expired' \/ fam'[t] \in tomb' \/ Bulked'
  <2>1. t \in Handed /\ (t \in famof \cup expired \/ fam[t] \in tomb \/ Bulked)
    <3>1. CASE spentBy'[t] # spentBy[t]
      <4>1. PICK w \in Workers : pc[w] = "getdel" /\ tok[w] = t BY <1>1, <3>1, SpentWhenRemoved
      <4> QED BY <1>1, <4>1 DEF MarkedFirst, Bookkeeping, PresentedPC, ConsumePC
    <3>2. CASE spentBy'[t] = spentBy[t]
      BY <1>1, <1>5, <3>2 DEF EvidenceInv, MarkedFirst, ReuseEvidence
    <3> QED BY <3>1, <3>2
  <2>2. pc[t] = "done" /\ t \in Handed' BY <1>1, <2>1, HandedStay
  <2> QED BY <1>1, <2>1, <2>2, EvidenceStays
<1> QED BY <1>3, <1>4, <1>5 DEF MarkedFirst, ReuseEvidence

\* A token that a Consume removed leaves reuse evidence as long as it would
\* have lived, however the call was cut short, unless its family or its whole
\* index is revoked.
THEOREM EvidenceKept == Spec => []ReuseEvidence
<1>1. Init => MarkedFirst /\ ReuseEvidence
  BY RedisAssumption DEF Init, MarkedFirst, ReuseEvidence
<1>2. StoreInv /\ MarkedFirst /\ ReuseEvidence /\ [Next]_vars => MarkedFirst' /\ ReuseEvidence'
  BY EvidenceNext DEF EvidenceInv
<1> QED BY <1>1, <1>2, StoreAlways, PTL DEF Spec

(***************************************************************************)
(* ChainInv.  For a family, a step is a join, a take, or neither.          *)
(***************************************************************************)
\* The member script of w's Issue adds its token to the family's set.
Joins(w) ==
    /\ pc[w] = "member" /\ fam[w] \notin tomb
    /\ members' = members \cup {w} /\ leafed' = leafed \cup ({w} \cap active)
    /\ UNCHANGED <<active, tomb, expired, tok, fam, spentBy>>
    /\ pc'[w] \in JoinedPC /\ \A q \in Workers \ {w} : pc'[q] = pc[q]

\* The GETDEL of w returns a live token.
Takes(w) ==
    /\ pc[w] = "getdel" /\ tok[w] \in active /\ tok[w] \notin expired
    /\ active' = active \ {tok[w]} /\ spentBy' = [spentBy EXCEPT ![tok[w]] = w]
    /\ UNCHANGED <<members, tomb, expired, tok, fam, leafed>>
    /\ pc'[w] = "check2" /\ \A q \in Workers \ {w} : pc'[q] = pc[q]

\* No token joins a set and no rotation begins.
Rests ==
    /\ members' \subseteq members /\ leafed' = leafed
    /\ \A q \in Workers : pc'[q] \in TakenPC /\ tok'[q] # q => pc[q] \in TakenPC

\* A rotation begins with GETDEL and goes on to Issue.
LEMMA TakenFlow ==
    ASSUME TypeOK, Bookkeeping, NEW w \in Workers, Acts(w), ~Takes(w),
           pc'[w] \in TakenPC, tok'[w] # w
    PROVE  pc[w] \in TakenPC
<1> USE DEF TypeOK, TakenPC, MintPC, Goto, Finish, NextToken
<1>1. CASE Call(w)
  <2>1. ~Login(w) BY DEF Login
  <2> QED BY <1>1, <2>1 DEF Call, Refresh, Revoke, BulkDelete, Present
<1>2. CASE GetDel(w)
  BY <1>2, OthersStill DEF GetDel, Takes, local
<1>3. CASE Consume(w) /\ ~GetDel(w)
  BY <1>3 DEF Consume, Get, CheckBefore, PrepareConsumeMarker, CheckAfter,
       ConsumedFamily, HandlerVerdict
<1>4. CASE Issue(w) BY <1>4 DEF Issue, SetActive, IndexAdd, AddFamilyMember, UndoIssue, Indexes
<1>5. CASE DeleteFamily(w)
  BY <1>5 DEF DeleteFamily, FamilyExists, MarkFamilyRevoked, FamilyTokens, CleanKey,
       CleanMarker, CleanMember
<1>6. CASE InspectStep(w) BY <1>6 DEF InspectStep, Inspect, InspectCheck, InspectCollect
<1>7. CASE Bulk(w) BY <1>7 DEF Bulk, BulkRead, BulkKey, BulkMarker, BulkIndex
<1>8. CASE Fault(w)
  BY <1>8 DEF Fault, Abort, Skip, GetDelRetried, AddFamilyMemberFails
<1> QED BY <1>1, <1>2, <1>3, <1>4, <1>5, <1>6, <1>7, <1>8 DEF Acts

\* A token joins its family's set by the member script.
LEMMA JoinedBy ==
    ASSUME TypeOK, NEW w \in Workers, Acts(w), ~Joins(w)
    PROVE  members' \subseteq members /\ leafed' = leafed
<1>1. \A q \in Workers \ {w} : pc'[q] = pc[q] BY OthersStill DEF Still
<1>2. CASE AddFamilyMember(w)
  <2>1. CASE FamilyRevoked(w) BY <1>2, <2>1 DEF AddFamilyMember
  <2>2. CASE ~FamilyRevoked(w)
    <3>1. pc[w] = "member" /\ fam[w] \notin tomb BY <1>2, <2>2 DEF AddFamilyMember, FamilyRevoked
    <3>2. members' = members \cup {w} /\ leafed' = leafed \cup ({w} \cap active)
      BY <1>2, <2>2 DEF AddFamilyMember
    <3>3. UNCHANGED <<active, tomb, expired, tok, fam, spentBy>>
      BY <1>2 DEF AddFamilyMember, local
    <3>4. pc'[w] \in JoinedPC BY <1>2, <2>2 DEF AddFamilyMember, Finish, TypeOK, JoinedPC
    <3> QED BY <1>1, <3>1, <3>2, <3>3, <3>4 DEF Joins
  <2> QED BY <2>1, <2>2
<1>3. CASE AddFamilyMemberFails(w)
  <2>1. CASE UNCHANGED <<members, leafed>> BY <2>1
  <2>2. CASE ~UNCHANGED <<members, leafed>>
    <3>1. pc[w] = "member" /\ fam[w] \notin tomb
      BY <1>3, <2>2 DEF AddFamilyMemberFails, FamilyRevoked
    <3>2. members' = members \cup {w} /\ leafed' = leafed \cup ({w} \cap active)
      BY <1>3, <2>2 DEF AddFamilyMemberFails
    <3>3. UNCHANGED <<active, tomb, expired, tok, fam, spentBy>>
      BY <1>3 DEF AddFamilyMemberFails, local
    <3>4. pc'[w] \in JoinedPC BY <1>3 DEF AddFamilyMemberFails, Goto, TypeOK, JoinedPC
    <3> QED BY <1>1, <3>1, <3>2, <3>3, <3>4 DEF Joins
  <2> QED BY <2>1, <2>2
<1>4. CASE ~AddFamilyMember(w) /\ ~AddFamilyMemberFails(w)
  BY <1>4 DEF Acts, Call, Login, Refresh, Revoke, BulkDelete, Present, Consume, Get,
       CheckBefore, PrepareConsumeMarker, GetDel, CheckAfter, ConsumedFamily, HandlerVerdict,
       Issue, SetActive, IndexAdd, UndoIssue, DeleteFamily, FamilyExists, MarkFamilyRevoked,
       FamilyTokens, CleanKey, CleanMarker, CleanMember, InspectStep, Inspect, InspectCheck,
       InspectCollect, Bulk, BulkRead, BulkKey, BulkMarker, BulkIndex, Fault, Abort, Skip,
       GetDelRetried, redis, ghosts
<1> QED BY <1>2, <1>3, <1>4

\* Every step is one of the three.
LEMMA StepKind ==
    ASSUME TypeOK, Bookkeeping, [Next]_vars
    PROVE  (\E w \in Workers : Joins(w) \/ Takes(w)) \/ Rests
<1>1. ASSUME NEW t \in Workers, Expire(t) \/ Evict(t) \/ Quiescent \/ UNCHANGED vars
      PROVE  Rests
  BY <1>1, TimeStill DEF Rests
<1>2. ASSUME NEW w \in Workers, Acts(w), ~Joins(w), ~Takes(w) PROVE Rests
  <2>1. members' \subseteq members /\ leafed' = leafed BY <1>2, JoinedBy
  <2>2. ASSUME NEW q \in Workers, pc'[q] \in TakenPC, tok'[q] # q PROVE pc[q] \in TakenPC
    BY <1>2, <2>2, OthersStill, TakenFlow DEF Still
  <2> QED BY <2>1, <2>2 DEF Rests
<1>3. CASE Workers = {}
  BY <1>3 DEF Next, Rests, TypeOK, Quiescent, vars, redis, ghosts
<1> QED BY <1>1, <1>2, <1>3 DEF Next, Acts

\* A token is spent once, by the worker that removes its key.
LEMMA SpentByRemoval ==
    ASSUME TypeOK, [Next]_vars, NEW t \in Workers, spentBy'[t] # spentBy[t]
    PROVE  t \in active /\ t \notin active'
<1>1. PICK w \in Workers : GetDel(w) \/ GetDelRetried(w)
  <2>1. CASE UNCHANGED vars \/ Quiescent BY <2>1 DEF vars, Quiescent, ghosts
  <2>2. ASSUME NEW u \in Workers, Expire(u) \/ Evict(u) PROVE FALSE
    BY <2>2 DEF Expire, Evict, ghosts
  <2>3. ASSUME NEW w \in Workers, Acts(w) PROVE GetDel(w) \/ GetDelRetried(w)
    BY <2>3 DEF Acts, Call, Login, Refresh, Revoke, BulkDelete, Present, Consume, Get,
       CheckBefore, PrepareConsumeMarker, CheckAfter, ConsumedFamily, HandlerVerdict,
       Issue, SetActive, IndexAdd, AddFamilyMember, UndoIssue, DeleteFamily, FamilyExists,
       MarkFamilyRevoked, FamilyTokens, CleanKey, CleanMarker, CleanMember, InspectStep,
       Inspect, InspectCheck, InspectCollect, Bulk, BulkRead, BulkKey, BulkMarker, BulkIndex,
       Fault, Abort, Skip, AddFamilyMemberFails, ghosts
  <2> QED BY <2>1, <2>2, <2>3 DEF Next, Acts
<1> QED BY <1>1 DEF GetDel, GetDelRetried, TypeOK

\* Every step keeps a spent token gone and its spender known.
LEMMA SpentNext ==
    ASSUME ChainInv, Grows, [Next]_vars PROVE SpentOnce'
<1>1. StoreInv /\ TypeOK /\ Bookkeeping BY DEF ChainInv, StoreInv
<1>2. ASSUME NEW t \in Workers, spentBy'[t] # Nobody PROVE t \notin active' /\ pc'[t] = "done"
  <2>1. CASE spentBy'[t] = spentBy[t]
    BY <1>2, <2>1 DEF ChainInv, SpentOnce, Grows, JoinedPC, Still
  <2>2. CASE spentBy'[t] # spentBy[t]
    <3>1. t \notin active' BY <1>1, <2>2, SpentByRemoval
    <3>2. t \in Handed
      BY <1>1, <2>2, SpentWhenRemoved DEF Bookkeeping, PresentedPC, ConsumePC
    <3> QED BY <1>1, <3>1, <3>2, HandedStay DEF Still
  <2> QED BY <2>1, <2>2
<1>3. ASSUME NEW w \in Workers, pc[w] # "idle", tok[w] # w, pc[w] \in TakenPC \/ w \in leafed
      PROVE  spentBy'[tok[w]] = w
  <2>1. PICK t \in Workers : t = tok[w] BY <1>1 DEF TypeOK
  <2>2. spentBy[t] = w /\ t \notin active
    BY <1>3, <2>1, RedisAssumption DEF ChainInv, SpentOnce
  <2> QED BY <1>1, <2>1, <2>2, SpentByRemoval
<1>4. ASSUME NEW w \in Workers, tok'[w] # w, pc'[w] \in TakenPC \/ w \in leafed'
      PROVE  spentBy'[tok'[w]] = w
  <2>1. CASE pc[w] # "idle" /\ (pc[w] \in TakenPC \/ w \in leafed)
    BY <1>3, <1>4, <2>1 DEF Grows
  <2>2. CASE pc[w] \notin TakenPC /\ w \notin leafed
    <3>1. CASE \E q \in Workers : Joins(q)
      BY <1>4, <2>2, <3>1 DEF Joins, TakenPC, MintPC, JoinedPC
    <3>2. CASE \E q \in Workers : Takes(q)
      <4>1. PICK q \in Workers : Takes(q) BY <3>2
      <4>2. q = w BY <1>4, <2>2, <4>1 DEF Takes
      <4> QED BY <1>1, <4>1, <4>2 DEF Takes, TypeOK
    <3>3. ~Rests BY <1>4, <2>2 DEF Rests
    <3> QED BY <1>1, <3>1, <3>2, <3>3, StepKind
  <2>3. pc[w] = "idle" => pc[w] \notin TakenPC /\ w \notin leafed
    BY <1>1 DEF TakenPC, MintPC, Bookkeeping, JoinedPC
  <2> QED BY <2>1, <2>2, <2>3
<1> QED BY <1>2, <1>4 DEF SpentOnce

\* Every step keeps a login alone in its family until it has answered.
LEMMA LoginAloneNext ==
    ASSUME ChainInv, Grows, [Next]_vars PROVE LoginAlone'
<1>1. StoreInv /\ TypeOK /\ Bookkeeping BY DEF ChainInv, StoreInv
<1> SUFFICES ASSUME NEW w \in Workers, pc'[w] \in MintPC, tok'[w] = w,
                    NEW v \in Workers, v # w
             PROVE  fam'[v] # fam'[w]
  BY DEF LoginAlone
<1>2. CASE pc[w] = "idle"
  <2>1. Acts(w) BY <1>1, <1>2, OneActs DEF Still, MintPC
  <2>2. Call(w) BY <1>2, <2>1, Arrives
  <2>3. \A u \in Workers : fam[u] # fam'[w] BY <1>1, <2>2, Arrival DEF MintPC
  <2>4. fam'[v] = fam[v] BY <1>1, <2>1, OthersStill DEF Still
  <2> QED BY <2>3, <2>4
<1>3. CASE pc[w] # "idle"
  <2>1. tok[w] = w /\ fam'[w] = fam[w] BY <1>3 DEF Grows
  <2>2. pc[w] \in MintPC
    <3>1. CASE Still(w) BY <3>1 DEF Still
    <3>2. CASE Acts(w)
      <4>1. pc[w] \in MintPC \/ pc[w] = "grant"
        BY <1>1, <1>3, <3>2, Flow DEF MintPC
      <4>2. pc[w] # "grant" BY <1>1, <2>1 DEF Bookkeeping, PresentedPC
      <4> QED BY <4>1, <4>2
    <3> QED BY <1>1, <3>1, <3>2, OneActs
  <2>3. fam[w] \in Families /\ w \notin Handed
    BY <1>1, <2>2 DEF MintPC, Bookkeeping, BulkPC, Handed
  <2>4. \A u \in Workers : u # w => fam[u] # fam[w] BY <2>1, <2>2 DEF ChainInv, LoginAlone
  <2>5. CASE Still(v) \/ pc[v] # "idle" BY <2>1, <2>4, <2>5 DEF Still, Grows
  <2>6. CASE Acts(v) /\ pc[v] = "idle"
    <3>1. Call(v) BY <2>6, Arrives
    <3>2. Handed \subseteq Workers BY DEF Handed
    <3>3. fam'[v] # fam[w] BY <1>1, <2>3, <2>4, <3>1, <3>2, Arrival
    <3> QED BY <2>1, <3>3
  <2> QED BY <1>1, <2>5, <2>6, OneActs
<1> QED BY <1>2, <1>3

\* A presented token of a family that is not revoked is in its set.
LEMMA PresentedJoined ==
    ASSUME StoreInv, NEW w \in Workers, tok[w] # w, fam[w] \notin tomb
    PROVE  tok[w] \in members /\ fam[tok[w]] = fam[w] /\ pc[tok[w]] = "done"
BY DEF StoreInv, Bookkeeping, HandedJoined, Handed

\* What a family's holders are after a step that is no join and no take.
LEMMA HoldersRest ==
    ASSUME StoreInv, Grows, [Next]_vars, Rests, NEW f \in Families
    PROVE  Leaves(f)' \subseteq Leaves(f) /\ Rotating(f)' \subseteq Rotating(f)
<1>1. TypeOK /\ Bookkeeping BY DEF StoreInv
<1>2. Leaves(f)' \subseteq Leaves(f)
  <2> SUFFICES ASSUME NEW t \in Leaves(f)' PROVE t \in Leaves(f) OBVIOUS
  <2>1. t \in active' /\ t \in members' /\ fam'[t] = f /\ t \notin expired' BY DEF Leaves
  <2>2. t \in members /\ t \in Workers BY <1>1, <2>1 DEF Rests, TypeOK
  <2>3. pc[t] \in JoinedPC BY <1>1, <2>2 DEF Bookkeeping
  <2>4. t \in active /\ fam[t] = f BY <2>1, <2>2, <2>3 DEF Grows, JoinedPC
  <2> QED BY <2>1, <2>2, <2>4 DEF Leaves, Grows
<1>3. Rotating(f)' \subseteq Rotating(f)
  <2> SUFFICES ASSUME NEW q \in Rotating(f)' PROVE q \in Rotating(f) OBVIOUS
  <2>1. q \in Workers /\ tok'[q] # q /\ fam'[q] = f /\ pc'[q] \in TakenPC
    BY DEF Rotating, TakenPC, MintPC
  <2>2. pc[q] \in TakenPC BY <2>1 DEF Rests
  <2>3. tok[q] # q /\ fam[q] = f BY <2>1, <2>2 DEF Grows, TakenPC, MintPC
  <2> QED BY <2>1, <2>2, <2>3 DEF Rotating, TakenPC, MintPC
<1> QED BY <1>2, <1>3

\* After a join: the family's only holder is the token that joined, if any.
LEMMA HoldersJoin ==
    ASSUME ChainInv, NEW w \in Workers, Joins(w), NEW f \in Families
    PROVE  /\ f # fam[w] => Leaves(f)' = Leaves(f) /\ Rotating(f)' = Rotating(f)
           /\ f = fam[w] => /\ Rotating(f)' = {} /\ Leaves(f)' = {w} \cap active
                            /\ tok[w] = w => Leaves(f) = {} /\ Rotating(f) = {}
                                             /\ \A t \in members : fam[t] # f
                            /\ tok[w] # w => Leaves(f) = {} /\ Rotating(f) = {w}
<1>1. StoreInv /\ TypeOK /\ Bookkeeping BY DEF ChainInv, StoreInv
<1>2. /\ pc[w] = "member" /\ fam[w] \notin tomb /\ members' = members \cup {w}
      /\ active' = active /\ tomb' = tomb /\ expired' = expired /\ tok' = tok /\ fam' = fam
      /\ pc'[w] \in JoinedPC /\ \A q \in Workers : q # w => pc'[q] = pc[q]
  BY DEF Joins
<1>3. w \notin expired /\ w \notin members BY <1>1, <1>2 DEF Bookkeeping, Handed, JoinedPC
<1>4. pc'[w] \notin TakenPC BY <1>2 DEF JoinedPC, TakenPC, MintPC
<1>5. Rotating(f)' = Rotating(f) \ {w}
  BY <1>2, <1>4 DEF Rotating, TakenPC, MintPC
<1>6. Leaves(f)' = Leaves(f) \cup {t \in {w} \cap active : fam[w] = f}
  BY <1>2, <1>3 DEF Leaves
<1>7. ASSUME f # fam[w] PROVE Leaves(f)' = Leaves(f) /\ Rotating(f)' = Rotating(f)
  <2>1. w \notin Rotating(f) BY <1>7 DEF Rotating
  <2> QED BY <1>5, <1>6, <1>7, <2>1
<1>8. ASSUME f = fam[w], tok[w] = w
      PROVE  Leaves(f) = {} /\ Rotating(f) = {} /\ \A t \in members : fam[t] # f
  <2>1. \A v \in Workers : v # w => fam[v] # f
    BY <1>2, <1>8 DEF ChainInv, LoginAlone, MintPC
  <2>2. \A t \in members : fam[t] # f BY <1>1, <1>3, <2>1 DEF TypeOK
  <2>3. Leaves(f) = {} BY <2>2 DEF Leaves
  <2>4. Rotating(f) = {} BY <1>8, <2>1 DEF Rotating
  <2> QED BY <2>2, <2>3, <2>4
<1>9. ASSUME f = fam[w], tok[w] # w PROVE Leaves(f) = {} /\ Rotating(f) = {w}
  <2>1. w \in Rotating(f) BY <1>2, <1>9 DEF Rotating
  <2>2. \A a \in Leaves(f) \cup Rotating(f) : a = w
    BY <1>2, <1>9, <2>1 DEF ChainInv, OneHolder
  <2>3. w \notin Leaves(f) BY <1>3 DEF Leaves
  <2> QED BY <2>1, <2>2, <2>3
<1> QED BY <1>5, <1>6, <1>7, <1>8, <1>9

\* After a take: the rotation holds the family in its token's place.
LEMMA HoldersTake ==
    ASSUME ChainInv, NEW w \in Workers, Takes(w), NEW f \in Families \ tomb
    PROVE  /\ f # fam[w] => Leaves(f)' = Leaves(f) /\ Rotating(f)' = Rotating(f)
           /\ f = fam[w] => /\ Leaves(f) = {tok[w]} /\ Rotating(f) = {}
                            /\ Leaves(f)' = {} /\ Rotating(f)' = {w}
<1>1. StoreInv /\ TypeOK /\ Bookkeeping BY DEF ChainInv, StoreInv
<1>2. PICK t \in Workers : t = tok[w] BY <1>1 DEF TypeOK
<1>3. /\ pc[w] = "getdel" /\ t \in active /\ t \notin expired /\ active' = active \ {t}
      /\ members' = members /\ expired' = expired /\ tok' = tok /\ fam' = fam
      /\ pc'[w] = "check2" /\ \A q \in Workers : q # w => pc'[q] = pc[q]
  BY <1>2 DEF Takes
<1>4. tok[w] # w /\ fam[t] = fam[w]
  BY <1>1, <1>2, <1>3 DEF Bookkeeping, PresentedPC, ConsumePC
<1>5. ASSUME f # fam[w] PROVE Leaves(f)' = Leaves(f) /\ Rotating(f)' = Rotating(f)
  <2>1. Leaves(f)' = Leaves(f) BY <1>3, <1>4, <1>5 DEF Leaves
  <2>2. Rotating(f)' = Rotating(f) BY <1>3, <1>5 DEF Rotating
  <2> QED BY <2>1, <2>2
<1>6. ASSUME f = fam[w]
      PROVE  /\ Leaves(f) = {t} /\ Rotating(f) = {} /\ Leaves(f)' = {} /\ Rotating(f)' = {w}
  <2>1. t \in members BY <1>1, <1>2, <1>4, <1>6, PresentedJoined
  <2>2. t \in Leaves(f) BY <1>3, <1>4, <1>6, <2>1 DEF Leaves
  <2>3. \A a \in Leaves(f) \cup Rotating(f) : a = t BY <2>2 DEF ChainInv, OneHolder
  <2>4. t \notin Rotating(f) 
    BY <1>1, <1>2, <1>4, <1>6, PresentedJoined DEF Rotating
  <2>5. Leaves(f) = {t} /\ Rotating(f) = {} BY <2>2, <2>3, <2>4
  <2>6. Leaves(f)' = {} BY <1>3, <2>5 DEF Leaves
  <2>7. w \in Rotating(f)' BY <1>2, <1>3, <1>4, <1>6 DEF Rotating
  <2>8. \A q \in Rotating(f)' : q = w BY <1>3, <2>5 DEF Rotating
  <2> QED BY <2>5, <2>6, <2>7, <2>8
<1> QED BY <1>2, <1>5, <1>6

\* Every step keeps a family to one holder.
LEMMA OneHolderNext ==
    ASSUME ChainInv, Grows, [Next]_vars PROVE OneHolder'
<1>1. StoreInv /\ TypeOK /\ Bookkeeping BY DEF ChainInv, StoreInv
<1> SUFFICES ASSUME NEW f \in Families \ tomb'
             PROVE  \A a, b \in Leaves(f)' \cup Rotating(f)' : a = b
  BY DEF OneHolder
<1>2. f \in Families \ tomb BY DEF Grows
<1>3. \A a, b \in Leaves(f) \cup Rotating(f) : a = b BY <1>2 DEF ChainInv, OneHolder
<1>4. CASE Rests BY <1>1, <1>3, <1>4, HoldersRest
<1>5. ASSUME NEW w \in Workers, Joins(w)
      PROVE  \A a, b \in Leaves(f)' \cup Rotating(f)' : a = b
  BY <1>3, <1>5, HoldersJoin
<1>6. ASSUME NEW w \in Workers, Takes(w)
      PROVE  \A a, b \in Leaves(f)' \cup Rotating(f)' : a = b
  BY <1>2, <1>3, <1>6, HoldersTake
<1> QED BY <1>1, <1>4, <1>5, <1>6, StepKind

\* ChainInv is an invariant.
LEMMA ChainAlways == Spec => []ChainInv
<1>1. Init => OneHolder /\ LoginAlone /\ SpentOnce
  BY DEF Init, OneHolder, Leaves, Rotating, LoginAlone, MintPC, SpentOnce, TakenPC
<1>2. StoreInv /\ OneHolder /\ LoginAlone /\ SpentOnce /\ [Next]_vars
        => (OneHolder /\ LoginAlone /\ SpentOnce)'
  <2> SUFFICES ASSUME StoreInv, OneHolder, LoginAlone, SpentOnce, [Next]_vars
               PROVE  (OneHolder /\ LoginAlone /\ SpentOnce)'
    OBVIOUS
  <2>1. ChainInv /\ Grows BY StepGrows DEF ChainInv, StoreInv
  <2> QED BY <2>1, OneHolderNext, LoginAloneNext, SpentNext
<1> QED BY <1>1, <1>2, StoreAlways, PTL DEF Spec, ChainInv

(***************************************************************************)
(* The Redis store implements the chain of RefreshFamily.                  *)
(***************************************************************************)
\* The chain's view of a family is given by its one holder.
LEMMA ViewOfFamily ==
    ASSUME ChainInv, NEW f \in Families \ tomb
    PROVE  /\ \A t \in Leaves(f) : FamilyState(f) = "live" /\ FamilyLeaf(f) = t
           /\ \A w \in Rotating(f) :
                 FamilyState(f) = "rotating" /\ FamilyLeaf(f) = tok[w]
           /\ Leaves(f) \cup Rotating(f) = {} =>
                 /\ FamilyState(f) = IF \E t \in members : fam[t] = f THEN "spent" ELSE "unborn"
                 /\ FamilyLeaf(f) = None
           /\ Leaves(f) \cup Rotating(f) # {} => \E t \in members : fam[t] = f
           /\ Leaves(f) \cap Rotating(f) = {}
<1>1. StoreInv /\ TypeOK /\ Bookkeeping BY DEF ChainInv, StoreInv
<1>2. \A a, b \in Leaves(f) \cup Rotating(f) : a = b BY DEF ChainInv, OneHolder
<1>3. \A t \in Leaves(f) : t \in members /\ fam[t] = f BY DEF Leaves
<1>4. \A w \in Rotating(f) : tok[w] \in members /\ fam[tok[w]] = f
  BY <1>1, PresentedJoined DEF Rotating
<1>5. Leaves(f) \cap Rotating(f) = {}
  BY <1>1 DEF Bookkeeping, Leaves, Rotating, JoinedPC
<1>6. ASSUME NEW t \in Leaves(f) PROVE FamilyState(f) = "live" /\ FamilyLeaf(f) = t
  BY <1>2 DEF FamilyState, FamilyLeaf
<1>7. ASSUME NEW w \in Rotating(f)
      PROVE  FamilyState(f) = "rotating" /\ FamilyLeaf(f) = tok[w]
  <2>1. Leaves(f) = {} BY <1>2, <1>5
  <2>2. (CHOOSE q \in Rotating(f) : TRUE) = w BY <1>2
  <2> QED BY <2>1, <2>2 DEF FamilyState, FamilyLeaf
<1>8. ASSUME Leaves(f) \cup Rotating(f) = {}
      PROVE  /\ FamilyState(f) = IF \E t \in members : fam[t] = f THEN "spent" ELSE "unborn"
             /\ FamilyLeaf(f) = None
  BY <1>8 DEF FamilyState, FamilyLeaf
<1> QED BY <1>3, <1>4, <1>5, <1>6, <1>7, <1>8

\* A revoked family is spent.
LEMMA ViewOfRevoked ==
    \A f \in tomb : FamilyState(f) = "spent" /\ FamilyLeaf(f) = None
BY DEF FamilyState, FamilyLeaf

\* A token's successor is the one leaf whose Issue presented it.
LEMMA ViewOfSuccessor ==
    ASSUME ChainInv, NEW t \in Workers
    PROVE  /\ \A u \in leafed : u # t /\ tok[u] = t => SuccessorOf(t) = u
           /\ (\A u \in leafed : u = t \/ tok[u] # t) => SuccessorOf(t) = None
<1>1. \A u \in leafed : u # t /\ tok[u] = t => spentBy[t] = u
  BY DEF ChainInv, StoreInv, TypeOK, SpentOnce
<1>2. ASSUME NEW u \in leafed, u # t, tok[u] = t PROVE SuccessorOf(t) = u
  <2>1. \A v \in leafed : v # t /\ tok[v] = t => v = u BY <1>1, <1>2
  <2> QED BY <1>2, <2>1 DEF SuccessorOf
<1> QED BY <1>2 DEF SuccessorOf

\* The successors do not change where no new leaf presented the token.
LEMMA SuccessorsStay ==
    ASSUME ChainInv, ChainInv', Grows, NEW t \in Workers,
           \A u \in leafed' : u \in leafed \/ u = t \/ tok'[u] # t
    PROVE  SuccessorOf(t)' = SuccessorOf(t)
<1>1. \A u \in leafed : u \in leafed' /\ tok'[u] = tok[u]
  BY DEF ChainInv, StoreInv, TypeOK, Bookkeeping, JoinedPC, Grows
<1>2. \A u \in leafed' : u # t /\ tok'[u] = t => spentBy'[t] = u
  BY DEF ChainInv, StoreInv, TypeOK, SpentOnce
<1>3. CASE \E u \in leafed : u # t /\ tok[u] = t
  <2>1. PICK u \in leafed : u # t /\ tok[u] = t BY <1>3
  <2>2. SuccessorOf(t) = u BY <2>1, ViewOfSuccessor
  <2>3. \A v \in leafed' : v # t /\ tok'[v] = t => v = u BY <1>1, <1>2, <2>1
  <2>4. SuccessorOf(t)' = u BY <1>1, <2>1, <2>3 DEF SuccessorOf
  <2> QED BY <2>2, <2>4
<1>4. CASE \A u \in leafed : u = t \/ tok[u] # t
  <2>1. SuccessorOf(t) = None BY <1>4, ViewOfSuccessor
  <2>2. \A u \in leafed' : u = t \/ tok'[u] # t BY <1>1, <1>4
  <2>3. SuccessorOf(t)' = None BY <2>2 DEF SuccessorOf
  <2> QED BY <2>1, <2>3
<1> QED BY <1>3, <1>4

\* A family with a member keeps one until it is revoked, and a step that adds
\* none leaves a family without.
LEMMA MembersStay ==
    ASSUME StoreInv, Grows, [Next]_vars, NEW f \in Families \ tomb
    PROVE  /\ \A t \in members : fam[t] = f => t \in members' /\ fam'[t] = f
           /\ \A t \in members' : t \in members => fam'[t] = fam[t]
<1>1. TypeOK /\ Bookkeeping BY DEF StoreInv
<1>2. \A t \in members : fam'[t] = fam[t]
  BY <1>1 DEF TypeOK, Bookkeeping, JoinedPC, Grows
<1>3. ASSUME NEW t \in members, fam[t] = f PROVE t \in members'
  <2>1. ASSUME t \notin members' PROVE FALSE
    <3>1. PICK w \in Workers : pc[w] = "srem" /\ cur[w] = t BY <1>1, <2>1, Loses
    <3>2. fam[t] \in tomb BY <3>1 DEF StoreInv, CleanupCovers, CleanPC
    <3> QED BY <1>3, <3>2
  <2> QED BY <2>1
<1> QED BY <1>2, <1>3

\* A family whose holders and members stay is seen unchanged.
LEMMA FamilyStays ==
    ASSUME ChainInv, ChainInv', Grows, NEW f \in Families \ tomb', f \notin tomb,
           Leaves(f)' = Leaves(f), Rotating(f)' = Rotating(f),
           (\E t \in members' : fam'[t] = f) <=> (\E t \in members : fam[t] = f)
    PROVE  FamilyState(f)' = FamilyState(f) /\ FamilyLeaf(f)' = FamilyLeaf(f)
<1>1. FamilyState(f)' = FamilyState(f) BY DEF FamilyState
<1>2. \A w \in Rotating(f) : tok'[w] = tok[w] BY DEF Grows, Rotating
<1>3. \A a, b \in Leaves(f) \cup Rotating(f) : a = b BY DEF ChainInv, OneHolder
<1>4. ASSUME NEW t \in Leaves(f) PROVE FamilyLeaf(f)' = FamilyLeaf(f)
  <2>1. FamilyLeaf(f) = t BY ViewOfFamily
  <2>2. t \in Leaves(f)' /\ \A a \in Leaves(f)' : a = t BY <1>3
  <2>3. FamilyLeaf(f)' = t BY <2>2 DEF FamilyLeaf
  <2> QED BY <2>1, <2>3
<1>5. ASSUME NEW w \in Rotating(f) PROVE FamilyLeaf(f)' = FamilyLeaf(f)
  <2>1. FamilyLeaf(f) = tok[w] /\ Leaves(f) = {} BY <1>3, ViewOfFamily
  <2>2. w \in Rotating(f)' /\ \A a \in Rotating(f)' : a = w BY <1>3
  <2>3. tok'[w] = tok[w] BY <1>2
  <2>4. FamilyLeaf(f)' = tok'[w] BY <2>1, <2>2 DEF FamilyLeaf
  <2>5. FamilyLeaf(f)' = tok[w] BY <2>3, <2>4
  <2> QED BY <2>1, <2>5
<1>6. ASSUME Leaves(f) = {}, Rotating(f) = {} PROVE FamilyLeaf(f)' = FamilyLeaf(f)
  <2>1. FamilyLeaf(f) = None BY <1>6, ViewOfFamily
  <2>2. Leaves(f)' = {} /\ Rotating(f)' = {} BY <1>6
  <2>3. FamilyLeaf(f)' = None BY <2>2 DEF FamilyLeaf
  <2> QED BY <2>1, <2>3
<1> QED BY <1>1, <1>4, <1>5, <1>6

\* Where every family stays or ends, and no successor changes, the step is a
\* Spend of the chain or none of its own.
LEMMA EndsFamilies ==
    ASSUME \A f \in Families :
              \/ FamilyState(f)' = FamilyState(f) /\ FamilyLeaf(f)' = FamilyLeaf(f)
              \/ /\ FamilyState(f) \in {"unborn", "live", "rotating"}
                 /\ FamilyState(f)' = "spent" /\ FamilyLeaf(f)' = None,
           \A t \in Workers : SuccessorOf(t)' = SuccessorOf(t)
    PROVE  UNCHANGED Chain!vars \/ \E gone \in SUBSET Families : Chain!Spend(gone)
<1>1. PICK gone \in SUBSET Families : \A f \in Families : f \in gone <=>
         FamilyState(f) # "spent" /\ FamilyState(f)' = "spent"
  <2> DEFINE G == {f \in Families : FamilyState(f) # "spent" /\ FamilyState(f)' = "spent"}
  <2>1. G \in SUBSET Families OBVIOUS
  <2> QED BY <2>1
<1>2. \A f \in Families : f \notin gone =>
         FamilyState(f)' = FamilyState(f) /\ FamilyLeaf(f)' = FamilyLeaf(f)
  BY <1>1
<1>3. \A f \in gone : /\ FamilyState(f) \in {"unborn", "live", "rotating"}
                      /\ FamilyState(f)' = "spent" /\ FamilyLeaf(f)' = None
  BY <1>1
<1>4. CASE gone = {} BY <1>2, <1>4 DEF Chain!vars
<1>5. CASE gone # {}
  <2>1. Chain!Spend(gone) BY <1>1, <1>2, <1>3, <1>5 DEF Chain!Spend
  <2> QED BY <1>1, <2>1
<1> QED BY <1>4, <1>5

\* A step that is no join and no take ends families or is none of the chain's.
LEMMA ChainRest ==
    ASSUME ChainInv, ChainInv', Grows, [Next]_vars, Rests
    PROVE  UNCHANGED Chain!vars \/ \E gone \in SUBSET Families : Chain!Spend(gone)
<1>1. StoreInv /\ StoreInv' BY DEF ChainInv
<1>2. ASSUME NEW f \in Families
      PROVE  \/ FamilyState(f)' = FamilyState(f) /\ FamilyLeaf(f)' = FamilyLeaf(f)
             \/ /\ FamilyState(f) \in {"unborn", "live", "rotating"}
                /\ FamilyState(f)' = "spent" /\ FamilyLeaf(f)' = None
  <2>1. CASE f \in tomb
    <3>1. f \in tomb' BY <2>1 DEF Grows
    <3> QED BY <2>1, <3>1 DEF FamilyState, FamilyLeaf
  <2>2. CASE f \notin tomb /\ f \in tomb'
    <3>1. FamilyState(f)' = "spent" /\ FamilyLeaf(f)' = None
      BY <2>2 DEF FamilyState, FamilyLeaf
    <3>2. \/ FamilyState(f) \in {"unborn", "live", "rotating"}
          \/ FamilyState(f) = "spent" /\ FamilyLeaf(f) = None
      <4>1. CASE Leaves(f) \cup Rotating(f) = {}
        BY <2>2, <4>1 DEF FamilyState, FamilyLeaf
      <4>2. CASE Leaves(f) \cup Rotating(f) # {} BY <2>2, <4>2, ViewOfFamily
      <4> QED BY <4>1, <4>2
    <3> QED BY <3>1, <3>2
  <2>3. CASE f \notin tomb'
    <3>1. f \notin tomb BY <2>3 DEF Grows
    <3>2. (\E t \in members' : fam'[t] = f) <=> (\E t \in members : fam[t] = f)
      BY <1>1, <3>1, MembersStay DEF Rests
    <3>3. Leaves(f)' \subseteq Leaves(f) /\ Rotating(f)' \subseteq Rotating(f)
      BY <1>1, HoldersRest
    <3>4. \A a, b \in Leaves(f) \cup Rotating(f) : a = b
      BY <3>1 DEF ChainInv, OneHolder
    <3>5. CASE Leaves(f)' = Leaves(f) /\ Rotating(f)' = Rotating(f)
      BY <2>3, <3>1, <3>2, <3>5, FamilyStays
    <3>6. CASE ~(Leaves(f)' = Leaves(f) /\ Rotating(f)' = Rotating(f))
      <4>1. Leaves(f) \cap Rotating(f) = {} BY <3>1, ViewOfFamily
      <4>2. Leaves(f) \cup Rotating(f) # {} /\ Leaves(f)' = {} /\ Rotating(f)' = {}
        BY <3>3, <3>4, <3>6, <4>1
      <4>3. FamilyState(f) \in {"live", "rotating"} /\ \E t \in members : fam[t] = f
        BY <3>1, <4>2, ViewOfFamily
      <4>4. FamilyState(f)' = "spent" /\ FamilyLeaf(f)' = None
        BY <2>3, <3>2, <4>2, <4>3 DEF FamilyState, FamilyLeaf
      <4> QED BY <4>3, <4>4
    <3> QED BY <3>5, <3>6
  <2> QED BY <2>1, <2>2, <2>3
<1>3. \A t \in Workers : SuccessorOf(t)' = SuccessorOf(t) BY SuccessorsStay DEF Rests
<1> QED BY <1>2, <1>3, EndsFamilies

\* The families a join is not about are seen unchanged.
LEMMA JoinLeavesOthers ==
    ASSUME ChainInv, ChainInv', Grows, NEW w \in Workers, Joins(w),
           NEW f \in Families, f # fam[w]
    PROVE  FamilyState(f)' = FamilyState(f) /\ FamilyLeaf(f)' = FamilyLeaf(f)
<1>1. tomb' = tomb /\ members' = members \cup {w} /\ fam' = fam BY DEF Joins
<1>2. Leaves(f)' = Leaves(f) /\ Rotating(f)' = Rotating(f) BY HoldersJoin
<1>3. CASE f \in tomb BY <1>1, <1>3 DEF FamilyState, FamilyLeaf
<1>4. CASE f \notin tomb BY <1>1, <1>2, <1>4, FamilyStays
<1> QED BY <1>3, <1>4

\* A login whose token lives when it joins is the birth of its family, a
\* rotation's the minting of the leaf's successor; one whose token was revoked
\* in the meantime spends the family.
LEMMA ChainJoin ==
    ASSUME ChainInv, ChainInv', Grows, [Next]_vars, NEW w \in Workers, Joins(w)
    PROVE  Chain!Next
<1>1. StoreInv /\ TypeOK /\ Bookkeeping BY DEF ChainInv, StoreInv
<1>2. PICK g : g = fam[w] OBVIOUS
<1>3. /\ pc[w] = "member" /\ g \notin tomb /\ tomb' = tomb /\ tok' = tok /\ fam' = fam
      /\ members' = members \cup {w} /\ leafed' = leafed \cup ({w} \cap active)
  BY <1>2 DEF Joins
<1>4. g \in Families /\ w \notin leafed
  BY <1>1, <1>2, <1>3 DEF Bookkeeping, BulkPC, JoinedPC
<1>5. /\ Rotating(g)' = {} /\ Leaves(g)' = {w} \cap active
      /\ tok[w] = w => /\ Leaves(g) = {} /\ Rotating(g) = {} /\ \A t \in members : fam[t] # g
      /\ tok[w] # w => Leaves(g) = {} /\ Rotating(g) = {w}
  BY <1>2, <1>4, HoldersJoin
<1>6. tok[w] = w => FamilyState(g) = "unborn" /\ FamilyLeaf(g) = None
  BY <1>3, <1>4, <1>5, ViewOfFamily
<1>7. tok[w] # w => FamilyState(g) = "rotating" /\ FamilyLeaf(g) = tok[w]
  BY <1>3, <1>4, <1>5, ViewOfFamily
<1>8. \A f \in Families : f # g =>
         FamilyState(f)' = FamilyState(f) /\ FamilyLeaf(f)' = FamilyLeaf(f)
  BY <1>2, JoinLeavesOthers
<1>9. CASE w \notin active
  <2>1. leafed' = leafed BY <1>3, <1>9
  <2>2. \A t \in Workers : SuccessorOf(t)' = SuccessorOf(t) BY <2>1, SuccessorsStay
  <2>3. Leaves(g)' = {} BY <1>5, <1>9
  <2>4. \E t \in members' : fam'[t] = g BY <1>2, <1>3
  <2>5. FamilyState(g)' = "spent" /\ FamilyLeaf(g)' = None
    BY <1>3, <1>5, <2>3, <2>4 DEF FamilyState, FamilyLeaf
  <2>6. FamilyState(g) \in {"unborn", "live", "rotating"} BY <1>6, <1>7
  <2>7. UNCHANGED Chain!vars \/ \E gone \in SUBSET Families : Chain!Spend(gone)
    BY <1>8, <2>2, <2>5, <2>6, EndsFamilies
  <2> QED BY <2>7 DEF Chain!Next
<1>10. CASE w \in active
  <2>1. leafed' = leafed \cup {w} BY <1>3, <1>10
  <2>2. Leaves(g)' = {w} BY <1>5, <1>10
  <2>3. FamilyState(g)' = "live" /\ FamilyLeaf(g)' = w
    BY <1>3, <2>2 DEF FamilyState, FamilyLeaf
  <2>4. CASE tok[w] = w
    <3>1. \A t \in Workers : SuccessorOf(t)' = SuccessorOf(t)
      BY <1>3, <2>1, <2>4, SuccessorsStay
    <3>2. Chain!Born(g, w) BY <1>4, <1>6, <1>8, <2>3, <2>4, <3>1 DEF Chain!Born
    <3> QED BY <1>4, <3>2 DEF Chain!Next
  <2>5. CASE tok[w] # w
    <3>1. PICK t \in Workers : t = tok[w] BY <1>1 DEF TypeOK
    <3>2. spentBy[t] = w BY <1>3, <2>5, <3>1 DEF ChainInv, SpentOnce, TakenPC, MintPC
    <3>3. \A u \in leafed : u = t \/ tok[u] # t
      <4>1. \A u \in leafed : u # t /\ tok[u] = t => spentBy[t] = u
        BY <1>1 DEF ChainInv, SpentOnce, TypeOK
      <4> QED BY <1>4, <3>2, <4>1
    <3>4. SuccessorOf(t) = None BY <3>3, ViewOfSuccessor
    <3>5. SuccessorOf(t)' = w
      <4>1. \A u \in leafed' : u # t /\ tok'[u] = t => u = w BY <1>3, <2>1, <3>3
      <4>2. w \in leafed' /\ w # t /\ tok'[w] = t BY <1>3, <2>1, <2>5, <3>1
      <4> QED BY <4>1, <4>2 DEF SuccessorOf
    <3>6. \A x \in Workers : x # t => SuccessorOf(x)' = SuccessorOf(x)
      BY <1>3, <2>1, <3>1, SuccessorsStay
    <3>7. FamilyState(g) = "rotating" /\ FamilyLeaf(g) = t BY <1>7, <2>5, <3>1
    <3>8. Chain!Mint(g, w)
      BY <1>4, <1>8, <2>3, <3>4, <3>5, <3>6, <3>7 DEF Chain!Mint
    <3> QED BY <1>4, <3>8 DEF Chain!Next
  <2> QED BY <2>4, <2>5
<1> QED BY <1>9, <1>10

\* A GETDEL that returns a live token takes its family's leaf; in a family
\* already revoked it is none of the chain's.
LEMMA ChainTake ==
    ASSUME ChainInv, ChainInv', Grows, [Next]_vars, NEW w \in Workers, Takes(w)
    PROVE  Chain!Next
<1>1. StoreInv /\ TypeOK /\ Bookkeeping BY DEF ChainInv, StoreInv
<1>2. PICK g : g = fam[w] OBVIOUS
<1>3. /\ pc[w] = "getdel" /\ tomb' = tomb /\ tok' = tok /\ fam' = fam
      /\ members' = members /\ leafed' = leafed
  BY DEF Takes
<1>4. g \in Families BY <1>1, <1>2, <1>3 DEF Bookkeeping, BulkPC
<1>5. \A t \in Workers : SuccessorOf(t)' = SuccessorOf(t) BY <1>3, SuccessorsStay
<1>6. ASSUME NEW f \in Families, f # g \/ f \in tomb
      PROVE  FamilyState(f)' = FamilyState(f) /\ FamilyLeaf(f)' = FamilyLeaf(f)
  <2>1. CASE f \in tomb BY <1>3, <2>1 DEF FamilyState, FamilyLeaf
  <2>2. CASE f \notin tomb
    <3>1. Leaves(f)' = Leaves(f) /\ Rotating(f)' = Rotating(f)
      BY <1>2, <1>6, <2>2, HoldersTake
    <3> QED BY <1>3, <2>2, <3>1, FamilyStays
  <2> QED BY <2>1, <2>2
<1>7. CASE g \in tomb
  <2>1. UNCHANGED Chain!vars BY <1>5, <1>6, <1>7 DEF Chain!vars
  <2> QED BY <2>1 DEF Chain!Next
<1>8. CASE g \notin tomb
  <2>1. Leaves(g) = {tok[w]} /\ Leaves(g)' = {} /\ Rotating(g)' = {w}
    BY <1>2, <1>4, <1>8, HoldersTake
  <2>2. FamilyState(g) = "live" /\ FamilyLeaf(g) = tok[w]
    BY <1>4, <1>8, <2>1, ViewOfFamily
  <2>3. FamilyState(g)' = "rotating" /\ FamilyLeaf(g)' = tok[w]
    BY <1>3, <1>8, <2>1 DEF FamilyState, FamilyLeaf
  <2>4. Chain!Take(g) BY <1>4, <1>5, <1>6, <2>2, <2>3 DEF Chain!Take
  <2> QED BY <1>4, <2>4 DEF Chain!Next
<1> QED BY <1>7, <1>8

\* Every command of the store is a step of the chain.
LEMMA ChainStep ==
    ASSUME ChainInv, ChainInv', [Next]_vars PROVE [Chain!Next]_(Chain!vars)
<1>1. Grows BY StepGrows DEF ChainInv, StoreInv
<1>2. CASE Rests
  <2>1. UNCHANGED Chain!vars \/ \E gone \in SUBSET Families : Chain!Spend(gone)
    BY <1>1, <1>2, ChainRest
  <2> QED BY <2>1 DEF Chain!Next
<1>3. ASSUME NEW w \in Workers, Joins(w) \/ Takes(w) PROVE Chain!Next
  BY <1>1, <1>3, ChainJoin, ChainTake
<1> QED BY <1>2, <1>3, StepKind DEF ChainInv, StoreInv

\* The store starts with every family unborn.
LEMMA ChainStart == Init => Chain!Init
<1> SUFFICES ASSUME Init PROVE Chain!Init OBVIOUS
<1>1. \A f \in Families : Leaves(f) = {} /\ Rotating(f) = {}
  BY DEF Init, Leaves, Rotating
<1>2. \A f \in Families : FamilyState(f) = "unborn" /\ FamilyLeaf(f) = None
  BY <1>1 DEF Init, FamilyState, FamilyLeaf
<1>3. \A t \in Workers : SuccessorOf(t) = None BY DEF Init, SuccessorOf
<1> QED BY <1>2, <1>3 DEF Chain!Init

\* Command by command, with any number of concurrent calls and any crash,
\* error or retry, the Redis store implements the chain that RefreshFamily
\* promises of every refresh-token store.
THEOREM RedisImplementsChain == Spec => ImplementsChain
<1>1. ChainInv /\ ChainInv' /\ [Next]_vars => [Chain!Next]_(Chain!vars) BY ChainStep
<1> QED BY ChainStart, <1>1, ChainAlways, PTL DEF Spec, ImplementsChain, Chain!Spec
=============================================================================
