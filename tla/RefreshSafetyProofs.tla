------------------------ MODULE RefreshSafetyProofs ------------------------
(***************************************************************************)
(* What a family and its requests keep beyond the chain: the lineage of    *)
(* every token, dead families that stay dead, the velocity cap, barred     *)
(* requests, the justification of a kill; and the step simulation of       *)
(* RefreshFamily.  For every value of the constants.                       *)
(***************************************************************************)
EXTENDS RefreshRotationProofs

(***************************************************************************)
(* What one step can change.                                               *)
(***************************************************************************)
\* Request q takes no part in the step.
Still(q) ==
    /\ pc'[q] = pc[q] /\ req'[q] = req[q] /\ grant'[q] = grant[q]
    /\ try'[q] = try[q] /\ hold'[q] = hold[q] /\ resp'[q] = resp[q]

\* Request q takes the step.
Acts(q) == Submit(q) \/ SubmitRevoke(q) \/ RefreshStep(q) \/ RevokeStep(q)

\* Records are written once, entries are not revived, time and administration
\* only move one way, and a request keeps what it presented.
Grows ==
    /\ issued \subseteq issued' /\ \A t \in issued : info'[t] = info[t]
    /\ \A t \in issued : t \in entries' => t \in entries
    /\ \A t \in Tokens : t \notin entries => consumed'[t] = consumed[t]
    /\ now <= now'
    /\ suspended \subseteq suspended' /\ ceiling' \subseteq ceiling
    /\ revokedAccess \subseteq revokedAccess'
    /\ \A f \in Families : session[f] = "revoked" => session'[f] = "revoked"
    /\ \A q \in Reqs : pc[q] # "idle" =>
          /\ pc'[q] # "idle"
          /\ req'[q].tok = req[q].tok /\ req'[q].client = req[q].client
          /\ req'[q].jkt = req[q].jkt /\ req'[q].x5t = req[q].x5t
          /\ req'[q].scope = req[q].scope /\ req'[q].barred = req[q].barred
          /\ pc[q] # "prepare" => req'[q] = req[q]

(***************************************************************************)
(* The invariants.                                                         *)
(***************************************************************************)
\* A rotation that passed the checks of Guard may mint what was granted.
GrantFits ==
    \A r \in Reqs : pc[r] \in {"velocity", "issue"} =>
        /\ grant[r] \subseteq info[req[r].tok].scopes
        /\ MaxDepth > 0 => info[req[r].tok].generation < MaxDepth

\* A minted token carries on the record it was rotated from.
Inherits ==
    \A s \in Minted :
        LET p == info[req[s].tok] IN
        /\ info[s].parent = req[s].tok /\ info[s].family = p.family
        /\ info[s].user = p.user /\ info[s].client = p.client
        /\ info[s].jkt = p.jkt /\ info[s].sid = p.sid
        /\ info[s].familyCreatedAt = p.familyCreatedAt
        /\ info[s].issuedAt <= now

LineageInv == ChainInv /\ GrantFits /\ Inherits /\ FamilyLineage

\* Only a family that was born is counted or killed.
OnlyBorn ==
    \A f \in Families : killed[f] # "no" \/ rotations[f].count > 0 => f \in issued

DeadInv == ChainInv /\ OnlyBorn /\ SealedStaysDead /\ VelocityCapped

ReplayPC == {"replay", "check", "await", "kill"}

Spent(t) == consumed[t].by \in Reqs \/ IsExpired(t)

\* A token with a reuse marker and no entry was consumed or has expired, and
\* the reuse path is taken for such a token only.
MarkersSpent ==
    /\ \A t \in families : t \in entries \/ Spent(t)
    /\ \A r \in Reqs : pc[r] \in ReplayPC => req[r].tok \notin entries /\ Spent(req[r].tok)

SpentInv == ChainInv /\ MarkersSpent

\* What barred a request when it came still bars it, and lets it pass neither
\* the checks of the grant nor those of a replay.
BarredHolds ==
    \A r \in Reqs : req[r].barred =>
        /\ Barred(info[req[r].tok], req[r].client, req[r].jkt)
        /\ pc[r] \notin {"idle", "velocity", "velocityKill", "issue", "remember"}
        /\ resp[r].code # "ok"

BarredInv == LineageInv /\ BarredHolds

(***************************************************************************)
(* The invariant behind KillJustified.                                     *)
(***************************************************************************)
PastConsumePC == {"guard", "velocity", "velocityKill", "issue", "remember"}

\* A 200 is a request's last word.
OkIsFinal == \A r \in Reqs : resp[r].code = "ok" => pc[r] = "answered"

\* The request recorded as a token's consumer consumed it, and whoever is past
\* its Consume, or minted, is recorded.
ConsumerKnown ==
    /\ \A t \in Tokens : consumed[t].by \in Reqs =>
          /\ req[consumed[t].by].tok = t /\ t \in issued /\ t \notin entries
          /\ pc[consumed[t].by] \in PastConsumePC \cup {"answered"}
    /\ \A r \in Reqs : pc[r] \in PastConsumePC \/ r \in Minted =>
          consumed[req[r].tok].by = r
    /\ \A r \in Reqs : pc[r] \in ReplayPC \/ try[r] = 2 =>
          pc[r] # "idle" /\ req[r].tok \notin entries

\* A rotation that passed Guard belongs to the caller the token is bound to.
MintedBound ==
    \A r \in Reqs : pc[r] \in {"velocity", "issue"} \/ r \in Minted =>
        BoundTo(info[req[r].tok], req[r].client, req[r].jkt)

\* A pending marker is of an issued token, and expires with it or with the
\* grace window at the latest; what a request prepared does, too.
MarkerBounds ==
    /\ \A t \in Tokens : grace[t].kind # "none" => t \in issued
    /\ \A t \in Tokens : grace[t].kind = "pending" =>
          grace[t].expires <= info[t].expires /\ grace[t].expires <= now + GraceWindow
    /\ \A r \in Reqs : req[r].prepared > 0 =>
          /\ pc[r] # "idle"
          /\ req[r].prepared <= info[req[r].tok].expires
          /\ req[r].prepared <= now + GraceWindow
    /\ \A r \in Reqs : pc[r] = "remember" => grant[r] = info[r].scopes

Done(g) ==
    g.kind = "done" =>
        /\ resp[g.succ].code = "ok" /\ g.scopes = info[g.succ].scopes
        /\ SameCaller(g, req[g.succ])

\* A completed entry, cached or already read, is what its rotation answered.
DoneIsAnswer ==
    /\ \A t \in Tokens : Done(grace[t])
    /\ \A r \in Reqs : Done(hold[r])

\* Until it expires a prepared marker stands, or its rotation has answered.
MarkerStands ==
    \A r \in Reqs : now < req[r].prepared =>
        LET t == req[r].tok IN
        \/ MatchingPending(grace[t], r) /\ grace[t].expires = req[r].prepared
        \/ consumed[t].by \in Reqs /\ resp[consumed[t].by].code = "ok"

\* A rotation that answered can be replayed as long as its marker would have
\* stood and its access token lives.
AnswerStands ==
    \A r \in Minted :
        (/\ resp[r].code = "ok"
         /\ now < req[r].prepared /\ now < info[r].issuedAt + AccessTTL) =>
            /\ grace[req[r].tok].kind = "done"
            /\ \/ grace[req[r].tok].expires >= req[r].prepared
               \/ grace[req[r].tok].expires >= info[r].issuedAt + AccessTTL

\* Request r repeats, in time, the request c that consumed its token.
Repeats(r, c) == c \in Reqs /\ SameCaller(req[r], req[c]) /\ now < req[c].prepared

\* A request that has waited for its double waited for the double's answer.
WaitedForAnswer ==
    \A r \in Reqs :
        LET c == consumed[req[r].tok].by IN
        try[r] = 2 /\ Repeats(r, c) => resp[c].code = "ok"

\* A kill of a repeated request has one of the reasons that never pass.
KillReason ==
    \A r \in Reqs :
        LET c == consumed[req[r].tok].by IN
        /\ pc[r] = "kill" => try[r] = 2
        /\ pc[r] = "kill" /\ Repeats(r, c) =>
              \/ c \notin entries
              \/ c \in revokedAccess
              \/ now >= info[c].issuedAt + AccessTTL
              \/ /\ RequestedScopes(info[c], req[r]) \subseteq info[c].scopes
                 /\ ResolvedScopes(info[c], req[r]) # info[c].scopes

\* Entry g is the marker that request r prepares, or its completed rotation.
Prepared(g, r) ==
    /\ g.kind = "pending" /\ g.family = FamilyOf(req[r].tok) /\ SameCaller(g, req[r])
    /\ g.expires = RefreshGraceExpiresAt(info[req[r].tok].expires)

Completed(g, r) ==
    /\ g.kind = "done" /\ SameCaller(g, req[r]) /\ g.succ = r /\ g.scopes = grant[r]
    /\ g.expires = RefreshGraceExpiresAt(Min2(info[req[r].tok].expires, now + AccessTTL))

KillInv ==
    /\ LineageInv /\ OkIsFinal /\ ConsumerKnown /\ MintedBound /\ MarkerBounds /\ DoneIsAnswer
    /\ MarkerStands /\ AnswerStands /\ WaitedForAnswer /\ KillReason

(***************************************************************************)
(* What one step can change.                                               *)
(***************************************************************************)
\* A handler's step leaves the other requests alone.
LEMMA OthersStill ==
    ASSUME ChainInv, NEW r \in Reqs, Acts(r), NEW q \in Reqs, q # r
    PROVE  Still(q)
<1> USE DEF ChainInv, TypeOK, Still, Goto, Answer, Refuse
<1>1. CASE Submit(r) \/ SubmitRevoke(r) \/ PreparePending(r)
  BY <1>1 DEF Submit, SubmitRevoke, PreparePending
<1>2. CASE RevokeStep(r)
  BY <1>2 DEF RevokeStep, RevokeInspect, RevokeInspectFails, RevokeDelete
<1>3. CASE \/ Inspect(r) \/ InspectFails(r) \/ Consume(r) \/ ConsumeFails(r) \/ Guard(r)
           \/ SessionGetFails(r)
  BY <1>3 DEF Inspect, InspectFails, Consume, ConsumeFails, Guard, SessionGetFails
<1>4. CASE \/ RecordRotation(r) \/ RecordRotationFails(r) \/ VelocityKill(r)
           \/ IssueRotated(r) \/ IssueFails(r) \/ Remember(r)
  BY <1>4 DEF RecordRotation, RecordRotationFails, VelocityKill, IssueRotated, IssueFails,
       Remember
<1>5. CASE ReplayLookup(r) \/ ReplayCheck(r) \/ AwaitPoll(r) \/ AwaitLimit(r) \/ ReuseKill(r)
  BY <1>5 DEF ReplayLookup, ReplayCheck, AwaitPoll, AwaitLimit, ReuseKill
<1> QED BY <1>1, <1>2, <1>3, <1>4, <1>5 DEF Acts, RefreshStep

\* The environment leaves every request alone.
LEMMA EnvironmentIdle == Environment \/ Quiescent \/ UNCHANGED vars => Idle
BY DEF Environment, Login, RevokeSession, RequireStepUp, DeleteAllForSubject,
     DeleteAllForClient, SuspendUser, TightenCeiling, RevokeAccess, SweepExpired, Tick,
     Quiescent, vars, Idle

\* So a request takes a step itself or is left alone.
LEMMA OneActs ==
    ASSUME ChainInv, [Next]_vars, NEW q \in Reqs
    PROVE  Still(q) \/ Acts(q)
<1>1. CASE Idle BY <1>1 DEF Idle, Still
<1> QED BY <1>1, OthersStill, EnvironmentIdle DEF Next, Acts

\* A handler's step only grows what is written once.
LEMMA RequestGrows ==
    ASSUME ChainInv, NEW r \in Reqs, Acts(r) PROVE Grows
<1> USE ConstantsAssumption DEF ChainInv, TypeOK, Grows, Goto, Answer, Refuse, store, world, hist
<1>1. CASE Submit(r)
  BY <1>1 DEF Submit
<1>2. CASE SubmitRevoke(r)
  BY <1>2 DEF SubmitRevoke
<1>3. CASE PreparePending(r)
  BY <1>3 DEF PreparePending, Request
<1>4. CASE VelocityKill(r) \/ ReuseKill(r) \/ RevokeDelete(r)
  BY <1>4 DEF VelocityKill, ReuseKill, RevokeDelete, DeleteFamily, DeleteFamilyFails
<1>5. CASE Consume(r)
  BY <1>5 DEF Consume
<1>6. CASE IssueRotated(r)
  <2>1. r \in Tokens /\ r \notin issued BY <1>6 DEF IssueRotated, Bookkeeping, Minted, Tokens
  <2> QED BY <1>6, <2>1 DEF IssueRotated, Issue
<1>7. CASE Guard(r) \/ RecordRotation(r) \/ Remember(r) \/ ReplayLookup(r) \/ AwaitPoll(r)
  BY <1>7 DEF Guard, RecordRotation, Remember, ReplayLookup, AwaitPoll, AfterReplay
<1>8. CASE Inspect(r) \/ ReplayCheck(r) \/ RevokeInspect(r)
  BY <1>8 DEF Inspect, ReplayCheck, RevokeInspect, AfterInspect, AfterReplay
<1>9. CASE \/ InspectFails(r) \/ ConsumeFails(r) \/ SessionGetFails(r)
           \/ RecordRotationFails(r) \/ IssueFails(r) \/ AwaitLimit(r)
           \/ RevokeInspectFails(r)
  BY <1>9 DEF InspectFails, ConsumeFails, SessionGetFails, RecordRotationFails, IssueFails,
       AwaitLimit, RevokeInspectFails, AfterReplay
<1> QED BY <1>1, <1>2, <1>3, <1>4, <1>5, <1>6, <1>7, <1>8, <1>9
     DEF Acts, RefreshStep, RevokeStep

\* So does the environment's.
LEMMA EnvironmentGrows ==
    ASSUME ChainInv, Environment PROVE Grows
<1> USE ConstantsAssumption DEF ChainInv, TypeOK, Grows, Idle, store, world, hist
<1>1. ASSUME NEW f \in Families, Login(f) PROVE Grows
  BY <1>1 DEF Login, Issue, Tokens
<1>2. CASE \/ \E f \in Families : RevokeSession(f) \/ RequireStepUp(f)
           \/ \E u \in Users : SuspendUser(u)
           \/ \E s \in SUBSET Scopes : TightenCeiling(s)
           \/ \E t \in Reqs : RevokeAccess(t)
           \/ Tick
  BY <1>2 DEF RevokeSession, RequireStepUp, SuspendUser, TightenCeiling, RevokeAccess, Tick
<1>3. CASE \/ \E u \in Users, cs \in {{c} : c \in Clients} \cup {Clients} :
                 DeleteAllForSubject(u, cs)
           \/ \E c \in Clients : DeleteAllForClient(c)
           \/ SweepExpired
  BY <1>3 DEF DeleteAllForSubject, DeleteAllForClient, SweepExpired, Remove
<1> QED BY <1>1, <1>2, <1>3 DEF Environment

\* Every step only grows what is written once.
LEMMA StepGrows ==
    ASSUME ChainInv, [Next]_vars PROVE Grows
<1>1. CASE UNCHANGED vars
  BY <1>1, ConstantsAssumption DEF vars, store, world, hist, Grows, ChainInv, TypeOK
<1>2. CASE Quiescent BY <1>1, <1>2 DEF Quiescent
<1> QED BY <1>1, <1>2, RequestGrows, EnvironmentGrows DEF Next, Acts

\* A new token is the work of a login or of a rotation.
LEMMA TokenMaker ==
    ASSUME ChainInv, [Next]_vars, NEW u \in issued', u \notin issued
    PROVE  (u \in Families /\ Login(u)) \/ (u \in Reqs /\ IssueRotated(u))
<1> USE DEF ChainInv, TypeOK, store
<1>1. CASE UNCHANGED vars \/ Quiescent
  BY <1>1 DEF vars, Quiescent
<1>2. ASSUME NEW r \in Reqs, Acts(r) PROVE IssueRotated(r)
  BY <1>2 DEF Acts, RefreshStep, RevokeStep, Submit, SubmitRevoke, RevokeInspect,
       RevokeInspectFails, RevokeDelete, Inspect, InspectFails, PreparePending, Consume,
       ConsumeFails, Guard, SessionGetFails, RecordRotation, RecordRotationFails,
       VelocityKill, IssueFails, Remember, ReplayLookup, ReplayCheck, AwaitPoll,
       AwaitLimit, ReuseKill, DeleteFamily, DeleteFamilyFails
<1>3. ASSUME NEW r \in Reqs, IssueRotated(r) PROVE u = r
  BY <1>3 DEF IssueRotated, Issue
<1>4. CASE Environment
  <2>1. PICK f \in Families : Login(f)
    BY <1>4 DEF Environment, RevokeSession, RequireStepUp, DeleteAllForSubject,
         DeleteAllForClient, SuspendUser, TightenCeiling, RevokeAccess, SweepExpired, Tick,
         Remove
  <2>2. u = f BY <2>1 DEF Login, Issue
  <2> QED BY <2>1, <2>2
<1> QED BY <1>1, <1>2, <1>3, <1>4 DEF Next, Acts

\* A login's token is its own family; a rotation's succeeds the token that its
\* request presented.
LEMMA NewToken ==
    ASSUME ChainInv, [Next]_vars, NEW u \in issued', u \notin issued
    PROVE  \/ /\ u \in Families /\ info'[u].family = u /\ info'[u].generation = 0
              /\ UNCHANGED <<pc, req>>
           \/ /\ u \in Reqs /\ pc[u] = "issue" /\ info'[u] = Successor(u)
              /\ pc'[u] = "remember" /\ UNCHANGED <<req, grant>> /\ now' = now
<1>1. CASE u \in Reqs /\ IssueRotated(u)
  BY <1>1 DEF IssueRotated, Issue, Goto, Tokens, ChainInv, TypeOK, store
<1>2. CASE u \in Families /\ Login(u)
  BY <1>2 DEF Login, Issue, Idle, Tokens, ChainInv, TypeOK, store
<1> QED BY <1>1, <1>2, TokenMaker

(***************************************************************************)
(* The lineage of a token.                                                 *)
(***************************************************************************)
\* Guard grants a subset of the presented token's scopes, below the depth cap.
LEMMA GuardFits ==
    ASSUME LineageInv, [Next]_vars PROVE GrantFits'
<1> SUFFICES ASSUME NEW r \in Reqs, pc'[r] \in {"velocity", "issue"}
             PROVE  /\ grant'[r] \subseteq info'[req'[r].tok].scopes
                    /\ MaxDepth > 0 => info'[req'[r].tok].generation < MaxDepth
  BY DEF GrantFits
<1>1. ChainInv /\ GrantFits /\ Grows BY StepGrows DEF LineageInv
<1>2. CASE pc[r] \in {"velocity", "issue"}
  <2>1. req'[r].tok = req[r].tok /\ req[r].tok \in issued
    BY <1>1, <1>2 DEF Grows, ChainInv, Bookkeeping
  <2>2. grant'[r] = grant[r]
    BY <1>1, <1>2, OneActs DEF Still, Acts, RefreshStep, RevokeStep, Submit, SubmitRevoke,
         RevokeInspect, RevokeInspectFails, RevokeDelete, Inspect, InspectFails,
         PreparePending, Consume, ConsumeFails, Guard, SessionGetFails, RecordRotation,
         RecordRotationFails, VelocityKill, IssueRotated, IssueFails, Remember,
         ReplayLookup, ReplayCheck, AwaitPoll, AwaitLimit, ReuseKill
  <2> QED BY <1>1, <1>2, <2>1, <2>2 DEF GrantFits, Grows
<1>3. CASE pc[r] \notin {"velocity", "issue"}
  <2>1. Guard(r)
    BY <1>1, <1>3, OneActs DEF Still, Acts, RefreshStep, RevokeStep, Submit, SubmitRevoke,
         RevokeInspect, RevokeInspectFails, RevokeDelete, Inspect, InspectFails,
         PreparePending, Consume, ConsumeFails, SessionGetFails, RecordRotation,
         RecordRotationFails, VelocityKill, IssueRotated, IssueFails, Remember,
         ReplayLookup, ReplayCheck, AwaitPoll, AwaitLimit, ReuseKill, Goto, Answer, Refuse,
         AfterReplay, ChainInv, TypeOK
  <2>2. req[r].tok \in Tokens /\ req[r] \in Request /\ info[req[r].tok] \in Info
    BY <1>1 DEF ChainInv, TypeOK, Request
  <2>3. pc'[r] = "velocity" /\ pc[r] = "guard" /\ info' = info /\ req' = req
    BY <1>1, <1>3, <2>1 DEF Guard, Goto, Answer, Refuse, store, ChainInv, TypeOK
  <2>4. /\ GrantVerdict(info[req[r].tok], req[r]) = "ok"
        /\ ~(MaxDepth > 0 /\ info[req[r].tok].generation >= MaxDepth)
        /\ grant'[r] = ResolvedScopes(info[req[r].tok], req[r])
    BY <1>1, <2>1, <2>3 DEF Guard, Answer, Refuse, ChainInv, TypeOK
  <2>5. grant'[r] \subseteq info[req[r].tok].scopes
    BY <2>4 DEF ResolvedScopes, RequestedScopes, GrantVerdict
  <2> QED BY <2>2, <2>3, <2>4, <2>5, ConstantsAssumption DEF Info
<1> QED BY <1>2, <1>3

\* A successor is cut from the record of the token it replaces.
LEMMA SuccessorInherits ==
    ASSUME LineageInv, [Next]_vars PROVE Inherits'
<1> SUFFICES ASSUME NEW s \in Minted' PROVE
        /\ info'[s].parent = req'[s].tok
        /\ info'[s].family = info'[req'[s].tok].family
        /\ info'[s].user = info'[req'[s].tok].user
        /\ info'[s].client = info'[req'[s].tok].client
        /\ info'[s].jkt = info'[req'[s].tok].jkt
        /\ info'[s].sid = info'[req'[s].tok].sid
        /\ info'[s].familyCreatedAt = info'[req'[s].tok].familyCreatedAt
        /\ info'[s].issuedAt <= now'
  BY DEF Inherits
<1>1. ChainInv /\ Grows /\ TypeOK BY StepGrows DEF LineageInv, ChainInv
<1>2. s \in Reqs /\ now \in Nat /\ now' \in Nat
  BY <1>1, TypeNext, ConstantsAssumption DEF Minted, TypeOK
<1>3. CASE s \in issued
  <2>1. s \in Minted /\ pc[s] # "idle" BY <1>1, <1>2, <1>3 DEF Minted, ChainInv, Bookkeeping
  <2>2. req[s].tok \in issued /\ req'[s].tok = req[s].tok
    BY <1>1, <1>2, <2>1 DEF Grows, ChainInv, Bookkeeping
  <2>3. info'[s] = info[s] /\ info'[req[s].tok] = info[req[s].tok] /\ now <= now'
    BY <1>1, <1>3, <2>2 DEF Grows
  <2>4. info[s] \in Info BY <1>1, <1>2 DEF TypeOK, Tokens
  <2> QED BY <2>1, <2>2, <2>3, <2>4, <1>2 DEF LineageInv, Inherits, Info, Times
<1>4. CASE s \notin issued
  <2>1. s \in issued' /\ s \notin Families BY <1>2, ConstantsAssumption DEF Minted
  <2>2. /\ pc[s] = "issue" /\ info'[s] = Successor(s) /\ req' = req /\ now' = now
    BY <1>1, <1>4, <2>1, NewToken
  <2>3. req[s].tok \in issued /\ info[req[s].tok] \in Info
    BY <1>1, <1>2, <2>2 DEF ChainInv, Bookkeeping, TypeOK
  <2>4. info'[req[s].tok] = info[req[s].tok] BY <1>1, <2>3 DEF Grows
  <2> QED BY <1>2, <2>2, <2>3, <2>4 DEF Successor, Info
<1> QED BY <1>3, <1>4

\* So every token carries its login's record on.
LEMMA LineageStep ==
    ASSUME LineageInv, [Next]_vars PROVE FamilyLineage'
<1>1. /\ ChainInv /\ Grows /\ TypeOK /\ ChainInv' /\ TypeOK' /\ FamilyLineage
      /\ Inherits' /\ GrantFits
  BY StepGrows, ChainNext, SuccessorInherits DEF LineageInv, ChainInv
<1> SUFFICES ASSUME NEW t \in issued'
             PROVE  LET root == info'[info'[t].family] IN
                    /\ info'[t].family \in issued'
                    /\ info'[t].user = root.user /\ info'[t].client = root.client
                    /\ info'[t].jkt = root.jkt /\ info'[t].sid = root.sid
                    /\ info'[t].familyCreatedAt = root.familyCreatedAt
                    /\ info'[t].scopes \subseteq root.scopes
                    /\ MaxDepth > 0 => info'[t].generation <= MaxDepth
  BY DEF FamilyLineage, FamilyOf
<1>2. info'[t].family \in issued' BY <1>1 DEF ChainInv, Bookkeeping, FamilyOf
<1>3. CASE t \in issued
  <2>1. info'[t] = info[t] /\ info[t].family \in issued
    BY <1>1, <1>3 DEF Grows, ChainInv, Bookkeeping, FamilyOf
  <2>2. info'[info[t].family] = info[info[t].family] BY <1>1, <2>1 DEF Grows
  <2> QED BY <1>1, <1>2, <1>3, <2>1, <2>2 DEF FamilyLineage, FamilyOf
<1>4. CASE t \notin issued /\ t \in Families
  <2>1. t \notin Reqs BY <1>4, ConstantsAssumption
  <2>2. info'[t].family = t /\ info'[t].generation = 0 BY <1>1, <1>4, <2>1, NewToken
  <2> QED BY <1>2, <2>2, ConstantsAssumption
<1>5. CASE t \notin issued /\ t \notin Families
  <2> DEFINE p == req[t].tok
  <2>1. /\ t \in Reqs /\ pc[t] = "issue" /\ info'[t] = Successor(t) /\ req' = req
    BY <1>1, <1>5, NewToken
  <2>2. p \in issued /\ info[p] \in Info /\ p \in Tokens
    BY <1>1, <2>1 DEF ChainInv, Bookkeeping, TypeOK
  <2>3. info'[p] = info[p] /\ info[p].family \in issued
    BY <1>1, <2>2 DEF Grows, ChainInv, Bookkeeping, FamilyOf
  <2>4. info'[info[p].family] = info[info[p].family] BY <1>1, <2>3 DEF Grows
  <2>5. t \in Minted' BY <2>1 DEF Minted
  <2>6. /\ info'[t].family = info[p].family /\ info'[t].user = info[p].user
        /\ info'[t].client = info[p].client /\ info'[t].jkt = info[p].jkt
        /\ info'[t].sid = info[p].sid /\ info'[t].familyCreatedAt = info[p].familyCreatedAt
    BY <1>1, <2>1, <2>3, <2>5 DEF Inherits
  <2>7. info'[t].scopes = grant[t] /\ info'[t].generation = info[p].generation + 1
    BY <2>1, <2>2 DEF Successor, Info
  <2>8. /\ grant[t] \subseteq info[p].scopes
        /\ MaxDepth > 0 => info[p].generation < MaxDepth
    BY <1>1, <2>1 DEF GrantFits
  <2>9. /\ info[p].user = info[info[p].family].user
        /\ info[p].client = info[info[p].family].client
        /\ info[p].jkt = info[info[p].family].jkt /\ info[p].sid = info[info[p].family].sid
        /\ info[p].familyCreatedAt = info[info[p].family].familyCreatedAt
        /\ info[p].scopes \subseteq info[info[p].family].scopes
    BY <1>1, <2>2 DEF FamilyLineage, FamilyOf
  <2>10. MaxDepth > 0 => info'[t].generation <= MaxDepth
    BY <2>2, <2>7, <2>8, ConstantsAssumption DEF Info
  <2> QED BY <1>2, <2>4, <2>6, <2>7, <2>8, <2>9, <2>10
<1> QED BY <1>3, <1>4, <1>5

\* The lineage invariant holds in every reachable state.
LEMMA LineageAlways == Spec => []LineageInv
<1>1. Init => LineageInv
  <2> SUFFICES ASSUME Init PROVE LineageInv OBVIOUS
  <2>1. GrantFits BY DEF Init, GrantFits
  <2>2. Inherits /\ FamilyLineage BY DEF Init, Inherits, FamilyLineage, Minted
  <2> QED BY <2>1, <2>2, ChainInit DEF LineageInv
<1>2. LineageInv /\ [Next]_vars => LineageInv'
  BY ChainNext, GuardFits, SuccessorInherits, LineageStep DEF LineageInv
<1> QED BY <1>1, <1>2, PTL DEF Spec

\* However often a family rotates, and whoever races whom, its tokens keep the
\* user, client, key, session and age of its login, never widen its scopes and
\* never pass the depth cap.
THEOREM FamilyLineageAlways == Spec => []FamilyLineage
<1>1. LineageInv => FamilyLineage BY DEF LineageInv
<1> QED BY LineageAlways, <1>1, PTL

(***************************************************************************)
(* Dead families.                                                          *)
(***************************************************************************)
\* A request comes to rotate a family by consuming a live token of it.
LEMMA TakesLive ==
    ASSUME ChainInv, [Next]_vars, NEW r \in Reqs, pc'[r] \in InFlightPC,
           pc[r] \notin InFlightPC
    PROVE  /\ Consume(r) /\ pc[r] = "consume" /\ pc' = [pc EXCEPT ![r] = "guard"]
           /\ req[r].tok \in entries /\ entries' = entries \ {req[r].tok}
           /\ ~IsExpired(req[r].tok)
           /\ consumed' = [consumed EXCEPT ![req[r].tok] = [by |-> r, at |-> now]]
           /\ UNCHANGED <<now, issued, info, families, rotations, req, killed>>
<1> USE DEF ChainInv, TypeOK, InFlightPC
<1>1. Consume(r)
  BY OneActs DEF Still, Acts, RefreshStep, RevokeStep, Submit, SubmitRevoke,
         RevokeInspect, RevokeInspectFails, RevokeDelete, Inspect, InspectFails,
         PreparePending, ConsumeFails, Guard, SessionGetFails, RecordRotation,
         RecordRotationFails, VelocityKill, IssueRotated, IssueFails, Remember,
         ReplayLookup, ReplayCheck, AwaitPoll, AwaitLimit, ReuseKill, Goto, Answer, Refuse,
         AfterReplay
<1> QED BY <1>1 DEF Consume, Goto, Answer, Refuse

\* A family without a live token or a rotation gets neither back.
LEMMA DeadStaysDead ==
    ASSUME ChainInv, [Next]_vars, NEW f \in Families \cap issued,
           LiveOf(f) \cup Rotating(f) = {}
    PROVE  (LiveOf(f) \cup Rotating(f) = {})'
<1>1. Grows /\ TypeOK /\ TypeOK' BY StepGrows, TypeNext DEF ChainInv
<1>2. ASSUME NEW t \in entries', info'[t].family = f PROVE FALSE
  <2>1. t \in issued' BY <1>1, <1>2 DEF TypeOK
  <2>2. CASE t \in issued
    BY <1>1, <1>2, <2>2 DEF Grows, LiveOf, FamilyOf
  <2>3. CASE t \notin issued /\ info'[t].family = t
    BY <1>2, <2>3
  <2>4. CASE t \in Reqs /\ pc[t] = "issue" /\ info'[t] = Successor(t)
    <3>1. info[req[t].tok] \in Info BY <1>1, <2>4 DEF TypeOK, Request
    <3>2. info[req[t].tok].family = f BY <1>2, <2>4, <3>1 DEF Successor, Info
    <3> QED BY <2>4, <3>2 DEF Rotating, InFlight, InFlightPC, FamilyOf
  <2> QED BY <2>1, <2>2, <2>3, <2>4, NewToken
<1>3. ASSUME NEW r \in Reqs, pc'[r] \in InFlightPC, info'[req'[r].tok].family = f
      PROVE  FALSE
  <2>1. CASE pc[r] \in InFlightPC
    <3>1. req'[r].tok = req[r].tok /\ req[r].tok \in issued
      BY <1>1, <2>1 DEF Grows, InFlightPC, ChainInv, Bookkeeping
    <3>2. info[req[r].tok].family = f BY <1>1, <1>3, <3>1 DEF Grows
    <3> QED BY <2>1, <3>2 DEF Rotating, InFlight, FamilyOf
  <2>2. CASE pc[r] \notin InFlightPC
    BY <1>3, <2>2, TakesLive DEF LiveOf, FamilyOf
  <2> QED BY <2>1, <2>2
<1> QED BY <1>2, <1>3 DEF LiveOf, Rotating, InFlight, FamilyOf

\* Windows and kill records change by a counted rotation or a DeleteFamily,
\* of the family of the request that takes the step.
LEMMA WindowChange ==
    ASSUME ChainInv, [Next]_vars, <<rotations, killed>>' # <<rotations, killed>>
    PROVE  \E r \in Reqs :
              \/ RecordRotation(r)
              \/ /\ DeleteFamily(FamilyOf(req[r].tok)) /\ UNCHANGED req
                 /\ pc[r] \notin InFlightPC /\ pc' = [pc EXCEPT ![r] = "answered"]
                 /\ pc[r] # "idle"
<1> USE DEF ChainInv, TypeOK, store, hist
<1>1. CASE UNCHANGED vars \/ Quiescent
  BY <1>1 DEF vars, Quiescent
<1>2. CASE Environment
  BY <1>2 DEF Environment, Login, Issue, RevokeSession, RequireStepUp, DeleteAllForSubject,
         DeleteAllForClient, SuspendUser, TightenCeiling, RevokeAccess, SweepExpired, Tick,
         Remove
<1>3. ASSUME NEW r \in Reqs, Acts(r)
      PROVE  RecordRotation(r) \/ VelocityKill(r) \/ ReuseKill(r) \/ RevokeDelete(r)
  BY <1>3 DEF Acts, RefreshStep, RevokeStep, Submit, SubmitRevoke, RevokeInspect,
       RevokeInspectFails, Inspect, InspectFails, PreparePending, Consume,
       ConsumeFails, Guard, SessionGetFails, RecordRotationFails, IssueRotated, Issue,
       IssueFails, Remember, ReplayLookup, ReplayCheck, AwaitPoll, AwaitLimit
<1>4. ASSUME NEW r \in Reqs, VelocityKill(r) \/ ReuseKill(r) \/ RevokeDelete(r)
      PROVE  /\ DeleteFamily(FamilyOf(req[r].tok)) /\ UNCHANGED req
             /\ pc[r] \notin InFlightPC /\ pc' = [pc EXCEPT ![r] = "answered"]
             /\ pc[r] # "idle"
  BY <1>4 DEF VelocityKill, ReuseKill, RevokeDelete, DeleteFamilyFails, InFlightPC, Refuse,
       Answer
<1> QED BY <1>1, <1>2, <1>3, <1>4 DEF Next, Acts

\* A counted rotation that goes over the cap was the family's only holder.
LEMMA DeadRecord ==
    ASSUME DeadInv, ChainInv', TypeOK', NEW r \in Reqs, RecordRotation(r),
           \A f \in Families \cap issued :
              LiveOf(f) \cup Rotating(f) = {} => (LiveOf(f) \cup Rotating(f) = {})'
    PROVE  OnlyBorn' /\ SealedStaysDead' /\ VelocityCapped'
<1>0. PICK g : g = FamilyOf(req[r].tok) OBVIOUS
<1> DEFINE w == Counted(rotations[g])
<1>1. /\ TypeOK /\ pc[r] = "velocity" /\ rotations' = [rotations EXCEPT ![g] = w]
      /\ pc' = [pc EXCEPT ![r] = IF Exceeded(w) THEN "velocityKill" ELSE "issue"]
      /\ UNCHANGED <<now, issued, info, entries, req, killed>>
  BY <1>0 DEF RecordRotation, Goto, hist, DeadInv, ChainInv
<1>2. g \in Families /\ g \in issued
  BY <1>0, <1>1 DEF DeadInv, ChainInv, Bookkeeping, TypeOK, Info, Request, FamilyOf
<1>3. r \in Rotating(g) BY <1>0, <1>1 DEF Rotating, InFlight, InFlightPC
<1>4. ~Exceeded(rotations[g]) BY <1>2, <1>3 DEF DeadInv, VelocityCapped
<1>5. OnlyBorn' BY <1>1, <1>2 DEF DeadInv, OnlyBorn, TypeOK
<1>6. SealedStaysDead' BY <1>1 DEF DeadInv, OnlyBorn, SealedStaysDead
<1>7. ASSUME Exceeded(w)
      PROVE  w.count = MaxRotations + 1 /\ (LiveOf(g) \cup Rotating(g) = {})'
  <2>1. rotations[g] \in [count : Nat, start : Times] BY <1>1, <1>2 DEF TypeOK
  <2>7. w.count = 1 \/ w.count = rotations[g].count + 1 BY <2>1 DEF Counted
  <2>2. w.count = MaxRotations + 1
    BY <1>4, <1>7, <2>1, <2>7, ConstantsAssumption DEF Exceeded
  <2>3. \A a \in LiveOf(g) \cup Rotating(g) : a = r
    BY <1>2, <1>3 DEF DeadInv, ChainInv, OneHolder
  <2>4. r \notin LiveOf(g)
    BY <1>1 DEF LiveOf, DeadInv, ChainInv, Bookkeeping, Minted, TypeOK
  <2>5. LiveOf(g)' = LiveOf(g) BY <1>1 DEF LiveOf, FamilyOf
  <2>6. Rotating(g)' \subseteq Rotating(g) \ {r}
    BY <1>1, <1>7 DEF Rotating, InFlight, InFlightPC, FamilyOf, TypeOK
  <2> QED BY <2>2, <2>3, <2>4, <2>5, <2>6
<1>8. ASSUME NEW f \in Families, Exceeded(rotations'[f])
      PROVE  rotations'[f].count = MaxRotations + 1 /\ (LiveOf(f) \cup Rotating(f) = {})'
  <2>1. CASE f = g BY <1>1, <1>2, <1>7, <1>8, <2>1 DEF TypeOK
  <2>2. CASE f # g
    <3>1. rotations'[f] = rotations[f] BY <1>1, <2>2 DEF TypeOK
    <3>2. rotations[f].count = MaxRotations + 1 /\ LiveOf(f) \cup Rotating(f) = {}
      BY <1>8, <3>1 DEF DeadInv, VelocityCapped
    <3>3. f \in issued BY <3>2, ConstantsAssumption DEF DeadInv, OnlyBorn
    <3> QED BY <3>1, <3>2, <3>3
  <2> QED BY <2>1, <2>2
<1>9. VelocityCapped' BY <1>8 DEF VelocityCapped, Exceeded
<1> QED BY <1>5, <1>6, <1>9

\* DeleteFamily leaves a family without a live token, and seals it only when
\* nobody is rotating it.
LEMMA DeadDelete ==
    ASSUME DeadInv, ChainInv', TypeOK', NEW r \in Reqs, DeleteFamily(FamilyOf(req[r].tok)),
           UNCHANGED req, pc[r] \notin InFlightPC, pc' = [pc EXCEPT ![r] = "answered"],
           pc[r] # "idle",
           \A f \in Families \cap issued :
              LiveOf(f) \cup Rotating(f) = {} => (LiveOf(f) \cup Rotating(f) = {})'
    PROVE  OnlyBorn' /\ SealedStaysDead' /\ VelocityCapped'
<1>0. PICK g : g = FamilyOf(req[r].tok) OBVIOUS
<1>1. TypeOK BY DEF DeadInv, ChainInv
<1>2. g \in Families /\ g \in issued
  BY <1>0, <1>1 DEF DeadInv, ChainInv, Bookkeeping, TypeOK, Info, Request, FamilyOf
<1>3. /\ rotations' = [rotations EXCEPT ![g] = NoWindow]
      /\ killed' = [killed EXCEPT ![g] = IF Rotating(g) = {} THEN "sealed" ELSE "racing"]
      /\ issued' = issued /\ info' = info /\ LiveOf(g)' = {}
  BY <1>0 DEF DeleteFamily, LiveOf, FamilyOf
<1>4. OnlyBorn' BY <1>1, <1>2, <1>3 DEF DeadInv, OnlyBorn, TypeOK
<1>5. Rotating(g)' \subseteq Rotating(g)
  BY <1>1, <1>3 DEF Rotating, InFlight, InFlightPC, FamilyOf, TypeOK
<1>6. SealedStaysDead'
  BY <1>1, <1>2, <1>3, <1>5 DEF DeadInv, OnlyBorn, SealedStaysDead, TypeOK
<1>7. ASSUME NEW f \in Families, Exceeded(rotations'[f])
      PROVE  rotations'[f].count = MaxRotations + 1 /\ (LiveOf(f) \cup Rotating(f) = {})'
  <2>1. f # g BY <1>1, <1>2, <1>3, <1>7, ConstantsAssumption DEF TypeOK, NoWindow, Exceeded
  <2>2. rotations'[f] = rotations[f] BY <1>1, <1>3, <2>1 DEF TypeOK
  <2>3. rotations[f].count = MaxRotations + 1 /\ LiveOf(f) \cup Rotating(f) = {}
    BY <1>7, <2>2 DEF DeadInv, VelocityCapped
  <2>4. f \in issued BY <2>3, ConstantsAssumption DEF DeadInv, OnlyBorn
  <2> QED BY <2>2, <2>3, <2>4
<1>8. VelocityCapped' BY <1>7 DEF VelocityCapped, Exceeded
<1> QED BY <1>4, <1>6, <1>8

\* Every step keeps dead families dead and the window at its cap.
LEMMA DeadNext == DeadInv /\ [Next]_vars => DeadInv'
<1> SUFFICES ASSUME DeadInv, [Next]_vars PROVE DeadInv' OBVIOUS
<1>1. ChainInv /\ TypeOK /\ Grows /\ ChainInv' /\ TypeOK'
  BY StepGrows, ChainNext DEF DeadInv, ChainInv
<1>2. \A f \in Families \cap issued :
        LiveOf(f) \cup Rotating(f) = {} => (LiveOf(f) \cup Rotating(f) = {})'
  BY <1>1, DeadStaysDead
<1>3. CASE rotations' = rotations /\ killed' = killed
  <2>1. OnlyBorn' BY <1>1, <1>3 DEF DeadInv, OnlyBorn, Grows
  <2>2. SealedStaysDead' BY <1>2, <1>3 DEF DeadInv, OnlyBorn, SealedStaysDead
  <2>3. ASSUME NEW f \in Families, Exceeded(rotations[f])
        PROVE  rotations[f].count = MaxRotations + 1 /\ (LiveOf(f) \cup Rotating(f) = {})'
    <3>1. rotations[f].count = MaxRotations + 1 /\ LiveOf(f) \cup Rotating(f) = {}
      BY <2>3 DEF DeadInv, VelocityCapped
    <3>2. f \in issued BY <3>1, ConstantsAssumption DEF DeadInv, OnlyBorn
    <3> QED BY <1>2, <3>1, <3>2
  <2>4. VelocityCapped' BY <1>3, <2>3 DEF VelocityCapped, Exceeded
  <2> QED BY <1>1, <2>1, <2>2, <2>4 DEF DeadInv
<1>4. CASE <<rotations, killed>>' # <<rotations, killed>>
  <2>1. PICK r \in Reqs :
              \/ RecordRotation(r)
              \/ /\ DeleteFamily(FamilyOf(req[r].tok)) /\ UNCHANGED req
                 /\ pc[r] \notin InFlightPC /\ pc' = [pc EXCEPT ![r] = "answered"]
                 /\ pc[r] # "idle"
    BY <1>1, <1>4, WindowChange
  <2> QED BY <1>1, <1>2, <2>1, DeadRecord, DeadDelete DEF DeadInv
<1> QED BY <1>3, <1>4

\* The invariant of dead families holds in every reachable state.
LEMMA DeadAlways == Spec => []DeadInv
<1>1. Init => DeadInv
  <2> SUFFICES ASSUME Init PROVE DeadInv OBVIOUS
  <2>1. OnlyBorn /\ SealedStaysDead BY DEF Init, OnlyBorn, SealedStaysDead, NoWindow
  <2>2. VelocityCapped
    BY ConstantsAssumption DEF Init, VelocityCapped, Exceeded, NoWindow
  <2> QED BY <2>1, <2>2, ChainInit DEF DeadInv
<1> QED BY <1>1, DeadNext, PTL DEF Spec

\* A family that DeleteFamily found without a rotation in flight has no live
\* token and no rotation ever after.
THEOREM SealedStaysDeadAlways == Spec => []SealedStaysDead
<1>1. DeadInv => SealedStaysDead BY DEF DeadInv
<1> QED BY DeadAlways, <1>1, PTL

\* A family over its rotation cap can mint nothing more, even before the
\* DeleteFamily of the request that counted it.
THEOREM VelocityCappedAlways == Spec => []VelocityCapped
<1>1. DeadInv => VelocityCapped BY DEF DeadInv
<1> QED BY DeadAlways, <1>1, PTL

(***************************************************************************)
(* Reuse means spent.                                                      *)
(***************************************************************************)
\* A token that stops being live loses its marker, is consumed or has expired.
LEMMA EntryGone ==
    ASSUME ChainInv, [Next]_vars, NEW t \in entries, t \notin entries'
    PROVE  t \notin families' \/ Spent(t)'
<1> USE DEF ChainInv, TypeOK, store, Spent, IsExpired
<1>1. CASE UNCHANGED vars \/ Quiescent
  BY <1>1 DEF vars, Quiescent
<1>2. CASE Environment
  BY <1>2 DEF Environment, Login, Issue, RevokeSession, RequireStepUp, DeleteAllForSubject,
         DeleteAllForClient, SuspendUser, TightenCeiling, RevokeAccess, SweepExpired, Tick,
         Remove
<1>3. ASSUME NEW r \in Reqs, Acts(r)
      PROVE  \/ RevokeInspect(r) \/ Inspect(r) \/ ReplayCheck(r) \/ Consume(r)
             \/ VelocityKill(r) \/ ReuseKill(r) \/ RevokeDelete(r)
  BY <1>3 DEF Acts, RefreshStep, RevokeStep, Submit, SubmitRevoke,
       RevokeInspectFails, InspectFails, PreparePending, ConsumeFails, Guard,
       SessionGetFails, RecordRotation, RecordRotationFails, IssueRotated, Issue,
       IssueFails, Remember, ReplayLookup, AwaitPoll, AwaitLimit
<1>4. ASSUME NEW r \in Reqs, RevokeInspect(r) \/ Inspect(r) \/ ReplayCheck(r)
      PROVE  Spent(t)'
  BY <1>4 DEF RevokeInspect, Inspect, ReplayCheck, AfterInspect
<1>5. ASSUME NEW r \in Reqs, Consume(r) PROVE Spent(t)'
  BY <1>5 DEF Consume
<1>6. ASSUME NEW r \in Reqs, VelocityKill(r) \/ ReuseKill(r) \/ RevokeDelete(r)
      PROVE  t \notin families'
  BY <1>6 DEF VelocityKill, ReuseKill, RevokeDelete, DeleteFamily, DeleteFamilyFails
<1> QED BY <1>1, <1>2, <1>3, <1>4, <1>5, <1>6 DEF Next, Acts

\* A marker appears with its entry.
LEMMA MarkerNew ==
    ASSUME ChainInv, [Next]_vars, NEW t \in families', t \notin families
    PROVE  t \in entries'
<1> USE DEF ChainInv, TypeOK, store
<1>1. CASE UNCHANGED vars \/ Quiescent
  BY <1>1 DEF vars, Quiescent
<1>2. CASE Environment
  BY <1>2 DEF Environment, Login, Issue, RevokeSession, RequireStepUp, DeleteAllForSubject,
         DeleteAllForClient, SuspendUser, TightenCeiling, RevokeAccess, SweepExpired, Tick,
         Remove
<1>3. ASSUME NEW r \in Reqs, Acts(r) PROVE IssueRotated(r)
  BY <1>3 DEF Acts, RefreshStep, RevokeStep, Submit, SubmitRevoke, RevokeInspect, Inspect,
       RevokeInspectFails, InspectFails, PreparePending, ConsumeFails, Guard,
       SessionGetFails, RecordRotation, RecordRotationFails, Consume, ReplayCheck,
       IssueFails, Remember, ReplayLookup, AwaitPoll, AwaitLimit, VelocityKill, ReuseKill,
       RevokeDelete, DeleteFamily, DeleteFamilyFails
<1>4. ASSUME NEW r \in Reqs, IssueRotated(r) PROVE t \in entries'
  BY <1>4 DEF IssueRotated, Issue
<1> QED BY <1>1, <1>2, <1>3, <1>4 DEF Next, Acts

\* A request comes to the reuse path when Consume finds a marker and no entry.
LEMMA ReplayEntered ==
    ASSUME ChainInv, [Next]_vars, NEW r \in Reqs, pc'[r] \in ReplayPC, pc[r] \notin ReplayPC
    PROVE  /\ pc[r] = "consume" /\ pc'[r] = "replay" /\ UNCHANGED req
           /\ req[r].tok \notin entries /\ req[r].tok \in families
           /\ try'[r] = try[r] /\ Consume(r)
<1> USE DEF ChainInv, TypeOK, ReplayPC
<1>1. Consume(r)
  BY OneActs DEF Still, Acts, RefreshStep, RevokeStep, Submit, SubmitRevoke,
         RevokeInspect, RevokeInspectFails, RevokeDelete, Inspect, InspectFails,
         PreparePending, ConsumeFails, Guard, SessionGetFails, RecordRotation,
         RecordRotationFails, VelocityKill, IssueRotated, IssueFails, Remember,
         ReplayLookup, ReplayCheck, AwaitPoll, AwaitLimit, ReuseKill, Goto, Answer, Refuse
<1> QED BY <1>1 DEF Consume, Goto, Answer, Refuse

\* What is spent stays spent.
LEMMA SpentStays ==
    ASSUME ChainInv, [Next]_vars, NEW t \in issued, t \notin entries, Spent(t)
    PROVE  t \notin entries' /\ Spent(t)'
<1>1. Grows /\ TypeOK /\ TypeOK' BY StepGrows, TypeNext DEF ChainInv
<1>2. t \in Tokens /\ info[t] \in Info /\ now \in Nat /\ now' \in Nat
  BY <1>1, ConstantsAssumption DEF TypeOK
<1> QED BY <1>1, <1>2 DEF Grows, Spent, IsExpired, Info, Times

\* Every step keeps the markers honest.
LEMMA SpentNext == SpentInv /\ [Next]_vars => SpentInv'
<1> SUFFICES ASSUME SpentInv, [Next]_vars PROVE SpentInv' OBVIOUS
<1>1. ChainInv /\ ChainInv' /\ Grows /\ TypeOK /\ MarkersSpent
  BY ChainNext, StepGrows DEF SpentInv, ChainInv
<1>2. ASSUME NEW t \in families' PROVE t \in entries' \/ Spent(t)'
  <2>1. CASE t \notin families BY <1>1, <1>2, <2>1, MarkerNew
  <2>2. CASE t \in families /\ t \in entries BY <1>1, <1>2, <2>2, EntryGone
  <2>3. CASE t \in families /\ t \notin entries
    BY <1>1, <2>3, SpentStays DEF MarkersSpent, TypeOK
  <2> QED BY <2>1, <2>2, <2>3
<1>3. ASSUME NEW r \in Reqs, pc'[r] \in ReplayPC
      PROVE  req'[r].tok \notin entries' /\ Spent(req[r].tok)'
  <2>1. PICK t : t = req[r].tok OBVIOUS
  <2>2. CASE pc[r] \in ReplayPC
    <3>1. t \in issued /\ req'[r].tok = t
      BY <1>1, <2>1, <2>2 DEF ReplayPC, Grows, ChainInv, Bookkeeping
    <3>2. t \notin entries /\ Spent(t) BY <1>1, <2>1, <2>2 DEF MarkersSpent
    <3>3. t \notin entries' /\ Spent(t)' BY <1>1, <3>1, <3>2, SpentStays
    <3> QED BY <3>1, <3>3 DEF Spent, IsExpired
  <2>3. CASE pc[r] \notin ReplayPC
    <3>1. t \notin entries /\ t \in families /\ req' = req
      BY <1>1, <1>3, <2>1, <2>3, ReplayEntered
    <3>2. Spent(t) /\ t \in issued BY <1>1, <3>1 DEF MarkersSpent, TypeOK
    <3>3. t \notin entries' /\ Spent(t)' BY <1>1, <3>1, <3>2, SpentStays
    <3> QED BY <2>1, <3>1, <3>3 DEF Spent, IsExpired
  <2> QED BY <2>2, <2>3
<1>4. MarkersSpent' BY <1>2, <1>3 DEF MarkersSpent, Spent, IsExpired
<1> QED BY <1>1, <1>4 DEF SpentInv

\* The markers are honest in every reachable state.
LEMMA SpentAlways == Spec => []SpentInv
<1>1. Init => SpentInv
  BY ChainInit DEF Init, SpentInv, MarkersSpent, ReplayPC
<1> QED BY <1>1, SpentNext, PTL DEF Spec

\* Reuse detection never fires for a token that is neither consumed nor
\* expired, whatever was revoked, swept or deleted meanwhile.
THEOREM ReuseMeansSpentAlways == Spec => []ReuseMeansSpent
<1>1. SpentInv => ReuseMeansSpent
  BY DEF SpentInv, MarkersSpent, ReuseMeansSpent, ReplayPC, Spent
<1> QED BY SpentAlways, <1>1, PTL

(***************************************************************************)
(* Barred requests.                                                        *)
(***************************************************************************)
\* What bars a request never lifts.
LEMMA BarStays ==
    ASSUME TypeOK, TypeOK', Grows, NEW t \in issued, NEW c, NEW k, Barred(info[t], c, k)
    PROVE  Barred(info[t], c, k)'
<1>1. t \in Tokens /\ info[t] \in Info /\ info'[t] = info[t] BY DEF TypeOK, Grows
<1>2. now \in Nat /\ now' \in Nat /\ now <= now' /\ info[t].familyCreatedAt \in Nat
  BY <1>1, ConstantsAssumption DEF TypeOK, Info, Times, Grows
<1>3. info[t].family \in Families BY <1>1 DEF Info
<1> QED BY <1>1, <1>2, <1>3, ConstantsAssumption DEF Barred, Grows

\* A barred request fails the checks of the grant.
LEMMA BarredVerdict ==
    ASSUME TypeOK, NEW i \in Info, NEW q, Barred(i, q.client, q.jkt),
           BoundTo(i, q.client, q.jkt)
    PROVE  GrantVerdict(i, q) # "ok"
<1>1. now \in Nat /\ i.familyCreatedAt \in Nat BY ConstantsAssumption DEF TypeOK, Info, Times
<1> QED BY <1>1, ConstantsAssumption DEF Barred, BoundTo, GrantVerdict, WithinLifetime

\* A request that carries no bar yet gets one, or none, when it arrives.
LEMMA BarredOnArrival ==
    ASSUME LineageInv, BarredHolds, [Next]_vars, NEW r \in Reqs, req'[r].barred, pc[r] = "idle"
    PROVE  /\ Barred(info[req'[r].tok], req'[r].client, req'[r].jkt)
           /\ req'[r].tok \in issued /\ pc'[r] = "inspect" /\ resp'[r].code = resp[r].code
<1> USE DEF LineageInv, ChainInv, TypeOK
<1>1. ~req[r].barred BY DEF BarredHolds
<1>2. Submit(r) \/ SubmitRevoke(r)
  BY <1>1, OneActs DEF Still, Acts, RefreshStep, RevokeStep,
         RevokeInspect, RevokeInspectFails, RevokeDelete, Inspect, InspectFails,
         PreparePending, Consume, ConsumeFails, Guard, SessionGetFails, RecordRotation,
         RecordRotationFails, VelocityKill, IssueRotated, IssueFails, Remember,
         ReplayLookup, ReplayCheck, AwaitPoll, AwaitLimit, ReuseKill
<1>3. ~SubmitRevoke(r)
  <2> SUFFICES ASSUME SubmitRevoke(r) PROVE FALSE OBVIOUS
  <2>1. PICK t \in Presentable, c \in Clients :
          req' = [req EXCEPT ![r] = [NoRequest EXCEPT !.tok = t, !.client = c]]
    BY DEF SubmitRevoke
  <2> QED BY <2>1 DEF NoRequest
<1>4. PICK t \in Presentable, c \in Clients, k \in JKTs, x \in Certs, s \in SUBSET Scopes :
          /\ req' = [req EXCEPT ![r] =
                 [tok |-> t, client |-> c, jkt |-> k, x5t |-> x, scope |-> s,
                  prepared |-> 0, barred |-> Barred(info[t], c, k)]]
          /\ Goto(r, "inspect")
  BY <1>2, <1>3 DEF Submit
<1>5. req'[r] = [tok |-> t, client |-> c, jkt |-> k, x5t |-> x, scope |-> s,
                 prepared |-> 0, barred |-> Barred(info[t], c, k)]
  BY <1>4
<1> QED BY <1>4, <1>5 DEF Goto, Presentable

\* A barred request passes neither Guard nor the check of a replay.
LEMMA BarredRefused ==
    ASSUME LineageInv, BarredHolds, TypeOK', NEW r \in Reqs, req[r].barred, Acts(r),
           req[r].tok \in issued
    PROVE  /\ pc'[r] \notin {"velocity", "velocityKill", "issue", "remember"}
           /\ resp'[r].code # "ok"
<1>1. /\ LineageInv /\ ChainInv /\ TypeOK /\ resp[r].code # "ok"
      /\ pc[r] \notin {"idle", "velocity", "velocityKill", "issue", "remember"}
      /\ Barred(info[req[r].tok], req[r].client, req[r].jkt)
      /\ pc \in [Reqs -> PCs] /\ resp \in [Reqs -> [code : Codes, tok : Tokens]]
  BY DEF LineageInv, ChainInv, BarredHolds, TypeOK
<1>2. req[r].tok \in Tokens /\ info[req[r].tok] \in Info
  BY <1>1 DEF TypeOK, Request
<1>3. CASE Guard(r)
  <2>1. BoundTo(info[req[r].tok], req[r].client, req[r].jkt)
          => GrantVerdict(info[req[r].tok], req[r]) # "ok"
    BY <1>1, <1>2, BarredVerdict
  <2> QED BY <1>1, <1>3, <2>1 DEF Guard, Refuse, Answer
<1>4. CASE ReplayCheck(r)
  <2> DEFINE s == hold[r].succ
  <2>1. s \in Minted /\ req[s].tok = req[r].tok
    BY <1>1, <1>4 DEF ReplayCheck, ChainInv, GraceNamesSuccessor, IsSuccessor
  <2>2. s \in Tokens /\ info[s] \in Info BY <1>1, <2>1 DEF Minted, Tokens, TypeOK
  <2>3. Barred(info[s], req[r].client, req[r].jkt)
    BY <1>1, <2>1 DEF LineageInv, Inherits, Barred
  <2>4. BoundTo(info[s], req[r].client, req[r].jkt)
          => GrantVerdict(info[s], req[r]) # "ok"
    BY <1>1, <2>2, <2>3, BarredVerdict
  <2> QED BY <1>1, <1>4, <2>4 DEF ReplayCheck, Refuse, Answer, Goto, AfterReplay
<1>5. CASE \/ Submit(r) \/ SubmitRevoke(r) \/ RecordRotation(r) \/ RecordRotationFails(r)
           \/ VelocityKill(r) \/ IssueRotated(r) \/ IssueFails(r) \/ Remember(r)
  BY <1>1, <1>5 DEF Submit, SubmitRevoke, RecordRotation, RecordRotationFails, VelocityKill,
       IssueRotated, IssueFails, Remember
<1>6. CASE \/ RevokeStep(r) \/ SessionGetFails(r) \/ ConsumeFails(r) \/ AwaitLimit(r)
           \/ ReuseKill(r)
  BY <1>1, <1>6 DEF RevokeStep, RevokeInspect, RevokeInspectFails, RevokeDelete,
       SessionGetFails, ConsumeFails, AwaitLimit, ReuseKill, Goto, Answer, Refuse
<1>7. CASE \/ Inspect(r) \/ InspectFails(r) \/ PreparePending(r) \/ Consume(r)
           \/ ReplayLookup(r) \/ AwaitPoll(r)
  BY <1>1, <1>7 DEF Inspect, InspectFails, PreparePending, Consume, ReplayLookup, AwaitPoll,
       Goto, Answer, Refuse, AfterReplay
<1> QED BY <1>3, <1>4, <1>5, <1>6, <1>7 DEF Acts, RefreshStep

\* Every step keeps a barred request out.
LEMMA BarredNext == BarredInv /\ [Next]_vars => BarredInv'
<1> SUFFICES ASSUME BarredInv, [Next]_vars PROVE BarredInv' OBVIOUS
<1>1. /\ LineageInv /\ BarredHolds /\ ChainInv /\ TypeOK /\ Grows /\ ChainInv' /\ TypeOK'
      /\ LineageInv'
  BY StepGrows, ChainNext, GuardFits, SuccessorInherits, LineageStep
     DEF BarredInv, LineageInv, ChainInv
<1> SUFFICES ASSUME NEW r \in Reqs, req'[r].barred
             PROVE  /\ Barred(info[req[r].tok], req[r].client, req[r].jkt)'
                    /\ pc'[r] \notin {"idle", "velocity", "velocityKill", "issue", "remember"}
                    /\ resp'[r].code # "ok"
  BY <1>1 DEF BarredInv, BarredHolds
<1>2. CASE pc[r] = "idle"
  <2>1. PICK t, c, k : t = req'[r].tok /\ c = req'[r].client /\ k = req'[r].jkt OBVIOUS
  <2>2. /\ Barred(info[t], c, k) /\ t \in issued
        /\ pc'[r] = "inspect" /\ resp'[r].code = resp[r].code
    BY <1>1, <1>2, <2>1, BarredOnArrival
  <2>3. resp[r].code = "none" BY <1>1, <1>2 DEF ChainInv, Bookkeeping
  <2>4. Barred(info[t], c, k)' BY <1>1, <2>2, BarStays
  <2>5. Barred(info[req[r].tok], req[r].client, req[r].jkt)'
    BY <2>1, <2>4 DEF Barred
  <2> QED BY <2>2, <2>3, <2>5
<1>3. CASE pc[r] # "idle"
  <2>1. PICK t, c, k : t = req[r].tok /\ c = req[r].client /\ k = req[r].jkt OBVIOUS
  <2>2. /\ req'[r].tok = t /\ req'[r].client = c /\ req'[r].jkt = k
        /\ req[r].barred /\ pc'[r] # "idle" /\ t \in issued
    BY <1>1, <1>3, <2>1 DEF Grows, ChainInv, Bookkeeping
  <2>3. /\ Barred(info[t], c, k) /\ resp[r].code # "ok"
        /\ pc[r] \notin {"idle", "velocity", "velocityKill", "issue", "remember"}
    BY <1>1, <2>1, <2>2 DEF BarredHolds
  <2>4. Barred(info[t], c, k)' BY <1>1, <2>2, <2>3, BarStays
  <2>5. Barred(info[req[r].tok], req[r].client, req[r].jkt)'
    BY <2>2, <2>4 DEF Barred
  <2>6. CASE Still(r) BY <2>2, <2>3, <2>5, <2>6 DEF Still
  <2>7. CASE Acts(r) BY <1>1, <2>1, <2>2, <2>5, <2>7, BarredRefused
  <2> QED BY <1>1, <2>6, <2>7, OneActs
<1> QED BY <1>2, <1>3

\* Barred requests are kept out in every reachable state.
LEMMA BarredAlways == Spec => []BarredInv
<1>1. Init => BarredInv
  <2> SUFFICES ASSUME Init PROVE BarredInv OBVIOUS
  <2>1. LineageInv
    BY ChainInit DEF Init, LineageInv, GrantFits, Inherits, FamilyLineage, Minted
  <2>2. BarredHolds BY DEF Init, BarredHolds, NoRequest
  <2> QED BY <2>1, <2>2 DEF BarredInv
<1> QED BY <1>1, BarredNext, PTL DEF Spec

\* A request with the wrong client or key, past the family's lifetime, or after
\* its session or user was shut, gets no 200, by rotation or grace replay.
THEOREM BarredNeverServedAlways == Spec => []BarredNeverServed
<1>1. BarredInv => BarredNeverServed BY DEF BarredInv, BarredHolds, BarredNeverServed
<1> QED BY BarredAlways, <1>1, PTL

(***************************************************************************)
(* The store and its handlers implement the chain of RefreshFamily.        *)
(***************************************************************************)
\* The chain's view of a family is given by its one holder.
LEMMA ViewOfFamily ==
    ASSUME ChainInv, NEW f \in Families
    PROVE  /\ \A t \in LiveOf(f) : FamilyState(f) = "live" /\ FamilyLeaf(f) = t
           /\ \A r \in Rotating(f) :
                 FamilyState(f) = "rotating" /\ FamilyLeaf(f) = req[r].tok
           /\ LiveOf(f) \cup Rotating(f) = {} =>
                 /\ FamilyState(f) = IF f \in issued THEN "spent" ELSE "unborn"
                 /\ FamilyLeaf(f) = None
           /\ LiveOf(f) \cup Rotating(f) # {} => f \in issued
<1>1. \A a, b \in LiveOf(f) \cup Rotating(f) : a = b BY DEF ChainInv, OneHolder
<1>2. LiveOf(f) \cup Rotating(f) # {} => f \in issued
  BY DEF ChainInv, TypeOK, Bookkeeping, LiveOf, Rotating, InFlight, InFlightPC
<1>3. ASSUME NEW t \in LiveOf(f) PROVE FamilyState(f) = "live" /\ FamilyLeaf(f) = t
  BY <1>1, <1>2 DEF FamilyState, FamilyLeaf
<1>4. ASSUME NEW r \in Rotating(f)
      PROVE  FamilyState(f) = "rotating" /\ FamilyLeaf(f) = req[r].tok
  <2>1. r \notin LiveOf(f)
    BY DEF ChainInv, TypeOK, Bookkeeping, Minted, LiveOf, Rotating, InFlight, InFlightPC
  <2>2. LiveOf(f) = {} BY <1>1, <2>1
  <2> QED BY <1>1, <1>2, <2>2 DEF FamilyState, FamilyLeaf
<1> QED BY <1>2, <1>3, <1>4 DEF FamilyState, FamilyLeaf

\* A token's successor is the one token minted by a request that presented it.
LEMMA ViewOfSuccessor ==
    ASSUME LineageInv, NEW t
    PROVE  /\ \A r \in Minted : req[r].tok = t => SuccessorOf(t) = r
           /\ (\A r \in Minted : req[r].tok # t) => SuccessorOf(t) = None
<1>1. \A r \in Minted : info[r].parent = req[r].tok BY DEF LineageInv, Inherits
<1>2. \A r, q \in Minted : req[q].tok = req[r].tok => q = r
  BY DEF LineageInv, ChainInv, SucceededOnce
<1> QED BY <1>1, <1>2 DEF SuccessorOf, Minted

\* The successors do not change where nothing is minted.
LEMMA SuccessorsStay ==
    ASSUME LineageInv, LineageInv', Grows, NEW t,
           \A u \in Minted' : u \in Minted \/ req'[u].tok # t
    PROVE  SuccessorOf(t)' = SuccessorOf(t)
<1>1. \A r \in Minted : r \in Minted' /\ req'[r].tok = req[r].tok
  BY DEF Minted, Grows, LineageInv, ChainInv, Bookkeeping
<1>2. CASE \E r \in Minted : req[r].tok = t
  <2>1. PICK r \in Minted : req[r].tok = t BY <1>2
  <2>2. SuccessorOf(t) = r BY <2>1, ViewOfSuccessor
  <2>3. \A u, q : ~(u \in Minted' /\ q \in Minted' /\ req'[u].tok = req'[q].tok) \/ u = q
    BY DEF LineageInv, ChainInv, SucceededOnce
  <2>4. \A u \in Minted' : info'[u].parent = req'[u].tok BY DEF LineageInv, Inherits
  <2>5. SuccessorOf(t)' = r BY <1>1, <2>1, <2>3, <2>4 DEF SuccessorOf, Minted
  <2> QED BY <2>2, <2>5
<1>3. CASE \A r \in Minted : req[r].tok # t
  <2>1. SuccessorOf(t) = None BY <1>3, ViewOfSuccessor
  <2>2. \A u \in Minted' : info'[u].parent = req'[u].tok BY DEF LineageInv, Inherits
  <2>3. SuccessorOf(t)' = None BY <1>1, <1>3, <2>2 DEF SuccessorOf, Minted
  <2> QED BY <2>1, <2>3
<1> QED BY <1>2, <1>3

\* A family whose holder stays, or that has none, is seen unchanged.
LEMMA FamilyStays ==
    ASSUME ChainInv, ChainInv', Grows, NEW f \in Families,
           f \in issued' => f \in issued,
           LiveOf(f)' \subseteq LiveOf(f), Rotating(f)' \subseteq Rotating(f),
           LiveOf(f) \cup Rotating(f) # {} => (LiveOf(f) \cup Rotating(f) # {})'
    PROVE  FamilyState(f)' = FamilyState(f) /\ FamilyLeaf(f)' = FamilyLeaf(f)
<1>1. \A a, b \in LiveOf(f) \cup Rotating(f) : a = b BY DEF ChainInv, OneHolder
<1>2. LiveOf(f) \cap Rotating(f) = {}
  BY DEF ChainInv, TypeOK, Bookkeeping, Minted, LiveOf, Rotating, InFlight, InFlightPC
<1>3. LiveOf(f)' = LiveOf(f) /\ Rotating(f)' = Rotating(f)
  BY <1>1, <1>2
<1>4. f \in issued' <=> f \in issued BY DEF Grows
<1>5. \A r \in Rotating(f) : req'[r].tok = req[r].tok
  BY DEF Grows, Rotating, InFlight, InFlightPC
<1>6. FamilyState(f)' = FamilyState(f) BY <1>3, <1>4 DEF FamilyState
<1>7. FamilyLeaf(f)' = FamilyLeaf(f) BY <1>3, <1>5 DEF FamilyLeaf
<1> QED BY <1>6, <1>7

\* A login is the birth of its family.
LEMMA ChainLogin ==
    ASSUME LineageInv, LineageInv', Grows, [Next]_vars, NEW u \in Families, Login(u)
    PROVE  Chain!Born(u, u)
<1>1. ChainInv /\ ChainInv' /\ TypeOK /\ TypeOK' BY DEF LineageInv, ChainInv
<1>2. /\ u \notin issued /\ issued' = issued \cup {u} /\ entries' = entries \cup {u}
      /\ \A t \in Tokens \ {u} : info'[t] = info[t]
      /\ info'[u].family = u /\ pc' = pc /\ req' = req
  BY <1>1 DEF Login, Issue, Idle, TypeOK, Tokens
<1>3. LiveOf(u) = {} /\ Rotating(u) = {}
  BY <1>1, <1>2, ViewOfFamily
<1>4. FamilyState(u) = "unborn" BY <1>2 DEF FamilyState
<1>5. u \in LiveOf(u)' BY <1>2 DEF LiveOf, FamilyOf
<1>6. FamilyState(u)' = "live" /\ FamilyLeaf(u)' = u
  <2>1. \A a, b \in (LiveOf(u) \cup Rotating(u))' : a = b BY <1>1 DEF ChainInv, OneHolder
  <2> QED BY <1>2, <1>5, <2>1 DEF FamilyState, FamilyLeaf
<1>7. ASSUME NEW f \in Families, f # u
      PROVE  FamilyState(f)' = FamilyState(f) /\ FamilyLeaf(f)' = FamilyLeaf(f)
  <2>1. LiveOf(f)' = LiveOf(f)
    BY <1>1, <1>2, <1>7 DEF LiveOf, FamilyOf, TypeOK
  <2>2. \A r \in Reqs : InFlight(r) => req[r].tok \in issued
    BY <1>1 DEF ChainInv, Bookkeeping, InFlight, InFlightPC
  <2>3. \A r \in Reqs : InFlight(r) => info'[req[r].tok] = info[req[r].tok]
    BY <1>2, <2>2 DEF LineageInv, Grows
  <2>4. Rotating(f)' = Rotating(f)
    BY <1>2, <2>3 DEF Rotating, InFlight, FamilyOf
  <2> QED BY <1>1, <1>2, <1>7, <2>1, <2>4, FamilyStays
<1>8. ASSUME NEW t \in Tokens PROVE SuccessorOf(t)' = SuccessorOf(t)
  <2>1. Minted' = Minted BY <1>2, ConstantsAssumption DEF Minted
  <2> QED BY <2>1, SuccessorsStay
<1> QED BY <1>4, <1>6, <1>7, <1>8 DEF Chain!Born

\* A Consume that finds its token takes the family's leaf.
LEMMA ChainTake ==
    ASSUME LineageInv, LineageInv', Grows, [Next]_vars, NEW r \in Reqs,
           pc'[r] \in InFlightPC, pc[r] \notin InFlightPC
    PROVE  \E f \in Families : Chain!Take(f)
<1>1. ChainInv /\ ChainInv' /\ TypeOK /\ TypeOK' BY DEF LineageInv, ChainInv
<1>2. PICK t, g : t = req[r].tok /\ g = FamilyOf(t) OBVIOUS
<1>3. /\ pc' = [pc EXCEPT ![r] = "guard"] /\ t \in entries /\ entries' = entries \ {t}
      /\ issued' = issued /\ info' = info /\ req' = req
  BY <1>1, <1>2, TakesLive
<1>4. g \in Families /\ g \in issued
  BY <1>1, <1>2, <1>3 DEF TypeOK, FamilyOf, Info, ChainInv, Bookkeeping
<1>5. t \in LiveOf(g) BY <1>2, <1>3 DEF LiveOf
<1>6. FamilyState(g) = "live" /\ FamilyLeaf(g) = t BY <1>1, <1>4, <1>5, ViewOfFamily
<1>7. \A a \in LiveOf(g) : a = t
  BY <1>1, <1>4, <1>5 DEF ChainInv, OneHolder
<1>8. LiveOf(g)' = {} BY <1>3, <1>7 DEF LiveOf, FamilyOf
<1>9. r \in Rotating(g)'
  BY <1>1, <1>2, <1>3 DEF Rotating, InFlight, InFlightPC, FamilyOf, TypeOK
<1>10. FamilyState(g)' = "rotating" /\ FamilyLeaf(g)' = t
  <2>1. \A a, b \in Rotating(g)' : a = b
    BY <1>1, <1>4 DEF ChainInv, OneHolder
  <2> QED BY <1>2, <1>3, <1>4, <1>8, <1>9, <2>1 DEF FamilyState, FamilyLeaf
<1>11. ASSUME NEW f \in Families, f # g
       PROVE  FamilyState(f)' = FamilyState(f) /\ FamilyLeaf(f)' = FamilyLeaf(f)
  <2>1. LiveOf(f)' = LiveOf(f) BY <1>2, <1>3, <1>11 DEF LiveOf, FamilyOf
  <2>2. Rotating(f)' = Rotating(f)
    BY <1>1, <1>2, <1>3, <1>11 DEF Rotating, InFlight, InFlightPC, FamilyOf, TypeOK
  <2> QED BY <1>1, <1>3, <2>1, <2>2, FamilyStays
<1>12. ASSUME NEW u \in Tokens PROVE SuccessorOf(u)' = SuccessorOf(u)
  <2>1. Minted' = Minted BY <1>3 DEF Minted
  <2> QED BY <2>1, SuccessorsStay
<1>13. Chain!Take(g) BY <1>4, <1>6, <1>10, <1>11, <1>12 DEF Chain!Take
<1> QED BY <1>4, <1>13

\* A successful rotation gives the taken leaf its one successor.
LEMMA ChainMint ==
    ASSUME LineageInv, LineageInv', Grows, [Next]_vars, NEW u \in Reqs, IssueRotated(u),
           u \in issued', u \notin issued
    PROVE  \E f \in Families : Chain!Mint(f, u)
<1>1. ChainInv /\ ChainInv' /\ TypeOK /\ TypeOK' BY DEF LineageInv, ChainInv
<1>2. PICK t, g : t = req[u].tok /\ g = FamilyOf(t) OBVIOUS
<1>3. /\ pc[u] = "issue" /\ pc' = [pc EXCEPT ![u] = "remember"] /\ req' = req
      /\ issued' = issued \cup {u} /\ entries' = entries \cup {u}
      /\ info' = [info EXCEPT ![u] = Successor(u)]
  BY <1>1 DEF IssueRotated, Issue, Goto, store
<1>4. t \in issued /\ t \in Tokens /\ u \in Tokens /\ info[t] \in Info /\ t # u
  BY <1>1, <1>2, <1>3 DEF TypeOK, ChainInv, Bookkeeping, Tokens
<1>5. g \in Families /\ g \in issued
  BY <1>1, <1>2, <1>4 DEF FamilyOf, Info, ChainInv, Bookkeeping
<1>6. u \in Rotating(g) BY <1>2, <1>3 DEF Rotating, InFlight, InFlightPC
<1>7. FamilyState(g) = "rotating" /\ FamilyLeaf(g) = t
  BY <1>1, <1>2, <1>5, <1>6, ViewOfFamily
<1>8. \A q \in Minted : req[q].tok # t
  BY <1>1, <1>2, <1>3 DEF ChainInv, SucceededOnce, InFlight, InFlightPC
<1>9. SuccessorOf(t) = None BY <1>8, ViewOfSuccessor
<1>10. info'[u].family = g /\ \A x \in issued : info'[x] = info[x]
  BY <1>1, <1>2, <1>3, <1>4 DEF Successor, Info, FamilyOf, TypeOK
<1>11. u \in LiveOf(g)' BY <1>3, <1>10 DEF LiveOf, FamilyOf
<1>12. FamilyState(g)' = "live" /\ FamilyLeaf(g)' = u
  <2>1. \A a, b \in LiveOf(g)' : a = b BY <1>1, <1>5 DEF ChainInv, OneHolder
  <2> QED BY <1>3, <1>5, <1>11, <2>1 DEF FamilyState, FamilyLeaf
<1>13. ASSUME NEW f \in Families, f # g
       PROVE  FamilyState(f)' = FamilyState(f) /\ FamilyLeaf(f)' = FamilyLeaf(f)
  <2>1. LiveOf(f)' = LiveOf(f)
    BY <1>1, <1>3, <1>10, <1>13 DEF LiveOf, FamilyOf, TypeOK
  <2>2. \A r \in Reqs : pc[r] \in InFlightPC => info'[req[r].tok] = info[req[r].tok]
    BY <1>1, <1>10 DEF ChainInv, Bookkeeping, InFlightPC
  <2>3. \A r \in Reqs : r # u => pc'[r] = pc[r] BY <1>1, <1>3 DEF TypeOK
  <2>4. Rotating(f)' \subseteq Rotating(f) /\ Rotating(f) \subseteq Rotating(f)'
    <3>1. u \notin Rotating(f) BY <1>2, <1>13 DEF Rotating
    <3>2. pc'[u] \notin InFlightPC BY <1>1, <1>3 DEF InFlightPC, TypeOK
    <3> QED BY <1>3, <2>2, <2>3, <3>1, <3>2 DEF Rotating, InFlight, FamilyOf
  <2>5. f \in issued' => f \in issued BY <1>3, ConstantsAssumption
  <2> QED BY <1>1, <2>1, <2>4, <2>5, FamilyStays
<1>14. SuccessorOf(t)' = u
  <2>1. u \in Minted' BY <1>3 DEF Minted
  <2>2. \A x \in Minted' : info'[x].parent = req'[x].tok BY DEF LineageInv, Inherits
  <2>3. \A x \in Minted' : req'[x].tok = t => x = u
    BY <1>2, <1>3, <1>8 DEF Minted
  <2> QED BY <1>2, <1>3, <2>1, <2>2, <2>3 DEF SuccessorOf, Minted
<1>15. ASSUME NEW x \in Tokens, x # t PROVE SuccessorOf(x)' = SuccessorOf(x)
  <2>1. \A y \in Minted' : y \in Minted \/ req'[y].tok # x
    BY <1>2, <1>3, <1>15 DEF Minted
  <2> QED BY <2>1, SuccessorsStay
<1>16. Chain!Mint(g, u)
  BY <1>4, <1>5, <1>7, <1>9, <1>12, <1>13, <1>14, <1>15 DEF Chain!Mint
<1> QED BY <1>5, <1>16

\* Any other step ends families or is none of the chain's.
LEMMA ChainRest ==
    ASSUME LineageInv, LineageInv', Grows, [Next]_vars, issued' = issued,
           \A r \in Reqs : pc'[r] \in InFlightPC => pc[r] \in InFlightPC
    PROVE  UNCHANGED Chain!vars \/ \E gone \in SUBSET Families : Chain!Spend(gone)
<1>1. ChainInv /\ ChainInv' /\ TypeOK /\ TypeOK' BY DEF LineageInv, ChainInv
<1>2. PICK gone \in SUBSET Families : \A f \in Families : f \in gone <=>
         LiveOf(f) \cup Rotating(f) # {} /\ (LiveOf(f) \cup Rotating(f) = {})'
  <2> DEFINE G == {f \in Families : LiveOf(f) \cup Rotating(f) # {}
                                    /\ (LiveOf(f) \cup Rotating(f) = {})'}
  <2>1. G \in SUBSET Families OBVIOUS
  <2> QED BY <2>1
<1>3. ASSUME NEW f \in Families
      PROVE  LiveOf(f)' \subseteq LiveOf(f) /\ Rotating(f)' \subseteq Rotating(f)
  <2>1. LiveOf(f)' \subseteq LiveOf(f)
    BY <1>1 DEF LiveOf, FamilyOf, Grows, TypeOK
  <2>2. \A r \in Reqs : pc[r] \in InFlightPC =>
          req'[r].tok = req[r].tok /\ info'[req[r].tok] = info[req[r].tok]
    BY <1>1 DEF Grows, ChainInv, Bookkeeping, InFlightPC
  <2>3. Rotating(f)' \subseteq Rotating(f)
    BY <2>2 DEF Rotating, InFlight, FamilyOf
  <2> QED BY <2>1, <2>3
<1>4. ASSUME NEW f \in Families, f \notin gone
      PROVE  FamilyState(f)' = FamilyState(f) /\ FamilyLeaf(f)' = FamilyLeaf(f)
  BY <1>1, <1>2, <1>3, <1>4, FamilyStays
<1>5. ASSUME NEW f \in gone
      PROVE  /\ FamilyState(f) \in {"live", "rotating"}
             /\ FamilyState(f)' = "spent" /\ FamilyLeaf(f)' = None
  <2>1. f \in Families /\ f \in issued BY <1>1, <1>2, ViewOfFamily
  <2>2. FamilyState(f) \in {"live", "rotating"} BY <1>1, <1>2, <2>1, ViewOfFamily
  <2>3. LiveOf(f)' = {} /\ Rotating(f)' = {} BY <1>2, <2>1
  <2> QED BY <2>1, <2>2, <2>3 DEF FamilyState, FamilyLeaf
<1>6. ASSUME NEW t \in Tokens PROVE SuccessorOf(t)' = SuccessorOf(t)
  <2>1. Minted' = Minted BY DEF Minted
  <2> QED BY <2>1, SuccessorsStay
<1>7. CASE gone = {} BY <1>4, <1>6, <1>7 DEF Chain!vars
<1>8. CASE gone # {}
  <2>1. Chain!Spend(gone) BY <1>2, <1>4, <1>5, <1>6, <1>8 DEF Chain!Spend
  <2> QED BY <1>2, <2>1
<1> QED BY <1>7, <1>8

\* Every step of the store and its handlers is a step of the chain.
LEMMA ChainStep ==
    ASSUME LineageInv, LineageInv', [Next]_vars
    PROVE  [Chain!Next]_(Chain!vars)
<1>1. Grows /\ ChainInv BY StepGrows DEF LineageInv
<1>2. CASE issued' # issued
  <2>1. PICK u \in issued' : u \notin issued BY <1>1, <1>2 DEF Grows
  <2>2. u \in Tokens BY <2>1 DEF LineageInv, ChainInv, TypeOK
  <2>3. CASE u \in Families
    <3>1. Login(u) BY <1>1, <2>1, <2>3, ConstantsAssumption, TokenMaker
    <3> QED BY <1>1, <2>2, <2>3, <3>1, ChainLogin DEF Chain!Next
  <2>4. CASE u \in Reqs
    <3>1. IssueRotated(u) BY <1>1, <2>1, <2>4, ConstantsAssumption, TokenMaker
    <3> QED BY <1>1, <2>1, <2>2, <2>4, <3>1, ChainMint DEF Chain!Next
  <2> QED BY <2>2, <2>3, <2>4 DEF Tokens
<1>3. CASE issued' = issued /\ \E r \in Reqs : pc'[r] \in InFlightPC /\ pc[r] \notin InFlightPC
  BY <1>1, <1>3, ChainTake DEF Chain!Next
<1>4. CASE /\ issued' = issued
           /\ \A r \in Reqs : pc'[r] \in InFlightPC => pc[r] \in InFlightPC
  BY <1>1, <1>4, ChainRest DEF Chain!Next
<1> QED BY <1>2, <1>3, <1>4

\* The store starts with every family unborn.
LEMMA ChainStart == Init => Chain!Init
<1> SUFFICES ASSUME Init PROVE Chain!Init OBVIOUS
<1>1. \A f \in Families : LiveOf(f) = {} /\ Rotating(f) = {}
  BY DEF Init, LiveOf, Rotating, InFlight, InFlightPC
<1>2. \A f \in Families : FamilyState(f) = "unborn" /\ FamilyLeaf(f) = None
  BY <1>1 DEF Init, FamilyState, FamilyLeaf
<1>3. \A t \in Tokens : SuccessorOf(t) = None BY DEF Init, SuccessorOf
<1> QED BY <1>2, <1>3 DEF Chain!Init

\* The in-memory store under its concurrent handlers implements the chain that
\* RefreshFamily promises of every refresh-token store.
THEOREM StoreImplementsChain == Spec => ImplementsChain
<1>1. LineageInv /\ LineageInv' /\ [Next]_vars => [Chain!Next]_(Chain!vars) BY ChainStep
<1> QED BY ChainStart, <1>1, LineageAlways, PTL DEF Spec, ImplementsChain, Chain!Spec

(***************************************************************************)
(* A kill has its reason.  The grace cache, first.                         *)
(***************************************************************************)
\* PreparePending leaves, prunes or sets the entry of the presented token.
LEMMA PrepareWrites ==
    ASSUME TypeOK, NEW r \in Reqs, PreparePending(r), NEW t \in Tokens, grace'[t] # grace[t]
    PROVE  \/ grace'[t] = NoGrace /\ grace[t].expires <= now
           \/ /\ req[r].tok = t /\ Prepared(grace'[t], r)
              /\ grace[t].kind = "none" \/ grace[t].expires <= now
<1> DEFINE u == req[r].tok
           until == RefreshGraceExpiresAt(info[u].expires)
           marker == [NoGrace EXCEPT !.kind = "pending", !.family = FamilyOf(u),
                      !.client = req[r].client, !.jkt = req[r].jkt,
                      !.x5t = req[r].x5t, !.expires = until]
<1>1. u \in Tokens /\ Prune \in [Tokens -> GraceEntry] BY GraceTyped DEF TypeOK, Request
<1>2. /\ marker.kind = "pending" /\ marker.family = FamilyOf(u)
      /\ marker.client = req[r].client /\ marker.jkt = req[r].jkt
      /\ marker.x5t = req[r].x5t /\ marker.expires = until
  BY DEF NoGrace
<1>3. Prepared(marker, r) BY <1>2 DEF Prepared, SameCaller
<1>4. \/ grace' = grace
      \/ grace' = Prune
      \/ grace' = [Prune EXCEPT ![u] = marker] /\ Prune[u].kind = "none"
  BY DEF PreparePending
<1> HIDE DEF marker
<1>5. Prune[t] = IF grace[t].expires <= now THEN NoGrace ELSE grace[t] BY DEF Prune
<1>6. grace'[t] = Prune[t] \/ (t = u /\ grace'[t] = marker /\ Prune[t].kind = "none")
  BY <1>1, <1>4
<1> QED BY <1>3, <1>5, <1>6

\* Remember leaves, prunes or completes the entry of the presented token.
LEMMA RememberWrites ==
    ASSUME TypeOK, NEW r \in Reqs, Remember(r), NEW t \in Tokens
    PROVE  /\ grace'[t] # grace[t] =>
              \/ grace'[t] = NoGrace /\ grace[t].expires <= now
              \/ req[r].tok = t /\ Completed(grace'[t], r)
           /\ (/\ req[r].tok = t /\ now < info[t].expires
               /\ RefreshGraceExpiresAt(Min2(info[t].expires, now + AccessTTL)) > now)
              => Completed(grace'[t], r)
<1> DEFINE u == req[r].tok
           until == RefreshGraceExpiresAt(Min2(info[u].expires, now + AccessTTL))
           done == [NoGrace EXCEPT !.kind = "done", !.client = req[r].client,
                    !.jkt = req[r].jkt, !.x5t = req[r].x5t, !.succ = r,
                    !.scopes = grant[r], !.expires = until]
<1>1. u \in Tokens /\ Prune \in [Tokens -> GraceEntry] BY GraceTyped DEF TypeOK, Request
<1>2. /\ done.kind = "done" /\ done.client = req[r].client /\ done.jkt = req[r].jkt
      /\ done.x5t = req[r].x5t /\ done.succ = r /\ done.scopes = grant[r]
      /\ done.expires = until
  BY DEF NoGrace
<1>3. Completed(done, r) BY <1>2 DEF Completed, SameCaller
<1>4. /\ now >= info[u].expires => grace' = grace
      /\ ~(now >= info[u].expires) /\ until <= now => grace' = Prune
      /\ ~(now >= info[u].expires) /\ ~(until <= now) => grace' = [Prune EXCEPT ![u] = done]
  BY DEF Remember
<1> HIDE DEF done
<1>5. Prune[t] = IF grace[t].expires <= now THEN NoGrace ELSE grace[t] BY DEF Prune
<1>6. grace'[t] = grace[t] \/ grace'[t] = Prune[t] \/ (t = u /\ grace'[t] = done)
  BY <1>1, <1>4
<1>7. /\ now \in Nat /\ info[u].expires \in Nat /\ until \in Nat
  <2>1. now \in Nat /\ info[u] \in Info BY <1>1, ConstantsAssumption DEF TypeOK
  <2>2. Min2(info[u].expires, now + AccessTTL) \in Nat
    BY <2>1, ConstantsAssumption DEF Min2, Info, Times
  <2> QED BY <2>1, <2>2, GraceTyped DEF Info, Times
<1>8. u = t /\ now < info[u].expires /\ until > now => grace'[t] = done
  BY <1>1, <1>4, <1>7
<1> QED BY <1>3, <1>5, <1>6, <1>8

\* Only these two write the cache.
LEMMA GraceStep ==
    ASSUME ChainInv, [Next]_vars, NEW t \in Tokens, grace'[t] # grace[t]
    PROVE  \/ grace'[t] = NoGrace /\ grace[t].expires <= now
           \/ \E r \in Reqs :
                 /\ PreparePending(r) /\ req[r].tok = t /\ Prepared(grace'[t], r)
                 /\ grace[t].kind = "none" \/ grace[t].expires <= now
           \/ \E r \in Reqs : Remember(r) /\ req[r].tok = t /\ Completed(grace'[t], r)
<1>1. CASE UNCHANGED vars \/ Quiescent
  BY <1>1 DEF vars, Quiescent
<1>2. CASE Environment
  BY <1>2 DEF Environment, Login, RevokeSession, RequireStepUp, DeleteAllForSubject,
         DeleteAllForClient, SuspendUser, TightenCeiling, RevokeAccess, SweepExpired, Tick
<1>3. ASSUME NEW r \in Reqs, Acts(r) PROVE PreparePending(r) \/ Remember(r)
  BY <1>3 DEF Acts, RefreshStep, RevokeStep, Submit, SubmitRevoke, RevokeInspect,
       RevokeInspectFails, RevokeDelete, Inspect, InspectFails, Consume, ConsumeFails,
       Guard, SessionGetFails, RecordRotation, RecordRotationFails, VelocityKill,
       IssueRotated, IssueFails, ReplayLookup, ReplayCheck, AwaitPoll, AwaitLimit, ReuseKill
<1> QED BY <1>1, <1>2, <1>3, PrepareWrites, RememberWrites DEF Next, Acts, ChainInv

(***************************************************************************)
(* The parts of the invariant.                                             *)
(***************************************************************************)
\* A request that answered does nothing more.
LEMMA AnsweredStill ==
    ASSUME ChainInv, [Next]_vars, NEW q \in Reqs, pc[q] = "answered" PROVE Still(q)
BY OneActs DEF Acts, RefreshStep, RevokeStep, Submit, SubmitRevoke,
         RevokeInspect, RevokeInspectFails, RevokeDelete, Inspect, InspectFails,
         PreparePending, Consume, ConsumeFails, Guard, SessionGetFails, RecordRotation,
         RecordRotationFails, VelocityKill, IssueRotated, IssueFails, Remember,
         ReplayLookup, ReplayCheck, AwaitPoll, AwaitLimit, ReuseKill

\* A 200 ends a rotation or a replay.
LEMMA OkFinalNext ==
    ASSUME KillInv, [Next]_vars PROVE OkIsFinal'
<1> SUFFICES ASSUME NEW r \in Reqs, resp'[r].code = "ok" PROVE pc'[r] = "answered"
  BY DEF OkIsFinal
<1>1. ChainInv /\ TypeOK /\ OkIsFinal BY DEF KillInv, LineageInv, ChainInv
<1>2. CASE resp'[r] = resp[r] BY <1>1, <1>2, AnsweredStill DEF OkIsFinal, Still
<1>3. CASE resp'[r] # resp[r]
  <2>1. Acts(r) BY <1>1, <1>3, OneActs DEF Still
  <2> QED BY <1>1, <1>3, <2>1 DEF Acts, RefreshStep, RevokeStep, Submit, SubmitRevoke,
         RevokeInspect, RevokeInspectFails, RevokeDelete, Inspect, InspectFails,
         PreparePending, Consume, ConsumeFails, Guard, SessionGetFails, RecordRotation,
         RecordRotationFails, VelocityKill, IssueRotated, IssueFails, Remember,
         ReplayLookup, ReplayCheck, AwaitPoll, AwaitLimit, ReuseKill, Goto, Answer, Refuse,
         TypeOK
<1> QED BY <1>2, <1>3

\* Past its Consume a request never goes back.
LEMMA PastConsumeStays ==
    ASSUME ChainInv, [Next]_vars, NEW q \in Reqs, pc[q] \in PastConsumePC \cup {"answered"}
    PROVE  pc'[q] \in PastConsumePC \cup {"answered"}
BY OneActs DEF Still, Acts, RefreshStep, RevokeStep, Submit, SubmitRevoke,
         RevokeInspect, RevokeInspectFails, RevokeDelete, Inspect, InspectFails,
         PreparePending, Consume, ConsumeFails, Guard, SessionGetFails, RecordRotation,
         RecordRotationFails, VelocityKill, IssueRotated, IssueFails, Remember,
         ReplayLookup, ReplayCheck, AwaitPoll, AwaitLimit, ReuseKill, Goto, Answer, Refuse,
         AfterReplay, PastConsumePC, ChainInv, TypeOK

\* It gets there by its Consume.
LEMMA PastConsumeEntered ==
    ASSUME ChainInv, [Next]_vars, NEW q \in Reqs, pc'[q] \in PastConsumePC,
           pc[q] \notin PastConsumePC
    PROVE  pc'[q] = "guard" /\ pc[q] = "consume"
BY OneActs DEF Still, Acts, RefreshStep, RevokeStep, Submit, SubmitRevoke,
         RevokeInspect, RevokeInspectFails, RevokeDelete, Inspect, InspectFails,
         PreparePending, Consume, ConsumeFails, Guard, SessionGetFails, RecordRotation,
         RecordRotationFails, VelocityKill, IssueRotated, IssueFails, Remember,
         ReplayLookup, ReplayCheck, AwaitPoll, AwaitLimit, ReuseKill, Goto, Answer, Refuse,
         AfterReplay, PastConsumePC, ChainInv, TypeOK

\* Only a Consume records a consumer.
LEMMA ConsumerRecorded ==
    ASSUME ChainInv, [Next]_vars, NEW t \in Tokens, consumed'[t] # consumed[t]
    PROVE  \E r \in Reqs : pc'[r] = "guard" /\ pc[r] = "consume" /\ req[r].tok = t
<1> USE DEF ChainInv, TypeOK, hist
<1>1. CASE UNCHANGED vars \/ Quiescent
  BY <1>1 DEF vars, Quiescent
<1>2. CASE Environment
  BY <1>2 DEF Environment, Login, RevokeSession, RequireStepUp, DeleteAllForSubject,
         DeleteAllForClient, SuspendUser, TightenCeiling, RevokeAccess, SweepExpired, Tick
<1>3. ASSUME NEW r \in Reqs, Acts(r) PROVE Consume(r)
  BY <1>3 DEF Acts, RefreshStep, RevokeStep, Submit, SubmitRevoke, RevokeInspect,
       RevokeInspectFails, RevokeDelete, Inspect, InspectFails, ConsumeFails,
       Guard, SessionGetFails, RecordRotation, RecordRotationFails, VelocityKill,
       IssueRotated, IssueFails, ReplayLookup, ReplayCheck, AwaitPoll, AwaitLimit, ReuseKill,
       PreparePending, Remember, DeleteFamily, DeleteFamilyFails
<1>4. ASSUME NEW r \in Reqs, Consume(r)
      PROVE  pc'[r] = "guard" /\ pc[r] = "consume" /\ req[r].tok = t
  BY <1>4 DEF Consume, Goto
<1> QED BY <1>1, <1>2, <1>3, <1>4 DEF Next, Acts

\* Waiting for a second try happens on the reuse path only.
LEMMA SecondTry ==
    ASSUME ChainInv, [Next]_vars, NEW r \in Reqs, try'[r] # try[r] PROVE AwaitPoll(r)
BY OneActs DEF Still, Acts, RefreshStep, RevokeStep, Submit, SubmitRevoke,
         RevokeInspect, RevokeInspectFails, RevokeDelete, Inspect, InspectFails,
         PreparePending, Consume, ConsumeFails, Guard, SessionGetFails, RecordRotation,
         RecordRotationFails, VelocityKill, IssueRotated, IssueFails, Remember,
         ReplayLookup, ReplayCheck, AwaitLimit, ReuseKill

\* The consumers stay known.
LEMMA ConsumerKnownNext ==
    ASSUME KillInv, [Next]_vars PROVE ConsumerKnown'
<1>1. ChainInv /\ TypeOK /\ ConsumerKnown /\ Grows
  BY StepGrows DEF KillInv, LineageInv, ChainInv
<1>2. ASSUME NEW t \in Tokens, consumed'[t].by \in Reqs
      PROVE  /\ req'[consumed'[t].by].tok = t /\ t \in issued' /\ t \notin entries'
             /\ pc'[consumed'[t].by] \in PastConsumePC \cup {"answered"}
  <2>1. CASE consumed'[t] = consumed[t]
    <3>1. PICK c \in Reqs : c = consumed[t].by BY <1>2, <2>1
    <3>2. /\ req[c].tok = t /\ t \in issued /\ t \notin entries
          /\ pc[c] \in PastConsumePC \cup {"answered"}
      BY <1>1, <3>1 DEF ConsumerKnown
    <3>3. req'[c].tok = t /\ t \in issued' /\ t \notin entries'
      BY <1>1, <3>2 DEF Grows, PastConsumePC
    <3> QED BY <1>1, <2>1, <3>1, <3>2, <3>3, PastConsumeStays
  <2>2. CASE consumed'[t] # consumed[t]
    <3>1. PICK r \in Reqs : pc'[r] = "guard" /\ pc[r] = "consume" /\ req[r].tok = t
      BY <1>1, <2>2, ConsumerRecorded
    <3>2. /\ t \in entries /\ entries' = entries \ {t} /\ issued' = issued /\ req' = req
          /\ consumed' = [consumed EXCEPT ![t] = [by |-> r, at |-> now]]
      BY <1>1, <3>1, TakesLive DEF InFlightPC
    <3>3. consumed'[t].by = r BY <1>1, <3>2 DEF TypeOK
    <3> QED BY <1>1, <3>1, <3>2, <3>3 DEF TypeOK, PastConsumePC
  <2> QED BY <2>1, <2>2
<1>3. ASSUME NEW r \in Reqs, pc'[r] \in PastConsumePC \/ r \in Minted'
      PROVE  consumed'[req'[r].tok].by = r
  <2>1. CASE pc[r] \in PastConsumePC \/ r \in Minted
    <3>1. consumed[req[r].tok].by = r /\ req[r].tok \in Tokens
      BY <1>1, <2>1 DEF ConsumerKnown, TypeOK, Request
    <3>2. req[r].tok \notin entries BY <1>1, <3>1 DEF ConsumerKnown
    <3>3. pc[r] # "idle" BY <1>1, <2>1 DEF PastConsumePC, ChainInv, Bookkeeping
    <3>4. req'[r].tok = req[r].tok /\ consumed'[req[r].tok] = consumed[req[r].tok]
      BY <1>1, <3>1, <3>2, <3>3 DEF Grows
    <3> QED BY <3>1, <3>4
  <2>2. CASE pc[r] \notin PastConsumePC /\ r \notin Minted
    <3>1. r \notin Minted'
      <4>1. r \notin Families BY ConstantsAssumption
      <4> QED BY <1>1, <2>2, <4>1, NewToken DEF Minted, PastConsumePC
    <3>2. pc'[r] = "guard" /\ pc[r] = "consume"
      BY <1>1, <1>3, <2>2, <3>1, PastConsumeEntered
    <3>3. /\ req' = req
          /\ consumed' = [consumed EXCEPT ![req[r].tok] = [by |-> r, at |-> now]]
      BY <1>1, <3>2, TakesLive DEF InFlightPC
    <3> QED BY <1>1, <3>3 DEF TypeOK, Request
  <2> QED BY <2>1, <2>2
<1>4. ASSUME NEW r \in Reqs, pc'[r] \in ReplayPC \/ try'[r] = 2
      PROVE  pc'[r] # "idle" /\ req'[r].tok \notin entries'
  <2>1. pc[r] # "idle" /\ req[r].tok \notin entries
    <3>1. CASE pc[r] \in ReplayPC \/ try[r] = 2 BY <1>1, <3>1 DEF ConsumerKnown
    <3>2. CASE pc'[r] \in ReplayPC /\ pc[r] \notin ReplayPC
      BY <1>1, <3>2, ReplayEntered
    <3>3. CASE try'[r] # try[r]
      BY <1>1, <3>3, SecondTry DEF AwaitPoll, ReplayPC, ConsumerKnown
    <3> QED BY <1>4, <3>1, <3>2, <3>3
  <2>2. req[r].tok \in issued BY <1>1, <2>1 DEF ChainInv, Bookkeeping
  <2> QED BY <1>1, <2>1, <2>2 DEF Grows
<1> QED BY <1>2, <1>3, <1>4 DEF ConsumerKnown

\* Guard lets only the bound caller pass.
LEMMA MintedBoundNext ==
    ASSUME KillInv, [Next]_vars PROVE MintedBound'
<1>1. ChainInv /\ TypeOK /\ MintedBound /\ Grows
  BY StepGrows DEF KillInv, LineageInv, ChainInv
<1> SUFFICES ASSUME NEW r \in Reqs, pc'[r] \in {"velocity", "issue"} \/ r \in Minted'
             PROVE  BoundTo(info'[req'[r].tok], req'[r].client, req'[r].jkt)
  BY DEF MintedBound, BoundTo
<1>2. pc[r] # "idle" /\ BoundTo(info[req[r].tok], req[r].client, req[r].jkt)
  <2>1. CASE pc[r] \in {"velocity", "issue"} \/ r \in Minted
    BY <1>1, <2>1 DEF MintedBound, ChainInv, Bookkeeping
  <2>2. CASE pc[r] \notin {"velocity", "issue"} /\ r \notin Minted
    <3>1. r \notin Families BY ConstantsAssumption
    <3>2. r \notin Minted' BY <1>1, <2>2, <3>1, NewToken DEF Minted
    <3>3. Guard(r)
      BY <1>1, <2>2, <3>2, OneActs DEF Still, Acts, RefreshStep, RevokeStep, Submit, SubmitRevoke,
         RevokeInspect, RevokeInspectFails, RevokeDelete, Inspect, InspectFails,
         PreparePending, Consume, ConsumeFails, SessionGetFails, RecordRotation,
         RecordRotationFails, VelocityKill, IssueRotated, IssueFails, Remember,
         ReplayLookup, ReplayCheck, AwaitPoll, AwaitLimit, ReuseKill, Goto, Answer, Refuse,
         AfterReplay, TypeOK
    <3> QED BY <1>1, <3>2, <3>3 DEF Guard, Answer, Refuse, TypeOK
  <2> QED BY <2>1, <2>2
<1>3. req[r].tok \in issued BY <1>1, <1>2 DEF ChainInv, Bookkeeping
<1> QED BY <1>1, <1>2, <1>3 DEF Grows, BoundTo

\* A prepared deadline is that of a pending entry in the cache.
LEMMA PreparedSet ==
    ASSUME ChainInv, TypeOK', [Next]_vars, NEW r \in Reqs, req'[r].prepared > 0,
           req'[r].prepared # req[r].prepared
    PROVE  /\ PreparePending(r) /\ req[r].tok \in issued /\ now' = now /\ info' = info
           /\ MatchingPending(grace'[req[r].tok], r)
           /\ req'[r].prepared = grace'[req[r].tok].expires
<1>1. TypeOK BY DEF ChainInv
<1>2. ~Submit(r)
  <2> SUFFICES ASSUME Submit(r) PROVE FALSE OBVIOUS
  <2>1. PICK t \in Presentable, c \in Clients, k \in JKTs, x \in Certs, s \in SUBSET Scopes :
            req' = [req EXCEPT ![r] =
                 [tok |-> t, client |-> c, jkt |-> k, x5t |-> x, scope |-> s,
                  prepared |-> 0, barred |-> Barred(info[t], c, k)]]
    BY DEF Submit
  <2>2. req'[r] = [tok |-> t, client |-> c, jkt |-> k, x5t |-> x, scope |-> s,
                  prepared |-> 0, barred |-> Barred(info[t], c, k)]
    BY <1>1, <2>1 DEF TypeOK
  <2>3. req'[r].prepared = 0 BY <2>2
  <2> QED BY <2>3
<1>3. ~SubmitRevoke(r)
  <2> SUFFICES ASSUME SubmitRevoke(r) PROVE FALSE OBVIOUS
  <2>1. PICK t \in Presentable, c \in Clients :
          req' = [req EXCEPT ![r] = [NoRequest EXCEPT !.tok = t, !.client = c]]
    BY DEF SubmitRevoke
  <2>2. req'[r] = [NoRequest EXCEPT !.tok = t, !.client = c] BY <1>1, <2>1 DEF TypeOK
  <2>3. req'[r].prepared = 0 BY <2>2 DEF NoRequest
  <2> QED BY <2>3
<1>4. PreparePending(r)
  BY <1>2, <1>3, OneActs DEF Still, Acts, RefreshStep, RevokeStep,
         RevokeInspect, RevokeInspectFails, RevokeDelete, Inspect, InspectFails,
         Consume, ConsumeFails, Guard, SessionGetFails, RecordRotation,
         RecordRotationFails, VelocityKill, IssueRotated, IssueFails, Remember,
         ReplayLookup, ReplayCheck, AwaitPoll, AwaitLimit, ReuseKill
<1>5. /\ pc[r] = "prepare" /\ now' = now /\ info' = info
      /\ req' = [req EXCEPT ![r].prepared =
            IF RefreshGraceExpiresAt(info[req[r].tok].expires) > now
               /\ MatchingPending(grace'[req[r].tok], r)
            THEN grace'[req[r].tok].expires ELSE 0]
  BY <1>4 DEF PreparePending, store
<1>6. req[r] \in Request BY <1>1 DEF TypeOK
<1>7. req'[r].prepared = IF RefreshGraceExpiresAt(info[req[r].tok].expires) > now
               /\ MatchingPending(grace'[req[r].tok], r)
            THEN grace'[req[r].tok].expires ELSE 0
  BY <1>1, <1>5, <1>6 DEF TypeOK, Request
<1>8. req[r].tok \in issued BY <1>5 DEF ChainInv, Bookkeeping
<1> QED BY <1>4, <1>5, <1>7, <1>8

\* A marker never outlives the token it stands for or the grace window.
LEMMA MarkerBoundsNext ==
    ASSUME KillInv, [Next]_vars PROVE MarkerBounds'
<1>1. ChainInv /\ TypeOK /\ TypeOK' /\ MarkerBounds /\ Grows
  BY StepGrows, TypeNext DEF KillInv, LineageInv, ChainInv
<1>2. now \in Nat /\ now' \in Nat /\ now <= now' /\ GraceWindow \in Nat
  BY <1>1, ConstantsAssumption DEF TypeOK, Grows
<1>3. \A t \in Tokens : /\ info[t].expires \in Nat /\ grace[t].expires \in Nat
                        /\ grace'[t].expires \in Nat
  BY <1>1 DEF TypeOK, Info, GraceEntry, Times
<1>4. ASSUME NEW t \in Tokens, grace'[t].kind # "none" PROVE t \in issued
  <2>1. CASE grace'[t] = grace[t] BY <1>1, <1>4, <2>1 DEF MarkerBounds
  <2>2. CASE grace'[t] # grace[t]
    <3>1. \E r \in Reqs : (PreparePending(r) \/ Remember(r)) /\ req[r].tok = t
      BY <1>1, <1>4, <2>2, GraceStep DEF NoGrace
    <3> QED BY <1>1, <3>1 DEF PreparePending, Remember, ChainInv, Bookkeeping
  <2> QED BY <2>1, <2>2
<1>5. ASSUME NEW t \in Tokens, grace'[t].kind = "pending"
      PROVE  grace'[t].expires <= info'[t].expires /\ grace'[t].expires <= now' + GraceWindow
  <2>1. info'[t] = info[t] BY <1>1, <1>4, <1>5 DEF Grows
  <2>2. CASE grace'[t] = grace[t] BY <1>1, <1>2, <1>3, <1>5, <2>1, <2>2 DEF MarkerBounds
  <2>3. CASE grace'[t] # grace[t]
    <3>1. \E r \in Reqs : PreparePending(r) /\ req[r].tok = t /\ Prepared(grace'[t], r)
      BY <1>1, <1>5, <2>3, GraceStep DEF NoGrace, Completed
    <3>2. grace'[t].expires = RefreshGraceExpiresAt(info[t].expires) BY <3>1 DEF Prepared
    <3> QED BY <1>2, <1>3, <2>1, <3>2 DEF RefreshGraceExpiresAt, Min2
  <2> QED BY <2>2, <2>3
<1>6. ASSUME NEW r \in Reqs, req'[r].prepared > 0
      PROVE  /\ pc'[r] # "idle"
             /\ req'[r].prepared <= info'[req'[r].tok].expires
             /\ req'[r].prepared <= now' + GraceWindow
  <2>1. req'[r].prepared \in Nat /\ req[r].prepared \in Nat /\ req[r].tok \in Tokens
    BY <1>1 DEF TypeOK, Request, Times
  <2>2. CASE req'[r].prepared = req[r].prepared
    <3>1. /\ pc[r] # "idle" /\ req[r].prepared <= info[req[r].tok].expires
          /\ req[r].prepared <= now + GraceWindow
      BY <1>1, <1>6, <2>2 DEF MarkerBounds
    <3>2. req[r].tok \in issued BY <1>1, <3>1 DEF ChainInv, Bookkeeping
    <3>3. pc'[r] # "idle" /\ req'[r].tok = req[r].tok /\ info'[req[r].tok] = info[req[r].tok]
      BY <1>1, <3>1, <3>2 DEF Grows
    <3> QED BY <1>2, <2>1, <2>2, <3>1, <3>3
  <2>3. CASE req'[r].prepared # req[r].prepared
    <3>1. /\ PreparePending(r) /\ req[r].tok \in issued /\ now' = now /\ info' = info
          /\ MatchingPending(grace'[req[r].tok], r)
          /\ req'[r].prepared = grace'[req[r].tok].expires
      BY <1>1, <1>6, <2>3, PreparedSet
    <3>2. pc[r] # "idle" BY <3>1 DEF PreparePending
    <3>3. pc'[r] # "idle" /\ req'[r].tok = req[r].tok BY <1>1, <3>2 DEF Grows
    <3>4. grace'[req[r].tok].kind = "pending" BY <3>1 DEF MatchingPending
    <3> QED BY <1>5, <2>1, <3>1, <3>3, <3>4
  <2> QED BY <2>2, <2>3
<1>7. ASSUME NEW r \in Reqs, pc'[r] = "remember" PROVE grant'[r] = info'[r].scopes
  <2>1. CASE pc[r] = "remember"
    <3>1. Still(r) \/ Remember(r)
      BY <1>1, <2>1, OneActs DEF Acts, RefreshStep, RevokeStep, Submit, SubmitRevoke,
         RevokeInspect, RevokeInspectFails, RevokeDelete, Inspect, InspectFails,
         PreparePending, Consume, ConsumeFails, Guard, SessionGetFails, RecordRotation,
         RecordRotationFails, VelocityKill, IssueRotated, IssueFails,
         ReplayLookup, ReplayCheck, AwaitPoll, AwaitLimit, ReuseKill
    <3>2. grant'[r] = grant[r] BY <3>1 DEF Still, Remember
    <3>3. r \in issued BY <1>1, <2>1 DEF ChainInv, GraceNamesSuccessor, Minted
    <3> QED BY <1>1, <2>1, <3>2, <3>3 DEF Grows, MarkerBounds
  <2>2. CASE pc[r] # "remember"
    <3>1. IssueRotated(r)
      BY <1>1, <1>7, <2>2, OneActs DEF Still, Acts, RefreshStep, RevokeStep, Submit, SubmitRevoke,
         RevokeInspect, RevokeInspectFails, RevokeDelete, Inspect, InspectFails,
         PreparePending, Consume, ConsumeFails, Guard, SessionGetFails, RecordRotation,
         RecordRotationFails, VelocityKill, IssueFails, Remember,
         ReplayLookup, ReplayCheck, AwaitPoll, AwaitLimit, ReuseKill, Goto, Answer, Refuse,
         AfterReplay, TypeOK
    <3>2. info' = [info EXCEPT ![r] = Successor(r)] /\ grant' = grant
      BY <1>1, <1>7, <3>1 DEF IssueRotated, Issue, Refuse, Answer, TypeOK
    <3>3. info'[r] = Successor(r) BY <1>1, <3>2 DEF TypeOK, Tokens
    <3>4. info[req[r].tok] \in Info BY <1>1 DEF TypeOK, Request
    <3>5. Successor(r).scopes = grant[r] BY <3>4 DEF Successor, Info
    <3> QED BY <3>2, <3>3, <3>5
  <2> QED BY <2>1, <2>2
<1>8. issued \subseteq issued' BY <1>1 DEF Grows
<1> QED BY <1>4, <1>5, <1>6, <1>7, <1>8 DEF MarkerBounds

\* What a completed entry says of its rotation stays true.
LEMMA DoneStays ==
    ASSUME KillInv, [Next]_vars, NEW g, g.kind = "done", g.succ \in Minted, Done(g)
    PROVE  Done(g)'
<1>1. ChainInv /\ Grows /\ OkIsFinal BY StepGrows DEF KillInv, LineageInv
<1>2. PICK s \in Minted : s = g.succ OBVIOUS
<1>3. s \in Reqs /\ s \in issued BY DEF Minted
<1>4. /\ resp[s].code = "ok" /\ g.scopes = info[s].scopes /\ SameCaller(g, req[s])
  BY <1>2 DEF Done
<1>5. Still(s) BY <1>1, <1>3, <1>4, AnsweredStill DEF OkIsFinal
<1> QED BY <1>1, <1>2, <1>3, <1>4, <1>5 DEF Done, Still, SameCaller, Grows

\* Completed entries are what their rotations answered.
LEMMA DoneIsAnswerNext ==
    ASSUME KillInv, [Next]_vars PROVE DoneIsAnswer'
<1>1. ChainInv /\ TypeOK /\ TypeOK' /\ MarkerBounds /\ DoneIsAnswer /\ Grows
  BY StepGrows, TypeNext DEF KillInv, LineageInv, ChainInv
<1>2. ASSUME NEW t \in Tokens, grace'[t].kind = "done" PROVE Done(grace[t])'
  <2>1. PICK g : g = grace'[t] OBVIOUS
  <2>2. CASE g = grace[t]
    <3>1. g.succ \in Minted /\ Done(g)
      BY <1>1, <1>2, <2>1, <2>2 DEF ChainInv, GraceNamesSuccessor, IsSuccessor, DoneIsAnswer
    <3>2. Done(g)' BY <1>2, <2>1, <3>1, DoneStays
    <3> QED BY <2>1, <3>2 DEF Done
  <2>3. CASE g # grace[t]
    <3>1. PICK r \in Reqs : Remember(r) /\ Completed(g, r)
      BY <1>1, <1>2, <2>1, <2>3, GraceStep DEF NoGrace, Prepared
    <3>2. pc[r] = "remember" /\ resp'[r].code = "ok" /\ info' = info /\ req' = req
      BY <1>1, <3>1 DEF Remember, Answer, store, TypeOK
    <3>3. g.scopes = info[r].scopes /\ SameCaller(g, req[r]) /\ g.succ = r
      BY <1>1, <3>1, <3>2 DEF Completed, MarkerBounds
    <3> QED BY <2>1, <3>2, <3>3 DEF Done, SameCaller
  <2> QED BY <2>2, <2>3
<1>3. ASSUME NEW r \in Reqs, hold'[r].kind = "done" PROVE Done(hold[r])'
  <2>1. PICK g : g = hold'[r] OBVIOUS
  <2>2. g.succ \in Minted /\ Done(g)
    <3>1. CASE g = hold[r]
      BY <1>1, <1>3, <2>1, <3>1 DEF ChainInv, GraceNamesSuccessor, IsSuccessor, DoneIsAnswer
    <3>2. CASE g # hold[r]
      <4>1. ReplayLookup(r)
        BY <1>1, <2>1, <3>2, OneActs DEF Still, Acts, RefreshStep, RevokeStep, Submit, SubmitRevoke,
         RevokeInspect, RevokeInspectFails, RevokeDelete, Inspect, InspectFails,
         PreparePending, Consume, ConsumeFails, Guard, SessionGetFails, RecordRotation,
         RecordRotationFails, VelocityKill, IssueRotated, IssueFails, Remember,
         ReplayCheck, AwaitPoll, AwaitLimit, ReuseKill
      <4>2. g = Lookup(req[r].tok) /\ req[r].tok \in Tokens
        BY <1>1, <2>1, <4>1 DEF ReplayLookup, TypeOK, Request
      <4>3. g = grace[req[r].tok] BY <1>3, <2>1, <4>2 DEF Lookup, NoGrace
      <4> QED BY <1>1, <1>3, <2>1, <4>2, <4>3 DEF ChainInv, GraceNamesSuccessor, IsSuccessor,
                DoneIsAnswer
    <3> QED BY <3>1, <3>2
  <2>3. Done(g)' BY <1>3, <2>1, <2>2, DoneStays
  <2> QED BY <2>1, <2>3 DEF Done
<1> QED BY <1>2, <1>3 DEF DoneIsAnswer, Done

\* A recorded consumer keeps its place, its request and its 200.
LEMMA ConsumerStays ==
    ASSUME KillInv, [Next]_vars, NEW t \in Tokens, consumed[t].by \in Reqs
    PROVE  /\ consumed'[t] = consumed[t] /\ req'[consumed[t].by] = req[consumed[t].by]
           /\ resp[consumed[t].by].code = "ok" => resp'[consumed[t].by].code = "ok"
<1>1. ChainInv /\ ConsumerKnown /\ OkIsFinal /\ Grows BY StepGrows DEF KillInv, LineageInv
<1>2. PICK c \in Reqs : c = consumed[t].by OBVIOUS
<1>3. t \notin entries /\ pc[c] \in PastConsumePC \cup {"answered"}
  BY <1>1, <1>2 DEF ConsumerKnown
<1>4. consumed'[t] = consumed[t] /\ req'[c] = req[c]
  BY <1>1, <1>3 DEF Grows, PastConsumePC
<1>5. resp[c].code = "ok" => resp'[c].code = "ok"
  BY <1>1, AnsweredStill DEF OkIsFinal, Still
<1> QED BY <1>2, <1>4, <1>5

\* A prepared marker stands until it expires or its rotation answers.
LEMMA MarkerStandsNext ==
    ASSUME KillInv, [Next]_vars PROVE MarkerStands'
<1>1. /\ ChainInv /\ TypeOK /\ TypeOK' /\ MarkerBounds /\ MarkerStands /\ ConsumerKnown
      /\ ConsumerKnown' /\ Grows
  BY StepGrows, TypeNext, ConsumerKnownNext DEF KillInv, LineageInv, ChainInv
<1>2. now \in Nat /\ now' \in Nat /\ now <= now'
  BY <1>1, ConstantsAssumption DEF TypeOK, Grows
<1> SUFFICES ASSUME NEW r \in Reqs, now' < req'[r].prepared
             PROVE  \/ /\ MatchingPending(grace[req[r].tok], r)'
                       /\ grace'[req'[r].tok].expires = req'[r].prepared
                    \/ /\ consumed'[req'[r].tok].by \in Reqs
                       /\ resp'[consumed'[req'[r].tok].by].code = "ok"
  BY DEF MarkerStands
<1>3. req'[r].prepared \in Nat /\ req[r].prepared \in Nat /\ req[r].tok \in Tokens
  BY <1>1 DEF TypeOK, Request, Times
<1>4. PICK t \in Tokens : t = req[r].tok BY <1>3
<1>5. req'[r].prepared > 0 BY <1>2, <1>3
<1>6. CASE req'[r].prepared # req[r].prepared
  <2>1. /\ PreparePending(r) /\ t \in issued /\ info' = info
        /\ MatchingPending(grace'[t], r) /\ req'[r].prepared = grace'[t].expires
    BY <1>1, <1>4, <1>5, <1>6, PreparedSet
  <2>2. pc[r] # "idle" BY <2>1 DEF PreparePending
  <2>3. /\ req'[r].tok = t /\ req'[r].client = req[r].client /\ req'[r].jkt = req[r].jkt
        /\ req'[r].x5t = req[r].x5t
    BY <1>1, <1>4, <2>2 DEF Grows
  <2> QED BY <1>4, <2>1, <2>3 DEF MatchingPending, FamilyOf, SameCaller
<1>7. CASE req'[r].prepared = req[r].prepared
  <2>1. now < req[r].prepared BY <1>2, <1>3, <1>7
  <2>2. pc[r] # "idle" /\ t \in issued
    BY <1>1, <1>4, <1>5, <1>7 DEF MarkerBounds, ChainInv, Bookkeeping
  <2>3. /\ req'[r].tok = t /\ req'[r].client = req[r].client /\ req'[r].jkt = req[r].jkt
        /\ req'[r].x5t = req[r].x5t /\ info'[t] = info[t]
    BY <1>1, <1>4, <2>2 DEF Grows
  <2>4. CASE consumed[t].by \in Reqs /\ resp[consumed[t].by].code = "ok"
    BY <2>3, <2>4, ConsumerStays
  <2>5. CASE MatchingPending(grace[t], r) /\ grace[t].expires = req[r].prepared
    <3>1. CASE grace'[t] = grace[t]
      BY <1>4, <1>7, <2>3, <2>5, <3>1 DEF MatchingPending, FamilyOf, SameCaller
    <3>2. CASE grace'[t] # grace[t]
      <4>1. ~(grace[t].expires <= now) /\ grace[t].kind # "none"
        BY <1>2, <1>3, <2>1, <2>5 DEF MatchingPending
      <4>2. PICK q \in Reqs : Remember(q) /\ req[q].tok = t
        BY <1>1, <3>2, <4>1, GraceStep
      <4>3. consumed[t].by = q
        BY <1>1, <4>2 DEF ConsumerKnown, Remember, PastConsumePC
      <4>4. resp'[q].code = "ok" BY <1>1, <4>2 DEF Remember, Answer, TypeOK
      <4>5. consumed'[t].by = q BY <4>3, ConsumerStays
      <4> QED BY <2>3, <4>4, <4>5
    <3> QED BY <3>1, <3>2
  <2> QED BY <1>1, <1>4, <2>1, <2>4, <2>5 DEF MarkerStands
<1> QED BY <1>6, <1>7

\* A completed rotation stays in the cache while it can be replayed.
LEMMA AnswerStandsNext ==
    ASSUME KillInv, [Next]_vars PROVE AnswerStands'
<1>1. /\ ChainInv /\ TypeOK /\ TypeOK' /\ MarkerBounds /\ AnswerStands /\ ConsumerKnown
      /\ OkIsFinal /\ Inherits /\ Grows
  BY StepGrows, TypeNext DEF KillInv, LineageInv, ChainInv
<1>2. /\ now \in Nat /\ now' \in Nat /\ now <= now' /\ AccessTTL \in Nat
      /\ GraceWindow \in Nat
  BY <1>1, ConstantsAssumption DEF TypeOK, Grows
<1> SUFFICES ASSUME NEW r \in Minted', resp'[r].code = "ok", now' < req'[r].prepared,
                    now' < info'[r].issuedAt + AccessTTL
             PROVE  /\ grace'[req'[r].tok].kind = "done"
                    /\ \/ grace'[req'[r].tok].expires >= req'[r].prepared
                       \/ grace'[req'[r].tok].expires >= info'[r].issuedAt + AccessTTL
  BY DEF AnswerStands
<1>3. r \in Reqs /\ r \in Tokens /\ r \notin Families
  BY ConstantsAssumption DEF Minted, Tokens
<1>4. r \in Minted
  <2>1. CASE r \in issued BY <1>3, <2>1 DEF Minted
  <2>2. CASE r \notin issued
    <3>1. pc[r] = "issue" /\ pc'[r] = "remember"
      BY <1>1, <1>3, <2>2, NewToken DEF Minted
    <3>2. pc'[r] = "answered" BY <1>3, OkFinalNext DEF OkIsFinal
    <3> QED BY <3>1, <3>2
  <2> QED BY <2>1, <2>2
<1>5. pc[r] \in {"remember", "answered"} /\ r \in issued
  BY <1>1, <1>4 DEF Minted, ChainInv, Bookkeeping
<1>6. PICK t \in Tokens : t = req[r].tok BY <1>1, <1>3 DEF TypeOK, Request
<1>7. /\ req'[r] = req[r] /\ info'[r] = info[r] /\ t \in issued /\ info'[t] = info[t]
  BY <1>1, <1>3, <1>5, <1>6 DEF Grows, ChainInv, Bookkeeping
<1>8. /\ req[r].prepared \in Nat /\ info[r].issuedAt \in Nat /\ info[t].expires \in Nat
      /\ grace[t].expires \in Nat /\ grace'[t].expires \in Nat
  BY <1>1, <1>3 DEF TypeOK, Request, Info, GraceEntry, Times
<1>9. now < req[r].prepared /\ now < info[r].issuedAt + AccessTTL
  BY <1>2, <1>7, <1>8
<1>10. CASE pc[r] = "answered"
  <2>1. resp[r].code = "ok" BY <1>1, <1>3, <1>10, AnsweredStill DEF Still
  <2>2. /\ grace[t].kind = "done"
        /\ \/ grace[t].expires >= req[r].prepared
           \/ grace[t].expires >= info[r].issuedAt + AccessTTL
    BY <1>1, <1>4, <1>6, <1>9, <2>1 DEF AnswerStands
  <2>3. ~(grace[t].expires <= now) BY <1>2, <1>8, <1>9, <2>2
  <2>4. grace'[t] = grace[t]
    <3> SUFFICES ASSUME grace'[t] # grace[t] PROVE FALSE OBVIOUS
    <3>1. PICK q \in Reqs : Remember(q) /\ req[q].tok = t
      BY <1>1, <2>2, <2>3, GraceStep
    <3>2. consumed[t].by = q /\ pc[q] = "remember"
      BY <1>1, <3>1 DEF ConsumerKnown, Remember, PastConsumePC
    <3>3. consumed[t].by = r BY <1>1, <1>3, <1>4, <1>6 DEF ConsumerKnown
    <3> QED BY <1>10, <3>2, <3>3
  <2> QED BY <1>6, <1>7, <2>2, <2>4
<1>11. CASE pc[r] = "remember"
  <2>1. resp[r].code # "ok" BY <1>1, <1>3, <1>11 DEF OkIsFinal
  <2>2. Remember(r)
    BY <1>1, <1>3, <1>11, <2>1, OneActs DEF Still, Acts, RefreshStep, RevokeStep, Submit,
         SubmitRevoke, RevokeInspect, RevokeInspectFails, RevokeDelete, Inspect, InspectFails,
         PreparePending, Consume, ConsumeFails, Guard, SessionGetFails, RecordRotation,
         RecordRotationFails, VelocityKill, IssueRotated, IssueFails,
         ReplayLookup, ReplayCheck, AwaitPoll, AwaitLimit, ReuseKill
  <2> DEFINE until == RefreshGraceExpiresAt(Min2(info[t].expires, now + AccessTTL))
  <2>3. req[r].prepared <= info[t].expires /\ req[r].prepared <= now + GraceWindow
    BY <1>1, <1>2, <1>3, <1>6, <1>8, <1>9 DEF MarkerBounds
  <2>4. info[r].issuedAt <= now BY <1>1, <1>4 DEF Inherits
  <2>5. now < info[t].expires BY <1>2, <1>8, <1>9, <2>3
  <2>6. until >= req[r].prepared \/ until >= info[r].issuedAt + AccessTTL
    BY <1>2, <1>8, <2>3, <2>4 DEF RefreshGraceExpiresAt, Min2
  <2>7. until \in Nat BY <1>2, <1>8 DEF RefreshGraceExpiresAt, Min2
  <2>8. until > now BY <1>2, <1>8, <1>9, <2>6, <2>7
  <2>9. Completed(grace'[t], r) BY <1>1, <1>3, <1>6, <2>2, <2>5, <2>8, RememberWrites
  <2>10. grace'[t].kind = "done" /\ grace'[t].expires = until BY <1>6, <2>9 DEF Completed
  <2> QED BY <1>6, <1>7, <2>6, <2>10
<1> QED BY <1>5, <1>10, <1>11

\* Who repeats its token's consumer now did so before, if it was spent then.
LEMMA RepeatedBefore ==
    ASSUME KillInv, [Next]_vars, NEW r \in Reqs, pc[r] # "idle",
           req[r].tok \notin entries, NEW c, c = consumed'[req'[r].tok].by,
           c \in Reqs, SameCaller(req'[r], req'[c]), now' < req'[c].prepared
    PROVE  c = consumed[req[r].tok].by /\ Repeats(r, c) /\ req'[c] = req[c]
<1>1. ChainInv /\ TypeOK /\ TypeOK' /\ Grows
  BY StepGrows, TypeNext DEF KillInv, LineageInv, ChainInv
<1>2. req[r].tok \in Tokens /\ req'[r].tok = req[r].tok
  BY <1>1 DEF TypeOK, Request, Grows
<1>3. consumed'[req[r].tok] = consumed[req[r].tok] BY <1>1, <1>2 DEF Grows
<1>4. c = consumed[req[r].tok].by BY <1>2, <1>3
<1>5. req'[c] = req[c] BY <1>2, <1>4, ConsumerStays
<1>6. SameCaller(req[r], req[c]) BY <1>1, <1>5 DEF SameCaller, Grows
<1>7. now \in Nat /\ now' \in Nat /\ now <= now' /\ req[c].prepared \in Nat
  BY <1>1, ConstantsAssumption DEF TypeOK, Grows, Request, Times
<1> QED BY <1>4, <1>5, <1>6, <1>7 DEF Repeats

\* A second try comes after the first request's answer.
LEMMA WaitedNext ==
    ASSUME KillInv, [Next]_vars PROVE WaitedForAnswer'
<1>1. /\ ChainInv /\ TypeOK /\ ConsumerKnown /\ MarkerStands /\ WaitedForAnswer
  BY DEF KillInv, LineageInv, ChainInv
<1> SUFFICES ASSUME NEW r \in Reqs, NEW c, c = consumed'[req'[r].tok].by,
                    try'[r] = 2, c \in Reqs, SameCaller(req'[r], req'[c]),
                    now' < req'[c].prepared
             PROVE  resp'[c].code = "ok"
  BY DEF WaitedForAnswer, Repeats
<1>2. CASE try[r] = 2
  <2>1. pc[r] # "idle" /\ req[r].tok \notin entries BY <1>1, <1>2 DEF ConsumerKnown
  <2>2. c = consumed[req[r].tok].by /\ Repeats(r, c) BY <2>1, RepeatedBefore
  <2>3. resp[c].code = "ok" BY <1>1, <1>2, <2>2 DEF WaitedForAnswer
  <2>4. req[r].tok \in Tokens BY <1>1 DEF TypeOK, Request
  <2> QED BY <2>2, <2>3, <2>4, ConsumerStays
<1>3. CASE try[r] # 2
  <2>1. AwaitPoll(r) BY <1>1, <1>3, SecondTry
  <2>2. pc[r] = "await" /\ ~MatchingPending(Lookup(req[r].tok), r) /\ resp' = resp
    BY <2>1 DEF AwaitPoll, Goto
  <2>3. pc[r] # "idle" /\ req[r].tok \notin entries
    BY <1>1, <2>2 DEF ConsumerKnown, ReplayPC
  <2>4. c = consumed[req[r].tok].by /\ Repeats(r, c) BY <2>3, RepeatedBefore
  <2>5. PICK t \in Tokens : t = req[r].tok BY <1>1 DEF TypeOK, Request
  <2>6. req[c].tok = t BY <1>1, <2>4, <2>5 DEF ConsumerKnown
  <2>7. CASE MatchingPending(grace[t], c) /\ grace[t].expires = req[c].prepared
    <3>1. Lookup(t) = grace[t] BY <2>4, <2>7 DEF Lookup, Repeats
    <3>2. MatchingPending(grace[t], r)
      BY <2>4, <2>5, <2>6, <2>7 DEF MatchingPending, Repeats, SameCaller
    <3> QED BY <2>2, <2>5, <3>1, <3>2
  <2>8. CASE consumed[t].by \in Reqs /\ resp[consumed[t].by].code = "ok"
    BY <2>2, <2>4, <2>5, <2>8
  <2> QED BY <1>1, <2>4, <2>6, <2>7, <2>8 DEF MarkerStands, Repeats
<1> QED BY <1>2, <1>3

\* A consumer that answered 200 minted the token's successor.
LEMMA AnsweredMinted ==
    ASSUME KillInv, NEW t \in Tokens, NEW c \in Reqs, c = consumed[t].by, resp[c].code = "ok"
    PROVE  c \in Minted /\ req[c].tok = t
<1>1. ChainInv /\ TypeOK /\ ConsumerKnown BY DEF KillInv, LineageInv, ChainInv
<1>2. req[c].tok = t BY <1>1 DEF ConsumerKnown
<1>3. resp[c].tok \in Minted /\ req[resp[c].tok].tok = t
  BY <1>1, <1>2 DEF ChainInv, GraceNamesSuccessor, IsSuccessor
<1>4. consumed[t].by = resp[c].tok BY <1>1, <1>3 DEF ConsumerKnown, Minted
<1> QED BY <1>2, <1>3, <1>4

\* A reason that holds keeps holding.
LEMMA ReasonStays ==
    ASSUME KillInv, Grows, TypeOK', NEW r \in Reqs, pc[r] # "idle", NEW c \in Minted,
           \/ c \notin entries
           \/ c \in revokedAccess
           \/ now >= info[c].issuedAt + AccessTTL
           \/ /\ RequestedScopes(info[c], req[r]) \subseteq info[c].scopes
              /\ ResolvedScopes(info[c], req[r]) # info[c].scopes
    PROVE  \/ c \notin entries'
           \/ c \in revokedAccess'
           \/ now' >= info'[c].issuedAt + AccessTTL
           \/ /\ RequestedScopes(info'[c], req'[r]) \subseteq info'[c].scopes
              /\ RequestedScopes(info'[c], req'[r]) \cap ceiling' # info'[c].scopes
<1>1. TypeOK /\ c \in issued /\ c \in Tokens
  BY DEF KillInv, LineageInv, ChainInv, Minted, TypeOK, Tokens
<1>2. info'[c] = info[c] /\ req'[r].scope = req[r].scope BY <1>1 DEF Grows
<1>3. now \in Nat /\ now' \in Nat /\ now <= now' /\ info[c].issuedAt \in Nat /\ AccessTTL \in Nat
  BY <1>1, ConstantsAssumption DEF TypeOK, Info, Times, Grows
<1>4. CASE c \notin entries BY <1>1, <1>4 DEF Grows
<1>5. CASE c \in revokedAccess BY <1>5 DEF Grows
<1>6. CASE now >= info[c].issuedAt + AccessTTL BY <1>2, <1>3, <1>6
<1>7. CASE /\ RequestedScopes(info[c], req[r]) \subseteq info[c].scopes
           /\ ResolvedScopes(info[c], req[r]) # info[c].scopes
  <2>1. RequestedScopes(info'[c], req'[r]) = RequestedScopes(info[c], req[r])
    BY <1>2 DEF RequestedScopes
  <2>2. ceiling' \subseteq ceiling BY DEF Grows
  <2> QED BY <1>2, <1>7, <2>1, <2>2 DEF ResolvedScopes
<1> QED BY <1>4, <1>5, <1>6, <1>7

\* A second try whose first request answered fails the lookup only when the
\* access token is no longer valid.
LEMMA LookupReason ==
    ASSUME KillInv, NEW r \in Reqs, NEW c \in Minted, c = consumed[req[r].tok].by,
           Repeats(r, c), resp[c].code = "ok", Lookup(req[r].tok).kind # "done"
    PROVE  now >= info[c].issuedAt + AccessTTL
<1>1. TypeOK /\ ConsumerKnown /\ AnswerStands BY DEF KillInv, LineageInv, ChainInv
<1>2. PICK t \in Tokens : t = req[r].tok BY <1>1 DEF TypeOK, Request
<1>3. c \in Reqs /\ c \in Tokens /\ req[c].tok = t
  BY <1>1, <1>2 DEF Minted, Tokens, ConsumerKnown
<1>4. now \in Nat /\ info[c].issuedAt \in Nat /\ AccessTTL \in Nat /\ grace[t].expires \in Nat
      /\ req[c].prepared \in Nat /\ now < req[c].prepared
  BY <1>1, <1>3, ConstantsAssumption DEF TypeOK, Info, Times, GraceEntry, Request, Repeats
<1> SUFFICES ASSUME now < info[c].issuedAt + AccessTTL PROVE FALSE BY <1>4
<1>5. /\ grace[t].kind = "done"
      /\ grace[t].expires >= req[c].prepared \/ grace[t].expires >= info[c].issuedAt + AccessTTL
  BY <1>1, <1>3, <1>4 DEF AnswerStands
<1>6. now < grace[t].expires BY <1>4, <1>5
<1> QED BY <1>2, <1>5, <1>6 DEF Lookup

\* A check that sends a repeated request to the kill has found a reason.
LEMMA CheckReason ==
    ASSUME KillInv, TypeOK', NEW r \in Reqs, NEW c \in Minted, c = consumed[req[r].tok].by,
           Repeats(r, c), ReplayCheck(r), pc'[r] = "kill"
    PROVE  \/ c \notin entries'
           \/ c \in revokedAccess
           \/ now >= info[c].issuedAt + AccessTTL
           \/ /\ RequestedScopes(info[c], req[r]) \subseteq info[c].scopes
              /\ ResolvedScopes(info[c], req[r]) # info[c].scopes
<1>1. /\ ChainInv /\ TypeOK /\ ConsumerKnown /\ MintedBound /\ Inherits /\ DoneIsAnswer
  BY DEF KillInv, LineageInv, ChainInv
<1>2. pc[r] = "check" /\ hold[r].kind = "done"
  BY <1>1 DEF ReplayCheck, ChainInv, GraceNamesSuccessor
<1>3. hold[r].succ = c
  <2>1. hold[r].succ \in Minted /\ req[hold[r].succ].tok = req[r].tok
    BY <1>1, <1>2 DEF ChainInv, GraceNamesSuccessor, IsSuccessor
  <2> QED BY <1>1, <2>1 DEF ConsumerKnown, Minted
<1>4. c \in Reqs /\ req[c].tok = req[r].tok /\ c \in Tokens
  BY <1>1, <1>2, <1>3 DEF Minted, ChainInv, GraceNamesSuccessor, IsSuccessor, Tokens
<1>5. hold[r].scopes = info[c].scopes /\ SameCaller(hold[r], req[r])
  BY <1>1, <1>2, <1>3 DEF DoneIsAnswer, Done, Repeats, SameCaller
<1>6. info[c].family = FamilyOf(req[r].tok) BY <1>1, <1>4 DEF Inherits, FamilyOf
<1>7. BoundTo(info[c], req[r].client, req[r].jkt)
  BY <1>1, <1>4 DEF Inherits, MintedBound, BoundTo, Repeats, SameCaller
<1>8. now \in Nat /\ info[c].issuedAt \in Nat /\ AccessTTL \in Nat
  BY <1>1, <1>4, ConstantsAssumption DEF TypeOK, Info, Times
<1>9. \/ ~InspectLive(c)
      \/ /\ GrantVerdict(info[c], req[r]) = "ok"
         /\ \/ hold[r].scopes # ResolvedScopes(info[c], req[r])
            \/ c \in revokedAccess
            \/ ~(now < info[c].issuedAt + AccessTTL)
  BY <1>1, <1>3, <1>5, <1>6, <1>7 DEF ReplayCheck, Refuse, Answer, TypeOK
<1>10. CASE ~InspectLive(c)
  BY <1>3, <1>10 DEF ReplayCheck, AfterInspect, InspectLive
<1>11. GrantVerdict(info[c], req[r]) = "ok" =>
         RequestedScopes(info[c], req[r]) \subseteq info[c].scopes
  BY DEF GrantVerdict, RequestedScopes
<1>12. CASE /\ GrantVerdict(info[c], req[r]) = "ok"
            /\ hold[r].scopes # ResolvedScopes(info[c], req[r])
  <2>1. RequestedScopes(info[c], req[r]) \subseteq info[c].scopes BY <1>11, <1>12
  <2>2. ResolvedScopes(info[c], req[r]) # info[c].scopes BY <1>5, <1>12
  <2> QED BY <2>1, <2>2
<1>13. CASE ~(now < info[c].issuedAt + AccessTTL)
  <2>1. now >= info[c].issuedAt + AccessTTL BY <1>8, <1>13
  <2> QED BY <2>1
<1> QED BY <1>9, <1>10, <1>12, <1>13

\* With a store that does not fail, every kill has its reason.
LEMMA KillReasonNext ==
    ASSUME ~StoreErrors, KillInv, [Next]_vars PROVE KillReason'
<1>1. /\ ChainInv /\ TypeOK /\ TypeOK' /\ ConsumerKnown /\ WaitedForAnswer /\ KillReason
      /\ Grows
  BY StepGrows, TypeNext DEF KillInv, LineageInv, ChainInv
<1>2. ASSUME NEW r \in Reqs, pc'[r] = "kill"
      PROVE  /\ try'[r] = 2 /\ try[r] = 2 /\ pc[r] \in ReplayPC
             /\ \/ pc[r] = "kill"
                \/ ReplayLookup(r) /\ Lookup(req[r].tok).kind # "done"
                \/ ReplayCheck(r)
  <2>1. CASE pc[r] = "kill"
    <3>1. Still(r) \/ ReuseKill(r)
      BY <1>1, <2>1, OneActs DEF Acts, RefreshStep, RevokeStep, Submit, SubmitRevoke,
         RevokeInspect, RevokeInspectFails, RevokeDelete, Inspect, InspectFails,
         PreparePending, Consume, ConsumeFails, Guard, SessionGetFails, RecordRotation,
         RecordRotationFails, VelocityKill, IssueRotated, IssueFails, Remember,
         ReplayLookup, ReplayCheck, AwaitPoll, AwaitLimit
    <3> QED BY <1>1, <2>1, <3>1 DEF KillReason, Still, ReuseKill, ReplayPC
  <2>2. CASE pc[r] # "kill"
    <3>1. ReplayLookup(r) \/ ReplayCheck(r)
      BY <1>1, <1>2, <2>2, OneActs DEF Still, Acts, RefreshStep, RevokeStep, Submit, SubmitRevoke,
         RevokeInspect, RevokeInspectFails, RevokeDelete, Inspect, InspectFails,
         PreparePending, Consume, ConsumeFails, Guard, SessionGetFails, RecordRotation,
         RecordRotationFails, VelocityKill, IssueRotated, IssueFails, Remember,
         AwaitPoll, AwaitLimit, ReuseKill, Goto, Answer, Refuse, TypeOK
    <3>2. /\ AfterReplay(r) = "kill" /\ pc[r] \in ReplayPC /\ try' = try
          /\ ReplayLookup(r) => Lookup(req[r].tok).kind # "done"
      BY <1>1, <1>2, <3>1 DEF ReplayLookup, ReplayCheck, Goto, Answer, Refuse, TypeOK, ReplayPC
    <3>3. try[r] = 2 BY <1>1, <3>2 DEF AfterReplay, TypeOK
    <3> QED BY <3>1, <3>2, <3>3
  <2> QED BY <2>1, <2>2
<1>3. ASSUME NEW r \in Reqs, pc'[r] = "kill", NEW c, c = consumed'[req'[r].tok].by, c \in Reqs,
             SameCaller(req'[r], req'[c]), now' < req'[c].prepared
      PROVE  \/ c \notin entries'
             \/ c \in revokedAccess'
             \/ now' >= info'[c].issuedAt + AccessTTL
             \/ /\ RequestedScopes(info'[c], req'[r]) \subseteq info'[c].scopes
                /\ RequestedScopes(info'[c], req'[r]) \cap ceiling' # info'[c].scopes
  <2>1. try[r] = 2 /\ pc[r] # "idle" /\ req[r].tok \notin entries
    BY <1>1, <1>2, <1>3 DEF ConsumerKnown, ReplayPC
  <2>2. c = consumed[req[r].tok].by /\ Repeats(r, c) BY <1>3, <2>1, RepeatedBefore
  <2>3. resp[c].code = "ok" BY <1>1, <2>1, <2>2 DEF WaitedForAnswer
  <2>4. c \in Minted BY <1>1, <1>3, <2>2, <2>3, AnsweredMinted DEF TypeOK, Request
  <2>5. CASE pc[r] = "kill"
    BY <1>1, <2>1, <2>2, <2>4, <2>5, ReasonStays DEF KillReason
  <2>6. CASE ReplayLookup(r) /\ Lookup(req[r].tok).kind # "done"
    <3>1. now >= info[c].issuedAt + AccessTTL BY <2>2, <2>3, <2>4, <2>6, LookupReason
    <3> QED BY <1>1, <2>1, <2>4, <3>1, ReasonStays
  <2>7. CASE ReplayCheck(r)
    <3>1. \/ c \notin entries'
          \/ c \in revokedAccess
          \/ now >= info[c].issuedAt + AccessTTL
          \/ /\ RequestedScopes(info[c], req[r]) \subseteq info[c].scopes
             /\ ResolvedScopes(info[c], req[r]) # info[c].scopes
      BY <1>1, <1>3, <2>2, <2>4, <2>7, CheckReason
    <3>2. CASE c \notin entries' BY <3>2
    <3> QED BY <1>1, <2>1, <2>4, <3>1, <3>2, ReasonStays
  <2> QED BY <1>2, <1>3, <2>5, <2>6, <2>7
<1> QED BY <1>2, <1>3 DEF KillReason, Repeats, ResolvedScopes

\* The invariant behind KillJustified holds in every reachable state.
LEMMA KillAlways ==
    ASSUME ~StoreErrors PROVE Spec => []KillInv
<1>1. Init => KillInv
  <2> SUFFICES ASSUME Init PROVE KillInv OBVIOUS
  <2>1. LineageInv
    BY ChainInit DEF Init, LineageInv, GrantFits, Inherits, FamilyLineage, Minted
  <2>2. \A t \in Tokens : consumed[t].by \notin Reqs
    BY AnyInSets, ConstantsAssumption DEF Init, NotConsumed
  <2>3. OkIsFinal /\ ConsumerKnown
    BY <2>2 DEF Init, OkIsFinal, NoAnswer, ConsumerKnown, PastConsumePC, ReplayPC, Minted
  <2>4. MintedBound /\ AnswerStands BY DEF Init, MintedBound, AnswerStands, Minted
  <2>5. MarkerBounds BY DEF Init, MarkerBounds, NoGrace, NoRequest
  <2>6. DoneIsAnswer BY DEF Init, DoneIsAnswer, Done, NoGrace
  <2>7. MarkerStands BY DEF Init, MarkerStands, NoRequest
  <2>8. WaitedForAnswer /\ KillReason BY DEF Init, WaitedForAnswer, KillReason
  <2> QED BY <2>1, <2>3, <2>4, <2>5, <2>6, <2>7, <2>8 DEF KillInv
<1>2. KillInv /\ [Next]_vars => KillInv'
  <2> SUFFICES ASSUME KillInv, [Next]_vars PROVE KillInv' OBVIOUS
  <2>1. LineageInv'
    BY ChainNext, GuardFits, SuccessorInherits, LineageStep DEF KillInv, LineageInv
  <2> QED BY <2>1, OkFinalNext, ConsumerKnownNext, MintedBoundNext, MarkerBoundsNext,
        DoneIsAnswerNext, MarkerStandsNext, AnswerStandsNext, WaitedNext, KillReasonNext
        DEF KillInv
<1> QED BY <1>1, <1>2, PTL DEF Spec

\* With a store that does not fail, as the memory store, a double submit by the
\* same caller inside the window kills the family only after the first submit
\* was answered, and only when its successor can no longer be replayed.
THEOREM KillJustifiedAlways ==
    ASSUME ~StoreErrors PROVE Spec => []KillJustified
<1>1. KillInv => KillJustified
  <2> SUFFICES ASSUME KillInv, NEW r \in Reqs, NEW c, c = consumed[req[r].tok].by,
                      pc[r] = "kill", c \in Reqs, SameCaller(req[r], req[c]),
                      now < req[c].prepared
               PROVE  /\ resp[c].code = "ok"
                      /\ \/ c \notin entries \/ IsExpired(c)
                         \/ c \in revokedAccess \/ now >= info[c].issuedAt + AccessTTL
                         \/ GrantVerdict(info[c], req[r]) # "ok"
                         \/ ResolvedScopes(info[c], req[r]) # info[c].scopes
    BY DEF KillJustified
  <2>1. try[r] = 2 /\ Repeats(r, c) BY DEF KillInv, KillReason, Repeats
  <2>2. resp[c].code = "ok" BY <2>1 DEF KillInv, WaitedForAnswer
  <2> QED BY <2>1, <2>2 DEF KillInv, KillReason
<1> QED BY KillAlways, <1>1, PTL
=============================================================================
