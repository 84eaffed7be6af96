----------------------- MODULE RefreshRotationProofs -----------------------
(***************************************************************************)
(* Machine-checked proofs about RefreshRotation, for every set of          *)
(* requests, families, clients and keys and every value of the limits.     *)
(***************************************************************************)
EXTENDS RefreshRotation, TLAPS

(***************************************************************************)
(* The default records are well typed.                                     *)
(***************************************************************************)
\* The arbitrary elements the default records are made of exist.
LEMMA AnyInSets ==
    /\ AnyFamily \in Families /\ AnyClient \in Clients
    /\ AnyUser \in Users /\ AnyCert \in Certs
BY ConstantsAssumption DEF AnyFamily, AnyClient, AnyUser, AnyCert

\* The values the state variables start from have their types.
LEMMA DefaultsTyped ==
    /\ NoInfo \in Info /\ NoGrace \in GraceEntry /\ NoRequest \in Request
    /\ NoAnswer \in [code : Codes, tok : Tokens]
    /\ NoWindow \in [count : Nat, start : Times]
    /\ NotConsumed \in [by : Tokens, at : Times]
BY AnyInSets DEF NoInfo, NoGrace, NoRequest, NoAnswer, NoWindow, NotConsumed,
     Info, GraceEntry, Request, Codes, Tokens, JKTs, Times

\* Init establishes the type invariant.
LEMMA TypeInit == Init => TypeOK
BY DefaultsTyped, ConstantsAssumption DEF Init, TypeOK, PCs, Tokens

\* The verdict on a grant is one of the answers' codes.
LEMMA VerdictTyped ==
    ASSUME NEW i, NEW q PROVE GrantVerdict(i, q) \in Codes
BY DEF GrantVerdict, Codes

\* What the grace cache returns, and what pruning leaves, is well typed.
LEMMA GraceTyped ==
    ASSUME TypeOK
    PROVE  /\ Prune \in [Tokens -> GraceEntry]
           /\ \A t \in Tokens : Lookup(t) \in GraceEntry
           /\ \A d \in Nat : RefreshGraceExpiresAt(d) \in Nat
<1> USE DefaultsTyped, ConstantsAssumption DEF TypeOK
<1>1. Prune \in [Tokens -> GraceEntry] BY DEF Prune
<1>2. \A t \in Tokens : Lookup(t) \in GraceEntry BY DEF Lookup
<1>3. \A d \in Nat : RefreshGraceExpiresAt(d) \in Nat
  BY DEF RefreshGraceExpiresAt, Min2
<1> QED BY <1>1, <1>2, <1>3

\* Presenting a token at the token endpoint keeps the types.
LEMMA TypeSubmit ==
    ASSUME TypeOK, NEW r \in Reqs, Submit(r) PROVE TypeOK'
<1>1. PICK t \in Presentable, c \in Clients, k \in JKTs, x \in Certs, s \in SUBSET Scopes :
         /\ req' = [req EXCEPT ![r] =
                 [tok |-> t, client |-> c, jkt |-> k, x5t |-> x, scope |-> s,
                  prepared |-> 0, barred |-> Barred(info[t], c, k)]]
         /\ Goto(r, "inspect")
  BY DEF Submit
<1>2. t \in Tokens BY DEF Presentable, TypeOK
<1>3. Barred(info[t], c, k) \in BOOLEAN
  BY DEF Barred
<1>4. req' \in [Reqs -> Request]
  BY <1>1, <1>2, <1>3 DEF TypeOK, Request, Times
<1>5. pc' \in [Reqs -> PCs] /\ resp' = resp
  BY <1>1 DEF TypeOK, Goto, PCs, RefreshPC
<1> QED
  BY <1>4, <1>5 DEF Submit, TypeOK, store, world, hist

\* Writing a pending marker keeps the types.
LEMMA TypePrepare ==
    ASSUME TypeOK, NEW r \in Reqs, PreparePending(r) PROVE TypeOK'
<1> DEFINE t == req[r].tok
           until == RefreshGraceExpiresAt(info[t].expires)
           marker == [NoGrace EXCEPT !.kind = "pending", !.family = FamilyOf(t),
                      !.client = req[r].client, !.jkt = req[r].jkt,
                      !.x5t = req[r].x5t, !.expires = until]
<1>1. /\ t \in Tokens /\ req[r] \in Request /\ info[t] \in Info
  BY DEF TypeOK, Request
<1>2. until \in Nat BY <1>1, GraceTyped DEF Info, Times
<1>3. marker \in GraceEntry
  BY <1>1, <1>2, DefaultsTyped DEF GraceEntry, NoGrace, Request, Info, FamilyOf, Times
<1>4. grace' \in [Tokens -> GraceEntry]
  <2>1. grace' = grace \/ grace' = Prune \/ grace' = [Prune EXCEPT ![t] = marker]
    BY DEF PreparePending
  <2> QED BY <2>1, <1>1, <1>3, GraceTyped DEF TypeOK
<1>5. req' \in [Reqs -> Request]
  <2>1. PICK p \in Nat : req' = [req EXCEPT ![r].prepared = p]
    <3>1. grace'[t].expires \in Nat BY <1>1, <1>4 DEF GraceEntry, Times
    <3> QED BY <3>1 DEF PreparePending
  <2> QED BY <2>1, <1>1 DEF TypeOK, Request, Times
<1>6. pc' \in [Reqs -> PCs] /\ resp' = resp
  BY DEF PreparePending, Goto, TypeOK, PCs, RefreshPC
<1> QED BY <1>4, <1>5, <1>6 DEF PreparePending, TypeOK, store, world, hist

\* Presenting a token for revocation keeps the types.
LEMMA TypeSubmitRevoke ==
    ASSUME TypeOK, NEW r \in Reqs, SubmitRevoke(r) PROVE TypeOK'
<1>1. PICK t \in Presentable, c \in Clients :
         /\ req' = [req EXCEPT ![r] = [NoRequest EXCEPT !.tok = t, !.client = c]]
         /\ Goto(r, "revokeInspect")
  BY DEF SubmitRevoke
<1>2. t \in Tokens BY DEF Presentable, TypeOK
<1>3. [NoRequest EXCEPT !.tok = t, !.client = c] \in Request
  BY <1>2, DefaultsTyped DEF Request, NoRequest
<1>4. req' \in [Reqs -> Request] BY <1>1, <1>3 DEF TypeOK
<1>5. pc' \in [Reqs -> PCs] /\ resp' = resp
  BY <1>1 DEF TypeOK, Goto, PCs, RevokePC
<1> QED BY <1>4, <1>5 DEF SubmitRevoke, TypeOK, store, world, hist

\* Moving a request on, or answering it, keeps pc and resp typed.
LEMMA ControlTyped ==
    ASSUME TypeOK, NEW r \in Reqs
    PROVE  /\ \A l \in PCs : Goto(r, l) =>
                pc' \in [Reqs -> PCs] /\ resp' \in [Reqs -> [code : Codes, tok : Tokens]]
           /\ \A c \in Codes, t \in Tokens : Answer(r, c, t) =>
                pc' \in [Reqs -> PCs] /\ resp' \in [Reqs -> [code : Codes, tok : Tokens]]
           /\ \A c \in Codes : Refuse(r, c) =>
                pc' \in [Reqs -> PCs] /\ resp' \in [Reqs -> [code : Codes, tok : Tokens]]
<1>1. "answered" \in PCs /\ AnyFamily \in Tokens BY AnyInSets DEF PCs, Tokens
<1>2. ASSUME NEW l \in PCs, Goto(r, l)
      PROVE  pc' \in [Reqs -> PCs] /\ resp' \in [Reqs -> [code : Codes, tok : Tokens]]
  BY <1>2 DEF TypeOK, Goto
<1>3. ASSUME NEW c \in Codes, NEW t \in Tokens, Answer(r, c, t)
      PROVE  pc' \in [Reqs -> PCs] /\ resp' \in [Reqs -> [code : Codes, tok : Tokens]]
  BY <1>1, <1>3 DEF TypeOK, Answer
<1> QED BY <1>1, <1>2, <1>3 DEF Refuse

\* Consume keeps the types.
LEMMA TypeConsume ==
    ASSUME TypeOK, NEW r \in Reqs, Consume(r) PROVE TypeOK'
<1>1. req[r].tok \in Tokens BY DEF TypeOK, Request
<1>2. Goto(r, "guard") \/ Goto(r, "replay") \/ Refuse(r, "invalid_grant")
  BY DEF Consume
<1>3. "guard" \in PCs /\ "replay" \in PCs /\ "invalid_grant" \in Codes
  BY DEF PCs, RefreshPC, Codes
<1>4. pc' \in [Reqs -> PCs] /\ resp' \in [Reqs -> [code : Codes, tok : Tokens]]
  BY <1>2, <1>3, ControlTyped
<1>5. consumed' \in [Tokens -> [by : Tokens, at : Times]]
  <2>1. now \in Nat BY ConstantsAssumption DEF TypeOK
  <2>2. \/ consumed' = consumed
        \/ consumed' = [consumed EXCEPT ![req[r].tok] = [by |-> r, at |-> now]]
    BY DEF Consume
  <2>3. [by |-> r, at |-> now] \in [by : Tokens, at : Times]
    BY <2>1 DEF Tokens, Times
  <2> QED BY <2>2, <2>3, <1>1 DEF TypeOK
<1> QED BY <1>4, <1>5 DEF Consume, TypeOK, world

\* The checks of the grant keep the types.
LEMMA TypeGuard ==
    ASSUME TypeOK, NEW r \in Reqs, Guard(r) PROVE TypeOK'
<1> DEFINE i == info[req[r].tok]
<1>1. /\ "velocity" \in PCs /\ "invalid_grant" \in Codes
      /\ GrantVerdict(i, req[r]) \in Codes
  BY VerdictTyped DEF PCs, RefreshPC, Codes
<1>2. \/ Refuse(r, "invalid_grant") \/ Refuse(r, GrantVerdict(i, req[r]))
      \/ Goto(r, "velocity")
  BY DEF Guard
<1>3. pc' \in [Reqs -> PCs] /\ resp' \in [Reqs -> [code : Codes, tok : Tokens]]
  BY <1>1, <1>2, ControlTyped
<1>4. grant' \in [Reqs -> SUBSET Scopes]
  <2>1. ResolvedScopes(i, req[r]) \subseteq Scopes
    BY DEF ResolvedScopes, TypeOK
  <2>2. grant' = grant \/ grant' = [grant EXCEPT ![r] = ResolvedScopes(i, req[r])]
    BY DEF Guard
  <2> QED BY <2>1, <2>2 DEF TypeOK
<1> QED BY <1>3, <1>4 DEF Guard, TypeOK, store, world, hist

\* Counting a rotation keeps the types.
LEMMA TypeRecord ==
    ASSUME TypeOK, NEW r \in Reqs, RecordRotation(r) PROVE TypeOK'
<1> DEFINE f == FamilyOf(req[r].tok)
<1>1. f \in Families BY DEF TypeOK, Request, Info, FamilyOf
<1>2. now \in Nat BY ConstantsAssumption DEF TypeOK
<1>3. Counted(rotations[f]) \in [count : Nat, start : Times]
  BY <1>1, <1>2 DEF TypeOK, Counted, Times
<1>4. rotations' = [rotations EXCEPT ![f] = Counted(rotations[f])]
  BY DEF RecordRotation
<1>5. rotations' \in [Families -> [count : Nat, start : Times]]
  BY <1>1, <1>3, <1>4 DEF TypeOK
<1>6. "velocityKill" \in PCs /\ "issue" \in PCs BY DEF PCs, RefreshPC
<1>7. Goto(r, "velocityKill") \/ Goto(r, "issue") BY DEF RecordRotation
<1>8. pc' \in [Reqs -> PCs] /\ resp' \in [Reqs -> [code : Codes, tok : Tokens]]
  BY <1>6, <1>7, ControlTyped
<1> QED BY <1>5, <1>8 DEF RecordRotation, TypeOK, world, hist

\* Deleting a family, or failing to, keeps the store typed.
LEMMA DeleteFamilyTyped ==
    ASSUME TypeOK, NEW f \in Families, DeleteFamily(f) \/ DeleteFamilyFails
    PROVE  /\ issued' = issued /\ info' = info /\ consumed' = consumed
           /\ entries' \subseteq issued /\ families' \subseteq issued
           /\ rotations' \in [Families -> [count : Nat, start : Times]]
           /\ killed' \in [Families -> {"no", "racing", "sealed"}]
<1>1. CASE DeleteFamily(f)
  <2>1. killed' = [killed EXCEPT ![f] = "sealed"] \/ killed' = [killed EXCEPT ![f] = "racing"]
    BY <1>1 DEF DeleteFamily
  <2>2. rotations' \in [Families -> [count : Nat, start : Times]]
    BY <1>1, DefaultsTyped DEF DeleteFamily, TypeOK
  <2> QED BY <1>1, <2>1, <2>2 DEF DeleteFamily, TypeOK
<1>2. CASE DeleteFamilyFails
  BY <1>2 DEF TypeOK, DeleteFamilyFails, store, hist
<1> QED BY <1>1, <1>2

\* The kills of the velocity gate and of reuse detection, and the deletion of a
\* revocation, keep the types.
LEMMA TypeKill ==
    ASSUME TypeOK, NEW r \in Reqs, VelocityKill(r) \/ ReuseKill(r) \/ RevokeDelete(r)
    PROVE  TypeOK'
<1> DEFINE f == FamilyOf(req[r].tok)
<1>1. f \in Families BY DEF TypeOK, Request, Info, FamilyOf
<1>2. DeleteFamily(f) \/ DeleteFamilyFails
  BY DEF VelocityKill, ReuseKill, RevokeDelete
<1>3. "invalid_grant" \in Codes /\ "revoked" \in Codes /\ "server_error" \in Codes
  BY DEF Codes
<1>4. Refuse(r, "invalid_grant") \/ Refuse(r, "revoked") \/ Refuse(r, "server_error")
  BY DEF VelocityKill, ReuseKill, RevokeDelete
<1>5. pc' \in [Reqs -> PCs] /\ resp' \in [Reqs -> [code : Codes, tok : Tokens]]
  BY <1>3, <1>4, ControlTyped
<1>6. UNCHANGED <<now, grace, world, req, grant, try, hold>>
  BY DEF VelocityKill, ReuseKill, RevokeDelete
<1> QED BY <1>1, <1>2, <1>5, <1>6, DeleteFamilyTyped DEF TypeOK, world

\* The successor of a rotated token is a well-typed record.
LEMMA SuccessorTyped ==
    ASSUME TypeOK, NEW r \in Reqs PROVE Successor(r) \in Info
<1>1. req[r].tok \in Tokens /\ grant[r] \subseteq Scopes /\ now \in Nat
  BY ConstantsAssumption DEF TypeOK, Request
<1>2. info[req[r].tok] \in Info BY <1>1 DEF TypeOK
<1>3. now + RefreshTTL \in Nat /\ info[req[r].tok].generation + 1 \in Nat
  BY <1>1, <1>2, ConstantsAssumption DEF Info
<1> QED BY <1>1, <1>2, <1>3 DEF Successor, Info, Times

\* Issuing the successor keeps the types.
LEMMA TypeIssue ==
    ASSUME TypeOK, NEW r \in Reqs, IssueRotated(r) PROVE TypeOK'
<1>1. r \in Tokens BY DEF Tokens
<1>2. \/ Refuse(r, "server_error") /\ UNCHANGED store
      \/ Issue(r, Successor(r)) /\ Goto(r, "remember")
  BY DEF IssueRotated
<1>3. /\ issued' \subseteq Tokens /\ entries' \subseteq issued'
      /\ families' \subseteq issued' /\ info' \in [Tokens -> Info]
      /\ rotations' = rotations
  <2>1. CASE UNCHANGED store BY <2>1 DEF store, TypeOK
  <2>2. CASE Issue(r, Successor(r))
    <3>1. info' \in [Tokens -> Info]
      BY <1>1, <2>2, SuccessorTyped DEF TypeOK, Issue
    <3> QED BY <1>1, <2>2, <3>1 DEF TypeOK, Issue
  <2> QED BY <1>2, <2>1, <2>2
<1>4. "server_error" \in Codes /\ "remember" \in PCs BY DEF Codes, PCs, RefreshPC
<1>5. pc' \in [Reqs -> PCs] /\ resp' \in [Reqs -> [code : Codes, tok : Tokens]]
  BY <1>2, <1>4, ControlTyped
<1> QED BY <1>3, <1>5 DEF IssueRotated, TypeOK, world, hist

\* Remembering the successor and answering 200 keeps the types.
LEMMA TypeRemember ==
    ASSUME TypeOK, NEW r \in Reqs, Remember(r) PROVE TypeOK'
<1> DEFINE t == req[r].tok
           deadline == Min2(info[t].expires, now + AccessTTL)
           until == RefreshGraceExpiresAt(deadline)
           done == [NoGrace EXCEPT !.kind = "done", !.client = req[r].client,
                    !.jkt = req[r].jkt, !.x5t = req[r].x5t, !.succ = r,
                    !.scopes = grant[r], !.expires = until]
<1>1. t \in Tokens /\ req[r] \in Request /\ info[t] \in Info /\ now \in Nat
      /\ grant[r] \subseteq Scopes
  BY ConstantsAssumption DEF TypeOK, Request
<1>2. deadline \in Nat BY <1>1, ConstantsAssumption DEF Min2, Info, Times
<1>3. until \in Nat BY <1>2, GraceTyped
<1>4. done \in GraceEntry
  BY <1>1, <1>3, DefaultsTyped DEF GraceEntry, NoGrace, Request, Tokens, Times
<1>5. grace' = grace \/ grace' = Prune \/ grace' = [Prune EXCEPT ![t] = done]
  BY DEF Remember
<1>6. grace' \in [Tokens -> GraceEntry] BY <1>1, <1>4, <1>5, GraceTyped DEF TypeOK
<1>7. pc' \in [Reqs -> PCs] /\ resp' \in [Reqs -> [code : Codes, tok : Tokens]]
  <2>1. Answer(r, "ok", r) /\ "ok" \in Codes /\ r \in Tokens
    BY DEF Remember, Codes, Tokens
  <2> QED BY <2>1, ControlTyped
<1> QED BY <1>6, <1>7 DEF Remember, TypeOK, store, world, hist

\* Looking up and checking a cached successor keeps the types.
LEMMA TypeReplay ==
    ASSUME TypeOK, NEW r \in Reqs, ReplayLookup(r) \/ ReplayCheck(r) PROVE TypeOK'
<1>1. /\ AfterReplay(r) \in PCs /\ "check" \in PCs /\ "ok" \in Codes
  BY DEF AfterReplay, PCs, RefreshPC, Codes
<1>2. CASE ReplayLookup(r)
  <2>1. req[r].tok \in Tokens BY DEF TypeOK, Request
  <2>2. hold' \in [Reqs -> GraceEntry]
    BY <1>2, <2>1, GraceTyped DEF ReplayLookup, TypeOK
  <2>3. Goto(r, "check") \/ Goto(r, AfterReplay(r)) BY <1>2 DEF ReplayLookup
  <2>4. pc' \in [Reqs -> PCs] /\ resp' \in [Reqs -> [code : Codes, tok : Tokens]]
    BY <1>1, <2>3, ControlTyped
  <2> QED BY <1>2, <2>2, <2>4 DEF ReplayLookup, TypeOK, store, world, hist
<1>3. CASE ReplayCheck(r)
  <2> DEFINE v == GrantVerdict(info[hold[r].succ], req[r])
  <2>1. hold[r].succ \in Tokens /\ v \in Codes
    BY VerdictTyped DEF TypeOK, GraceEntry
  <2>2. Goto(r, AfterReplay(r)) \/ Refuse(r, v) \/ Answer(r, "ok", hold[r].succ)
    BY <1>3 DEF ReplayCheck
  <2>3. pc' \in [Reqs -> PCs] /\ resp' \in [Reqs -> [code : Codes, tok : Tokens]]
    BY <1>1, <2>1, <2>2, ControlTyped
  <2>4. entries' \subseteq issued BY <1>3 DEF ReplayCheck, AfterInspect, TypeOK
  <2> QED BY <1>3, <2>3, <2>4 DEF ReplayCheck, TypeOK, world, hist
<1> QED BY <1>2, <1>3

\* The first half of a revocation keeps the types.
LEMMA TypeRevokeInspect ==
    ASSUME TypeOK, NEW r \in Reqs, RevokeInspect(r) PROVE TypeOK'
<1>1. "revokeDelete" \in PCs /\ "revoked" \in Codes BY DEF PCs, RevokePC, Codes
<1>2. Goto(r, "revokeDelete") \/ Refuse(r, "revoked") BY DEF RevokeInspect
<1>3. pc' \in [Reqs -> PCs] /\ resp' \in [Reqs -> [code : Codes, tok : Tokens]]
  BY <1>1, <1>2, ControlTyped
<1>4. entries' \subseteq issued BY DEF RevokeInspect, AfterInspect, TypeOK
<1> QED BY <1>3, <1>4 DEF RevokeInspect, TypeOK, world, hist

\* Every step of a request's handler preserves the type invariant.
LEMMA TypeRequest ==
    ASSUME TypeOK, NEW r \in Reqs,
           Submit(r) \/ SubmitRevoke(r) \/ RefreshStep(r) \/ RevokeStep(r)
    PROVE  TypeOK'
<1>1. CASE Inspect(r)
  BY <1>1, AnyInSets DEF Inspect, Goto, AfterInspect, TypeOK, Tokens, Codes, PCs, RefreshPC, RevokePC, store, world, hist
<1>2. CASE InspectFails(r)
  BY <1>2, AnyInSets DEF InspectFails, Goto, AfterReplay, TypeOK, Tokens, Codes, PCs, RefreshPC, RevokePC, store, world, hist
<1>3. CASE ConsumeFails(r)
  BY <1>3, AnyInSets DEF ConsumeFails, Refuse, Answer, TypeOK, Tokens, Codes, PCs, RefreshPC, RevokePC, store, world, hist
<1>4. CASE SessionGetFails(r)
  BY <1>4, AnyInSets DEF SessionGetFails, Refuse, Answer, TypeOK, Tokens, Codes, PCs, RefreshPC, RevokePC, store, world, hist
<1>5. CASE RecordRotationFails(r)
  BY <1>5, AnyInSets DEF RecordRotationFails, Goto, TypeOK, Tokens, Codes, PCs, RefreshPC, RevokePC, store, world, hist
<1>6. CASE IssueFails(r)
  BY <1>6, AnyInSets DEF IssueFails, Refuse, Answer, TypeOK, Tokens, Codes, PCs, RefreshPC, RevokePC, store, world, hist
<1>7. CASE AwaitPoll(r)
  BY <1>7, AnyInSets DEF AwaitPoll, Goto, TypeOK, Tokens, Codes, PCs, RefreshPC, RevokePC, store, world, hist
<1>8. CASE AwaitLimit(r)
  BY <1>8, AnyInSets DEF AwaitLimit, Refuse, Answer, TypeOK, Tokens, Codes, PCs, RefreshPC, RevokePC, store, world, hist
<1>9. CASE RevokeInspectFails(r)
  BY <1>9, AnyInSets DEF RevokeInspectFails, Refuse, Answer, TypeOK, Tokens, Codes, PCs, RefreshPC, RevokePC, store, world, hist
<1> QED
  BY <1>1, <1>2, <1>3, <1>4, <1>5, <1>6, <1>7, <1>8, <1>9, TypeSubmit, TypeSubmitRevoke, TypePrepare, TypeConsume, TypeGuard,
     TypeRecord, TypeKill, TypeIssue, TypeRemember, TypeReplay, TypeRevokeInspect
  DEF RefreshStep, RevokeStep

\* Logins, administration, the reaper and the clock preserve it too.
LEMMA TypeEnvironment == ASSUME TypeOK, Environment PROVE TypeOK'
<1> USE ConstantsAssumption DEF TypeOK, Idle, store, world, hist
<1>1. ASSUME NEW f \in Families, Login(f) PROVE TypeOK'
  <2>1. PICK u \in Users, c \in Clients, k \in JKTs, sid \in BOOLEAN, s \in SUBSET Scopes \ {{}} :
          Issue(f, [family |-> f, user |-> u, client |-> c, jkt |-> k, sid |-> sid,
                    scopes |-> s, issuedAt |-> now, expires |-> now + RefreshTTL,
                    familyCreatedAt |-> now, generation |-> 0, parent |-> f])
    BY <1>1 DEF Login
  <2> DEFINE i == [family |-> f, user |-> u, client |-> c, jkt |-> k, sid |-> sid,
                    scopes |-> s, issuedAt |-> now, expires |-> now + RefreshTTL,
                    familyCreatedAt |-> now, generation |-> 0, parent |-> f]
  <2>2. f \in Tokens /\ i \in Info BY DEF Info, Tokens, Times
  <2>3. info' \in [Tokens -> Info] BY <2>1, <2>2 DEF Issue
  <2>4. /\ issued' \subseteq Tokens /\ entries' \subseteq issued'
        /\ families' \subseteq issued' /\ rotations' = rotations
    BY <2>1, <2>2 DEF Issue
  <2> QED BY <1>1, <2>3, <2>4 DEF Login
<1>2. ASSUME NEW f \in Families, RevokeSession(f) \/ RequireStepUp(f) PROVE TypeOK'
  BY <1>2 DEF RevokeSession, RequireStepUp, AdminEvent
<1>3. ASSUME NEW u, NEW cs, DeleteAllForSubject(u, cs) PROVE TypeOK'
  BY <1>3 DEF DeleteAllForSubject, Remove, AdminEvent
<1>4. ASSUME NEW c \in Clients, DeleteAllForClient(c) PROVE TypeOK'
  BY <1>4 DEF DeleteAllForClient, Remove, AdminEvent
<1>5. ASSUME NEW u \in Users, SuspendUser(u) PROVE TypeOK'
  BY <1>5 DEF SuspendUser, AdminEvent
<1>6. ASSUME NEW s \in SUBSET Scopes, TightenCeiling(s) PROVE TypeOK'
  BY <1>6 DEF TightenCeiling, AdminEvent
<1>7. ASSUME NEW t \in Reqs, RevokeAccess(t) PROVE TypeOK'
  BY <1>7 DEF RevokeAccess, AdminEvent, Tokens
<1>8. CASE SweepExpired BY <1>8 DEF SweepExpired
<1>9. CASE Tick BY <1>9 DEF Tick
<1> QED BY <1>1, <1>2, <1>3, <1>4, <1>5, <1>6, <1>7, <1>8, <1>9 DEF Environment

\* Every step preserves the type invariant.
LEMMA TypeNext == TypeOK /\ [Next]_vars => TypeOK'
<1> SUFFICES ASSUME TypeOK, [Next]_vars PROVE TypeOK' OBVIOUS
<1>1. CASE UNCHANGED vars
  BY <1>1 DEF vars, TypeOK, store, world, hist
<1>2. CASE Quiescent BY <1>1, <1>2 DEF Quiescent
<1> QED BY <1>1, <1>2, TypeRequest, TypeEnvironment DEF Next

\* The state of the refresh-token store, the grace cache and every handler
\* keeps its shape in every behaviour, for every value of the constants.
THEOREM TypeCorrect == Spec => []TypeOK
BY TypeInit, TypeNext, PTL DEF Spec

(***************************************************************************)
(* The chain invariant.                                                    *)
(***************************************************************************)
\* Init establishes the chain invariant.
LEMMA ChainInit == Init => ChainInv
<1> SUFFICES ASSUME Init PROVE ChainInv OBVIOUS
<1>1. TypeOK BY TypeInit
<1>2. Bookkeeping
  BY DEF Init, Bookkeeping, Minted, NoGrace, NoAnswer
<1>3. OneHolder /\ TakenNotLive /\ SucceededOnce
  BY DEF Init, OneHolder, TakenNotLive, SucceededOnce, Minted, LiveOf, Rotating,
         InFlight, InFlightPC
<1>4. GraceNamesSuccessor
  BY DEF Init, GraceNamesSuccessor, NoGrace, NoAnswer
<1> QED BY <1>1, <1>2, <1>3, <1>4 DEF ChainInv

\* A step that issues nothing, revives no entry and starts no rotation keeps
\* the chain.
LEMMA QuietChain ==
    ASSUME ChainInv, issued' = issued, info' = info, entries' \subseteq entries,
           \A q \in Reqs : req'[q].tok = req[q].tok,
           \A q \in Reqs : pc'[q] \in InFlightPC => pc[q] \in InFlightPC
    PROVE  OneHolder' /\ TakenNotLive' /\ SucceededOnce'
<1>1. \A f \in Families : LiveOf(f)' \subseteq LiveOf(f) /\ Rotating(f)' \subseteq Rotating(f)
  BY DEF LiveOf, Rotating, InFlight, FamilyOf
<1>2. OneHolder' BY <1>1 DEF ChainInv, OneHolder
<1>3. TakenNotLive' BY DEF ChainInv, TakenNotLive, InFlight
<1>4. SucceededOnce' BY DEF ChainInv, SucceededOnce, Minted, InFlight
<1> QED BY <1>2, <1>3, <1>4

\* A handler step that neither consumes, mints nor remembers keeps the chain
\* invariant, provided what it reads from the cache or answers is a successor.
LEMMA QuietRequest ==
    ASSUME ChainInv, TypeOK', NEW r \in Reqs, NEW l,
           issued' = issued, info' = info, entries' \subseteq entries,
           \A q \in Reqs : req'[q].tok = req[q].tok,
           pc[r] \notin {"idle", "answered", "remember"},
           pc' = [pc EXCEPT ![r] = l], l \notin {"idle", "remember"},
           l \in InFlightPC => pc[r] \in InFlightPC,
           \A t \in Tokens : grace'[t].kind = "done" => grace'[t] = grace[t],
           \A q \in Reqs : \/ hold'[q] = hold[q]
                           \/ /\ q = r
                              /\ hold'[q].kind = "done" => IsSuccessor(hold'[q].succ, req[q].tok),
           l = "check" => hold'[r].kind = "done",
           \A q \in Reqs : \/ resp'[q] = resp[q]
                           \/ /\ q = r
                              /\ resp'[q].code = "ok" => IsSuccessor(resp'[q].tok, req[q].tok)
    PROVE  ChainInv'
<1>1. r \notin Minted BY DEF ChainInv, Bookkeeping
<1>2. pc'[r] = l /\ \A q \in Reqs : q # r => pc'[q] = pc[q]
  BY DEF ChainInv, TypeOK
<1>3. \A q \in Reqs : pc'[q] \in InFlightPC => pc[q] \in InFlightPC BY <1>2
<1>4. OneHolder' /\ TakenNotLive' /\ SucceededOnce' BY <1>3, QuietChain
<1>5. Bookkeeping'
  BY <1>1, <1>2 DEF ChainInv, Bookkeeping, Minted, FamilyOf
<1>6. GraceNamesSuccessor'
  <2>1. ASSUME NEW t \in Tokens, grace'[t].kind = "done"
        PROVE  IsSuccessor(grace[t].succ, t)'
    <3>1. grace'[t] = grace[t] BY <2>1
    <3>2. IsSuccessor(grace[t].succ, t) BY <2>1, <3>1 DEF ChainInv, GraceNamesSuccessor
    <3> QED BY <3>1, <3>2 DEF IsSuccessor, Minted
  <2>2. ASSUME NEW q \in Reqs
        PROVE /\ pc'[q] = "remember" => q \in Minted'
              /\ pc'[q] = "check" => hold'[q].kind = "done"
              /\ hold'[q].kind = "done" => IsSuccessor(hold[q].succ, req[q].tok)'
              /\ resp'[q].code = "ok" => IsSuccessor(resp[q].tok, req[q].tok)'
    <3>1. pc'[q] = "remember" => q \in Minted'
      BY <1>2 DEF ChainInv, GraceNamesSuccessor, Minted
    <3>2. pc'[q] = "check" => hold'[q].kind = "done"
      BY <1>2 DEF ChainInv, GraceNamesSuccessor
    <3>3. hold'[q].kind = "done" => IsSuccessor(hold'[q].succ, req[q].tok)
      BY DEF ChainInv, GraceNamesSuccessor
    <3>4. resp'[q].code = "ok" => IsSuccessor(resp'[q].tok, req[q].tok)
      BY DEF ChainInv, GraceNamesSuccessor
    <3> QED BY <3>1, <3>2, <3>3, <3>4 DEF IsSuccessor, Minted
  <2> QED BY <2>1, <2>2 DEF GraceNamesSuccessor
<1> QED BY <1>4, <1>5, <1>6 DEF ChainInv

\* Handler steps that only move on, answer, or drop entries.
LEMMA ChainQuiet ==
    ASSUME ChainInv, TypeOK', NEW r \in Reqs,
           \/ Inspect(r) \/ InspectFails(r) \/ ConsumeFails(r) \/ Guard(r)
           \/ SessionGetFails(r) \/ RecordRotation(r) \/ RecordRotationFails(r)
           \/ VelocityKill(r) \/ IssueFails(r) \/ AwaitPoll(r) \/ AwaitLimit(r)
           \/ ReuseKill(r) \/ RevokeInspect(r) \/ RevokeInspectFails(r) \/ RevokeDelete(r)
    PROVE  ChainInv'
<1>1. /\ issued' = issued /\ info' = info /\ entries' \subseteq entries
      /\ grace' = grace /\ req' = req /\ hold' = hold
  BY DEF Inspect, InspectFails, ConsumeFails, Guard, SessionGetFails, RecordRotation,
         RecordRotationFails, VelocityKill, IssueFails, AwaitPoll, AwaitLimit, ReuseKill,
         RevokeInspect, RevokeInspectFails, RevokeDelete, DeleteFamily, DeleteFamilyFails,
         AfterInspect, store
<1>2. pc[r] \notin {"idle", "answered", "remember"}
  BY DEF Inspect, InspectFails, ConsumeFails, Guard, SessionGetFails, RecordRotation,
         RecordRotationFails, VelocityKill, IssueFails, AwaitPoll, AwaitLimit, ReuseKill,
         RevokeInspect, RevokeInspectFails, RevokeDelete
<1>3. PICK l : /\ pc' = [pc EXCEPT ![r] = l]
               /\ l \notin {"idle", "remember", "check"}
               /\ l \in InFlightPC => pc[r] \in InFlightPC
               /\ \/ resp' = resp
                  \/ \E c : c # "ok" /\ resp' = [resp EXCEPT ![r] = [code |-> c, tok |-> AnyFamily]]
  <2>1. CASE \E l : /\ Goto(r, l)
                    /\ l \notin {"idle", "remember", "check"}
                    /\ l \in InFlightPC => pc[r] \in InFlightPC
    BY <2>1 DEF Goto
  <2>2. CASE \E c : c # "ok" /\ Refuse(r, c)
    BY <2>2 DEF Refuse, Answer, InFlightPC
  <2>3. CASE Inspect(r) BY <2>3, <2>1 DEF Inspect, InFlightPC
  <2>4. CASE InspectFails(r) BY <2>4, <2>1 DEF InspectFails, AfterReplay, InFlightPC
  <2>5. CASE ConsumeFails(r) \/ SessionGetFails(r) \/ IssueFails(r) \/ AwaitLimit(r)
             \/ RevokeInspectFails(r)
    BY <2>5, <2>2 DEF ConsumeFails, SessionGetFails, IssueFails, AwaitLimit, RevokeInspectFails
  <2>6. CASE VelocityKill(r) \/ ReuseKill(r) \/ RevokeDelete(r)
    BY <2>6, <2>2 DEF VelocityKill, ReuseKill, RevokeDelete
  <2>7. CASE Guard(r)
    <3>1. \/ Refuse(r, "invalid_grant") \/ Goto(r, "velocity")
          \/ /\ Refuse(r, GrantVerdict(info[req[r].tok], req[r]))
             /\ GrantVerdict(info[req[r].tok], req[r]) # "ok"
      BY <2>7 DEF Guard
    <3>2. pc[r] = "guard" BY <2>7 DEF Guard
    <3> QED BY <3>1, <3>2, <2>1, <2>2 DEF InFlightPC
  <2>8. CASE RecordRotation(r) \/ RecordRotationFails(r)
    <3>1. pc[r] = "velocity" /\ (Goto(r, "velocityKill") \/ Goto(r, "issue"))
      BY <2>8 DEF RecordRotation, RecordRotationFails
    <3> QED BY <3>1, <2>1 DEF InFlightPC
  <2>9. CASE AwaitPoll(r) BY <2>9, <2>1 DEF AwaitPoll, InFlightPC
  <2>10. CASE RevokeInspect(r)
    <3>1. Goto(r, "revokeDelete") \/ Refuse(r, "revoked") BY <2>10 DEF RevokeInspect
    <3> QED BY <3>1, <2>1, <2>2 DEF InFlightPC
  <2> QED BY <2>3, <2>4, <2>5, <2>6, <2>7, <2>8, <2>9, <2>10
<1>4. \A q \in Reqs : resp'[q] = resp[q] \/ (q = r /\ resp'[q].code # "ok")
  BY <1>3 DEF ChainInv, TypeOK
<1> QED BY <1>1, <1>2, <1>3, <1>4, QuietRequest

\* Writing a pending marker leaves completed entries as they were.
LEMMA ChainPrepare ==
    ASSUME ChainInv, TypeOK', NEW r \in Reqs, PreparePending(r) PROVE ChainInv'
<1> DEFINE t == req[r].tok
           until == RefreshGraceExpiresAt(info[t].expires)
           marker == [NoGrace EXCEPT !.kind = "pending", !.family = FamilyOf(t),
                      !.client = req[r].client, !.jkt = req[r].jkt,
                      !.x5t = req[r].x5t, !.expires = until]
<1>1. t \in Tokens BY DEF ChainInv, TypeOK, Request
<1>2. /\ marker.kind = "pending"
      /\ grace' = grace \/ grace' = Prune \/ grace' = [Prune EXCEPT ![t] = marker]
  <2>1. marker.kind = "pending" BY DEF NoGrace
  <2>2. grace' = grace \/ grace' = Prune \/ grace' = [Prune EXCEPT ![t] = marker]
    BY DEF PreparePending
  <2> QED BY <2>1, <2>2
<1> HIDE DEF marker
<1>3. \A u \in Tokens : grace'[u].kind = "done" => grace'[u] = grace[u]
  <2>1. \A u \in Tokens : Prune[u] = NoGrace \/ Prune[u] = grace[u] BY DEF Prune
  <2>2. Prune \in [Tokens -> GraceEntry] BY GraceTyped DEF ChainInv
  <2> QED BY <1>1, <1>2, <2>1, <2>2 DEF NoGrace
<1>4. \A q \in Reqs : req'[q].tok = req[q].tok
  BY DEF PreparePending, ChainInv, TypeOK, Request
<1>5. /\ issued' = issued /\ info' = info /\ entries' = entries /\ hold' = hold
      /\ resp' = resp /\ pc[r] = "prepare" /\ pc' = [pc EXCEPT ![r] = "consume"]
  BY DEF PreparePending, store, Goto
<1> QED BY <1>3, <1>4, <1>5, QuietRequest DEF InFlightPC

\* A replay reads and hands out the token's own successor.
LEMMA ChainReplay ==
    ASSUME ChainInv, TypeOK', NEW r \in Reqs, ReplayLookup(r) \/ ReplayCheck(r)
    PROVE  ChainInv'
<1>1. CASE ReplayLookup(r)
  <2> DEFINE g == Lookup(req[r].tok)
  <2>1. req[r].tok \in Tokens BY DEF ChainInv, TypeOK, Request
  <2>2. g.kind = "done" => IsSuccessor(g.succ, req[r].tok)
    BY <2>1 DEF Lookup, NoGrace, ChainInv, GraceNamesSuccessor
  <2>3. /\ issued' = issued /\ info' = info /\ entries' = entries /\ grace' = grace
        /\ resp' = resp /\ req' = req /\ pc[r] = "replay"
        /\ hold' = [hold EXCEPT ![r] = g]
    BY <1>1 DEF ReplayLookup, store, Goto
  <2>4. PICK l : /\ pc' = [pc EXCEPT ![r] = l]
                 /\ l \in {"check", "await", "kill"}
                 /\ l = "check" => g.kind = "done"
    <3>1. (Goto(r, "check") /\ g.kind = "done") \/ Goto(r, AfterReplay(r))
      BY <1>1 DEF ReplayLookup
    <3>2. AfterReplay(r) \in {"await", "kill"} BY DEF AfterReplay
    <3>3. CASE Goto(r, "check") /\ g.kind = "done" BY <3>3 DEF Goto
    <3>4. CASE Goto(r, AfterReplay(r)) BY <3>2, <3>4 DEF Goto
    <3> QED BY <3>1, <3>3, <3>4
  <2>5. hold'[r] = g /\ \A q \in Reqs : q # r => hold'[q] = hold[q]
    BY <2>3 DEF ChainInv, TypeOK
  <2> QED BY <2>2, <2>3, <2>4, <2>5, QuietRequest DEF InFlightPC
<1>2. CASE ReplayCheck(r)
  <2>1. /\ issued' = issued /\ info' = info /\ entries' \subseteq entries /\ grace' = grace
        /\ hold' = hold /\ req' = req /\ pc[r] = "check"
    BY <1>2 DEF ReplayCheck, AfterInspect
  <2>2. IsSuccessor(hold[r].succ, req[r].tok)
    BY <2>1 DEF ChainInv, GraceNamesSuccessor
  <2>3. \/ Goto(r, AfterReplay(r))
        \/ \E c : c # "ok" /\ Refuse(r, c)
        \/ Answer(r, "ok", hold[r].succ)
    BY <1>2 DEF ReplayCheck
  <2>4. PICK l : /\ pc' = [pc EXCEPT ![r] = l]
                 /\ l \in {"await", "kill", "answered"}
                 /\ \/ resp' = resp
                    \/ \E c, t : /\ resp' = [resp EXCEPT ![r] = [code |-> c, tok |-> t]]
                                 /\ c = "ok" => t = hold[r].succ
    BY <2>3 DEF Goto, Refuse, Answer, AfterReplay
  <2>5. \A q \in Reqs : \/ resp'[q] = resp[q]
                        \/ q = r /\ (resp'[q].code = "ok" => resp'[q].tok = hold[r].succ)
    BY <2>4 DEF ChainInv, TypeOK
  <2> QED BY <2>1, <2>2, <2>4, <2>5, QuietRequest DEF InFlightPC
<1> QED BY <1>1, <1>2

\* A request that arrives presents an issued token and holds nothing yet.
LEMMA ChainSubmit ==
    ASSUME ChainInv, TypeOK', NEW r \in Reqs, Submit(r) \/ SubmitRevoke(r)
    PROVE  ChainInv'
<1>1. PICK t \in Presentable : \E l : /\ l \in {"inspect", "revokeInspect"}
                                      /\ pc' = [pc EXCEPT ![r] = l]
                                      /\ req'[r].tok = t
                                      /\ \A q \in Reqs : q # r => req'[q] = req[q]
  <2>1. PICK t \in Presentable : \E n : /\ n.tok = t
                                        /\ req' = [req EXCEPT ![r] = n]
                                        /\ Goto(r, "inspect") \/ Goto(r, "revokeInspect")
    <3>1. CASE Submit(r)
      <4>1. PICK t \in Presentable, c \in Clients, k \in JKTs, x \in Certs, s \in SUBSET Scopes :
              /\ req' = [req EXCEPT ![r] =
                 [tok |-> t, client |-> c, jkt |-> k, x5t |-> x, scope |-> s,
                  prepared |-> 0, barred |-> Barred(info[t], c, k)]]
              /\ Goto(r, "inspect")
        BY <3>1 DEF Submit
      <4> QED BY <4>1
    <3>2. CASE SubmitRevoke(r)
      <4>1. PICK t \in Presentable, c \in Clients :
              /\ req' = [req EXCEPT ![r] = [NoRequest EXCEPT !.tok = t, !.client = c]]
              /\ Goto(r, "revokeInspect")
        BY <3>2 DEF SubmitRevoke
      <4> DEFINE n == [NoRequest EXCEPT !.tok = t, !.client = c]
      <4>2. n.tok = t BY DEF NoRequest
      <4>3. req' = [req EXCEPT ![r] = n] BY <4>1
      <4> HIDE DEF n
      <4> QED BY <4>1, <4>2, <4>3
    <3> QED BY <3>1, <3>2
  <2>2. PICK l : l \in {"inspect", "revokeInspect"} /\ pc' = [pc EXCEPT ![r] = l]
    BY <2>1 DEF Goto
  <2>3. req'[r].tok = t /\ \A q \in Reqs : q # r => req'[q] = req[q]
    BY <2>1 DEF ChainInv, TypeOK
  <2> QED BY <2>1, <2>2, <2>3
<1>2. t \in issued BY DEF Presentable
<1>3. /\ pc[r] = "idle" /\ issued' = issued /\ info' = info /\ entries' = entries
      /\ grace' = grace /\ hold' = hold /\ resp' = resp
  BY DEF Submit, SubmitRevoke, store, Goto
<1>4. r \notin Minted BY <1>3 DEF ChainInv, Bookkeeping
<1>5. /\ pc'[r] \in {"inspect", "revokeInspect"}
      /\ \A q \in Reqs : q # r => pc'[q] = pc[q] /\ req'[q] = req[q]
  BY <1>1 DEF ChainInv, TypeOK
<1>6. Bookkeeping'
  <2>1. Minted' = Minted BY <1>3 DEF Minted
  <2>2. \A q \in Minted : pc'[q] \in {"remember", "answered"}
    BY <1>4, <1>5 DEF ChainInv, Bookkeeping, Minted
  <2>3. \A q \in Reqs : pc'[q] # "idle" => req'[q].tok \in issued
    BY <1>1, <1>2, <1>5 DEF ChainInv, Bookkeeping
  <2>4. \A q \in Reqs : pc'[q] = "idle" => hold[q].kind = "none" /\ resp[q].code = "none"
    BY <1>5 DEF ChainInv, Bookkeeping
  <2>5. \A u \in issued : FamilyOf(u) \in issued BY DEF ChainInv, Bookkeeping
  <2> QED BY <1>3, <2>1, <2>2, <2>3, <2>4, <2>5 DEF Bookkeeping, FamilyOf
<1>7. ~InFlight(r)' /\ \A q \in Reqs : InFlight(q)' => InFlight(q) /\ q # r
  BY <1>5 DEF InFlight, InFlightPC
<1>8. OneHolder'
  <2>1. \A f \in Families : LiveOf(f)' = LiveOf(f) /\ Rotating(f)' \subseteq Rotating(f)
    BY <1>3, <1>5, <1>7 DEF LiveOf, Rotating, FamilyOf
  <2> QED BY <2>1 DEF ChainInv, OneHolder
<1>9. TakenNotLive' BY <1>3, <1>5, <1>7 DEF ChainInv, TakenNotLive
<1>10. SucceededOnce'
  BY <1>3, <1>4, <1>5, <1>7 DEF ChainInv, SucceededOnce, Minted
<1>11. GraceNamesSuccessor'
  <2>1. \A s, u : IsSuccessor(s, u) => IsSuccessor(s, u)'
    BY <1>3, <1>4, <1>5 DEF IsSuccessor, Minted
  <2>2. ASSUME NEW u \in Tokens, grace'[u].kind = "done"
        PROVE  IsSuccessor(grace[u].succ, u)'
    BY <1>3, <2>1, <2>2 DEF ChainInv, GraceNamesSuccessor
  <2>3. ASSUME NEW q \in Reqs
        PROVE /\ pc'[q] = "remember" => q \in Minted'
              /\ pc'[q] = "check" => hold'[q].kind = "done"
              /\ hold'[q].kind = "done" => IsSuccessor(hold[q].succ, req[q].tok)'
              /\ resp'[q].code = "ok" => IsSuccessor(resp[q].tok, req[q].tok)'
    <3>1. CASE q = r
      BY <1>3, <1>5, <3>1 DEF ChainInv, Bookkeeping
    <3>2. CASE q # r
      <4>1. /\ pc[q] = "remember" => q \in Minted
            /\ pc[q] = "check" => hold[q].kind = "done"
            /\ hold[q].kind = "done" => IsSuccessor(hold[q].succ, req[q].tok)
            /\ resp[q].code = "ok" => IsSuccessor(resp[q].tok, req[q].tok)
        BY DEF ChainInv, GraceNamesSuccessor
      <4>2. pc'[q] = pc[q] /\ req'[q] = req[q] BY <1>5, <3>2
      <4> QED BY <1>3, <1>4, <1>5, <4>1, <4>2 DEF IsSuccessor, Minted
    <3> QED BY <3>1, <3>2
  <2> QED BY <2>2, <2>3 DEF GraceNamesSuccessor
<1> QED BY <1>6, <1>8, <1>9, <1>10, <1>11 DEF ChainInv

\* Consume hands the right to the family's next token from the live leaf to
\* the one request that removed it.
LEMMA ChainConsume ==
    ASSUME ChainInv, TypeOK', NEW r \in Reqs, Consume(r) PROVE ChainInv'
<1> DEFINE t == req[r].tok
<1>1. /\ pc[r] = "consume" /\ issued' = issued /\ info' = info /\ req' = req
      /\ grace' = grace /\ hold' = hold /\ entries' \subseteq entries
  BY DEF Consume
<1>2. \/ t \in entries /\ t \notin entries' /\ Goto(r, "guard")
      \/ Goto(r, "replay") \/ Refuse(r, "invalid_grant")
  BY DEF Consume
<1>3. CASE Goto(r, "replay")
  BY <1>1, <1>3, QuietRequest DEF Goto, InFlightPC
<1>4. CASE Refuse(r, "invalid_grant")
  <2>1. \A q \in Reqs : resp'[q] = resp[q] \/ (q = r /\ resp'[q].code # "ok")
    BY <1>4 DEF Refuse, Answer, ChainInv, TypeOK
  <2>2. PICK l : /\ pc' = [pc EXCEPT ![r] = l]
                 /\ l \notin {"idle", "remember", "check"} /\ l \notin InFlightPC
    <3>1. pc' = [pc EXCEPT ![r] = "answered"] BY <1>4 DEF Refuse, Answer
    <3>2. "answered" \notin {"idle", "remember", "check"} /\ "answered" \notin InFlightPC
      BY DEF InFlightPC
    <3> QED BY <3>1, <3>2
  <2> QED BY <1>1, <2>1, <2>2, QuietRequest
<1>5. CASE t \in entries /\ t \notin entries' /\ Goto(r, "guard")
  <2>1. /\ pc'[r] = "guard" /\ resp' = resp
        /\ \A q \in Reqs : q # r => pc'[q] = pc[q]
    BY <1>5 DEF Goto, ChainInv, TypeOK
  <2>2. r \notin Minted /\ t \in Tokens /\ FamilyOf(t) \in Families
    BY <1>1 DEF ChainInv, Bookkeeping, TypeOK, Request, Info, FamilyOf
  <2>3. \A q \in Reqs : InFlight(q)' => q = r \/ InFlight(q)
    BY <2>1 DEF InFlight
  <2>4. t \in LiveOf(FamilyOf(t)) BY <1>5 DEF LiveOf
  <2>5. OneHolder'
    <3>1. \A f \in Families : LiveOf(f)' \subseteq LiveOf(f) \ {t}
      BY <1>1, <1>5 DEF LiveOf, FamilyOf
    <3>2. \A f \in Families : Rotating(f)' \subseteq Rotating(f) \cup {r}
      BY <1>1, <2>3 DEF Rotating, FamilyOf
    <3>3. \A f \in Families : r \in Rotating(f)' => f = FamilyOf(t)
      BY <1>1 DEF Rotating, FamilyOf
    <3>4. LiveOf(FamilyOf(t)) \cup Rotating(FamilyOf(t)) \subseteq {t}
      BY <2>2, <2>4 DEF ChainInv, OneHolder
    <3>5. Rotating(FamilyOf(t)) = {}
      <4>1. \A q \in Rotating(FamilyOf(t)) : q = t BY <3>4
      <4>2. t \notin Rotating(FamilyOf(t))
        BY <1>1, <1>5 DEF Rotating, InFlight, InFlightPC, ChainInv, Bookkeeping, Minted, TypeOK
      <4> QED BY <4>1, <4>2
    <3>6. ASSUME NEW f \in Families, NEW a \in LiveOf(f)' \cup Rotating(f)',
                 NEW b \in LiveOf(f)' \cup Rotating(f)'
          PROVE  a = b
      <4>1. CASE f = FamilyOf(t)
        <5>1. LiveOf(f)' = {} BY <3>1, <3>4, <4>1
        <5>2. Rotating(f)' \subseteq {r} BY <3>2, <3>5, <4>1
        <5> QED BY <5>1, <5>2
      <4>2. CASE f # FamilyOf(t)
        <5>1. /\ a \in LiveOf(f) \cup Rotating(f)
              /\ b \in LiveOf(f) \cup Rotating(f)
          BY <3>1, <3>2, <3>3, <4>2
        <5> QED BY <5>1 DEF ChainInv, OneHolder
      <4> QED BY <4>1, <4>2
    <3> QED BY <3>6 DEF OneHolder
  <2>6. TakenNotLive' BY <1>1, <1>5, <2>3 DEF ChainInv, TakenNotLive
  <2>7. SucceededOnce'
    <3>1. \A q \in Minted : req[q].tok # t
      BY <1>5 DEF ChainInv, SucceededOnce
    <3> QED BY <1>1, <2>3, <3>1 DEF ChainInv, SucceededOnce, Minted
  <2>8. Bookkeeping'
    BY <1>1, <2>1, <2>2 DEF ChainInv, Bookkeeping, Minted, FamilyOf
  <2>9. GraceNamesSuccessor'
    <3>1. ASSUME NEW u \in Tokens, grace'[u].kind = "done"
          PROVE  IsSuccessor(grace[u].succ, u)'
      <4>1. IsSuccessor(grace[u].succ, u)
        BY <1>1, <3>1 DEF ChainInv, GraceNamesSuccessor
      <4> QED BY <1>1, <4>1 DEF IsSuccessor, Minted
    <3>2. ASSUME NEW q \in Reqs
          PROVE /\ pc'[q] = "remember" => q \in Minted'
                /\ pc'[q] = "check" => hold'[q].kind = "done"
                /\ hold'[q].kind = "done" => IsSuccessor(hold[q].succ, req[q].tok)'
                /\ resp'[q].code = "ok" => IsSuccessor(resp[q].tok, req[q].tok)'
      <4>1. /\ pc[q] = "remember" => q \in Minted
            /\ pc[q] = "check" => hold[q].kind = "done"
            /\ hold[q].kind = "done" => IsSuccessor(hold[q].succ, req[q].tok)
            /\ resp[q].code = "ok" => IsSuccessor(resp[q].tok, req[q].tok)
        BY DEF ChainInv, GraceNamesSuccessor
      <4> QED BY <1>1, <2>1, <4>1 DEF IsSuccessor, Minted
    <3> QED BY <3>1, <3>2 DEF GraceNamesSuccessor
  <2> QED BY <2>5, <2>6, <2>7, <2>8, <2>9 DEF ChainInv
<1> QED BY <1>2, <1>3, <1>4, <1>5

\* Issuing the successor makes it the family's only live leaf and the only
\* successor of the token its request consumed.
LEMMA ChainIssue ==
    ASSUME ChainInv, TypeOK', NEW r \in Reqs, IssueRotated(r) PROVE ChainInv'
<1> DEFINE t == req[r].tok
<1>1. pc[r] = "issue" /\ grace' = grace /\ req' = req /\ hold' = hold
  BY DEF IssueRotated
<1>2. CASE Refuse(r, "server_error") /\ UNCHANGED store
  <2>1. PICK l : /\ pc' = [pc EXCEPT ![r] = l]
                 /\ l \notin {"idle", "remember", "check"} /\ l \notin InFlightPC
    <3>1. pc' = [pc EXCEPT ![r] = "answered"] BY <1>2 DEF Refuse, Answer
    <3>2. "answered" \notin {"idle", "remember", "check"} /\ "answered" \notin InFlightPC
      BY DEF InFlightPC
    <3> QED BY <3>1, <3>2
  <2>2. \A q \in Reqs : resp'[q] = resp[q] \/ (q = r /\ resp'[q].code # "ok")
    BY <1>2 DEF Refuse, Answer, ChainInv, TypeOK
  <2>3. issued' = issued /\ info' = info /\ entries' = entries BY <1>2 DEF store
  <2> QED BY <1>1, <2>1, <2>2, <2>3, QuietRequest
<1>3. CASE Issue(r, Successor(r)) /\ Goto(r, "remember")
  <2>1. /\ issued' = issued \cup {r} /\ entries' = entries \cup {r}
        /\ info' = [info EXCEPT ![r] = Successor(r)]
    BY <1>3 DEF Issue
  <2>2. /\ pc'[r] = "remember" /\ resp' = resp
        /\ \A q \in Reqs : q # r => pc'[q] = pc[q]
    BY <1>3 DEF Goto, ChainInv, TypeOK
  <2>3. InFlight(r) /\ r \notin Minted /\ r \notin issued /\ t \in issued /\ t # r
    BY <1>1 DEF InFlight, InFlightPC, ChainInv, Bookkeeping, Minted
  <2>4. /\ r \in Tokens /\ t \in Tokens /\ FamilyOf(t) \in Families
        /\ FamilyOf(t) \in issued
    BY <2>3 DEF Tokens, ChainInv, Bookkeeping, TypeOK, Request, Info, FamilyOf
  <2>5. FamilyOf(r)' = FamilyOf(t)
    <3>1. Successor(r).family = info[t].family
      BY <2>4 DEF Successor, ChainInv, TypeOK, Info
    <3>2. info'[r] = Successor(r) BY <2>1, <2>4 DEF ChainInv, TypeOK
    <3> QED BY <3>1, <3>2 DEF FamilyOf
  <2>6. \A u \in Tokens : u # r => FamilyOf(u)' = FamilyOf(u)
    BY <2>1 DEF FamilyOf, ChainInv, TypeOK
  <2>7. Minted' = Minted \cup {r} BY <2>1 DEF Minted
  <2>8. ~InFlight(r)' /\ \A q \in Reqs : InFlight(q)' => InFlight(q) /\ q # r
    BY <2>2 DEF InFlight, InFlightPC
  <2>9. entries \subseteq Tokens /\ \A q \in Reqs : req[q].tok \in Tokens
    BY DEF ChainInv, TypeOK, Request
  <2>10. \A q \in Reqs : InFlight(q) => req[q].tok # r
    BY <2>3 DEF ChainInv, Bookkeeping, InFlight, InFlightPC
  <2>11. OneHolder'
    <3>1. \A f \in Families : LiveOf(f)' \subseteq LiveOf(f) \cup {r}
      BY <2>1, <2>6, <2>9 DEF LiveOf
    <3>2. \A f \in Families : r \in LiveOf(f)' => f = FamilyOf(t)
      BY <2>5 DEF LiveOf
    <3>3. \A f \in Families : Rotating(f)' \subseteq Rotating(f) \ {r}
      <4> SUFFICES ASSUME NEW f \in Families, NEW q \in Rotating(f)'
                   PROVE  q \in Rotating(f) \ {r}
        OBVIOUS
      <4>1. q \in Reqs /\ InFlight(q)' /\ FamilyOf(req[q].tok)' = f
        BY <1>1 DEF Rotating
      <4>2. InFlight(q) /\ q # r /\ req[q].tok # r BY <2>8, <2>10, <4>1
      <4>3. FamilyOf(req[q].tok)' = FamilyOf(req[q].tok)
        BY <1>1, <2>6, <2>9, <4>1, <4>2 DEF FamilyOf
      <4> QED BY <4>1, <4>2, <4>3 DEF Rotating
    <3>4. r \in Rotating(FamilyOf(t)) BY <2>3 DEF Rotating
    <3>5. \A a \in LiveOf(FamilyOf(t)) \cup Rotating(FamilyOf(t)) : a = r
      BY <2>4, <3>4 DEF ChainInv, OneHolder
    <3>6. ASSUME NEW f \in Families, NEW a \in LiveOf(f)' \cup Rotating(f)',
                 NEW b \in LiveOf(f)' \cup Rotating(f)'
          PROVE  a = b
      <4>1. CASE f = FamilyOf(t)
        BY <3>1, <3>3, <3>5, <3>6, <4>1
      <4>2. CASE f # FamilyOf(t)
        <5>1. /\ a \in LiveOf(f) \cup Rotating(f)
              /\ b \in LiveOf(f) \cup Rotating(f)
          BY <3>1, <3>2, <3>3, <3>6, <4>2
        <5> QED BY <5>1 DEF ChainInv, OneHolder
      <4> QED BY <4>1, <4>2
    <3> QED BY <3>6 DEF OneHolder
  <2>12. TakenNotLive'
    BY <1>1, <2>1, <2>8, <2>10 DEF ChainInv, TakenNotLive
  <2>13. SucceededOnce'
    <3>1. ASSUME NEW q \in Minted PROVE req[q].tok # t
      BY <2>3, <3>1 DEF ChainInv, SucceededOnce
    <3>2. ASSUME NEW q \in Minted'
          PROVE  /\ req[q].tok \notin entries'
                 /\ \A p \in Reqs : InFlight(p)' => req[p].tok # req[q].tok
                 /\ \A p \in Minted' : req[p].tok = req[q].tok => p = q
      <4>1. CASE q = r
        <5>1. t \notin entries' BY <2>1, <2>3 DEF ChainInv, TakenNotLive
        <5>2. ASSUME NEW p \in Reqs, InFlight(p)' PROVE req[p].tok # t
          <6>1. InFlight(p) /\ p # r BY <2>8, <5>2
          <6>2. req[p].tok # t
            <7> SUFFICES ASSUME req[p].tok = t PROVE FALSE OBVIOUS
            <7>1. p \in Rotating(FamilyOf(t)) /\ r \in Rotating(FamilyOf(t))
              BY <2>3, <6>1 DEF Rotating
            <7> QED BY <2>4, <6>1, <7>1 DEF ChainInv, OneHolder
          <6> QED BY <6>2
        <5> QED BY <2>7, <3>1, <4>1, <5>1, <5>2
      <4>2. CASE q # r
        <5>1. q \in Minted BY <2>7, <4>2
        <5>2. /\ req[q].tok \notin entries
              /\ \A p \in Reqs : InFlight(p) => req[p].tok # req[q].tok
              /\ \A p \in Minted : req[p].tok = req[q].tok => p = q
          BY <5>1 DEF ChainInv, SucceededOnce
        <5>3. req[q].tok # r
          BY <2>3, <5>1 DEF ChainInv, Bookkeeping, Minted
        <5> QED BY <2>1, <2>7, <2>8, <3>1, <5>1, <5>2, <5>3
      <4> QED BY <4>1, <4>2
    <3>3. ASSUME NEW q \in Minted' PROVE
                 /\ (req[q].tok \notin entries)'
                 /\ \A p \in Reqs : InFlight(p)' => (req[p].tok # req[q].tok)'
                 /\ \A p \in Minted' : (req[p].tok = req[q].tok)' => p = q
      BY <1>1, <3>2
    <3> QED BY <3>3 DEF SucceededOnce
  <2>14. Bookkeeping'
    <3>1. \A q \in Minted' : pc'[q] \in {"remember", "answered"}
      BY <2>2, <2>7 DEF ChainInv, Bookkeeping, Minted
    <3>2. \A q \in Reqs : pc'[q] # "idle" => req'[q].tok \in issued'
      BY <1>1, <2>1, <2>2, <2>3 DEF ChainInv, Bookkeeping
    <3>3. \A q \in Reqs : pc'[q] = "idle" => hold'[q].kind = "none" /\ resp'[q].code = "none"
      BY <1>1, <2>2 DEF ChainInv, Bookkeeping
    <3>4. \A u \in issued' : FamilyOf(u)' \in issued'
      <4>1. issued \subseteq Tokens /\ \A u \in issued : FamilyOf(u) \in issued
        BY DEF ChainInv, Bookkeeping, TypeOK
      <4> QED BY <2>1, <2>3, <2>4, <2>5, <2>6, <4>1
    <3> QED BY <3>1, <3>2, <3>3, <3>4 DEF Bookkeeping
  <2>15. GraceNamesSuccessor'
    <3>1. ASSUME NEW u \in Tokens, grace'[u].kind = "done"
          PROVE  IsSuccessor(grace[u].succ, u)'
      <4>1. IsSuccessor(grace[u].succ, u)
        BY <1>1, <3>1 DEF ChainInv, GraceNamesSuccessor
      <4> QED BY <1>1, <2>7, <4>1 DEF IsSuccessor
    <3>2. ASSUME NEW q \in Reqs
          PROVE /\ pc'[q] = "remember" => q \in Minted'
                /\ pc'[q] = "check" => hold'[q].kind = "done"
                /\ hold'[q].kind = "done" => IsSuccessor(hold[q].succ, req[q].tok)'
                /\ resp'[q].code = "ok" => IsSuccessor(resp[q].tok, req[q].tok)'
      <4>1. /\ pc[q] = "remember" => q \in Minted
            /\ pc[q] = "check" => hold[q].kind = "done"
            /\ hold[q].kind = "done" => IsSuccessor(hold[q].succ, req[q].tok)
            /\ resp[q].code = "ok" => IsSuccessor(resp[q].tok, req[q].tok)
        BY DEF ChainInv, GraceNamesSuccessor
      <4> QED BY <1>1, <2>2, <2>7, <4>1 DEF IsSuccessor
    <3> QED BY <3>1, <3>2 DEF GraceNamesSuccessor
  <2> QED BY <2>11, <2>12, <2>13, <2>14, <2>15 DEF ChainInv
<1> QED BY <1>2, <1>3 DEF IssueRotated

\* Remembering a rotation names its own token as the successor.
LEMMA ChainRemember ==
    ASSUME ChainInv, TypeOK', NEW r \in Reqs, Remember(r) PROVE ChainInv'
<1> DEFINE t == req[r].tok
           deadline == Min2(info[t].expires, now + AccessTTL)
           until == RefreshGraceExpiresAt(deadline)
           done == [NoGrace EXCEPT !.kind = "done", !.client = req[r].client,
                    !.jkt = req[r].jkt, !.x5t = req[r].x5t, !.succ = r,
                    !.scopes = grant[r], !.expires = until]
<1>1. /\ pc[r] = "remember" /\ issued' = issued /\ info' = info /\ entries' = entries
      /\ req' = req /\ hold' = hold /\ Answer(r, "ok", r)
  BY DEF Remember, store
<1>2. IsSuccessor(r, t)
  BY <1>1 DEF ChainInv, GraceNamesSuccessor, IsSuccessor
<1>3. done.succ = r BY DEF NoGrace
<1>4. grace' = grace \/ grace' = Prune \/ grace' = [Prune EXCEPT ![t] = done]
  BY DEF Remember
<1> HIDE DEF done
<1>5. /\ pc'[r] = "answered" /\ \A q \in Reqs : q # r => pc'[q] = pc[q]
      /\ resp'[r].tok = r /\ \A q \in Reqs : q # r => resp'[q] = resp[q]
  BY <1>1 DEF Answer, ChainInv, TypeOK
<1>6. OneHolder' /\ TakenNotLive' /\ SucceededOnce'
  <2>1. \A q \in Reqs : pc'[q] \in InFlightPC => pc[q] \in InFlightPC
    BY <1>5 DEF InFlightPC
  <2> QED BY <1>1, <2>1, QuietChain
<1>7. Bookkeeping' BY <1>1, <1>5 DEF ChainInv, Bookkeeping, Minted, FamilyOf
<1>8. GraceNamesSuccessor'
  <2>1. ASSUME NEW u \in Tokens, grace'[u].kind = "done"
        PROVE  IsSuccessor(grace'[u].succ, u)
    <3>1. t \in Tokens BY DEF ChainInv, TypeOK, Request
    <3>2. Prune[u].kind = "done" => Prune[u] = grace[u] BY DEF Prune, NoGrace
    <3>3. grace'[u] = grace[u] \/ (u = t /\ grace'[u] = done)
      <4>1. Prune \in [Tokens -> GraceEntry] BY GraceTyped DEF ChainInv
      <4> QED BY <1>4, <2>1, <3>1, <3>2, <4>1
    <3>4. grace[u].kind = "done" => IsSuccessor(grace[u].succ, u)
      BY DEF ChainInv, GraceNamesSuccessor
    <3> QED BY <1>2, <1>3, <2>1, <3>3, <3>4
  <2>2. ASSUME NEW u \in Tokens, grace'[u].kind = "done"
        PROVE  IsSuccessor(grace[u].succ, u)'
    BY <1>1, <2>1, <2>2 DEF IsSuccessor, Minted
  <2>3. ASSUME NEW q \in Reqs
        PROVE /\ pc'[q] = "remember" => q \in Minted'
              /\ pc'[q] = "check" => hold'[q].kind = "done"
              /\ hold'[q].kind = "done" => IsSuccessor(hold[q].succ, req[q].tok)'
              /\ resp'[q].code = "ok" => IsSuccessor(resp[q].tok, req[q].tok)'
    <3>1. /\ pc[q] = "remember" => q \in Minted
          /\ pc[q] = "check" => hold[q].kind = "done"
          /\ hold[q].kind = "done" => IsSuccessor(hold[q].succ, req[q].tok)
          /\ resp[q].code = "ok" => IsSuccessor(resp[q].tok, req[q].tok)
      BY DEF ChainInv, GraceNamesSuccessor
    <3> QED BY <1>1, <1>2, <1>5, <3>1 DEF IsSuccessor, Minted
  <2> QED BY <2>2, <2>3 DEF GraceNamesSuccessor
<1> QED BY <1>6, <1>7, <1>8 DEF ChainInv

\* A login starts a family that has no holder yet; every other administrative
\* step leaves the chain as it is or shortens it.
LEMMA ChainEnvironment ==
    ASSUME ChainInv, TypeOK', Environment PROVE ChainInv'
<1>1. grace' = grace /\ Idle
  BY DEF Environment, Login, RevokeSession, RequireStepUp, DeleteAllForSubject,
         DeleteAllForClient, SuspendUser, TightenCeiling, RevokeAccess, SweepExpired, Tick
<1>2. pc' = pc /\ req' = req /\ hold' = hold /\ resp' = resp BY <1>1 DEF Idle
<1>3. ASSUME Minted' = Minted PROVE GraceNamesSuccessor'
  <2>1. ASSUME NEW u \in Tokens, grace'[u].kind = "done"
        PROVE  IsSuccessor(grace[u].succ, u)'
    <3>1. IsSuccessor(grace[u].succ, u)
      BY <1>1, <2>1 DEF ChainInv, GraceNamesSuccessor
    <3> QED BY <1>1, <1>2, <1>3, <3>1 DEF IsSuccessor
  <2>2. ASSUME NEW q \in Reqs
        PROVE /\ pc'[q] = "remember" => q \in Minted'
              /\ pc'[q] = "check" => hold'[q].kind = "done"
              /\ hold'[q].kind = "done" => IsSuccessor(hold[q].succ, req[q].tok)'
              /\ resp'[q].code = "ok" => IsSuccessor(resp[q].tok, req[q].tok)'
    <3>1. /\ pc[q] = "remember" => q \in Minted
          /\ pc[q] = "check" => hold[q].kind = "done"
          /\ hold[q].kind = "done" => IsSuccessor(hold[q].succ, req[q].tok)
          /\ resp[q].code = "ok" => IsSuccessor(resp[q].tok, req[q].tok)
      BY DEF ChainInv, GraceNamesSuccessor
    <3> QED BY <1>2, <1>3, <3>1 DEF IsSuccessor
  <2> QED BY <2>1, <2>2 DEF GraceNamesSuccessor
<1>4. CASE issued' = issued /\ info' = info /\ entries' \subseteq entries
  <2>1. OneHolder' /\ TakenNotLive' /\ SucceededOnce' BY <1>2, <1>4, QuietChain
  <2>2. Bookkeeping' BY <1>2, <1>4 DEF ChainInv, Bookkeeping, Minted, FamilyOf
  <2>3. GraceNamesSuccessor' BY <1>3, <1>4 DEF Minted
  <2> QED BY <2>1, <2>2, <2>3 DEF ChainInv
<1>5. ASSUME NEW f \in Families, Login(f) PROVE ChainInv'
  <2>1. PICK n : Issue(f, n) /\ n.family = f BY <1>5 DEF Login
  <2>2. /\ issued' = issued \cup {f} /\ entries' = entries \cup {f}
        /\ info' = [info EXCEPT ![f] = n] /\ f \notin issued
    BY <1>5, <2>1 DEF Issue, Login
  <2>3. f \in Tokens /\ f \notin Reqs BY ConstantsAssumption DEF Tokens
  <2>4. FamilyOf(f)' = f /\ \A u \in Tokens : u # f => FamilyOf(u)' = FamilyOf(u)
    BY <2>1, <2>2, <2>3 DEF FamilyOf, ChainInv, TypeOK
  <2>5. Minted' = Minted BY <2>2, <2>3 DEF Minted
  <2>6. /\ issued \subseteq Tokens /\ entries \subseteq issued
        /\ \A u \in issued : u # f /\ FamilyOf(u) \in issued /\ FamilyOf(u)' = FamilyOf(u)
    BY <2>2, <2>4 DEF ChainInv, TypeOK, Bookkeeping
  <2>7. \A q \in Reqs : pc[q] # "idle" => req[q].tok \in issued
    BY DEF ChainInv, Bookkeeping
  <2>8. \A q \in Reqs : /\ InFlight(q)' <=> InFlight(q)
                        /\ InFlight(q) => req[q].tok \in issued
    BY <1>2, <2>7 DEF InFlight, InFlightPC
  <2>9. OneHolder'
    <3>1. LiveOf(f)' \subseteq {f} /\ Rotating(f)' = {}
      <4>1. LiveOf(f)' \subseteq {f} BY <2>2, <2>6 DEF LiveOf
      <4>2. ASSUME NEW q \in Reqs, InFlight(q)' PROVE FamilyOf(req[q].tok)' # f
        <5>1. req[q].tok \in issued BY <2>8, <4>2
        <5>2. FamilyOf(req[q].tok)' = FamilyOf(req[q].tok)
          BY <1>2, <2>6, <5>1 DEF FamilyOf
        <5> QED BY <2>2, <2>6, <5>1, <5>2
      <4> QED BY <4>1, <4>2 DEF Rotating
    <3>2. ASSUME NEW g \in Families, g # f
          PROVE  LiveOf(g)' \subseteq LiveOf(g) /\ Rotating(g)' \subseteq Rotating(g)
      <4>1. LiveOf(g)' \subseteq LiveOf(g) BY <2>2, <2>4, <2>6, <3>2 DEF LiveOf
      <4>2. ASSUME NEW q \in Rotating(g)' PROVE q \in Rotating(g)
        <5>1. q \in Reqs /\ InFlight(q)' /\ FamilyOf(req[q].tok)' = g
          BY <4>2 DEF Rotating
        <5>2. InFlight(q) /\ req[q].tok \in issued BY <2>8, <5>1
        <5>3. FamilyOf(req[q].tok)' = FamilyOf(req[q].tok)
          BY <1>2, <2>6, <5>2 DEF FamilyOf
        <5> QED BY <5>1, <5>2, <5>3 DEF Rotating
      <4> QED BY <4>1, <4>2
    <3>3. ASSUME NEW g \in Families, NEW a \in LiveOf(g)' \cup Rotating(g)',
                 NEW b \in LiveOf(g)' \cup Rotating(g)'
          PROVE  a = b
      <4>1. CASE g = f BY <3>1, <3>3, <4>1
      <4>2. CASE g # f BY <3>2, <3>3, <4>2 DEF ChainInv, OneHolder
      <4> QED BY <4>1, <4>2
    <3> QED BY <3>3 DEF OneHolder
  <2>10. TakenNotLive'
    BY <1>2, <2>2, <2>8 DEF ChainInv, TakenNotLive
  <2>11. SucceededOnce'
    <3>1. \A q \in Minted : req[q].tok \in issued
      BY <2>7 DEF ChainInv, Bookkeeping, Minted
    <3> QED BY <1>2, <2>2, <2>5, <2>8, <3>1 DEF ChainInv, SucceededOnce, Minted
  <2>12. Bookkeeping'
    <3>1. \A u \in issued' : FamilyOf(u)' \in issued'
      BY <2>2, <2>4, <2>6
    <3> QED BY <1>2, <2>2, <2>5, <3>1 DEF ChainInv, Bookkeeping
  <2> QED BY <1>3, <2>5, <2>9, <2>10, <2>11, <2>12 DEF ChainInv
<1>6. CASE \E f \in Families : Login(f) BY <1>5, <1>6
<1>7. CASE ~ \E f \in Families : Login(f)
  BY <1>4, <1>7 DEF Environment, RevokeSession, RequireStepUp, DeleteAllForSubject,
         DeleteAllForClient, SuspendUser, TightenCeiling, RevokeAccess, SweepExpired, Tick,
         Remove, store
<1> QED BY <1>6, <1>7

\* Every step preserves the chain invariant.
LEMMA ChainNext == ChainInv /\ [Next]_vars => ChainInv'
<1> SUFFICES ASSUME ChainInv, [Next]_vars PROVE ChainInv' OBVIOUS
<1>1. TypeOK' BY TypeNext DEF ChainInv
<1>2. CASE UNCHANGED vars
  <2>1. UNCHANGED <<issued, info, entries, grace, pc, req, hold, resp>>
    BY <1>2 DEF vars, store
  <2>2. OneHolder' /\ TakenNotLive' /\ SucceededOnce' BY <2>1, QuietChain
  <2>3. Bookkeeping' BY <2>1 DEF ChainInv, Bookkeeping, Minted, FamilyOf
  <2>4. GraceNamesSuccessor'
    BY <2>1 DEF ChainInv, GraceNamesSuccessor, IsSuccessor, Minted
  <2> QED BY <1>1, <2>2, <2>3, <2>4 DEF ChainInv
<1>3. ASSUME NEW r \in Reqs, Submit(r) \/ SubmitRevoke(r) \/ RefreshStep(r) \/ RevokeStep(r)
      PROVE  ChainInv'
  BY <1>1, <1>3, ChainQuiet, ChainPrepare, ChainReplay, ChainSubmit, ChainConsume,
     ChainIssue, ChainRemember
  DEF RefreshStep, RevokeStep
<1>4. CASE Quiescent BY <1>2, <1>4 DEF Quiescent
<1> QED BY <1>1, <1>2, <1>3, <1>4, ChainEnvironment DEF Next

\* Every reachable state satisfies the chain invariant.
THEOREM ChainAlways == Spec => []ChainInv
BY ChainInit, ChainNext, PTL DEF Spec

\* However many requests present tokens of a family at once, and whatever is
\* revoked, expires or is swept meanwhile, the right to the family's next
\* token has at most one holder.
THEOREM OneHolderAlways == Spec => []OneHolder
<1>1. ChainInv => OneHolder BY DEF ChainInv
<1> QED BY ChainAlways, <1>1, PTL

\* All 200 answers to one token, by rotation or grace replay, carry the same
\* successor: the grace cache never turns one refresh into two chains.
THEOREM UniqueSuccessorAlways == Spec => []UniqueSuccessor
<1>1. ChainInv => UniqueSuccessor
  <2> SUFFICES ASSUME ChainInv, NEW a \in Reqs, NEW b \in Reqs,
                      resp[a].code = "ok", resp[b].code = "ok", req[a].tok = req[b].tok
               PROVE  resp[a].tok = resp[b].tok
    BY DEF UniqueSuccessor
  <2>1. IsSuccessor(resp[a].tok, req[a].tok) /\ IsSuccessor(resp[b].tok, req[b].tok)
    BY DEF ChainInv, GraceNamesSuccessor
  <2> QED BY <2>1 DEF IsSuccessor, ChainInv, SucceededOnce
<1> QED BY ChainAlways, <1>1, PTL
=============================================================================
