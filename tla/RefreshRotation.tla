-------------------------- MODULE RefreshRotation --------------------------
(***************************************************************************)
(* The refresh_token grant over the in-process stores: many concurrent     *)
(* HandleRefreshGrant and HandleRevoke requests share a                    *)
(* MemoryRefreshTokenStore and a RefreshGraceCache.  Every call that takes *)
(* a store's mutex is one action; what a handler computes between two such *)
(* calls belongs to the action that follows.                               *)
(*                                                                         *)
(* A request handles one HTTP call and mints at most one refresh token, so *)
(* the token minted by request r is named r, and the first token of family *)
(* f (minted at login) is named f.  That is the freshness of a random      *)
(* 256-bit value, and nothing else is assumed of token names.              *)
(***************************************************************************)
EXTENDS Integers, FiniteSets

CONSTANTS
    Reqs,            \* concurrent /token and /token/revoke requests
    Families,        \* refresh-token families (one per login)
    Users, Clients,
    Keys,            \* DPoP key thumbprints; NoKey is the empty string
    NoKey,
    Certs,           \* mTLS certificate thumbprints, the empty one included
    Scopes,          \* scope values
    Registered,      \* the scope registry
    RefreshTTL, AccessTTL, GraceWindow, AbsoluteMax, RotationWindow,
    MaxRotations,    \* MaxRotationsPerWindow
    MaxDepth,        \* token-policy max_refresh_depth
    MaxEntries,      \* store capacity
    StoreErrors,     \* may a store call fail?  (never with the memory store)
    MaxTime,         \* bound on the clock
    MaxEnv           \* bound on administrative events

\* The optional limits are off at 0, as in the code.
ASSUME ConstantsAssumption ==
    /\ Reqs \cap Families = {}
    /\ Families # {} /\ Users # {} /\ Clients # {} /\ Certs # {}
    /\ IsFiniteSet(Reqs) /\ IsFiniteSet(Families)
    /\ NoKey \notin Keys
    /\ Registered \subseteq Scopes
    /\ RefreshTTL \in Nat \ {0} /\ AccessTTL \in Nat \ {0}
    /\ GraceWindow \in Nat /\ AbsoluteMax \in Nat
    /\ RotationWindow \in Nat /\ MaxRotations \in Nat
    /\ MaxDepth \in Nat /\ MaxEntries \in Nat
    /\ StoreErrors \in BOOLEAN
    /\ MaxTime \in Nat /\ MaxEnv \in Nat

Tokens == Reqs \cup Families
JKTs == Keys \cup {NoKey}

VARIABLES
    now,          \* the wall clock
    \* MemoryRefreshTokenStore
    issued,       \* tokens ever stored (history)
    info,         \* the RefreshToken record stored under a token
    entries,      \* keys of the live entries map
    families,     \* keys of the families map (reuse-detection markers)
    rotations,    \* per-family velocity window
    \* RefreshGraceCache
    grace,
    \* what the handlers consult
    session, suspended, ceiling, revokedAccess, env,
    \* requests
    pc, req, grant, try, hold, resp,
    \* history
    consumed,     \* who rotated a token away, and when
    killed        \* what DeleteFamily did to each family

store == <<issued, info, entries, families, rotations>>
world == <<session, suspended, ceiling, revokedAccess, env>>
hist  == <<consumed, killed>>
vars  == <<now, store, grace, world, pc, req, grant, try, hold, resp, hist>>

(***************************************************************************)
(* Records.                                                                *)
(***************************************************************************)
Times == Nat
Info == [family : Families, user : Users, client : Clients, jkt : JKTs,
         scopes : SUBSET Scopes, sid : BOOLEAN, issuedAt : Times,
         expires : Times, familyCreatedAt : Times, generation : Nat,
         parent : Tokens]

GraceEntry == [kind : {"none", "pending", "done"}, family : Families,
               client : Clients, jkt : JKTs, x5t : Certs, succ : Tokens,
               scopes : SUBSET Scopes, expires : Times]

Request == [tok : Tokens, client : Clients, jkt : JKTs, x5t : Certs,
            scope : SUBSET Scopes, prepared : Times,
            barred : BOOLEAN]      \* history: see Submit

AnyFamily == CHOOSE f \in Families : TRUE
AnyClient == CHOOSE c \in Clients : TRUE
AnyUser   == CHOOSE u \in Users : TRUE
AnyCert   == CHOOSE x \in Certs : TRUE

NoInfo  == [family |-> AnyFamily, user |-> AnyUser, client |-> AnyClient,
            jkt |-> NoKey, scopes |-> {}, sid |-> FALSE, issuedAt |-> 0,
            expires |-> 0, familyCreatedAt |-> 0, generation |-> 0,
            parent |-> AnyFamily]
NoGrace == [kind |-> "none", family |-> AnyFamily, client |-> AnyClient,
            jkt |-> NoKey, x5t |-> AnyCert, succ |-> AnyFamily,
            scopes |-> {}, expires |-> 0]
NoRequest == [tok |-> AnyFamily, client |-> AnyClient, jkt |-> NoKey,
              x5t |-> AnyCert, scope |-> {}, prepared |-> 0,
              barred |-> FALSE]
NoAnswer == [code |-> "none", tok |-> AnyFamily]
NoWindow == [count |-> 0, start |-> 0]
NotConsumed == [by |-> AnyFamily, at |-> 0]

Codes == {"none", "ok", "revoked", "invalid_grant", "invalid_scope",
          "insufficient_user_authentication", "server_error"}

RefreshPC == {"inspect", "prepare", "consume", "guard", "velocity", "velocityKill",
              "issue", "remember", "replay", "check", "await", "kill"}
RevokePC  == {"revokeInspect", "revokeDelete"}
PCs == {"idle", "answered"} \cup RefreshPC \cup RevokePC

\* A request that consumed its token and may still mint a successor.
InFlightPC == {"guard", "velocity", "issue"}

(***************************************************************************)
(* Time and the store's operations.                                        *)
(***************************************************************************)
Min2(a, b) == IF a <= b THEN a ELSE b

\* RefreshToken.IsExpired: time.Since(ExpiresAt) > 0.
IsExpired(t) == now > info[t].expires

FamilyOf(t) == info[t].family
LiveOf(f) == {t \in entries : FamilyOf(t) = f}

\* Rotations of f that consumed their token and have not minted its successor.
InFlight(r) == pc[r] \in InFlightPC
Rotating(f) == {r \in Reqs : InFlight(r) /\ FamilyOf(req[r].tok) = f}

\* Issue, once the capacity check passed: the entry and its marker.
Issue(t, record) ==
    /\ issued'   = issued \cup {t}
    /\ info'     = [info EXCEPT ![t] = record]
    /\ entries'  = entries \cup {t}
    /\ families' = families \cup {t}
    /\ UNCHANGED rotations

\* Issue refuses a new token when the entries map is full.
AtCapacity == MaxEntries > 0 /\ Cardinality(entries) >= MaxEntries

\* Mutant: the family's markers go, its live entries stay.
DeleteFamilyMarkersOnly(f) ==
    /\ families'  = {t \in families : FamilyOf(t) # f}
    /\ rotations' = [rotations EXCEPT ![f] = NoWindow]
    /\ killed'    = [killed EXCEPT ![f] = IF Rotating(f) = {} THEN "sealed" ELSE "racing"]
    /\ UNCHANGED <<issued, info, entries, consumed>>

\* DeleteFamily: live entries, markers and velocity window of the family.
DeleteFamily(f) ==
    /\ entries'   = {t \in entries : FamilyOf(t) # f}
    /\ families'  = {t \in families : FamilyOf(t) # f}
    /\ rotations' = [rotations EXCEPT ![f] = NoWindow]
    /\ killed'    = [killed EXCEPT ![f] = IF Rotating(f) = {} THEN "sealed" ELSE "racing"]
    /\ UNCHANGED <<issued, info, consumed>>

\* A store call that fails changes nothing; DeleteFamily's error is logged.
DeleteFamilyFails == StoreErrors /\ UNCHANGED <<store, hist>>

\* Inspect deletes an expired entry (never its marker) and reports it missing.
InspectLive(t) == t \in entries /\ ~IsExpired(t)
AfterInspect(t) == IF t \in entries /\ IsExpired(t) THEN entries \ {t} ELSE entries

\* Mutant: a window that rolls over starts one window length too early.
CountedFromPast(w) ==
    IF w.count > 0 /\ (RotationWindow = 0 \/ now - w.start < RotationWindow)
    THEN [w EXCEPT !.count = @ + 1]
    ELSE [count |-> 1, start |-> now - RotationWindow]

\* RecordRotation: the fixed window after counting one more rotation.
Counted(w) ==
    IF w.count > 0 /\ (RotationWindow = 0 \/ now - w.start < RotationWindow)
    THEN [w EXCEPT !.count = @ + 1]
    ELSE [count |-> 1, start |-> now]
Exceeded(w) == MaxRotations > 0 /\ RotationWindow > 0 /\ w.count > MaxRotations

(***************************************************************************)
(* The grace cache.  An entry's serialized deadline is never earlier than  *)
(* its expiry, so the second deadline test of the readers is implied.      *)
(***************************************************************************)
Prune == [t \in Tokens |-> IF grace[t].expires <= now THEN NoGrace ELSE grace[t]]
RefreshGraceExpiresAt(deadline) == Min2(deadline, now + GraceWindow)
Lookup(t) == IF now < grace[t].expires THEN grace[t] ELSE NoGrace

SameCaller(a, b) == a.client = b.client /\ a.jkt = b.jkt /\ a.x5t = b.x5t

\* matchingPendingRefreshGrace
MatchingPending(g, r) ==
    /\ g.kind = "pending"
    /\ g.family = FamilyOf(req[r].tok)
    /\ SameCaller(g, req[r])

(***************************************************************************)
(* The checks of the grant, shared by the rotation and the grace replay.   *)
(***************************************************************************)
\* Mutant: the DPoP key of a bound token is not compared.
BoundToClientOnly(i, c, k) == i.client = c

BoundTo(i, c, k) == i.client = c /\ (i.jkt # NoKey => i.jkt = k)
WithinLifetime(i) == AbsoluteMax = 0 \/ now - i.familyCreatedAt <= AbsoluteMax

\* refreshResolveGrant: the request's scope or the record's, then the policy
\* ceiling (session scope ceiling and conditional access).
RequestedScopes(i, q) == IF q.scope = {} THEN i.scopes ELSE q.scope
ResolvedScopes(i, q) == RequestedScopes(i, q) \cap ceiling

GrantVerdict(i, q) ==
    IF ~WithinLifetime(i) THEN "invalid_grant"
    ELSE IF i.sid /\ session[i.family] = "revoked" THEN "invalid_grant"
    ELSE IF i.sid /\ session[i.family] = "stepUp"
         THEN "insufficient_user_authentication"
    ELSE IF i.user \in suspended THEN "invalid_grant"
    ELSE IF ~(q.scope \subseteq i.scopes) THEN "invalid_scope"
    ELSE IF ~(RequestedScopes(i, q) \subseteq Registered) THEN "invalid_scope"
    ELSE IF ResolvedScopes(i, q) = {} THEN "invalid_scope"
    ELSE "ok"

\* What excludes a request the moment it arrives (a notion of the properties).
Barred(i, c, k) ==
    \/ i.client # c
    \/ i.jkt # NoKey /\ i.jkt # k
    \/ AbsoluteMax > 0 /\ now - i.familyCreatedAt > AbsoluteMax
    \/ i.sid /\ session[i.family] = "revoked"
    \/ i.user \in suspended

(***************************************************************************)
(* Requests.                                                               *)
(***************************************************************************)
Goto(r, label) ==
    /\ pc' = [pc EXCEPT ![r] = label]
    /\ UNCHANGED resp
Answer(r, code, t) ==
    /\ pc' = [pc EXCEPT ![r] = "answered"]
    /\ resp' = [resp EXCEPT ![r] = [code |-> code, tok |-> t]]
Refuse(r, code) == Answer(r, code, AnyFamily)

\* A client knows the tokens it was handed: at login, or in an answer.
Presentable == {t \in issued : t \in Families \/ pc[t] = "answered"}

\* The client presents a token, at /token or at /token/revoke.
Submit(r) ==
    /\ pc[r] = "idle"
    /\ \E t \in Presentable, c \in Clients, k \in JKTs, x \in Certs, s \in SUBSET Scopes :
          /\ req' = [req EXCEPT ![r] =
                 [tok |-> t, client |-> c, jkt |-> k, x5t |-> x, scope |-> s,
                  prepared |-> 0, barred |-> Barred(info[t], c, k)]]
          /\ Goto(r, "inspect")
    /\ UNCHANGED <<now, store, grace, world, grant, try, hold, hist>>

SubmitRevoke(r) ==
    /\ pc[r] = "idle"
    /\ \E t \in Presentable, c \in Clients :
          /\ req' = [req EXCEPT ![r] = [NoRequest EXCEPT !.tok = t, !.client = c]]
          /\ Goto(r, "revokeInspect")
    /\ UNCHANGED <<now, store, grace, world, grant, try, hold, hist>>

\* Where the reuse path goes when a replay is not possible.
AfterReplay(r) == IF try[r] = 1 THEN "await" ELSE "kill"

\* prepareRefreshGrace: Inspect the presented token (when the grace is wired).
Inspect(r) ==
    LET t == req[r].tok IN
    /\ pc[r] = "inspect"
    /\ entries' = IF GraceWindow > 0 THEN AfterInspect(t) ELSE entries
    /\ Goto(r, IF GraceWindow > 0 /\ InspectLive(t)
                  /\ BoundTo(info[t], req[r].client, req[r].jkt)
               THEN "prepare" ELSE "consume")
    /\ UNCHANGED <<now, issued, info, families, rotations, grace, world,
                   req, grant, try, hold, hist>>

\* Inspect (or, on a replay, the access token's Validate) returns an error:
\* no marker, or no replay.
InspectFails(r) ==
    /\ StoreErrors
    /\ \/ pc[r] = "inspect" /\ Goto(r, "consume")
       \/ pc[r] = "check" /\ Goto(r, AfterReplay(r))
    /\ UNCHANGED <<now, store, grace, world, req, grant, try, hold, hist>>

\* PreparePending: a bounded marker, unless a live entry is already there.
PreparePending(r) ==
    LET t == req[r].tok
        until == RefreshGraceExpiresAt(info[t].expires)
        marker == [NoGrace EXCEPT !.kind = "pending", !.family = FamilyOf(t),
                      !.client = req[r].client, !.jkt = req[r].jkt,
                      !.x5t = req[r].x5t, !.expires = until]
    IN
    /\ pc[r] = "prepare"
    /\ grace' = IF until <= now THEN grace
                ELSE IF Prune[t].kind # "none" THEN Prune
                ELSE [Prune EXCEPT ![t] = marker]
    /\ req' = [req EXCEPT ![r].prepared =
                  IF until > now /\ MatchingPending(grace'[t], r)
                  THEN grace'[t].expires ELSE 0]
    /\ Goto(r, "consume")
    /\ UNCHANGED <<now, store, world, grant, try, hold, hist>>

\* Mutant: Consume reads the entry and leaves it in place.
ConsumeKeepsEntry(r) ==
    LET t == req[r].tok IN
    /\ pc[r] = "consume"
    /\ IF t \in entries /\ ~IsExpired(t)
       THEN /\ consumed' = [consumed EXCEPT ![t] = [by |-> r, at |-> now]]
            /\ Goto(r, "guard")
       ELSE /\ UNCHANGED consumed
            /\ IF t \notin entries /\ t \in families
               THEN Goto(r, "replay")
               ELSE Refuse(r, "invalid_grant")
    /\ UNCHANGED <<now, store, grace, world, req, grant, try, hold, killed>>

\* Consume: removes the entry on every attempt.
Consume(r) ==
    LET t == req[r].tok IN
    /\ pc[r] = "consume"
    /\ entries' = entries \ {t}
    /\ IF t \in entries /\ ~IsExpired(t)
       THEN /\ consumed' = [consumed EXCEPT ![t] = [by |-> r, at |-> now]]
            /\ Goto(r, "guard")
       ELSE /\ UNCHANGED consumed
            /\ IF t \notin entries /\ t \in families
               THEN Goto(r, "replay")
               ELSE Refuse(r, "invalid_grant")
    /\ UNCHANGED <<now, issued, info, families, rotations, grace, world,
                   req, grant, try, hold, killed>>

ConsumeFails(r) ==
    /\ StoreErrors
    /\ pc[r] = "consume"
    /\ Refuse(r, "invalid_grant")
    /\ UNCHANGED <<now, store, grace, world, req, grant, try, hold, hist>>

\* refreshBindGuard, the absolute lifetime, session, lifecycle, scope and
\* policy checks, and the depth policy.
Guard(r) ==
    LET i == info[req[r].tok]
        verdict == GrantVerdict(i, req[r])
    IN
    /\ pc[r] = "guard"
    /\ IF ~BoundTo(i, req[r].client, req[r].jkt)
       THEN Refuse(r, "invalid_grant") /\ UNCHANGED grant
       ELSE IF verdict # "ok"
       THEN Refuse(r, verdict) /\ UNCHANGED grant
       ELSE IF MaxDepth > 0 /\ i.generation >= MaxDepth
       THEN Refuse(r, "invalid_grant") /\ UNCHANGED grant
       ELSE /\ grant' = [grant EXCEPT ![r] = ResolvedScopes(i, req[r])]
            /\ Goto(r, "velocity")
    /\ UNCHANGED <<now, store, grace, world, req, try, hold, hist>>

\* SessionManager.Get or the lifecycle read fails: the grant is refused.
SessionGetFails(r) ==
    /\ StoreErrors
    /\ \/ pc[r] = "guard"
       \/ /\ pc[r] = "check"
          /\ InspectLive(hold[r].succ)
          /\ FamilyOf(hold[r].succ) = FamilyOf(req[r].tok)
          /\ BoundTo(info[hold[r].succ], req[r].client, req[r].jkt)
    /\ Refuse(r, "invalid_grant")
    /\ UNCHANGED <<now, store, grace, world, req, grant, try, hold, hist>>

\* Mutant: a window over its cap is recorded and the rotation goes on.
RecordRotationOnly(r) ==
    LET f == FamilyOf(req[r].tok) IN
    /\ pc[r] = "velocity"
    /\ rotations' = [rotations EXCEPT ![f] = Counted(@)]
    /\ Goto(r, "issue")
    /\ UNCHANGED <<now, issued, info, entries, families, grace, world,
                   req, grant, try, hold, hist>>

\* refreshVelocityGate: count this rotation, proceed or go kill the family.
RecordRotation(r) ==
    LET f == FamilyOf(req[r].tok)
        w == Counted(rotations[f])
    IN
    /\ pc[r] = "velocity"
    /\ rotations' = [rotations EXCEPT ![f] = w]
    /\ Goto(r, IF Exceeded(w) THEN "velocityKill" ELSE "issue")
    /\ UNCHANGED <<now, issued, info, entries, families, grace, world,
                   req, grant, try, hold, hist>>

\* The limiter fails open.
RecordRotationFails(r) ==
    /\ StoreErrors
    /\ pc[r] = "velocity"
    /\ Goto(r, "issue")
    /\ UNCHANGED <<now, store, grace, world, req, grant, try, hold, hist>>

VelocityKill(r) ==
    /\ pc[r] = "velocityKill"
    /\ DeleteFamily(FamilyOf(req[r].tok)) \/ DeleteFamilyFails
    /\ Refuse(r, "invalid_grant")
    /\ UNCHANGED <<now, grace, world, req, grant, try, hold>>

\* Mutant: a rotation restarts the family's absolute-lifetime clock.
SuccessorRejuvenated(r) ==
    [info[req[r].tok] EXCEPT !.scopes = grant[r], !.issuedAt = now,
         !.expires = now + RefreshTTL, !.generation = @ + 1,
         !.familyCreatedAt = now, !.parent = req[r].tok]

\* refreshRotateFamily: the successor inherits everything but its scopes,
\* its expiry and its generation.
Successor(r) ==
    [info[req[r].tok] EXCEPT !.scopes = grant[r], !.issuedAt = now,
         !.expires = now + RefreshTTL, !.generation = @ + 1,
         !.parent = req[r].tok]

\* refreshIssueAndRotate: access token, then the rotated refresh token.
IssueRotated(r) ==
    /\ pc[r] = "issue"
    /\ IF AtCapacity
       THEN Refuse(r, "server_error") /\ UNCHANGED store
       ELSE Issue(r, Successor(r)) /\ Goto(r, "remember")
    /\ UNCHANGED <<now, grace, world, req, grant, try, hold, hist>>

\* The access-token issuer, or the store's Issue, returns an error.
IssueFails(r) ==
    /\ pc[r] = "issue"
    /\ Refuse(r, "server_error")
    /\ UNCHANGED <<now, store, grace, world, req, grant, try, hold, hist>>

\* rememberRefreshGrace + Remember, then the 200.
Remember(r) ==
    LET t == req[r].tok
        deadline == Min2(info[t].expires, now + AccessTTL)
        until == RefreshGraceExpiresAt(deadline)
        done == [NoGrace EXCEPT !.kind = "done", !.client = req[r].client,
                    !.jkt = req[r].jkt, !.x5t = req[r].x5t, !.succ = r,
                    !.scopes = grant[r], !.expires = until]
    IN
    /\ pc[r] = "remember"
    /\ grace' = IF now >= info[t].expires THEN grace
                ELSE IF until <= now THEN Prune
                ELSE [Prune EXCEPT ![t] = done]
    /\ Answer(r, "ok", r)
    /\ UNCHANGED <<now, store, world, req, grant, try, hold, hist>>

(***************************************************************************)
(* The reuse path: replay the successor, else wait for a pending rotation, *)
(* else replay once more, else kill the family.                            *)
(***************************************************************************)
\* liveRefreshGrace, the cache half.
ReplayLookup(r) ==
    LET g == Lookup(req[r].tok) IN
    /\ pc[r] = "replay"
    /\ hold' = [hold EXCEPT ![r] = g]
    /\ Goto(r, IF g.kind = "done" THEN "check" ELSE AfterReplay(r))
    /\ UNCHANGED <<now, store, grace, world, req, grant, try, hist>>

\* liveRefreshGrace, the store half, and the rest of replayRefreshGrace.
ReplayCheck(r) ==
    LET g == hold[r]
        q == req[r]
        i == info[g.succ]
        verdict == GrantVerdict(i, q)
        accessValid == /\ SameCaller(g, q)
                       /\ g.succ \notin revokedAccess
                       /\ now < i.issuedAt + AccessTTL
    IN
    /\ pc[r] = "check"
    /\ entries' = AfterInspect(g.succ)
    /\ IF ~InspectLive(g.succ) \/ i.family # FamilyOf(q.tok)
             \/ ~BoundTo(i, q.client, q.jkt)
       THEN Goto(r, AfterReplay(r))
       ELSE IF verdict # "ok"
       THEN Refuse(r, verdict)
       ELSE IF g.scopes # ResolvedScopes(i, q) \/ ~accessValid
       THEN Goto(r, AfterReplay(r))
       ELSE Answer(r, "ok", g.succ)
    /\ UNCHANGED <<now, issued, info, families, rotations, grace, world,
                   req, grant, try, hold, hist>>

\* Mutant: the second submit does not wait for the first one's rotation.
AwaitPollImpatient(r) ==
    /\ pc[r] = "await"
    /\ try' = [try EXCEPT ![r] = 2]
    /\ Goto(r, "replay")
    /\ UNCHANGED <<now, store, grace, world, req, grant, hold, hist>>

\* awaitPendingRefreshGrace: a tick that finds the marker gone replays again;
\* one that finds it still there keeps waiting (a stuttering step).
AwaitPoll(r) ==
    /\ pc[r] = "await"
    /\ ~MatchingPending(Lookup(req[r].tok), r)
    /\ try' = [try EXCEPT ![r] = 2]
    /\ Goto(r, "replay")
    /\ UNCHANGED <<now, store, grace, world, req, grant, hold, hist>>

\* Mutant: no limit timer; only the marker's expiry ends the wait.
AwaitLimitOnExpiry(r) ==
    /\ pc[r] = "await"
    /\ grace[req[r].tok].expires <= now
    /\ Refuse(r, "invalid_grant")
    /\ UNCHANGED <<now, store, grace, world, req, grant, try, hold, hist>>

\* The 250 ms limit (or the request's context) ends the wait: the marker
\* still stands, so the answer is invalid_grant and the family lives.
AwaitLimit(r) ==
    /\ pc[r] = "await"
    /\ MatchingPending(Lookup(req[r].tok), r)
    /\ Refuse(r, "invalid_grant")
    /\ UNCHANGED <<now, store, grace, world, req, grant, try, hold, hist>>

\* Refresh-token reuse: DeleteFamily, then invalid_grant.
ReuseKill(r) ==
    /\ pc[r] = "kill"
    /\ DeleteFamily(FamilyOf(req[r].tok)) \/ DeleteFamilyFails
    /\ Refuse(r, "invalid_grant")
    /\ UNCHANGED <<now, grace, world, req, grant, try, hold>>

(***************************************************************************)
(* /token/revoke.                                                          *)
(***************************************************************************)
RevokeInspect(r) ==
    LET t == req[r].tok IN
    /\ pc[r] = "revokeInspect"
    /\ entries' = AfterInspect(t)
    /\ IF InspectLive(t) /\ info[t].client = req[r].client
       THEN Goto(r, "revokeDelete")
       ELSE Refuse(r, "revoked")
    /\ UNCHANGED <<now, issued, info, families, rotations, grace, world,
                   req, grant, try, hold, hist>>

RevokeInspectFails(r) ==
    /\ StoreErrors
    /\ pc[r] = "revokeInspect"
    /\ Refuse(r, "server_error")
    /\ UNCHANGED <<now, store, grace, world, req, grant, try, hold, hist>>

RevokeDelete(r) ==
    /\ pc[r] = "revokeDelete"
    /\ \/ DeleteFamily(FamilyOf(req[r].tok)) /\ Refuse(r, "revoked")
       \/ DeleteFamilyFails /\ Refuse(r, "server_error")
    /\ UNCHANGED <<now, grace, world, req, grant, try, hold>>

(***************************************************************************)
(* Login, bulk revocation, the reaper, administration and time.            *)
(***************************************************************************)
Idle == UNCHANGED <<pc, req, grant, try, hold, resp>>

\* IssueRefreshToken with no family: a fresh one, its age counted from now.
Login(f) ==
    /\ f \notin issued
    /\ ~AtCapacity
    /\ \E u \in Users, c \in Clients, k \in JKTs, sid \in BOOLEAN,
          s \in SUBSET Scopes \ {{}} :
          Issue(f, [family |-> f, user |-> u, client |-> c, jkt |-> k, sid |-> sid,
                    scopes |-> s, issuedAt |-> now, expires |-> now + RefreshTTL,
                    familyCreatedAt |-> now, generation |-> 0, parent |-> f])
    /\ Idle
    /\ UNCHANGED <<now, grace, world, hist>>

\* Mutant: the live entries go, their reuse markers stay.
RemoveEntriesOnly(gone) ==
    /\ entries' = entries \ gone
    /\ UNCHANGED <<issued, info, families, rotations>>

Remove(gone) ==
    /\ entries' = entries \ gone
    /\ families' = families \ gone
    /\ UNCHANGED <<issued, info, rotations>>

AdminEvent == env < MaxEnv /\ env' = env + 1

\* Logout everywhere, an admin revocation or a threat response: the user's
\* tokens for one client, or (no client filter) for all of them.
DeleteAllForSubject(u, cs) ==
    /\ Remove({t \in entries : info[t].user = u /\ info[t].client \in cs})
    /\ AdminEvent
    /\ Idle
    /\ UNCHANGED <<now, grace, session, suspended, ceiling, revokedAccess, hist>>

\* Tenant suspension purges a client's tokens.
DeleteAllForClient(c) ==
    /\ Remove({t \in entries : info[t].client = c})
    /\ AdminEvent
    /\ Idle
    /\ UNCHANGED <<now, grace, session, suspended, ceiling, revokedAccess, hist>>

SweepExpired ==
    /\ \E t \in entries : IsExpired(t)
    /\ entries' = {t \in entries : ~IsExpired(t)}
    /\ Idle
    /\ UNCHANGED <<now, issued, info, families, rotations, grace, world, hist>>

RevokeSession(f) ==
    /\ session[f] # "revoked"
    /\ session' = [session EXCEPT ![f] = "revoked"]
    /\ AdminEvent
    /\ Idle
    /\ UNCHANGED <<now, store, grace, suspended, ceiling, revokedAccess, hist>>

RequireStepUp(f) ==
    /\ session[f] = "alive"
    /\ session' = [session EXCEPT ![f] = "stepUp"]
    /\ AdminEvent
    /\ Idle
    /\ UNCHANGED <<now, store, grace, suspended, ceiling, revokedAccess, hist>>

SuspendUser(u) ==
    /\ u \notin suspended
    /\ suspended' = suspended \cup {u}
    /\ AdminEvent
    /\ Idle
    /\ UNCHANGED <<now, store, grace, session, ceiling, revokedAccess, hist>>

\* Conditional access or the session's scope ceiling is tightened.
TightenCeiling(s) ==
    /\ s \subseteq ceiling /\ s # ceiling
    /\ ceiling' = s
    /\ AdminEvent
    /\ Idle
    /\ UNCHANGED <<now, store, grace, session, suspended, revokedAccess, hist>>

\* The access token minted beside refresh token t is revoked.
RevokeAccess(t) ==
    /\ t \in Presentable \ revokedAccess
    /\ revokedAccess' = revokedAccess \cup {t}
    /\ AdminEvent
    /\ Idle
    /\ UNCHANGED <<now, store, grace, session, suspended, ceiling, hist>>

Tick ==
    /\ now < MaxTime
    /\ now' = now + 1
    /\ Idle
    /\ UNCHANGED <<store, grace, world, hist>>

\* Every request answered: nothing more need happen.
Quiescent ==
    /\ \A r \in Reqs : pc[r] = "answered"
    /\ UNCHANGED vars

(***************************************************************************)
(* The specification.                                                      *)
(***************************************************************************)
Init ==
    /\ now = 0
    /\ issued = {} /\ entries = {} /\ families = {}
    /\ info = [t \in Tokens |-> NoInfo]
    /\ rotations = [f \in Families |-> NoWindow]
    /\ grace = [t \in Tokens |-> NoGrace]
    /\ session = [f \in Families |-> "alive"]
    /\ suspended = {} /\ ceiling = Scopes /\ revokedAccess = {} /\ env = 0
    /\ pc = [r \in Reqs |-> "idle"]
    /\ req = [r \in Reqs |-> NoRequest]
    /\ grant = [r \in Reqs |-> {}]
    /\ try = [r \in Reqs |-> 1]
    /\ hold = [r \in Reqs |-> NoGrace]
    /\ resp = [r \in Reqs |-> NoAnswer]
    /\ consumed = [t \in Tokens |-> NotConsumed]
    /\ killed = [f \in Families |-> "no"]

RefreshStep(r) ==
    \/ Inspect(r) \/ InspectFails(r) \/ PreparePending(r)
    \/ Consume(r) \/ ConsumeFails(r) \/ Guard(r) \/ SessionGetFails(r)
    \/ RecordRotation(r) \/ RecordRotationFails(r) \/ VelocityKill(r)
    \/ IssueRotated(r) \/ IssueFails(r) \/ Remember(r)
    \/ ReplayLookup(r) \/ ReplayCheck(r) \/ AwaitPoll(r) \/ AwaitLimit(r)
    \/ ReuseKill(r)

RevokeStep(r) == RevokeInspect(r) \/ RevokeInspectFails(r) \/ RevokeDelete(r)

Environment ==
    \/ \E f \in Families : Login(f) \/ RevokeSession(f) \/ RequireStepUp(f)
    \/ \E u \in Users, cs \in {{c} : c \in Clients} \cup {Clients} :
          DeleteAllForSubject(u, cs)
    \/ \E c \in Clients : DeleteAllForClient(c)
    \/ \E u \in Users : SuspendUser(u)
    \/ \E s \in SUBSET Scopes : TightenCeiling(s)
    \/ \E t \in Reqs : RevokeAccess(t)
    \/ SweepExpired
    \/ Tick

Next ==
    \/ \E r \in Reqs : Submit(r) \/ SubmitRevoke(r) \/ RefreshStep(r) \/ RevokeStep(r)
    \/ Environment
    \/ Quiescent

Spec == Init /\ [][Next]_vars

\* A handler's goroutine keeps running: each step it can take, it takes.
FairSpec == Spec /\ \A r \in Reqs : WF_vars(RefreshStep(r) \/ RevokeStep(r))

(***************************************************************************)
(* Properties.                                                             *)
(***************************************************************************)
\* The stores, the grace cache and every request hold values of their types;
\* live entries and reuse markers are of tokens the store issued.
TypeOK ==
    /\ now \in 0..MaxTime
    /\ issued \subseteq Tokens /\ entries \subseteq issued /\ families \subseteq issued
    /\ info \in [Tokens -> Info]
    /\ rotations \in [Families -> [count : Nat, start : Times]]
    /\ grace \in [Tokens -> GraceEntry]
    /\ session \in [Families -> {"alive", "stepUp", "revoked"}]
    /\ suspended \subseteq Users /\ ceiling \subseteq Scopes
    /\ revokedAccess \subseteq Tokens /\ env \in 0..MaxEnv
    /\ pc \in [Reqs -> PCs]
    /\ req \in [Reqs -> Request]
    /\ grant \in [Reqs -> SUBSET Scopes]
    /\ try \in [Reqs -> {1, 2}]
    /\ hold \in [Reqs -> GraceEntry]
    /\ resp \in [Reqs -> [code : Codes, tok : Tokens]]
    /\ consumed \in [Tokens -> [by : Tokens, at : Times]]
    /\ killed \in [Families -> {"no", "racing", "sealed"}]

\* A family is a chain: at any moment at most one party holds the right to
\* its next token, be it a live leaf or the one handler that consumed the
\* previous leaf (single-use Consume under concurrent handlers).
OneHolder ==
    \A f \in Families : \A a, b \in LiveOf(f) \cup Rotating(f) : a = b

\* However often and however concurrently a token is presented, every 200 it
\* earns, by rotation or by grace replay, carries the same successor.
UniqueSuccessor ==
    \A a, b \in Reqs :
        /\ resp[a].code = "ok" /\ resp[b].code = "ok"
        /\ req[a].tok = req[b].tok
        => resp[a].tok = resp[b].tok

\* A rotation never drifts from the login it descends from: same user, client,
\* key, session and family age, scopes never wider, depth never past the cap.
FamilyLineage ==
    \A t \in issued :
        LET root == info[FamilyOf(t)] IN
        /\ FamilyOf(t) \in issued
        /\ info[t].user = root.user /\ info[t].client = root.client
        /\ info[t].jkt = root.jkt /\ info[t].sid = root.sid
        /\ info[t].familyCreatedAt = root.familyCreatedAt
        /\ info[t].scopes \subseteq root.scopes
        /\ MaxDepth > 0 => info[t].generation <= MaxDepth

\* A request that arrives with the wrong client or key, past the family's
\* absolute lifetime, or after its session or user was shut, never gets a
\* 200, not by rotation and not through the grace cache.
BarredNeverServed ==
    \A r \in Reqs : req[r].barred => resp[r].code # "ok"

\* Once the velocity window is over its cap the family can mint nothing more,
\* although the DeleteFamily that follows has not run yet.
VelocityCapped ==
    \A f \in Families :
        Exceeded(rotations[f]) =>
            /\ rotations[f].count = MaxRotations + 1
            /\ LiveOf(f) \cup Rotating(f) = {}

\* A family deleted while no rotation of it was in flight never comes back.
SealedStaysDead ==
    \A f \in Families : killed[f] = "sealed" => LiveOf(f) \cup Rotating(f) = {}

\* A double submit by the same caller, inside the window its first request
\* opened, kills the family only when that request was answered and its
\* successor can no longer be replayed.
KillJustified ==
    \A r \in Reqs :
        LET t == req[r].tok
            c == consumed[t].by
        IN  (/\ pc[r] = "kill" /\ c \in Reqs
             /\ SameCaller(req[r], req[c]) /\ now < req[c].prepared)
            => /\ resp[c].code = "ok"
               /\ \/ c \notin entries \/ IsExpired(c)
                  \/ c \in revokedAccess \/ now >= info[c].issuedAt + AccessTTL
                  \/ GrantVerdict(info[c], req[r]) # "ok"
                  \/ ResolvedScopes(info[c], req[r]) # info[c].scopes

\* Reuse detection fires only for a token some request consumed, or for one
\* that expired.
ReuseMeansSpent ==
    \A r \in Reqs : pc[r] = "kill" =>
        consumed[req[r].tok].by \in Reqs \/ IsExpired(req[r].tok)

\* What a comment of the Redis store says of this one: reuse detection fires
\* only for a token some request consumed.  Inspect and the reaper drop an
\* expired entry and leave its marker, so it does not hold.
ReuseMeansConsumed ==
    \A r \in Reqs : pc[r] = "kill" => consumed[req[r].tok].by \in Reqs

\* Every request is answered, the one waiting on a pending rotation included.
EveryRequestAnswered ==
    \A r \in Reqs : pc[r] \in RefreshPC \cup RevokePC ~> pc[r] = "answered"

(***************************************************************************)
(* The inductive strengthening of OneHolder and UniqueSuccessor.           *)
(***************************************************************************)
Minted == Reqs \cap issued

\* A request's token exists from its Issue on; what it presents was issued.
Bookkeeping ==
    /\ \A r \in Minted : pc[r] \in {"remember", "answered"}
    /\ \A r \in Reqs : pc[r] # "idle" => req[r].tok \in issued
    /\ \A r \in Reqs : pc[r] = "idle" => hold[r].kind = "none" /\ resp[r].code = "none"
    /\ \A t \in issued : FamilyOf(t) \in issued

\* A token someone is rotating is no longer live.
TakenNotLive == \A r \in Reqs : InFlight(r) => req[r].tok \notin entries

\* A token that has a successor is neither live nor being rotated, and has
\* only that one.
SucceededOnce ==
    \A r \in Minted :
        /\ req[r].tok \notin entries
        /\ \A q \in Reqs : InFlight(q) => req[q].tok # req[r].tok
        /\ \A q \in Minted : req[q].tok = req[r].tok => q = r

IsSuccessor(s, t) == s \in Minted /\ req[s].tok = t

\* The grace cache, what a handler read from it, and every 200 name the
\* immediate successor of the token they stand for.
GraceNamesSuccessor ==
    /\ \A t \in Tokens : grace[t].kind = "done" => IsSuccessor(grace[t].succ, t)
    /\ \A r \in Reqs :
          /\ pc[r] = "remember" => r \in Minted
          /\ pc[r] = "check" => hold[r].kind = "done"
          /\ hold[r].kind = "done" => IsSuccessor(hold[r].succ, req[r].tok)
          /\ resp[r].code = "ok" => IsSuccessor(resp[r].tok, req[r].tok)

ChainInv ==
    /\ TypeOK /\ Bookkeeping /\ OneHolder /\ TakenNotLive
    /\ SucceededOnce /\ GraceNamesSuccessor

(***************************************************************************)
(* The store and its handlers implement the chain of RefreshFamily.        *)
(***************************************************************************)
None == "none"

FamilyState(f) ==
    IF f \notin issued THEN "unborn"
    ELSE IF LiveOf(f) # {} THEN "live"
    ELSE IF Rotating(f) # {} THEN "rotating"
    ELSE "spent"

FamilyLeaf(f) ==
    IF LiveOf(f) # {} THEN CHOOSE t \in LiveOf(f) : TRUE
    ELSE IF Rotating(f) # {} THEN req[CHOOSE r \in Rotating(f) : TRUE].tok
    ELSE None

SuccessorOf(t) ==
    IF \E r \in Reqs \cap issued : info[r].parent = t
    THEN CHOOSE r \in Reqs \cap issued : info[r].parent = t
    ELSE None

Chain == INSTANCE RefreshFamily WITH
            state <- [f \in Families |-> FamilyState(f)],
            leaf  <- [f \in Families |-> FamilyLeaf(f)],
            next  <- [t \in Tokens |-> SuccessorOf(t)]

\* Every behaviour of the store under its concurrent handlers is, family by
\* family, a behaviour of the chain: a leaf is taken once and replaced at
\* most once, and a family without a leaf or a rotation is spent for good.
ImplementsChain == Chain!Spec

(***************************************************************************)
(* What comments of the code say and the code does not keep.               *)
(***************************************************************************)
\* memory_refresh_token.go: "a revoked family can never rotate again".
RevokedFamilyNeverRotates ==
    \A f \in Families : killed[f] # "no" => LiveOf(f) = {}
=============================================================================
