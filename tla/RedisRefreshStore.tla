------------------------- MODULE RedisRefreshStore -------------------------
(***************************************************************************)
(* The Redis backend of the refresh-token store.  An operation of the      *)
(* store is several Redis commands on keys of different slots, so nothing  *)
(* is atomic but one command or one Lua script: each is one action, and a  *)
(* worker (a handler on any replica) may crash between any two of them.    *)
(*                                                                         *)
(* All tokens belong to one user and one client, who share both bulk       *)
(* indexes.  A worker mints at most one token, which bears its name.       *)
(***************************************************************************)
EXTENDS Integers, FiniteSets

CONSTANTS
    Workers,     \* concurrent handler calls; also the tokens they mint
    Families,
    Ops,         \* the operations workers perform
    Faults       \* may commands fail and workers crash?

Indexes == {"subject", "client"}
AllOps == {"login", "refresh", "revoke", "bulk"}
Nobody == "nobody"      \* no worker, and no family

ASSUME RedisAssumption ==
    /\ Families # {} /\ Nobody \notin Workers \cup Families
    /\ Ops \subseteq AllOps
    /\ Faults \in BOOLEAN

VARIABLES
    \* Redis keys
    active,      \* sso:rt:<token>
    famof,       \* sso:rt:famof:<token>, the reuse marker
    members,     \* token ids in the sso:rt:family:<fid> sets
    tomb,        \* families whose set holds the revoked member
    index,       \* sso:rt:subject:... and sso:rt:client:...
    expired,     \* tokens past their deadline
    \* workers
    pc,
    tok,         \* the token presented (at login: the one to mint)
    fam,         \* the family it belongs to
    idx, todo, cur,    \* a cleanup's index, snapshot and current token
    result,
    \* history
    late,        \* began after the family's tombstone was committed
    leafed,      \* minted tokens that became their family's leaf
    spentBy      \* who removed a token with GETDEL

redis  == <<active, famof, members, tomb, index, expired>>
local  == <<tok, fam, idx, todo, cur>>
ghosts == <<late, leafed, spentBy>>
vars   == <<redis, pc, local, result, ghosts>>

ConsumePC == {"get", "check1", "mark", "getdel", "check2", "family"}
IssuePC   == {"set", "subject", "client", "member", "undoKey", "undoSubject", "undoClient"}
DeletePC  == {"exists", "tombstone", "snapshot", "delKey", "delMark", "srem"}
InspectPC == {"inspect", "gcKey", "gcMark", "inspectCheck"}
BulkPC    == {"bulkRead", "bulkKey", "bulkMark", "bulkIndex"}
PCs == {"idle", "grant", "done"} \cup ConsumePC \cup IssuePC \cup DeletePC
         \cup InspectPC \cup BulkPC

Results == {"none", "ok", "not_found", "reused", "refused", "revoked", "cleared", "error"}

Goto(w, l) == pc' = [pc EXCEPT ![w] = l] /\ UNCHANGED result
Finish(w, r) ==
    /\ pc' = [pc EXCEPT ![w] = "done"]
    /\ result' = [result EXCEPT ![w] = r]

\* Tokens a client was handed, and so may present.
Handed == {w \in Workers : result[w] = "ok"}

\* Mutant: revoked only once the cleanup has emptied the set.
FamilyRevokedWhenEmpty(w) ==
    fam[w] \in tomb /\ ~ \E t \in members : fam[t] = fam[w]

FamilyRevoked(w) == fam[w] \in tomb

(***************************************************************************)
(* Calls arrive.                                                           *)
(***************************************************************************)
Login(w) ==
    /\ "login" \in Ops
    /\ pc[w] = "idle"
    /\ \E f \in Families :
          /\ \A v \in Workers : fam[v] # f
          /\ fam' = [fam EXCEPT ![w] = f]
    /\ tok' = [tok EXCEPT ![w] = w]
    /\ Goto(w, "set")
    /\ UNCHANGED <<redis, idx, todo, cur, ghosts>>

Present(w, label) ==
    /\ pc[w] = "idle"
    /\ \E t \in Handed :
          /\ tok' = [tok EXCEPT ![w] = t]
          /\ fam' = [fam EXCEPT ![w] = fam[t]]
          /\ late' = [late EXCEPT ![w] = fam[t] \in tomb]
    /\ Goto(w, label)
    /\ UNCHANGED <<redis, idx, todo, cur, leafed, spentBy>>

Refresh(w) == "refresh" \in Ops /\ Present(w, "get")
Revoke(w) == "revoke" \in Ops /\ Present(w, "inspect")

BulkDelete(w) ==
    /\ "bulk" \in Ops
    /\ pc[w] = "idle"
    /\ \E i \in Indexes : idx' = [idx EXCEPT ![w] = i]
    /\ Goto(w, "bulkRead")
    /\ UNCHANGED <<redis, tok, fam, todo, cur, ghosts>>

(***************************************************************************)
(* Consume.                                                                *)
(***************************************************************************)
Get(w) ==
    /\ pc[w] = "get"
    /\ \/ tok[w] \notin active /\ Goto(w, "family")
       \/ tok[w] \in active /\ tok[w] \in expired /\ Finish(w, "not_found")
       \/ tok[w] \in active /\ tok[w] \notin expired /\ Goto(w, "check1")
    /\ UNCHANGED <<redis, local, ghosts>>

CheckBefore(w) ==
    /\ pc[w] = "check1"
    /\ IF FamilyRevoked(w) THEN Finish(w, "not_found") ELSE Goto(w, "mark")
    /\ UNCHANGED <<redis, local, ghosts>>

\* Mutant: the marker is left to be written after the removal.
PrepareConsumeMarkerLater(w) ==
    /\ pc[w] = "mark"
    /\ Goto(w, "getdel")
    /\ UNCHANGED <<redis, local, ghosts>>

\* prepareConsumeMarker: reuse evidence goes in before the token goes out.
PrepareConsumeMarker(w) ==
    /\ pc[w] = "mark"
    /\ famof' = famof \cup {tok[w]}
    /\ Goto(w, "getdel")
    /\ UNCHANGED <<active, members, tomb, index, expired, local, ghosts>>

\* Mutant: the token is read a second time, not removed.
GetDelKeeps(w) ==
    /\ pc[w] = "getdel"
    /\ spentBy' = [spentBy EXCEPT ![tok[w]] = IF tok[w] \in active THEN w ELSE @]
    /\ \/ tok[w] \notin active /\ Goto(w, "family")
       \/ tok[w] \in active /\ tok[w] \in expired /\ Finish(w, "not_found")
       \/ tok[w] \in active /\ tok[w] \notin expired /\ Goto(w, "check2")
    /\ UNCHANGED <<redis, local, late, leafed>>

GetDel(w) ==
    /\ pc[w] = "getdel"
    /\ active' = active \ {tok[w]}
    /\ spentBy' = [spentBy EXCEPT ![tok[w]] = IF tok[w] \in active THEN w ELSE @]
    /\ \/ tok[w] \notin active /\ Goto(w, "family")
       \/ tok[w] \in active /\ tok[w] \in expired /\ Finish(w, "not_found")
       \/ tok[w] \in active /\ tok[w] \notin expired /\ Goto(w, "check2")
    /\ UNCHANGED <<famof, members, tomb, index, expired, local, late, leafed>>

CheckAfter(w) ==
    /\ pc[w] = "check2"
    /\ IF FamilyRevoked(w) THEN Finish(w, "not_found") ELSE Goto(w, "grant")
    /\ UNCHANGED <<redis, local, ghosts>>

\* consumedOrNotFound; the handler answers reuse with DeleteFamily.
ConsumedFamily(w) ==
    /\ pc[w] = "family"
    /\ IF tok[w] \in famof THEN Goto(w, "exists") ELSE Finish(w, "not_found")
    /\ UNCHANGED <<redis, local, ghosts>>

\* The handler: a check refuses the grant, or the rotation-velocity cap kills
\* the family, or the rotation goes on to Issue.
HandlerVerdict(w) ==
    /\ pc[w] = "grant"
    /\ Finish(w, "refused") \/ Goto(w, "exists") \/ Goto(w, "set")
    /\ UNCHANGED <<redis, local, ghosts>>

(***************************************************************************)
(* Issue.                                                                  *)
(***************************************************************************)
SetActive(w) ==
    /\ pc[w] = "set"
    /\ active' = active \cup {w}
    /\ Goto(w, "subject")
    /\ UNCHANGED <<famof, members, tomb, index, expired, local, ghosts>>

IndexAdd(w) ==
    /\ pc[w] \in Indexes
    /\ index' = [index EXCEPT ![pc[w]] = @ \cup {w}]
    /\ Goto(w, IF pc[w] = "subject" THEN "client" ELSE "member")
    /\ UNCHANGED <<active, famof, members, tomb, expired, local, ghosts>>

\* familyMemberScript: refuse a tombstoned family, else add the member.
AddFamilyMember(w) ==
    /\ pc[w] = "member"
    /\ IF FamilyRevoked(w)
       THEN Goto(w, "undoKey") /\ UNCHANGED <<members, leafed>>
       ELSE /\ members' = members \cup {w}
            /\ leafed' = leafed \cup ({w} \cap active)
            /\ Finish(w, "ok")
    /\ UNCHANGED <<active, famof, tomb, index, expired, local, late, spentBy>>

UndoIssue(w) ==
    \/ /\ pc[w] = "undoKey"
       /\ active' = active \ {w}
       /\ Goto(w, "undoSubject")
       /\ UNCHANGED <<famof, members, tomb, index, expired, local, ghosts>>
    \/ /\ pc[w] \in {"undoSubject", "undoClient"}
       /\ index' = [index EXCEPT !["subject"] = IF pc[w] = "undoSubject" THEN @ \ {w} ELSE @,
                                 !["client"]  = IF pc[w] = "undoClient" THEN @ \ {w} ELSE @]
       /\ IF pc[w] = "undoSubject" THEN Goto(w, "undoClient") ELSE Finish(w, "error")
       /\ UNCHANGED <<active, famof, members, tomb, expired, local, ghosts>>

(***************************************************************************)
(* DeleteFamily: tombstone, snapshot of the members, cleanup.              *)
(***************************************************************************)
FamilyExists(w) ==
    /\ pc[w] = "exists"
    /\ IF FamilyRevoked(w) \/ \E t \in members : fam[t] = fam[w]
       THEN Goto(w, "tombstone") ELSE Finish(w, "revoked")
    /\ UNCHANGED <<redis, local, ghosts>>

\* Mutant: the members are cleaned up without a tombstone.
MarkFamilyRevokedNot(w) ==
    /\ pc[w] = "tombstone"
    /\ Goto(w, "snapshot")
    /\ UNCHANGED <<redis, local, ghosts>>

MarkFamilyRevoked(w) ==
    /\ pc[w] = "tombstone"
    /\ tomb' = tomb \cup {fam[w]}
    /\ Goto(w, "snapshot")
    /\ UNCHANGED <<active, famof, members, index, expired, local, ghosts>>

\* The loop of both cleanups: the next token of the snapshot, or the end.
NextToken(w, rest, first, last) ==
    IF rest = {} THEN last /\ UNCHANGED todo /\ cur' = [cur EXCEPT ![w] = w]
    ELSE \E t \in rest :
            /\ cur' = [cur EXCEPT ![w] = t]
            /\ todo' = [todo EXCEPT ![w] = rest \ {t}]
            /\ Goto(w, first)

FamilyTokens(w) ==
    /\ pc[w] = "snapshot"
    /\ NextToken(w, {t \in members : fam[t] = fam[w]}, "delKey", Finish(w, "revoked"))
    /\ UNCHANGED <<redis, tok, fam, idx, ghosts>>

CleanKey(w) ==
    /\ pc[w] = "delKey"
    /\ active' = active \ {cur[w]}
    /\ Goto(w, "delMark")
    /\ UNCHANGED <<famof, members, tomb, index, expired, local, ghosts>>

CleanMarker(w) ==
    /\ pc[w] = "delMark"
    /\ famof' = famof \ {cur[w]}
    /\ Goto(w, "srem")
    /\ UNCHANGED <<active, members, tomb, index, expired, local, ghosts>>

CleanMember(w) ==
    /\ pc[w] = "srem"
    /\ members' = members \ {cur[w]}
    /\ NextToken(w, todo[w], "delKey", Finish(w, "revoked"))
    /\ UNCHANGED <<active, famof, tomb, index, expired, tok, fam, idx, ghosts>>

(***************************************************************************)
(* Inspect, as /token/revoke calls it before DeleteFamily.                 *)
(***************************************************************************)
Inspect(w) ==
    /\ pc[w] = "inspect"
    /\ \/ tok[w] \notin active /\ Finish(w, "not_found")
       \/ tok[w] \in active /\ tok[w] \in expired /\ Goto(w, "gcKey")
       \/ tok[w] \in active /\ tok[w] \notin expired /\ Goto(w, "inspectCheck")
    /\ UNCHANGED <<redis, local, ghosts>>

InspectCheck(w) ==
    /\ pc[w] = "inspectCheck"
    /\ IF FamilyRevoked(w) THEN Finish(w, "not_found") ELSE Goto(w, "exists")
    /\ UNCHANGED <<redis, local, ghosts>>

InspectCollect(w) ==
    \/ /\ pc[w] = "gcKey"
       /\ active' = active \ {tok[w]}
       /\ Goto(w, "gcMark")
       /\ UNCHANGED <<famof, members, tomb, index, expired, local, ghosts>>
    \/ /\ pc[w] = "gcMark"
       /\ famof' = famof \ {tok[w]}
       /\ Finish(w, "not_found")
       /\ UNCHANGED <<active, members, tomb, index, expired, local, ghosts>>

(***************************************************************************)
(* deleteTokensInIndex (DeleteAllForSubject, DeleteAllForClient).          *)
(***************************************************************************)
BulkRead(w) ==
    /\ pc[w] = "bulkRead"
    /\ NextToken(w, index[idx[w]], "bulkKey", Goto(w, "bulkIndex"))
    /\ UNCHANGED <<redis, tok, fam, idx, ghosts>>

BulkKey(w) ==
    /\ pc[w] = "bulkKey"
    /\ active' = active \ {cur[w]}
    /\ Goto(w, "bulkMark")
    /\ UNCHANGED <<famof, members, tomb, index, expired, local, ghosts>>

BulkMarker(w) ==
    /\ pc[w] = "bulkMark"
    /\ famof' = famof \ {cur[w]}
    /\ NextToken(w, todo[w], "bulkKey", Goto(w, "bulkIndex"))
    /\ UNCHANGED <<active, members, tomb, index, expired, tok, fam, idx, ghosts>>

BulkIndex(w) ==
    /\ pc[w] = "bulkIndex"
    /\ index' = [index EXCEPT ![idx[w]] = {}]
    /\ Finish(w, "cleared")
    /\ UNCHANGED <<active, famof, members, tomb, expired, local, ghosts>>

(***************************************************************************)
(* Faults.                                                                 *)
(***************************************************************************)
BestEffort == Indexes \cup {"undoKey", "undoSubject", "undoClient",
                            "gcKey", "gcMark", "bulkMark", "bulkIndex"}

\* A crash, or a command whose error aborts the call: nothing more happens, and what the
\* cleanup had still to do is forgotten.
Abort(w) ==
    /\ Faults
    /\ pc[w] \in PCs \ {"idle", "grant", "done", "member"}
    /\ Finish(w, "error")
    /\ idx' = [idx EXCEPT ![w] = "subject"]
    /\ todo' = [todo EXCEPT ![w] = {}]
    /\ cur' = [cur EXCEPT ![w] = w]
    /\ UNCHANGED <<redis, tok, fam, ghosts>>

\* A best-effort command fails: its error is dropped and the call goes on.
Skip(w) ==
    /\ Faults
    /\ pc[w] \in BestEffort
    /\ \/ pc[w] = "subject" /\ Goto(w, "client") /\ UNCHANGED <<todo, cur>>
       \/ pc[w] = "client" /\ Goto(w, "member") /\ UNCHANGED <<todo, cur>>
       \/ pc[w] = "undoKey" /\ Goto(w, "undoSubject") /\ UNCHANGED <<todo, cur>>
       \/ pc[w] = "undoSubject" /\ Goto(w, "undoClient") /\ UNCHANGED <<todo, cur>>
       \/ pc[w] = "undoClient" /\ Finish(w, "error") /\ UNCHANGED <<todo, cur>>
       \/ pc[w] = "gcKey" /\ Goto(w, "gcMark") /\ UNCHANGED <<todo, cur>>
       \/ pc[w] = "gcMark" /\ Finish(w, "not_found") /\ UNCHANGED <<todo, cur>>
       \/ pc[w] = "bulkMark" /\ NextToken(w, todo[w], "bulkKey", Goto(w, "bulkIndex"))
       \/ pc[w] = "bulkIndex" /\ Finish(w, "cleared") /\ UNCHANGED <<todo, cur>>
    /\ UNCHANGED <<redis, tok, fam, idx, ghosts>>

\* The reply to GETDEL is lost and the Redis client, which retries by itself,
\* sends it again: the call that removed the token finds it gone.
GetDelRetried(w) ==
    /\ Faults
    /\ pc[w] = "getdel"
    /\ tok[w] \in active
    /\ active' = active \ {tok[w]}
    /\ spentBy' = [spentBy EXCEPT ![tok[w]] = w]
    /\ Goto(w, "family")
    /\ UNCHANGED <<famof, members, tomb, index, expired, local, late, leafed>>

\* The member script reports an error, whether or not it ran.
AddFamilyMemberFails(w) ==
    /\ Faults
    /\ pc[w] = "member"
    /\ \/ UNCHANGED <<members, leafed>>
       \/ /\ ~FamilyRevoked(w)
          /\ members' = members \cup {w}
          /\ leafed' = leafed \cup ({w} \cap active)
    /\ Goto(w, "undoKey")
    /\ UNCHANGED <<active, famof, tomb, index, expired, local, late, spentBy>>

(***************************************************************************)
(* Time.  A token outlives the call that issues it; its marker and its     *)
(* family's set outlive it (their TTL is at least the token's).            *)
(***************************************************************************)
Expire(t) ==
    /\ t \in Handed \ expired
    /\ expired' = expired \cup {t}
    /\ UNCHANGED <<active, famof, members, tomb, index, pc, local, result, ghosts>>

Evict(t) ==
    /\ t \in expired \cap (active \cup famof)
    /\ \/ t \in active /\ active' = active \ {t} /\ UNCHANGED famof
       \/ t \notin active /\ famof' = famof \ {t} /\ UNCHANGED active
    /\ UNCHANGED <<members, tomb, index, expired, pc, local, result, ghosts>>

\* No call under way: nothing more need happen.
Quiescent ==
    /\ \A w \in Workers : pc[w] \in {"idle", "done"}
    /\ UNCHANGED vars

(***************************************************************************)
(* The specification.                                                      *)
(***************************************************************************)
Init ==
    /\ active = {} /\ famof = {} /\ members = {} /\ tomb = {} /\ expired = {}
    /\ index = [i \in Indexes |-> {}]
    /\ pc = [w \in Workers |-> "idle"]
    /\ tok = [w \in Workers |-> w]
    /\ fam = [w \in Workers |-> Nobody]
    /\ idx = [w \in Workers |-> "subject"]
    /\ todo = [w \in Workers |-> {}]
    /\ cur = [w \in Workers |-> w]
    /\ result = [w \in Workers |-> "none"]
    /\ late = [w \in Workers |-> FALSE]
    /\ leafed = {}
    /\ spentBy = [w \in Workers |-> Nobody]

Call(w) == Login(w) \/ Refresh(w) \/ Revoke(w) \/ BulkDelete(w)
Consume(w) == Get(w) \/ CheckBefore(w) \/ PrepareConsumeMarker(w) \/ GetDel(w)
                \/ CheckAfter(w) \/ ConsumedFamily(w) \/ HandlerVerdict(w)
Issue(w) == SetActive(w) \/ IndexAdd(w) \/ AddFamilyMember(w) \/ UndoIssue(w)
DeleteFamily(w) == FamilyExists(w) \/ MarkFamilyRevoked(w) \/ FamilyTokens(w)
                     \/ CleanKey(w) \/ CleanMarker(w) \/ CleanMember(w)
InspectStep(w) == Inspect(w) \/ InspectCheck(w) \/ InspectCollect(w)
Bulk(w) == BulkRead(w) \/ BulkKey(w) \/ BulkMarker(w) \/ BulkIndex(w)
Fault(w) == Abort(w) \/ Skip(w) \/ GetDelRetried(w) \/ AddFamilyMemberFails(w)

Next ==
    \/ \E w \in Workers : \/ Call(w) \/ Consume(w) \/ Issue(w) \/ DeleteFamily(w)
                          \/ InspectStep(w) \/ Bulk(w) \/ Fault(w)
                          \/ Expire(w) \/ Evict(w)
    \/ Quiescent

Spec == Init /\ [][Next]_vars

(***************************************************************************)
(* Properties.                                                             *)
(***************************************************************************)
\* A DeleteFamily that ran to its end leaves no token of the family that a
\* client holds, whatever rotations raced with it: the tombstone comes before
\* the snapshot, and a rotation that has not joined the set by then cannot.
DeletedIsDead ==
    \A w \in Workers : result[w] = "revoked" =>
        \A t \in Handed \cap active : fam[t] # fam[w]

\* From the tombstone on, and however little of the cleanup got done before a
\* crash or an error, no refresh that begins afterwards succeeds.
LateNeverServed ==
    \A w \in Workers : late[w] =>
        pc[w] # "grant" /\ pc[w] \notin IssuePC /\ result[w] # "ok"

\* A bulk revocation has begun: it is about no one family.
Bulked == \E w \in Workers : pc[w] # "idle" /\ fam[w] = Nobody

\* However a Consume is cut short, a token it removed leaves reuse evidence for
\* as long as the token would have lived, unless its family or its whole index
\* is revoked.
ReuseEvidence ==
    \A t \in Workers :
        (spentBy[t] \in Workers /\ t \notin expired /\ fam[t] \notin tomb) =>
            t \in famof \/ Bulked

(***************************************************************************)
(* Each family is the chain of RefreshFamily.  Its leaf is the token whose *)
(* key is live and which has joined the family's set; a tombstone spends   *)
(* the family at once, a rotation in flight included.                      *)
(***************************************************************************)
None == Nobody

Leaves(f) == {t \in active \cap members : fam[t] = f /\ t \notin expired}
Rotating(f) ==
    {w \in Workers :
        /\ tok[w] # w /\ fam[w] = f
        /\ pc[w] \in {"check2", "grant", "set", "subject", "client", "member"}}

FamilyState(f) ==
    IF f \in tomb THEN "spent"
    ELSE IF Leaves(f) # {} THEN "live"
    ELSE IF Rotating(f) # {} THEN "rotating"
    ELSE IF \E t \in members : fam[t] = f THEN "spent"
    ELSE "unborn"

FamilyLeaf(f) ==
    IF f \in tomb THEN None
    ELSE IF Leaves(f) # {} THEN CHOOSE t \in Leaves(f) : TRUE
    ELSE IF Rotating(f) # {} THEN tok[CHOOSE w \in Rotating(f) : TRUE]
    ELSE None

SuccessorOf(t) ==
    IF \E w \in leafed : w # t /\ tok[w] = t
    THEN CHOOSE w \in leafed : w # t /\ tok[w] = t
    ELSE None

Chain == INSTANCE RefreshFamily WITH
            Tokens <- Workers,
            state <- [f \in Families |-> FamilyState(f)],
            leaf  <- [f \in Families |-> FamilyLeaf(f)],
            next  <- [t \in Workers |-> SuccessorOf(t)]

\* Command by command, with crashes and errors, the Redis store keeps every
\* family a chain: a leaf is taken once, replaced at most once, and a family
\* without a leaf or a rotation stays spent.
ImplementsChain == Chain!Spec
=============================================================================
