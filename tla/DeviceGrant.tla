---------------------------- MODULE DeviceGrant ----------------------------
(***************************************************************************)
(* The device authorization grant (RFC 8628): a device polls /token for a  *)
(* code its user approves or denies at /device/verify, over the in-memory  *)
(* or the Redis code store.                                                *)
(*                                                                         *)
(* A store call is one action where the backend makes it one: under the    *)
(* memory store's mutex, or as one Redis command or script.  Approve and   *)
(* Deny are a read and a conditional write in Redis.  The user_code        *)
(* pointer is not a variable: a pointer without its record answers "not    *)
(* found", as a missing pointer does.                                      *)
(***************************************************************************)
EXTENDS Integers, FiniteSets

CONSTANTS
    Codes,          \* device codes
    Polls,          \* calls of /token
    Deciders,       \* calls of POST /device/verify
    Clients, Users,
    Backends,       \* the code stores considered
    TTL, Interval,
    MaxEntries,     \* capacity of the memory store, off at 0
    Faults,         \* may Redis commands fail?
    MaxTime         \* bound on the clock

ASSUME DeviceAssumption ==
    /\ Polls \cap Deciders = {}
    /\ Clients # {} /\ Users # {}
    /\ Backends \subseteq {"memory", "redis"} /\ Backends # {}
    /\ TTL \in Nat \ {0} /\ Interval \in Nat /\ MaxEntries \in Nat /\ MaxTime \in Nat
    /\ Faults \in BOOLEAN

VARIABLES
    backend,        \* the store of this deployment
    now,
    issued,         \* codes ever issued (history)
    live,           \* codes that have a record
    rec,            \* the DeviceCode record
    lastPoll,
    suspended,      \* users whose lifecycle state bars authentication
    pc, code, who,  \* a call, its code, its client (poll) or user (decision)
    choice,         \* what a decision asks for
    view,           \* the record a call has read, and when
    ans,
    sealed,         \* codes denied with no approval half-written (history)
    start           \* what stood against a poll when it came (history)

store == <<issued, live, rec, lastPoll>>
calls == <<code, who, choice, view>>
vars  == <<backend, now, store, suspended, pc, calls, ans, sealed, start>>

Calls == Polls \cup Deciders
Never == -1
Nobody == "nobody"

Record == [client : Clients \cup {Nobody}, approved : BOOLEAN, denied : BOOLEAN,
           user : Users \cup {Nobody}, expires : Nat]
NoRecord == [client |-> Nobody, approved |-> FALSE, denied |-> FALSE,
             user |-> Nobody, expires |-> 0]
NoView  == [rec |-> NoRecord, slow |-> FALSE, at |-> 0]
NoStart == [barred |-> FALSE, shut |-> {}]

PollPC     == {"get", "update", "delete", "claim", "mint"}
DecisionPC == {"lookup", "decide", "read", "write"}

Goto(w, l) == pc' = [pc EXCEPT ![w] = l] /\ UNCHANGED ans
Answer(w, a) ==
    /\ pc' = [pc EXCEPT ![w] = "done"]
    /\ ans' = [ans EXCEPT ![w] = a]

Expired(c) == now > rec[c].expires
Found(c) == c \in live /\ ~Expired(c)

\* A Redis lookup deletes a record it finds expired.
AfterGet(c) == IF backend = "redis" /\ Expired(c) THEN live \ {c} ELSE live

(***************************************************************************)
(* POST /device/code.  At capacity the memory store refuses.               *)
(***************************************************************************)
RequestCode(c) ==
    /\ c \notin issued
    /\ backend = "memory" /\ MaxEntries > 0 => Cardinality(live) < MaxEntries
    /\ \E a \in Clients :
          rec' = [rec EXCEPT ![c] = [NoRecord EXCEPT !.client = a, !.expires = now + TTL]]
    /\ issued' = issued \cup {c}
    /\ live' = live \cup {c}
    /\ UNCHANGED <<backend, now, lastPoll, suspended, pc, calls, ans, sealed, start>>

(***************************************************************************)
(* The poll: HandleDeviceGrant.                                            *)
(***************************************************************************)
Poll(p) ==
    /\ pc[p] = "idle"
    /\ \E c \in issued, a \in Clients :
          /\ code' = [code EXCEPT ![p] = c]
          /\ who' = [who EXCEPT ![p] = a]
          /\ start' = [start EXCEPT ![p] =
                [barred |-> c \notin live \/ Expired(c) \/ a # rec[c].client \/ c \in sealed,
                 shut |-> suspended]]
    /\ Goto(p, "get")
    /\ UNCHANGED <<backend, now, store, suspended, choice, view, sealed>>

\* devicePollGate: the lookup, the client binding and the poll interval.
GetByDeviceCode(p) ==
    LET c == code[p] IN
    /\ pc[p] = "get"
    /\ live' = AfterGet(c)
    /\ IF Found(c) /\ rec[c].client = who[p]
       THEN /\ view' = [view EXCEPT ![p] =
                  [rec |-> rec[c], at |-> now,
                   slow |-> lastPoll[c] # Never /\ now - lastPoll[c] < Interval]]
            /\ Goto(p, "update")
       ELSE UNCHANGED view /\ Answer(p, "invalid_grant")
    /\ UNCHANGED <<backend, now, issued, rec, lastPoll, suspended, code, who,
                   choice, sealed, start>>

\* What the gate answers from the record it read.
GateVerdict(p) ==
    IF view[p].slow THEN Answer(p, "slow_down")
    ELSE IF view[p].rec.denied THEN Goto(p, "delete")
    ELSE IF ~view[p].rec.approved THEN Answer(p, "authorization_pending")
    ELSE Goto(p, "claim")

\* Mutant: the poll time is written back with the record that was read.
UpdateLastPollRewrites(p) ==
    /\ pc[p] = "update"
    /\ lastPoll' = [lastPoll EXCEPT ![code[p]] = IF code[p] \in live THEN view[p].at ELSE @]
    /\ rec' = [rec EXCEPT ![code[p]] = IF code[p] \in live THEN view[p].rec ELSE @]
    /\ GateVerdict(p)
    /\ UNCHANGED <<backend, now, issued, live, suspended, calls, sealed, start>>

\* Its error is ignored.
UpdateLastPoll(p) ==
    /\ pc[p] = "update"
    /\ \/ lastPoll' = [lastPoll EXCEPT ![code[p]] = IF code[p] \in live THEN view[p].at ELSE @]
       \/ Faults /\ backend = "redis" /\ UNCHANGED lastPoll
    /\ GateVerdict(p)
    /\ UNCHANGED <<backend, now, issued, live, rec, suspended, calls, sealed, start>>

\* A denied code is deleted, best effort.
Delete(p) ==
    /\ pc[p] = "delete"
    /\ \/ live' = live \ {code[p]}
       \/ Faults /\ backend = "redis" /\ UNCHANGED live
    /\ Answer(p, "access_denied")
    /\ UNCHANGED <<backend, now, issued, rec, lastPoll, suspended, calls, sealed, start>>

\* Mutant: the approved record is read, not removed.
ConsumeIfApprovedKeeps(p) ==
    LET c == code[p] IN
    /\ pc[p] = "claim"
    /\ IF Found(c) /\ rec[c].approved
       THEN view' = [view EXCEPT ![p].rec = rec[c]] /\ Goto(p, "mint")
       ELSE UNCHANGED view /\ Answer(p, "invalid_grant")
    /\ UNCHANGED <<backend, now, store, suspended, code, who, choice, sealed, start>>

\* The claim.  The memory store leaves an expired record alone; the Redis
\* script removes it, and the caller then finds it expired.
ConsumeIfApproved(p) ==
    LET c == code[p] IN
    /\ pc[p] = "claim"
    /\ live' = IF c \in live /\ rec[c].approved /\ (backend = "redis" \/ ~Expired(c))
               THEN live \ {c} ELSE live
    /\ IF Found(c) /\ rec[c].approved
       THEN view' = [view EXCEPT ![p].rec = rec[c]] /\ Goto(p, "mint")
       ELSE UNCHANGED view /\ Answer(p, "invalid_grant")
    /\ UNCHANGED <<backend, now, issued, rec, lastPoll, suspended, code, who,
                   choice, sealed, start>>

\* The script fails, or runs and its reply is lost: invalid_grant either way.
ConsumeIfApprovedFails(p) ==
    /\ Faults /\ backend = "redis"
    /\ pc[p] = "claim"
    /\ \/ UNCHANGED live
       \/ rec[code[p]].approved /\ live' = live \ {code[p]}
    /\ Answer(p, "invalid_grant")
    /\ UNCHANGED <<backend, now, issued, rec, lastPoll, suspended, calls, sealed, start>>

\* The lifecycle gate and the mint; issuing may fail once the code is spent.
MintAndRespond(p) ==
    /\ pc[p] = "mint"
    /\ IF view[p].rec.user \in suspended
       THEN Answer(p, "invalid_grant")
       ELSE Answer(p, "ok") \/ Answer(p, "server_error")
    /\ UNCHANGED <<backend, now, store, suspended, calls, sealed, start>>

(***************************************************************************)
(* The decision: handleDeviceVerify.                                       *)
(***************************************************************************)
Verify(d) ==
    /\ pc[d] = "idle"
    /\ \E c \in issued, u \in Users, b \in {"approve", "deny"} :
          /\ code' = [code EXCEPT ![d] = c]
          /\ who' = [who EXCEPT ![d] = u]
          /\ choice' = [choice EXCEPT ![d] = b]
    /\ Goto(d, "lookup")
    /\ UNCHANGED <<backend, now, store, suspended, view, sealed, start>>

GetByUserCode(d) ==
    /\ pc[d] = "lookup"
    /\ live' = AfterGet(code[d])
    /\ IF Found(code[d])
       THEN Goto(d, IF backend = "memory" THEN "decide" ELSE "read")
       ELSE Answer(d, "invalid_grant")
    /\ UNCHANGED <<backend, now, issued, rec, lastPoll, suspended, calls, sealed, start>>

\* The effect of Approve and of Deny on a record.
Decided(r, d) ==
    IF choice[d] = "approve" THEN [r EXCEPT !.approved = TRUE, !.user = who[d]]
    ELSE [r EXCEPT !.denied = TRUE]

\* History: a denial with no approval about to overwrite it.
Seal(d) ==
    sealed' = IF choice[d] = "deny" /\ ~ \E o \in Deciders :
                     pc[o] = "write" /\ code[o] = code[d] /\ choice[o] = "approve"
              THEN sealed \cup {code[d]} ELSE sealed

\* The memory store mutates the record under its lock.
Decide(d) ==
    /\ pc[d] = "decide"
    /\ IF Found(code[d])
       THEN /\ rec' = [rec EXCEPT ![code[d]] = Decided(@, d)]
            /\ Seal(d)
            /\ Answer(d, "ok")
       ELSE Answer(d, "invalid_grant") /\ UNCHANGED <<rec, sealed>>
    /\ UNCHANGED <<backend, now, issued, live, lastPoll, suspended, calls, start>>

\* Redis: mutateByUserCode reads the record ...
MutateRead(d) ==
    /\ pc[d] = "read"
    /\ live' = AfterGet(code[d])
    /\ IF Found(code[d])
       THEN view' = [view EXCEPT ![d].rec = rec[code[d]]] /\ Goto(d, "write")
       ELSE UNCHANGED view /\ Answer(d, "invalid_grant")
    /\ UNCHANGED <<backend, now, issued, rec, lastPoll, suspended, code, who,
                   choice, sealed, start>>

\* Mutant: a plain SET, which creates a key that is gone.
MutateWritePlain(d) ==
    /\ pc[d] = "write"
    /\ rec' = [rec EXCEPT ![code[d]] = Decided(view[d].rec, d)]
    /\ live' = live \cup {code[d]}
    /\ Seal(d)
    /\ Answer(d, "ok")
    /\ UNCHANGED <<backend, now, issued, lastPoll, suspended, calls, start>>

\* ... and writes it back whole, only if the key still exists (SET XX).
MutateWrite(d) ==
    /\ pc[d] = "write"
    /\ rec' = [rec EXCEPT ![code[d]] = IF code[d] \in live THEN Decided(view[d].rec, d) ELSE @]
    /\ Seal(d)
    /\ Answer(d, "ok")
    /\ UNCHANGED <<backend, now, issued, live, lastPoll, suspended, calls, start>>

\* The read or the write fails; a write may have happened all the same.
MutateFails(d) ==
    /\ Faults
    /\ \/ pc[d] \in {"read", "write"} /\ UNCHANGED <<rec, sealed>>
       \/ /\ pc[d] = "write" /\ code[d] \in live
          /\ rec' = [rec EXCEPT ![code[d]] = Decided(view[d].rec, d)]
          /\ Seal(d)
    /\ Answer(d, "invalid_grant")
    /\ UNCHANGED <<backend, now, issued, live, lastPoll, suspended, calls, start>>

\* A lookup fails: the call is refused.
LookupFails(w) ==
    /\ Faults /\ backend = "redis"
    /\ pc[w] \in {"get", "lookup"}
    /\ Answer(w, "invalid_grant")
    /\ UNCHANGED <<backend, now, store, suspended, calls, sealed, start>>

(***************************************************************************)
(* The reaper or Redis expiry, administration and time.                    *)
(***************************************************************************)
SweepExpired ==
    /\ \E c \in live : Expired(c)
    /\ \/ backend = "memory" /\ live' = {c \in live : ~Expired(c)}
       \/ backend = "redis" /\ \E c \in live : Expired(c) /\ live' = live \ {c}
    /\ UNCHANGED <<backend, now, issued, rec, lastPoll, suspended, pc, calls, ans, sealed, start>>

SuspendUser(u) ==
    /\ u \notin suspended
    /\ suspended' = suspended \cup {u}
    /\ UNCHANGED <<backend, now, store, pc, calls, ans, sealed, start>>

Tick ==
    /\ now < MaxTime
    /\ now' = now + 1
    /\ UNCHANGED <<backend, store, suspended, pc, calls, ans, sealed, start>>

\* Every call answered: nothing more need happen.
Quiescent ==
    /\ \A w \in Calls : pc[w] \in {"idle", "done"}
    /\ UNCHANGED vars

Init ==
    /\ backend \in Backends
    /\ now = 0
    /\ issued = {} /\ live = {} /\ suspended = {} /\ sealed = {}
    /\ rec = [c \in Codes |-> NoRecord]
    /\ lastPoll = [c \in Codes |-> Never]
    /\ pc = [w \in Calls |-> "idle"]
    /\ code = [w \in Calls |-> Nobody]
    /\ who = [w \in Calls |-> Nobody]
    /\ choice = [d \in Deciders |-> "none"]
    /\ view = [w \in Calls |-> NoView]
    /\ ans = [w \in Calls |-> "none"]
    /\ start = [p \in Polls |-> NoStart]

PollStep(p) ==
    \/ Poll(p) \/ GetByDeviceCode(p) \/ UpdateLastPoll(p) \/ Delete(p)
    \/ ConsumeIfApproved(p) \/ ConsumeIfApprovedFails(p) \/ MintAndRespond(p)

DecisionStep(d) ==
    \/ Verify(d) \/ GetByUserCode(d) \/ Decide(d)
    \/ MutateRead(d) \/ MutateWrite(d) \/ MutateFails(d)

Next ==
    \/ \E c \in Codes : RequestCode(c)
    \/ \E p \in Polls : PollStep(p)
    \/ \E d \in Deciders : DecisionStep(d)
    \/ \E w \in Calls : LookupFails(w)
    \/ SweepExpired
    \/ \E u \in Users : SuspendUser(u)
    \/ Tick
    \/ Quiescent

Spec == Init /\ [][Next]_vars

(***************************************************************************)
(* Properties.                                                             *)
(***************************************************************************)
\* A poll that claimed its code and was not refused afterwards.
Claimed(p) == pc[p] = "mint" \/ ans[p] = "ok"

\* However many polls race for an approved code, at most one of them mints,
\* and decisions that arrive late do not bring the code back.
SingleUse ==
    \A p, q \in Polls : Claimed(p) /\ Claimed(q) /\ code[p] = code[q] => p = q

\* A poll that comes when its code is spent, expired, another client's or
\* denied for good is never served, and none mints for a user who was already
\* suspended when it came.
BarredPollNeverServed ==
    \A p \in Polls : ans[p] = "ok" =>
        ~start[p].barred /\ view[p].rec.user \notin start[p].shut

\* An approval answered with 200 stands as long as the code does: no poll, and
\* nothing short of a denial, takes it back.
ApprovalKept ==
    \A d \in Deciders :
        (/\ choice[d] = "approve" /\ ans[d] = "ok" /\ code[d] \in live
         /\ ~ \E o \in Deciders : choice[o] = "deny" /\ code[o] = code[d])
        => rec[code[d]].approved

(***************************************************************************)
(* The inductive strengthening of SingleUse.                               *)
(***************************************************************************)
PCs == {"idle", "done"} \cup PollPC \cup DecisionPC
Answers == {"none", "ok", "invalid_grant", "slow_down", "access_denied",
            "authorization_pending", "server_error"}

CallsTyped ==
    /\ pc \in [Calls -> PCs]
    /\ ans \in [Calls -> Answers]
    /\ code \in [Calls -> Codes \cup {Nobody}]

\* Only an issued code has a record, or a poll.
OnlyIssued ==
    /\ live \subseteq issued /\ issued \subseteq Codes
    /\ \A p \in Polls : pc[p] = "idle" => ans[p] = "none"
    /\ \A p \in Polls : pc[p] # "idle" => code[p] \in issued

\* A claimed code is gone.
ClaimedIsGone == \A p \in Polls : Claimed(p) => pc[p] # "idle" /\ code[p] \notin live

SingleUseInv == CallsTyped /\ OnlyIssued /\ ClaimedIsGone /\ SingleUse
=============================================================================
