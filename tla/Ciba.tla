------------------------------- MODULE Ciba --------------------------------
(***************************************************************************)
(* The backchannel grant (OpenID CIBA): /backchannel-authentication stores *)
(* a request and sends the user a challenge, the operator's callback       *)
(* resolves it, and the tokens go out once, to a poll of /token or to a    *)
(* push that the resolution starts.                                        *)
(*                                                                         *)
(* A store call is one action: the memory store's mutex or one Redis       *)
(* command or script makes it one.  Redis' SetStatus is two, a Get and a   *)
(* script.  A failed Redis call may or may not have been applied.          *)
(***************************************************************************)
EXTENDS Integers, FiniteSets

CONSTANTS
    Requests,       \* auth_req_ids
    Polls,          \* calls of /token
    Resolvers,      \* calls of ResolveBackchannelAuthRequest, each with its push
    Clients, NoClient,
    Backends,       \* the request stores considered
    TTL, Interval,
    MaxRetries,     \* retries of a push
    PushWired,      \* is a CIBAPushNotifier configured?
    Faults,         \* may Redis commands fail?
    MaxTime         \* bound on the clock

ASSUME CibaAssumption ==
    /\ Polls \cap Resolvers = {}
    /\ NoClient \notin Clients
    /\ Backends \subseteq {"memory", "redis"}
    /\ TTL \in Nat /\ Interval \in Nat /\ MaxRetries \in Nat /\ MaxTime \in Nat
    /\ PushWired \in BOOLEAN /\ Faults \in BOOLEAN

VARIABLES
    backend,        \* the store of this deployment
    now,
    desk,           \* /backchannel-authentication, per request
    info,           \* what Issue wrote and nothing changes
    status,         \* the stored request's Status; "gone" once it is deleted
    lastPoll,
    poll,           \* calls of /token
    res,            \* calls of ResolveBackchannelAuthRequest
    push,           \* deliverCIBAPush, by the call that started it
    dead,           \* dead-lettered requests
    resolved,       \* decisions a callback was told were taken (history)
    refused,        \* requests answered access_denied (history)
    claims,         \* who claimed which request, and when (history)
    minted          \* the claims that minted a token set (history)

store   == <<info, status, lastPoll>>
calls   == <<poll, res, push>>
history == <<resolved, refused, claims, minted>>
vars    == <<backend, now, desk, store, calls, dead, history>>

Never  == -1
Status == {"none", "pending", "approved", "denied", "gone"}
Choice == {"approved", "denied"}
NoPoll == [pc |-> "idle", req |-> {}, client |-> NoClient, seen |-> "none", last |-> Never]
NoRes  == [pc |-> "idle", req |-> {}, want |-> "denied"]
NoPush == [pc |-> "off", req |-> {}, tries |-> 0]
Ended  == {"delivered", "deadlettered", "lost"}

\* A call names its request by a singleton, or by the empty set when it has none.
Named == {{}} \cup {{q} : q \in Requests}
Claim == [req : Requests, by : Polls \cup Resolvers, client : Clients, at : 0..MaxTime]

TypeOK ==
    /\ backend \in Backends
    /\ now \in 0..MaxTime
    /\ desk \in [Requests -> {"none", "delivering", "cleanup", "failed", "answered"}]
    /\ info \in [Requests -> [client : Clients \cup {NoClient}, notify : BOOLEAN,
                              expires : Nat]]
    /\ status \in [Requests -> Status]
    /\ \A q \in Requests : status[q] # "none" => info[q].client \in Clients
    /\ lastPoll \in [Requests -> {Never} \cup 0..MaxTime]
    /\ poll \in [Polls -> [pc : {"idle", "gate", "deny", "claim", "mint"}, req : Named,
                           client : Clients \cup {NoClient}, seen : Status,
                           last : {Never} \cup 0..MaxTime]]
    /\ res \in [Resolvers -> [pc : {"idle", "check", "set"}, req : Named, want : Choice]]
    /\ push \in [Resolvers -> [pc : {"off", "start", "mint", "notify"} \cup Ended,
                               req : Named, tries : 0..MaxRetries]]
    /\ dead \subseteq Requests
    /\ resolved \subseteq Requests \X Choice
    /\ refused \subseteq Requests
    /\ claims \subseteq Claim
    /\ minted \subseteq claims

Init ==
    /\ backend \in Backends
    /\ now = 0
    /\ desk = [q \in Requests |-> "none"]
    /\ info = [q \in Requests |-> [client |-> NoClient, notify |-> FALSE, expires |-> 0]]
    /\ status = [q \in Requests |-> "none"]
    /\ lastPoll = [q \in Requests |-> Never]
    /\ poll = [p \in Polls |-> NoPoll]
    /\ res = [d \in Resolvers |-> NoRes]
    /\ push = [d \in Resolvers |-> NoPush]
    /\ dead = {} /\ resolved = {} /\ refused = {} /\ claims = {} /\ minted = {}

(***************************************************************************)
(* The request store.                                                      *)
(***************************************************************************)
Stored(q)  == status[q] \notin {"none", "gone"}
Expired(q) == now > info[q].expires
Found(q)   == Stored(q) /\ ~Expired(q)
RedisFails == Faults /\ backend = "redis"

\* Get: a request past its time is dropped on the way.
Get(q) == status' = [status EXCEPT ![q] = IF Stored(q) /\ Expired(q) THEN "gone" ELSE @]

\* Delete, whose error every caller ignores.
Delete(q) ==
    \/ status' = [status EXCEPT ![q] = IF @ = "none" THEN @ ELSE "gone"]
    \/ RedisFails /\ UNCHANGED status

\* Mutant: the record a poll read is written back whole, its status included.
WriteBack(q, at) ==
    /\ lastPoll' = [lastPoll EXCEPT ![q] = IF Stored(q) THEN at ELSE @]
    /\ status' \in {[status EXCEPT ![q] = IF Stored(q) THEN p.seen ELSE @] :
                       p \in {poll[r] : r \in {r \in Polls : poll[r].pc = "gate"}}}

UpdateLastPoll(q, at) ==
    \/ /\ lastPoll' = [lastPoll EXCEPT ![q] = IF Stored(q) THEN at ELSE @]
       /\ UNCHANGED status
    \/ RedisFails /\ UNCHANGED <<lastPoll, status>>

\* Mutant: the claim reads the request and leaves it to a later Delete.
ConsumeWithoutDelete(q, by, client, won) ==
    /\ won = (Found(q) /\ status[q] = "approved")
    /\ claims' = IF won THEN claims \cup {[req |-> q, by |-> by, client |-> client,
                                          at |-> now]} ELSE claims
    /\ UNCHANGED status

\* ConsumeIfApproved.  Redis deletes first and looks at the time afterwards, and its
\* answer may be lost after the deletion.
ConsumeIfApproved(q, by, client, won) ==
    LET claimed == claims \cup {[req |-> q, by |-> by, client |-> client, at |-> now]}
    IN \/ /\ won /\ Found(q) /\ status[q] = "approved"
          /\ status' = [status EXCEPT ![q] = "gone"]
          /\ claims' = claimed
       \/ /\ ~won
          /\ \/ UNCHANGED status /\ (RedisFails \/ ~(Found(q) /\ status[q] = "approved"))
             \/ /\ backend = "redis" /\ status[q] = "approved" /\ (Faults \/ Expired(q))
                /\ status' = [status EXCEPT ![q] = "gone"]
          /\ UNCHANGED claims

Tick ==
    /\ now < MaxTime
    /\ now' = now + 1
    /\ UNCHANGED <<backend, desk, store, calls, dead, history>>

\* Redis drops a key at the end of its TTL.
Evict(q) ==
    /\ backend = "redis" /\ Stored(q) /\ now >= info[q].expires
    /\ status' = [status EXCEPT ![q] = "gone"]
    /\ UNCHANGED <<backend, now, desk, info, lastPoll, calls, dead, history>>

(***************************************************************************)
(* POST /backchannel-authentication: persist, then deliver the challenge,  *)
(* with retries; when they fail the request is deleted.                    *)
(***************************************************************************)
\* persistCIBARequest.  The memory store sweeps expired requests now and then.
Issue(q, c, notify) ==
    /\ desk[q] = "none"
    /\ desk' = [desk EXCEPT ![q] = "delivering"]
    /\ info' = [info EXCEPT ![q] = [client |-> c, notify |-> notify,
                                    expires |-> now + TTL]]
    /\ \E sweep \in {FALSE, backend = "memory"} :
          status' = [r \in Requests |->
                        IF r = q THEN "pending"
                        ELSE IF sweep /\ Stored(r) /\ Expired(r) THEN "gone"
                        ELSE status[r]]
    /\ UNCHANGED <<backend, now, lastPoll, calls, dead, history>>

DeliverCIBAChallenge(q) ==
    /\ desk[q] = "delivering"
    /\ \E end \in {"answered", "cleanup"} : desk' = [desk EXCEPT ![q] = end]
    /\ UNCHANGED <<backend, now, store, calls, dead, history>>

CleanUp(q) ==
    /\ desk[q] = "cleanup"
    /\ Delete(q)
    /\ desk' = [desk EXCEPT ![q] = "failed"]
    /\ UNCHANGED <<backend, now, info, lastPoll, calls, dead, history>>

(***************************************************************************)
(* ResolveBackchannelAuthRequest, from the moment the challenge is out.    *)
(***************************************************************************)
ResolveGet(d, q, want) ==
    /\ res[d].pc = "idle" /\ push[d].pc = "off"
    /\ desk[q] # "none"
    /\ Get(q)
    /\ res' = [res EXCEPT ![d] =
                  IF Found(q)
                  THEN [pc |-> IF backend = "redis" THEN "check" ELSE "set",
                        req |-> {q}, want |-> want]
                  ELSE NoRes]
    /\ UNCHANGED <<backend, now, desk, info, lastPoll, poll, push, dead, history>>

\* The Get inside Redis' SetStatus, whose error ends the callback.
ResolveCheck(d) ==
    /\ res[d].pc = "check"
    /\ \E q \in res[d].req :
          \/ /\ Get(q)
             /\ res' = [res EXCEPT ![d] = IF Found(q) THEN [@ EXCEPT !.pc = "set"] ELSE NoRes]
          \/ /\ RedisFails
             /\ res' = [res EXCEPT ![d] = NoRes]
             /\ UNCHANGED status
    /\ UNCHANGED <<backend, now, desk, info, lastPoll, poll, push, dead, history>>

\* Mutant: SetStatus without the pending-only guard.
ResolveOver(d) ==
    /\ res[d].pc = "set"
    /\ \E q \in res[d].req :
          /\ status' = [status EXCEPT ![q] = IF Stored(q) THEN res[d].want ELSE @]
          /\ resolved' = IF Stored(q) THEN resolved \cup {<<q, res[d].want>>} ELSE resolved
    /\ res' = [res EXCEPT ![d] = NoRes]
    /\ UNCHANGED <<backend, now, desk, info, lastPoll, poll, push, dead, refused, claims,
                   minted>>

\* A push, if one is wired, for an approval whose client left a notification token.
dispatchCIBANotification(d, q, want) ==
    push' = [push EXCEPT ![d] =
                IF info[q].notify /\ want = "approved" /\ PushWired
                THEN [pc |-> "start", req |-> {q}, tries |-> 0] ELSE @]

\* SetStatus, which only a pending request obeys, and the notification.
\* Asking again for the status it has is a success as well, and dispatches again.
ResolveSet(d) ==
    /\ res[d].pc = "set"
    /\ \E q \in res[d].req :
          LET want == res[d].want
              obeys == status[q] \in {"pending", want}
              set == [status EXCEPT ![q] = IF obeys THEN want ELSE @]
          IN \/ /\ obeys
                /\ status' = set
                /\ resolved' = resolved \cup {<<q, want>>}
                /\ dispatchCIBANotification(d, q, want)
             \/ /\ ~obeys \/ RedisFails
                /\ status' \in {status, set}
                /\ UNCHANGED <<resolved, push>>
    /\ res' = [res EXCEPT ![d] = NoRes]
    /\ UNCHANGED <<backend, now, desk, info, lastPoll, poll, dead, refused, claims, minted>>

(***************************************************************************)
(* deliverCIBAPush.                                                        *)
(***************************************************************************)
PushTo(d, pc) == push' = [push EXCEPT ![d].pc = pc]

PushClaim(d) ==
    /\ push[d].pc = "start"
    /\ \E q \in push[d].req, won \in BOOLEAN :
          /\ ConsumeIfApproved(q, d, info[q].client, won)
          /\ IF won THEN PushTo(d, "mint") ELSE push' = [push EXCEPT ![d] = NoPush]
    /\ UNCHANGED <<backend, now, desk, info, lastPoll, poll, res, dead, resolved, refused,
                   minted>>

\* The client lookup or the issuance may fail: nothing is minted and nothing is left.
PushMint(d) ==
    /\ push[d].pc = "mint"
    /\ \/ /\ minted' = minted \cup {m \in claims : m.by = d /\ m.req \in push[d].req}
          /\ PushTo(d, "notify")
       \/ push' = [push EXCEPT ![d] = NoPush] /\ UNCHANGED minted
    /\ UNCHANGED <<backend, now, desk, store, poll, res, dead, resolved, refused, claims>>

\* Mutant: the retry loop runs once too often.
NotifyOnceMore(d) ==
    /\ push[d].pc = "notify"
    /\ \/ PushTo(d, "delivered")
       \/ push[d].tries <= MaxRetries /\ push' = [push EXCEPT ![d].tries = @ + 1]
    /\ UNCHANGED <<backend, now, desk, store, poll, res, dead, history>>

\* NotifyPush: each attempt is answered or not; the last failure is dead-lettered.
\* No delivery URI, an unusable one, or the deadline during a backoff ends it without.
NotifyPush(d) ==
    /\ push[d].pc = "notify"
    /\ \/ PushTo(d, "delivered") /\ UNCHANGED dead
       \/ PushTo(d, "lost") /\ UNCHANGED dead
       \/ /\ push[d].tries < MaxRetries
          /\ push' = [push EXCEPT ![d].tries = @ + 1]
          /\ UNCHANGED dead
       \/ /\ push[d].tries = MaxRetries
          /\ dead' = dead \cup push[d].req
          /\ PushTo(d, "deadlettered")
    /\ UNCHANGED <<backend, now, desk, store, poll, res, history>>

(***************************************************************************)
(* The poll: HandleCIBAGrant.  The client knows its auth_req_id only once  *)
(* the endpoint has answered.                                              *)
(***************************************************************************)
\* Mutant: the lookup without the client binding.
PollGetUnbound(p, q, c) ==
    /\ poll[p].pc = "idle"
    /\ desk[q] = "answered"
    /\ Get(q)
    /\ poll' = [poll EXCEPT ![p] =
                   IF Found(q)
                   THEN [pc |-> "gate", req |-> {q}, client |-> c, seen |-> status[q],
                         last |-> lastPoll[q]]
                   ELSE NoPoll]
    /\ UNCHANGED <<backend, now, desk, info, lastPoll, res, push, dead, history>>

\* cibaPollGate: the lookup and the client binding.
PollGet(p, q, c) ==
    /\ poll[p].pc = "idle"
    /\ desk[q] = "answered"
    /\ Get(q)
    /\ poll' = [poll EXCEPT ![p] =
                   IF Found(q) /\ info[q].client = c
                   THEN [pc |-> "gate", req |-> {q}, client |-> c, seen |-> status[q],
                         last |-> lastPoll[q]]
                   ELSE NoPoll]
    /\ UNCHANGED <<backend, now, desk, info, lastPoll, res, push, dead, history>>

SlowDown(p) == poll[p].last # Never /\ now - poll[p].last < Interval

\* ... the interval, UpdateLastPoll, and the switch on the status that was read.
PollGate(p) ==
    /\ poll[p].pc = "gate"
    /\ \E q \in poll[p].req : UpdateLastPoll(q, now)
    /\ poll' = [poll EXCEPT ![p] =
                   IF SlowDown(p) \/ poll[p].seen = "pending" THEN NoPoll
                   ELSE [@ EXCEPT !.pc = IF poll[p].seen = "denied" THEN "deny"
                                         ELSE "claim"]]
    /\ UNCHANGED <<backend, now, desk, info, res, push, dead, history>>

PollDeny(p) ==
    /\ poll[p].pc = "deny"
    /\ \E q \in poll[p].req : Delete(q) /\ refused' = refused \cup {q}
    /\ poll' = [poll EXCEPT ![p] = NoPoll]
    /\ UNCHANGED <<backend, now, desk, info, lastPoll, res, push, dead, resolved, claims,
                   minted>>

PollClaim(p) ==
    /\ poll[p].pc = "claim"
    /\ \E q \in poll[p].req, won \in BOOLEAN :
          /\ ConsumeIfApproved(q, p, poll[p].client, won)
          /\ poll' = [poll EXCEPT ![p] = IF won THEN [@ EXCEPT !.pc = "mint"] ELSE NoPoll]
    /\ UNCHANGED <<backend, now, desk, info, lastPoll, res, push, dead, resolved, refused,
                   minted>>

\* buildCIBATokenResponse, which may refuse: the request is spent all the same.
PollMint(p) ==
    /\ poll[p].pc = "mint"
    /\ \/ minted' = minted \cup {m \in claims : m.by = p /\ m.req \in poll[p].req}
       \/ UNCHANGED minted
    /\ poll' = [poll EXCEPT ![p] = NoPoll]
    /\ UNCHANGED <<backend, now, desk, store, res, push, dead, resolved, refused, claims>>

DeskStep(q) ==
    \/ \E c \in Clients, notify \in BOOLEAN : Issue(q, c, notify)
    \/ DeliverCIBAChallenge(q) \/ CleanUp(q) \/ Evict(q)
ResolveStep(d) ==
    \/ \E q \in Requests, want \in Choice : ResolveGet(d, q, want)
    \/ ResolveCheck(d) \/ ResolveSet(d)
PushStep(d) == PushClaim(d) \/ PushMint(d) \/ NotifyPush(d)
PollStep(p) ==
    \/ \E q \in Requests, c \in Clients : PollGet(p, q, c)
    \/ PollGate(p) \/ PollDeny(p) \/ PollClaim(p) \/ PollMint(p)

Next ==
    \/ Tick
    \/ \E q \in Requests : DeskStep(q)
    \/ \E d \in Resolvers : ResolveStep(d) \/ PushStep(d)
    \/ \E p \in Polls : PollStep(p)

Spec == Init /\ [][Next]_vars

(***************************************************************************)
(* Properties.                                                             *)
(***************************************************************************)
\* Safety.  One approval mints at most one token set, however many polls and pushes
\* race for it, in both stores (ConsumeIfApproved is the claim that comes first).
SingleMint == \A m, n \in minted : m.req = n.req => m = n

\* Safety.  Two callbacks that were both told their decision was taken took the same
\* decision: a pending request is resolved once (SetStatus, setStatusScript).
DecisionsAgree == \A q \in Requests : ~({<<q, "approved">>, <<q, "denied">>} \subseteq resolved)

\* Safety.  A decision that was acknowledged stays in the store until the request is
\* consumed, deleted or expired; a poll that records its time cannot put the request
\* back to pending (updateLastPollScript).
DecisionKept == \A r \in resolved : status[r[1]] \in {r[2], "gone"}

\* Safety.  Tokens are minted only for the client that asked, only for a request that
\* was still within its time when it was claimed, and never for one whose client was
\* answered access_denied.
MintJustified ==
    \A m \in minted :
        /\ m.client = info[m.req].client
        /\ m.at <= info[m.req].expires
        /\ m.req \notin refused

\* Said of a failed push: "degrades to poll (the client can still poll /token via
\* grant_type=ciba)".  So as long as nobody has the tokens and the request has not
\* expired, it is there to be polled.
FailedPushLeavesPoll ==
    \A d \in Resolvers : push[d].pc \in {"deadlettered", "lost"} =>
        \A q \in push[d].req : Expired(q) \/ status[q] = "approved"
=============================================================================
