----------------------------- MODULE CibaProofs -----------------------------
(***************************************************************************)
(* For any number of requests, polls and callbacks, in either store, with  *)
(* or without failing Redis commands: an approval mints once, decisions    *)
(* agree and are kept, and tokens go only where they may.                  *)
(***************************************************************************)
EXTENDS Ciba, TLAPS

USE CibaAssumption

\* A request has a record, or had one, from the moment the desk took it.
Issued == \A q \in Requests : desk[q] = "none" <=> status[q] = "none"

\* A claim takes its request out of the store, and was made by its client in time.
Spent == \A m \in claims : /\ status[m.req] = "gone"
                           /\ m.client = info[m.req].client
                           /\ m.at <= info[m.req].expires

OneClaim == \A m, n \in claims : m.req = n.req => m = n

NoClaimOn(q) == \A m \in claims : m.req # q

\* A request that was answered access_denied is denied or gone, and unclaimed.
RefusedKept == \A q \in refused : status[q] \in {"denied", "gone"} /\ NoClaimOn(q)

\* What a poll under way knows of its request.
PollKnows(p, q) ==
    /\ status[q] # "none" /\ info[q].client = poll[p].client
    /\ poll[p].seen = "denied" => status[q] \in {"denied", "gone"} /\ NoClaimOn(q)
    /\ poll[p].pc = "deny" => poll[p].seen = "denied"
PollBound ==
    \A p \in Polls : poll[p].pc # "idle" => \A q \in poll[p].req : PollKnows(p, q)

IInv == /\ TypeOK /\ Issued /\ Spent /\ OneClaim /\ RefusedKept /\ PollBound
        /\ DecisionKept /\ DecisionsAgree

\* What calls are made of.
ResRec  == [pc : {"idle", "check", "set"}, req : Named, want : Choice]
PushRec == [pc : {"off", "start", "mint", "notify"} \cup Ended, req : Named,
            tries : 0..MaxRetries]
PollRec == [pc : {"idle", "gate", "deny", "claim", "mint"}, req : Named,
            client : Clients \cup {NoClient}, seen : Status, last : {Never} \cup 0..MaxTime]

\* A step of one call leaves it a call.
LEMMA CallTypes ==
    /\ NoRes \in ResRec /\ NoPush \in PushRec /\ NoPoll \in PollRec
    /\ \A r \in ResRec : [r EXCEPT !.pc = "set"] \in ResRec
    /\ \A r \in PushRec : \A x \in {"mint", "notify"} \cup Ended :
          [r EXCEPT !.pc = x] \in PushRec
    /\ \A r \in PushRec : r.tries < MaxRetries => [r EXCEPT !.tries = @ + 1] \in PushRec
    /\ \A r \in PollRec : \A x \in {"deny", "claim", "mint"} :
          LET n == [r EXCEPT !.pc = x]
          IN n \in PollRec /\ n.pc = x /\ n.req = r.req /\ n.client = r.client /\ n.seen = r.seen
    /\ \A q \in Requests : [pc |-> "start", req |-> {q}, tries |-> 0] \in PushRec
  <1>1. {} \in Named /\ \A q \in Requests : {q} \in Named
    BY DEF Named
  <1>2. NoRes \in ResRec /\ NoPush \in PushRec /\ NoPoll \in PollRec
    BY <1>1 DEF NoRes, NoPush, NoPoll, ResRec, PushRec, PollRec, Choice, Status
  <1>3. \A r \in ResRec : [r EXCEPT !.pc = "set"] \in ResRec
    BY DEF ResRec
  <1>4. \A r \in PushRec : \A x \in {"mint", "notify"} \cup Ended :
          [r EXCEPT !.pc = x] \in PushRec
    BY DEF PushRec
  <1>5. \A r \in PushRec : r.tries < MaxRetries => [r EXCEPT !.tries = @ + 1] \in PushRec
    BY DEF PushRec
  <1>6. \A r \in PollRec : \A x \in {"deny", "claim", "mint"} :
          LET n == [r EXCEPT !.pc = x]
          IN n \in PollRec /\ n.pc = x /\ n.req = r.req /\ n.client = r.client /\ n.seen = r.seen
    BY DEF PollRec
  <1>7. \A q \in Requests : [pc |-> "start", req |-> {q}, tries |-> 0] \in PushRec
    BY <1>1 DEF PushRec
  <1> QED BY <1>2, <1>3, <1>4, <1>5, <1>6, <1>7

\* The calls of a typed state.
LEMMA CallsTyped ==
    TypeOK <=> /\ TypeOK /\ res \in [Resolvers -> ResRec] /\ push \in [Resolvers -> PushRec]
               /\ poll \in [Polls -> PollRec]
  BY DEF TypeOK, ResRec, PushRec, PollRec

\* Init establishes the invariant.
LEMMA InitIInv == Init => IInv
  BY DEF Init, IInv, TypeOK, Issued, Spent, OneClaim, RefusedKept, PollBound, DecisionKept,
         DecisionsAgree, Status, Never, NoPoll, NoRes, NoPush, Named, Choice, Claim

\* Records fade: each is kept, or was there and is gone.
Fades == \A q \in Requests : \/ status'[q] = status[q]
                             \/ status[q] # "none" /\ status'[q] = "gone"

\* A poll starts knowing its request, moves on with what it knows, or is over.
PollsGoOn ==
    \A p \in Polls :
      \/ poll'[p].pc = "idle"
      \/ poll'[p] = poll[p]
      \/ /\ poll[p].pc # "idle" /\ poll'[p].req = poll[p].req
         /\ poll'[p].client = poll[p].client /\ poll'[p].seen = poll[p].seen
         /\ poll'[p].pc = "deny" => poll[p].seen = "denied"
      \/ /\ poll'[p].pc = "gate"
         /\ \A q \in poll'[p].req : /\ status[q] \notin {"none", "gone"}
                                    /\ info[q].client = poll'[p].client
                                    /\ poll'[p].seen = status[q]

\* A step that only lets records fade preserves the invariant.
LEMMA FadeStep ==
    ASSUME IInv, TypeOK', Fades, PollsGoOn,
           info' = info, claims' = claims, resolved' = resolved, refused' = refused,
           \A q \in Requests : desk'[q] = "none" <=> desk[q] = "none"
    PROVE  IInv'
  <1>1. Issued'
    BY DEF IInv, Issued, Fades
  <1>2. \A m \in claims : m.req \in Requests
    BY DEF IInv, TypeOK, Claim
  <1>3. Spent' /\ OneClaim'
    BY <1>2 DEF IInv, Spent, OneClaim, Fades
  <1>4. RefusedKept'
    BY DEF IInv, TypeOK, RefusedKept, NoClaimOn, Fades
  <1>5. PollBound'
    <2> SUFFICES ASSUME NEW p \in Polls, poll'[p].pc # "idle", NEW q \in poll'[p].req
                 PROVE  PollKnows(p, q)'
      BY DEF PollBound
    <2>1. q \in Requests
      BY DEF TypeOK, Named
    <2>2. status[q] # "none" /\ info[q].client = poll'[p].client
      BY DEF PollsGoOn, IInv, PollBound, PollKnows
    <2>3. poll'[p].seen = "denied" => status[q] \in {"denied", "gone"} /\ NoClaimOn(q)
      <3>1. CASE poll[p].pc # "idle" /\ q \in poll[p].req /\ poll'[p].seen = poll[p].seen
        BY <3>1 DEF IInv, PollBound, PollKnows
      <3>2. CASE status[q] # "gone" /\ poll'[p].seen = status[q]
        BY <3>2 DEF IInv, Spent, NoClaimOn
      <3> QED BY <3>1, <3>2 DEF PollsGoOn
    <2>4. poll'[p].pc = "deny" => poll'[p].seen = "denied"
      BY DEF PollsGoOn, IInv, PollBound, PollKnows
    <2> QED BY <2>1, <2>2, <2>3, <2>4 DEF PollKnows, Fades, NoClaimOn
  <1>6. DecisionKept' /\ DecisionsAgree'
    BY DEF IInv, TypeOK, DecisionKept, DecisionsAgree, Fades
  <1> QED BY <1>1, <1>3, <1>4, <1>5, <1>6 DEF IInv

\* The store's clean-ups let records fade.
LEMMA StoreFades ==
    ASSUME IInv, NEW q \in Requests, Get(q) \/ Delete(q)
    PROVE  Fades /\ status' \in [Requests -> Status]
  BY DEF Get, Delete, Fades, Stored, IInv, TypeOK, Status

\* Time passes, and Redis drops keys.
LEMMA TickStep == ASSUME IInv, Tick PROVE IInv'
  <1>1. TypeOK' /\ Fades /\ PollsGoOn
    BY DEF Tick, IInv, TypeOK, Fades, PollsGoOn, store, calls, history
  <1> QED BY <1>1, FadeStep DEF Tick, store, calls, history

\* Redis drops a request that has expired.
LEMMA EvictStep == ASSUME IInv, NEW q \in Requests, Evict(q) PROVE IInv'
  <1>1. TypeOK' /\ Fades /\ PollsGoOn
    BY DEF Evict, Stored, IInv, TypeOK, Status, Fades, PollsGoOn, calls, history
  <1> QED BY <1>1, FadeStep DEF Evict, calls, history

\* A new request: nobody has seen its name.
LEMMA IssueStep ==
    ASSUME IInv, NEW q \in Requests, NEW c \in Clients, NEW notify \in BOOLEAN,
           Issue(q, c, notify)
    PROVE  IInv'
  <1>1. /\ desk' = [desk EXCEPT ![q] = "delivering"]
        /\ info' = [info EXCEPT ![q] = [client |-> c, notify |-> notify, expires |-> now + TTL]]
        /\ UNCHANGED <<backend, now, lastPoll, poll, res, push, dead, resolved, refused,
                       claims, minted>>
    BY DEF Issue, calls, history
  <1>2. /\ status' \in [Requests -> Status] /\ status'[q] = "pending"
        /\ \A r \in Requests : r # q => \/ status'[r] = status[r]
                                        \/ status[r] # "none" /\ status'[r] = "gone"
    BY DEF Issue, Stored, IInv, TypeOK, Status
  <1>3. status[q] = "none"
    BY DEF Issue, IInv, Issued
  <1>4. TypeOK'
    <2>1. now + TTL \in Nat
      BY DEF IInv, TypeOK
    <2>2. /\ info' \in [Requests -> [client : Clients \cup {NoClient}, notify : BOOLEAN,
                                     expires : Nat]]
          /\ info'[q].client = c /\ \A r \in Requests : r # q => info'[r] = info[r]
      BY <1>1, <2>1 DEF IInv, TypeOK
    <2>3. \A r \in Requests : status'[r] # "none" => info'[r].client \in Clients
      BY <1>2, <2>2 DEF IInv, TypeOK
    <2> QED BY <1>1, <1>2, <2>2, <2>3 DEF IInv, TypeOK
  <1>5. \A r \in Requests : r # q => info'[r] = info[r]
    BY <1>1 DEF IInv, TypeOK
  <1>6. Issued'
    BY <1>1, <1>2 DEF IInv, TypeOK, Issued
  <1>7. Spent' /\ OneClaim'
    <2>1. \A m \in claims : m.req \in Requests /\ m.req # q
      BY <1>3 DEF IInv, TypeOK, Claim, Spent
    <2> QED BY <2>1, <1>1, <1>2, <1>5 DEF IInv, Spent, OneClaim
  <1>8. RefusedKept'
    BY <1>1, <1>2, <1>3 DEF IInv, TypeOK, RefusedKept, NoClaimOn
  <1>9. PollBound'
    <2> SUFFICES ASSUME NEW p \in Polls, poll[p].pc # "idle", NEW r \in poll[p].req
                 PROVE  PollKnows(p, r)'
      BY <1>1 DEF PollBound
    <2>1. r \in Requests /\ PollKnows(p, r)
      BY DEF IInv, TypeOK, Named, PollBound
    <2>2. r # q
      BY <1>3, <2>1 DEF PollKnows
    <2> QED BY <2>1, <2>2, <1>1, <1>2, <1>5 DEF PollKnows, NoClaimOn
  <1>10. DecisionKept' /\ DecisionsAgree'
    <2>1. \A r \in resolved : /\ r[1] \in Requests /\ r[2] # "none"
                              /\ status[r[1]] \in {r[2], "gone"}
      BY DEF IInv, TypeOK, Choice, DecisionKept
    <2>2. \A r \in resolved : r[1] # q
      BY <1>3, <2>1
    <2> QED BY <1>1, <1>2, <2>1, <2>2 DEF IInv, DecisionKept, DecisionsAgree
  <1> QED BY <1>4, <1>6, <1>7, <1>8, <1>9, <1>10 DEF IInv

\* The challenge goes out, or the request is taken back.
LEMMA DeskStepKeeps ==
    ASSUME IInv, NEW q \in Requests, DeliverCIBAChallenge(q) \/ CleanUp(q)
    PROVE  IInv'
  <1>1. CASE DeliverCIBAChallenge(q)
    <2>1. TypeOK' /\ Fades /\ PollsGoOn
      BY <1>1 DEF DeliverCIBAChallenge, IInv, TypeOK, Fades, PollsGoOn, store, calls, history
    <2> QED BY <1>1, <2>1, FadeStep
            DEF DeliverCIBAChallenge, store, calls, history, IInv, TypeOK
  <1>2. CASE CleanUp(q)
    <2>1. Fades /\ status' \in [Requests -> Status]
      BY <1>2, StoreFades DEF CleanUp
    <2>2. TypeOK'
      BY <1>2, <2>1 DEF CleanUp, IInv, TypeOK, Fades, calls, history
    <2>3. PollsGoOn
      BY <1>2 DEF CleanUp, PollsGoOn, calls
    <2> QED BY <1>2, <2>1, <2>2, <2>3, FadeStep DEF CleanUp, calls, history, IInv, TypeOK
  <1> QED BY <1>1, <1>2

\* The lookups of a callback.
LEMMA ResolveGetStep ==
    ASSUME IInv, NEW d \in Resolvers, NEW q \in Requests, NEW want \in Choice,
           ResolveGet(d, q, want)
    PROVE  IInv'
  <1>1. Fades /\ status' \in [Requests -> Status]
    BY StoreFades DEF ResolveGet
  <1>2. res' \in [Resolvers -> ResRec]
    <2>1. res \in [Resolvers -> ResRec] /\ NoRes \in ResRec
      BY CallTypes, CallsTyped DEF IInv
    <2>2. \A x \in {"check", "set"} : [pc |-> x, req |-> {q}, want |-> want] \in ResRec
      BY DEF ResRec, Named
    <2> QED BY <2>1, <2>2 DEF ResolveGet
  <1>3. TypeOK'
    BY <1>1, <1>2 DEF ResRec, PushRec, PollRec, ResolveGet, IInv, TypeOK, Fades, history
  <1>4. PollsGoOn
    BY DEF ResolveGet, PollsGoOn
  <1> QED BY <1>1, <1>3, <1>4, FadeStep DEF ResolveGet, history

\* Reading a request before it is resolved changes no decision.
LEMMA ResolveCheckStep == ASSUME IInv, NEW d \in Resolvers, ResolveCheck(d) PROVE IInv'
  <1> PICK q \in res[d].req :
        \/ /\ Get(q)
           /\ res' = [res EXCEPT ![d] = IF Found(q) THEN [@ EXCEPT !.pc = "set"] ELSE NoRes]
        \/ res' = [res EXCEPT ![d] = NoRes] /\ UNCHANGED status
    BY DEF ResolveCheck
  <1>0. q \in Requests
    BY DEF IInv, TypeOK, Named
  <1>1. Fades /\ status' \in [Requests -> Status]
    <2>1. CASE Get(q)
      BY <1>0, <2>1, StoreFades
    <2>2. CASE UNCHANGED status
      BY <2>2 DEF Fades, IInv, TypeOK
    <2> QED BY <2>1, <2>2
  <1>2. res' \in [Resolvers -> ResRec]
    <2>1. res \in [Resolvers -> ResRec]
      BY CallsTyped DEF IInv
    <2>2. NoRes \in ResRec /\ [res[d] EXCEPT !.pc = "set"] \in ResRec
      BY <2>1, CallTypes
    <2> QED BY <2>1, <2>2
  <1>3. TypeOK'
    BY <1>1, <1>2 DEF ResRec, PushRec, PollRec, ResolveCheck, IInv, TypeOK, Fades, history
  <1>4. PollsGoOn
    BY DEF ResolveCheck, PollsGoOn
  <1> QED BY <1>1, <1>3, <1>4, FadeStep DEF ResolveCheck, history

\* The decision: only a pending request obeys, so what was decided stays.
LEMMA ResolveSetStep == ASSUME IInv, NEW d \in Resolvers, ResolveSet(d) PROVE IInv'
  <1> DEFINE want == res[d].want
  <1> PICK q \in res[d].req :
        LET obeys == status[q] \in {"pending", want}
            set == [status EXCEPT ![q] = IF obeys THEN want ELSE @]
        IN \/ /\ obeys
              /\ status' = set
              /\ resolved' = resolved \cup {<<q, want>>}
              /\ push' = [push EXCEPT ![d] =
                    IF info[q].notify /\ want = "approved" /\ PushWired
                    THEN [pc |-> "start", req |-> {q}, tries |-> 0] ELSE @]
           \/ /\ ~obeys \/ RedisFails
              /\ status' \in {status, set}
              /\ UNCHANGED <<resolved, push>>
    BY DEF ResolveSet, dispatchCIBANotification
  <1>1. /\ res' = [res EXCEPT ![d] = NoRes]
        /\ UNCHANGED <<backend, now, desk, info, lastPoll, poll, dead, refused, claims, minted>>
    BY DEF ResolveSet, dispatchCIBANotification
  <1>2. q \in Requests /\ want \in Choice
    BY DEF IInv, TypeOK, Named
  <1> HIDE DEF want
  <1>3. /\ status' \in [Requests -> Status]
        /\ \A r \in Requests : r # q => status'[r] = status[r]
        /\ status'[q] = status[q] \/ (status[q] \in {"pending", want} /\ status'[q] = want)
    BY <1>2 DEF IInv, TypeOK, Status, Choice
  <1>4. \/ resolved' = resolved
        \/ resolved' = resolved \cup {<<q, want>>} /\ status'[q] = want
           /\ status[q] \in {"pending", want}
    BY <1>2 DEF IInv, TypeOK
  <1>5. push' \in [Resolvers -> PushRec]
    <2>1. /\ push \in [Resolvers -> PushRec]
          /\ [pc |-> "start", req |-> {q}, tries |-> 0] \in PushRec
      BY <1>2, CallTypes, CallsTyped DEF IInv
    <2> QED BY <1>2, <2>1
  <1>6. TypeOK'
    <2>1. res' \in [Resolvers -> ResRec]
      BY <1>1, CallTypes, CallsTyped DEF IInv
    <2>2. resolved' \subseteq Requests \X Choice
      BY <1>2, <1>4 DEF IInv, TypeOK
    <2>3. \A r \in Requests : status'[r] # "none" => info[r].client \in Clients
      BY <1>2, <1>3 DEF IInv, TypeOK
    <2> QED BY <1>1, <1>3, <1>5, <2>1, <2>2, <2>3 DEF ResRec, PushRec, IInv, TypeOK
  <1>7. Issued'
    BY <1>1, <1>2, <1>3 DEF IInv, Issued, Choice
  <1>8. Spent' /\ OneClaim'
    <2>1. \A m \in claims : m.req \in Requests
      BY DEF IInv, TypeOK, Claim
    <2> QED BY <2>1, <1>1, <1>2, <1>3 DEF IInv, Spent, OneClaim, Choice
  <1>9. RefusedKept'
    BY <1>1, <1>2, <1>3 DEF IInv, TypeOK, RefusedKept, NoClaimOn, Choice
  <1>10. PollBound'
    <2> SUFFICES ASSUME NEW p \in Polls, poll[p].pc # "idle", NEW r \in poll[p].req
                 PROVE  PollKnows(p, r)'
      BY <1>1 DEF PollBound
    <2>1. r \in Requests /\ PollKnows(p, r)
      BY DEF IInv, TypeOK, Named, PollBound
    <2> QED BY <2>1, <1>1, <1>2, <1>3 DEF PollKnows, NoClaimOn, Choice
  <1>11. DecisionKept'
    <2> SUFFICES ASSUME NEW r \in resolved' PROVE status'[r[1]] \in {r[2], "gone"}
      BY DEF DecisionKept
    <2>1. CASE r \in resolved
      <3>1. r[1] \in Requests /\ r[2] \in Choice /\ status[r[1]] \in {r[2], "gone"}
        BY <2>1 DEF IInv, TypeOK, DecisionKept
      <3> QED BY <3>1, <1>2, <1>3 DEF Choice
    <2>2. CASE r = <<q, want>> /\ status'[q] = want
      BY <2>2
    <2> QED BY <2>1, <2>2, <1>4
  <1>12. DecisionsAgree'
    <2> SUFFICES ASSUME NEW r \in Requests, <<r, "approved">> \in resolved',
                        <<r, "denied">> \in resolved'
                 PROVE  FALSE
      BY DEF DecisionsAgree
    <2>1. \A ch \in Choice : <<r, ch>> \in resolved => status[r] \in {ch, "gone"}
      BY DEF IInv, DecisionKept
    <2>2. ~(<<r, "approved">> \in resolved /\ <<r, "denied">> \in resolved)
      BY DEF IInv, DecisionsAgree
    <2> QED BY <1>2, <1>4, <2>1, <2>2 DEF Choice
  <1> QED BY <1>6, <1>7, <1>8, <1>9, <1>10, <1>11, <1>12 DEF IInv

\* The claim: it needs an approved request and leaves it gone, so there is no other.
LEMMA ConsumeKeeps ==
    ASSUME IInv, TypeOK', NEW q \in Requests, NEW by, NEW client, NEW won \in BOOLEAN,
           ConsumeIfApproved(q, by, client, won), client = info[q].client, PollsGoOn,
           UNCHANGED <<now, desk, info, resolved, refused>>
    PROVE  IInv'
  <1>1. Fades
    BY DEF ConsumeIfApproved, Fades, Found, Stored, IInv, TypeOK
  <1>2. CASE claims' = claims
    BY <1>1, <1>2, FadeStep
  <1>3. CASE claims' # claims
    <2> DEFINE new == [req |-> q, by |-> by, client |-> client, at |-> now]
    <2>1. /\ Found(q) /\ status[q] = "approved"
          /\ status' = [status EXCEPT ![q] = "gone"]
          /\ claims' = claims \cup {new}
      BY <1>3 DEF ConsumeIfApproved
    <2>2. NoClaimOn(q)
      BY <2>1 DEF IInv, Spent, NoClaimOn
    <2>3. status'[q] = "gone" /\ \A r \in Requests : r # q => status'[r] = status[r]
      BY <2>1 DEF IInv, TypeOK
    <2>4. \A m \in claims : m.req \in Requests
      BY DEF IInv, TypeOK, Claim
    <2>5. Issued'
      BY <2>1, <2>3 DEF IInv, Issued
    <2>6. Spent'
      <3>1. new.at <= info[q].expires
        BY <2>1 DEF Found, Expired, IInv, TypeOK
      <3> QED BY <2>1, <2>2, <2>3, <2>4, <3>1 DEF IInv, Spent, NoClaimOn
    <2>7. OneClaim'
      BY <2>1, <2>2 DEF IInv, OneClaim, NoClaimOn
    <2>8. RefusedKept'
      BY <2>1, <2>3 DEF IInv, TypeOK, RefusedKept, NoClaimOn
    <2>9. PollBound'
      <3> SUFFICES ASSUME NEW p \in Polls, poll'[p].pc # "idle", NEW r \in poll'[p].req
                   PROVE  PollKnows(p, r)'
        BY DEF PollBound
      <3>1. r \in Requests
        BY DEF TypeOK, Named
      <3>2. status[r] # "none" /\ info[r].client = poll'[p].client
        BY DEF PollsGoOn, IInv, PollBound, PollKnows
      <3>3. poll'[p].seen = "denied" => status[r] \in {"denied", "gone"} /\ NoClaimOn(r)
        <4>1. CASE poll[p].pc # "idle" /\ r \in poll[p].req /\ poll'[p].seen = poll[p].seen
          BY <4>1 DEF IInv, PollBound, PollKnows
        <4>2. CASE status[r] # "gone" /\ poll'[p].seen = status[r]
          BY <4>2 DEF IInv, Spent, NoClaimOn
        <4> QED BY <4>1, <4>2 DEF PollsGoOn
      <3>4. poll'[p].pc = "deny" => poll'[p].seen = "denied"
        BY DEF PollsGoOn, IInv, PollBound, PollKnows
      <3> QED BY <3>1, <3>2, <3>3, <3>4, <2>1, <2>3 DEF PollKnows, NoClaimOn
    <2>10. DecisionKept' /\ DecisionsAgree'
      BY <1>1 DEF IInv, TypeOK, DecisionKept, DecisionsAgree, Fades
    <2> QED BY <2>5, <2>6, <2>7, <2>8, <2>9, <2>10 DEF IInv
  <1> QED BY <1>2, <1>3

\* The type of what a claim writes.
LEMMA ConsumeTyped ==
    ASSUME IInv, NEW q \in Requests, NEW by \in Polls \cup Resolvers, NEW client \in Clients,
           NEW won \in BOOLEAN, ConsumeIfApproved(q, by, client, won)
    PROVE  /\ status' \in [Requests -> Status] /\ claims' \subseteq Claim
           /\ claims \subseteq claims'
           /\ \A r \in Requests : status'[r] # "none" => status[r] # "none"
  BY DEF ConsumeIfApproved, Found, Stored, IInv, TypeOK, Status, Claim

\* A push claims its request for the request's own client.
LEMMA PushClaimStep == ASSUME IInv, NEW d \in Resolvers, PushClaim(d) PROVE IInv'
  <1> PICK q \in push[d].req, won \in BOOLEAN :
        /\ ConsumeIfApproved(q, d, info[q].client, won)
        /\ IF won THEN PushTo(d, "mint") ELSE push' = [push EXCEPT ![d] = NoPush]
    BY DEF PushClaim
  <1>1. q \in Requests
    BY DEF IInv, TypeOK, Named
  <1>2. UNCHANGED <<backend, now, desk, info, lastPoll, poll, res, dead, resolved, refused,
                    minted>>
    BY DEF PushClaim
  <1>3. push' \in [Resolvers -> PushRec]
    <2>1. push \in [Resolvers -> PushRec]
      BY CallsTyped DEF IInv
    <2>2. NoPush \in PushRec /\ [push[d] EXCEPT !.pc = "mint"] \in PushRec
      BY <2>1, CallTypes
    <2> QED BY <2>1, <2>2 DEF PushTo
  <1>4. /\ status' \in [Requests -> Status] /\ claims' \subseteq Claim
        /\ claims \subseteq claims'
        /\ \A r \in Requests : status'[r] # "none" => status[r] # "none"
    <2>1. CASE status[q] # "none"
      <3>1. info[q].client \in Clients
        BY <1>1, <2>1 DEF IInv, TypeOK
      <3> QED BY <1>1, <3>1, ConsumeTyped
    <2>2. CASE status[q] = "none"
      BY <1>1, <2>2 DEF ConsumeIfApproved, Found, Stored, IInv, TypeOK, Status
    <2> QED BY <2>1, <2>2
  <1>5. TypeOK'
    BY <1>2, <1>3, <1>4 DEF ResRec, PushRec, PollRec, IInv, TypeOK
  <1>6. PollsGoOn
    BY <1>2 DEF PollsGoOn
  <1> QED BY <1>1, <1>2, <1>5, <1>6, ConsumeKeeps

\* The push mints and is sent: the store is not touched.
LEMMA PushRestStep ==
    ASSUME IInv, NEW d \in Resolvers, PushMint(d) \/ NotifyPush(d)
    PROVE  IInv'
  <1>1. UNCHANGED <<backend, now, desk, info, status, lastPoll, poll, res, resolved, refused,
                    claims>>
    BY DEF PushMint, NotifyPush, store, history
  <1>2. push' \in [Resolvers -> PushRec]
    <2>1. CASE PushMint(d)
      <3>1. push \in [Resolvers -> PushRec]
        BY CallsTyped DEF IInv
      <3>2. NoPush \in PushRec /\ [push[d] EXCEPT !.pc = "notify"] \in PushRec
        BY <3>1, CallTypes
      <3> QED BY <2>1, <3>1, <3>2 DEF PushMint, PushTo
    <2>2. CASE NotifyPush(d)
      <3>1. push \in [Resolvers -> PushRec]
        BY CallsTyped DEF IInv
      <3>2. {"delivered", "lost", "deadlettered"} = Ended
        BY DEF Ended
      <3> QED BY <2>2, <3>1, <3>2, CallTypes DEF NotifyPush, PushTo
    <2> QED BY <2>1, <2>2
  <1>3. minted' \subseteq claims /\ dead' \subseteq Requests
    BY DEF PushMint, NotifyPush, history, IInv, TypeOK, Named
  <1>4. TypeOK'
    BY <1>1, <1>2, <1>3 DEF ResRec, PushRec, PollRec, IInv, TypeOK
  <1>5. Fades /\ PollsGoOn
    BY <1>1 DEF Fades, PollsGoOn
  <1> QED BY <1>1, <1>4, <1>5, FadeStep

\* A poll looks its request up.
LEMMA PollGetStep ==
    ASSUME IInv, NEW p \in Polls, NEW q \in Requests, NEW c \in Clients, PollGet(p, q, c)
    PROVE  IInv'
  <1>1. Fades /\ status' \in [Requests -> Status]
    BY StoreFades DEF PollGet
  <1>2. poll' \in [Polls -> PollRec]
    <2>1. [pc |-> "gate", req |-> {q}, client |-> c, seen |-> status[q],
           last |-> lastPoll[q]] \in PollRec
      BY DEF PollRec, Named, IInv, TypeOK
    <2> QED BY <2>1, CallTypes, CallsTyped DEF PollGet, IInv
  <1>3. TypeOK'
    BY <1>1, <1>2 DEF ResRec, PushRec, PollRec, PollGet, IInv, TypeOK, Fades, history
  <1>4. PollsGoOn
    <2> SUFFICES ASSUME NEW r \in Polls
                 PROVE  \/ poll'[r].pc = "idle"
                        \/ poll'[r] = poll[r]
                        \/ /\ poll'[r].pc = "gate"
                           /\ \A s \in poll'[r].req : /\ status[s] \notin {"none", "gone"}
                                                      /\ info[s].client = poll'[r].client
                                                      /\ poll'[r].seen = status[s]
      BY DEF PollsGoOn
    <2>1. CASE r # p
      BY <2>1 DEF PollGet, IInv, TypeOK
    <2>2. CASE r = p /\ Found(q) /\ info[q].client = c
      <3>1. poll'[p] = [pc |-> "gate", req |-> {q}, client |-> c, seen |-> status[q],
                        last |-> lastPoll[q]]
        BY <2>2 DEF PollGet, IInv, TypeOK
      <3> QED BY <2>2, <3>1 DEF Found, Stored
    <2>3. CASE r = p /\ ~(Found(q) /\ info[q].client = c)
      BY <2>3 DEF PollGet, IInv, TypeOK, NoPoll
    <2> QED BY <2>1, <2>2, <2>3
  <1> QED BY <1>1, <1>3, <1>4, FadeStep DEF PollGet, history

\* A poll passes the gate, or not.
LEMMA PollGateStep == ASSUME IInv, NEW p \in Polls, PollGate(p) PROVE IInv'
  <1>1. UNCHANGED <<backend, now, desk, info, res, push, dead, status, resolved, refused,
                    claims, minted>>
    BY DEF PollGate, UpdateLastPoll, history
  <1>2. lastPoll' \in [Requests -> {Never} \cup 0..MaxTime]
    BY DEF PollGate, UpdateLastPoll, IInv, TypeOK, Named
  <1>3. /\ poll' \in [Polls -> PollRec]
        /\ \A r \in Polls : r # p => poll'[r] = poll[r]
        /\ \/ poll'[p].pc = "idle"
           \/ /\ poll[p].pc # "idle" /\ poll'[p].req = poll[p].req
              /\ poll'[p].client = poll[p].client /\ poll'[p].seen = poll[p].seen
              /\ poll'[p].pc = "deny" => poll[p].seen = "denied"
    <2>1. poll \in [Polls -> PollRec] /\ NoPoll \in PollRec /\ NoPoll.pc = "idle"
      BY CallTypes, CallsTyped DEF IInv, NoPoll
    <2>2. CASE SlowDown(p) \/ poll[p].seen = "pending"
      BY <2>1, <2>2 DEF PollGate
    <2>3. CASE ~(SlowDown(p) \/ poll[p].seen = "pending")
      <3>1. PICK x \in {"deny", "claim"} :
              /\ poll' = [poll EXCEPT ![p] = [poll[p] EXCEPT !.pc = x]]
              /\ x = "deny" => poll[p].seen = "denied"
        BY <2>3 DEF PollGate
      <3> DEFINE n == [poll[p] EXCEPT !.pc = x]
      <3>2. /\ n \in PollRec /\ n.pc = x /\ n.req = poll[p].req
            /\ n.client = poll[p].client /\ n.seen = poll[p].seen
        <4>1. poll[p] \in PollRec
          BY <2>1
        <4> QED BY <4>1 DEF PollRec
      <3> HIDE DEF n
      <3>3. poll' = [poll EXCEPT ![p] = n] /\ poll[p].pc = "gate"
        BY <3>1 DEF n, PollGate
      <3> QED BY <2>1, <3>1, <3>2, <3>3
    <2> QED BY <2>2, <2>3
  <1>4. TypeOK'
    BY <1>1, <1>2, <1>3 DEF ResRec, PushRec, PollRec, IInv, TypeOK
  <1>5. Fades /\ PollsGoOn
    BY <1>1, <1>3 DEF Fades, PollsGoOn
  <1> QED BY <1>1, <1>4, <1>5, FadeStep

\* A poll over: its record is reset.
LEMMA PollEnds ==
    ASSUME IInv, NEW p \in Polls, poll' = [poll EXCEPT ![p] = NoPoll]
    PROVE  /\ poll' \in [Polls -> PollRec]
           /\ PollsGoOn
           /\ poll'[p].pc = "idle" /\ \A r \in Polls : r # p => poll'[r] = poll[r]
  <1>1. poll \in [Polls -> PollRec] /\ NoPoll \in PollRec /\ NoPoll.pc = "idle"
    BY CallTypes, CallsTyped DEF IInv, NoPoll
  <1> QED BY <1>1 DEF PollsGoOn

\* access_denied: the request was denied when it was read, so nobody claims it.
LEMMA PollDenyStep == ASSUME IInv, NEW p \in Polls, PollDeny(p) PROVE IInv'
  <1> PICK q \in poll[p].req : Delete(q) /\ refused' = refused \cup {q}
    BY DEF PollDeny
  <1>1. /\ poll[p].pc = "deny" /\ poll' = [poll EXCEPT ![p] = NoPoll]
        /\ UNCHANGED <<backend, now, desk, info, lastPoll, res, push, dead, resolved, claims,
                       minted>>
    BY DEF PollDeny
  <1>2. q \in Requests /\ PollKnows(p, q)
    BY <1>1 DEF IInv, TypeOK, Named, PollBound
  <1>3. status[q] \in {"denied", "gone"} /\ NoClaimOn(q)
    BY <1>1, <1>2 DEF PollKnows
  <1>4. Fades /\ status' \in [Requests -> Status]
    BY <1>2, StoreFades
  <1>5. TypeOK'
    BY <1>1, <1>2, <1>4, PollEnds DEF ResRec, PushRec, PollRec, IInv, TypeOK, Fades
  <1>6. Issued'
    BY <1>1, <1>4 DEF IInv, Issued, Fades
  <1>7. Spent' /\ OneClaim'
    <2>1. \A m \in claims : m.req \in Requests
      BY DEF IInv, TypeOK, Claim
    <2> QED BY <2>1, <1>1, <1>4 DEF IInv, Spent, OneClaim, Fades
  <1>8. RefusedKept'
    BY <1>1, <1>2, <1>3, <1>4 DEF IInv, TypeOK, RefusedKept, NoClaimOn, Fades
  <1>9. PollBound'
    <2> SUFFICES ASSUME NEW r \in Polls, poll'[r].pc # "idle", NEW s \in poll'[r].req
                 PROVE  PollKnows(r, s)'
      BY DEF PollBound
    <2>1. poll'[r] = poll[r]
      BY <1>1, PollEnds
    <2>2. s \in Requests /\ PollKnows(r, s)
      BY <2>1 DEF IInv, TypeOK, Named, PollBound
    <2> QED BY <2>1, <2>2, <1>1, <1>4 DEF PollKnows, NoClaimOn, Fades
  <1>10. DecisionKept' /\ DecisionsAgree'
    BY <1>1, <1>4 DEF IInv, TypeOK, DecisionKept, DecisionsAgree, Fades
  <1> QED BY <1>5, <1>6, <1>7, <1>8, <1>9, <1>10 DEF IInv

\* A poll claims its request for the client it was bound to.
LEMMA PollClaimStep == ASSUME IInv, NEW p \in Polls, PollClaim(p) PROVE IInv'
  <1> PICK q \in poll[p].req, won \in BOOLEAN :
        /\ ConsumeIfApproved(q, p, poll[p].client, won)
        /\ poll' = [poll EXCEPT ![p] = IF won THEN [@ EXCEPT !.pc = "mint"] ELSE NoPoll]
    BY DEF PollClaim
  <1>1. /\ poll[p].pc = "claim"
        /\ UNCHANGED <<backend, now, desk, info, lastPoll, res, push, dead, resolved, refused,
                       minted>>
    BY DEF PollClaim
  <1>2. q \in Requests /\ PollKnows(p, q)
    BY <1>1 DEF IInv, TypeOK, Named, PollBound
  <1>3. poll[p].client = info[q].client /\ poll[p].client \in Clients
    BY <1>2 DEF PollKnows, IInv, TypeOK
  <1>4. /\ status' \in [Requests -> Status] /\ claims' \subseteq Claim
        /\ claims \subseteq claims'
        /\ \A r \in Requests : status'[r] # "none" => status[r] # "none"
    BY <1>2, <1>3, ConsumeTyped
  <1>5. /\ poll' \in [Polls -> PollRec]
        /\ \A r \in Polls : r # p => poll'[r] = poll[r]
        /\ \/ poll'[p].pc = "idle"
           \/ /\ poll'[p].pc = "mint" /\ poll'[p].req = poll[p].req
              /\ poll'[p].client = poll[p].client /\ poll'[p].seen = poll[p].seen
    <2>1. poll \in [Polls -> PollRec] /\ NoPoll \in PollRec /\ NoPoll.pc = "idle"
      BY CallTypes, CallsTyped DEF IInv, NoPoll
    <2> QED BY <2>1, CallTypes
  <1>6. TypeOK'
    BY <1>1, <1>4, <1>5 DEF ResRec, PushRec, PollRec, IInv, TypeOK
  <1>7. PollsGoOn
    BY <1>1, <1>5 DEF PollsGoOn
  <1> QED BY <1>1, <1>2, <1>3, <1>6, <1>7, ConsumeKeeps

\* A poll mints for its claim.
LEMMA PollMintStep == ASSUME IInv, NEW p \in Polls, PollMint(p) PROVE IInv'
  <1>1. /\ poll' = [poll EXCEPT ![p] = NoPoll]
        /\ UNCHANGED <<backend, now, desk, info, status, lastPoll, res, push, dead, resolved,
                       refused, claims>>
        /\ minted' \subseteq claims
    BY DEF PollMint, store, IInv, TypeOK
  <1>2. TypeOK' /\ PollsGoOn
    BY <1>1, PollEnds DEF ResRec, PushRec, PollRec, IInv, TypeOK
  <1>3. Fades
    BY <1>1 DEF Fades
  <1> QED BY <1>1, <1>2, <1>3, FadeStep

\* Every step preserves the invariant.
LEMMA NextIInv == IInv /\ [Next]_vars => IInv'
  <1> SUFFICES ASSUME IInv, [Next]_vars PROVE IInv'
    OBVIOUS
  <1>1. CASE UNCHANGED vars
    <2>1. TypeOK' /\ Fades /\ PollsGoOn
      BY <1>1 DEF vars, store, calls, history, IInv, TypeOK, Fades, PollsGoOn
    <2> QED BY <1>1, <2>1, FadeStep DEF vars, store, calls, history
  <1>2. CASE Tick
    BY <1>2, TickStep
  <1>3. ASSUME NEW q \in Requests, DeskStep(q) PROVE IInv'
    BY <1>3, IssueStep, DeskStepKeeps, EvictStep DEF DeskStep
  <1>4. ASSUME NEW d \in Resolvers, ResolveStep(d) PROVE IInv'
    BY <1>4, ResolveGetStep, ResolveCheckStep, ResolveSetStep DEF ResolveStep
  <1>5. ASSUME NEW d \in Resolvers, PushStep(d) PROVE IInv'
    BY <1>5, PushClaimStep, PushRestStep DEF PushStep
  <1>6. ASSUME NEW p \in Polls, PollStep(p) PROVE IInv'
    BY <1>6, PollGetStep, PollGateStep, PollDenyStep, PollClaimStep, PollMintStep DEF PollStep
  <1> QED BY <1>1, <1>2, <1>3, <1>4, <1>5, <1>6 DEF Next

\* The inductive invariant holds of every behaviour.
LEMMA InvariantHolds == Spec => []IInv
  BY InitIInv, NextIInv, PTL DEF Spec

\* The grant's state is well typed.
THEOREM TypeCorrect == Spec => []TypeOK
  <1>1. IInv => TypeOK
    BY DEF IInv
  <1> QED BY <1>1, InvariantHolds, PTL

\* One approval mints at most one token set.
THEOREM MintsOnce == Spec => []SingleMint
  <1>1. IInv => SingleMint
    BY DEF IInv, TypeOK, OneClaim, SingleMint
  <1> QED BY <1>1, InvariantHolds, PTL

\* Callbacks that were told their decision was taken (SetStatus) took the same one.
THEOREM DecisionsNeverContradict == Spec => []DecisionsAgree
  <1>1. IInv => DecisionsAgree
    BY DEF IInv
  <1> QED BY <1>1, InvariantHolds, PTL

\* An acknowledged decision stays in the store until the request is gone (UpdateLastPoll).
THEOREM DecisionsHold == Spec => []DecisionKept
  <1>1. IInv => DecisionKept
    BY DEF IInv
  <1> QED BY <1>1, InvariantHolds, PTL

\* Tokens are minted for the right client, in time, and never after a refusal.
THEOREM MintsJustified == Spec => []MintJustified
  <1>1. IInv => MintJustified
    BY DEF IInv, TypeOK, Spent, RefusedKept, NoClaimOn, MintJustified
  <1> QED BY <1>1, InvariantHolds, PTL

=============================================================================
