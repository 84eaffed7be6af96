------------------------------- MODULE Outbox -------------------------------
(***************************************************************************)
(* A transactional outbox and the relays that drain it:                    *)
(* infrastructure/auditoutbox (the memory store; the usage ledger's store  *)
(* has the same operations) and infrastructure/auditgovernance (the relay  *)
(* and its supervision by the module lifecycle).                           *)
(*                                                                         *)
(* A relay claims a batch under a lease and then, fact by fact, publishes  *)
(* and records the outcome; the store accepts the record only from the     *)
(* owner of a live claim.  Nothing renews a lease, and nothing stops a     *)
(* relay whose lease has run out, so two relays may hold the same fact.    *)
(*                                                                         *)
(* Times are kept as what remains of them (0 when due), so there is no     *)
(* clock to bound.  The clock runs freely while every relay waits for its  *)
(* next poll; a tick while one works is a mishap, and so are a stop, a     *)
(* rejected credential and an operator's replay: MaxMishaps bounds them.   *)
(***************************************************************************)
EXTENDS Integers, FiniteSets

CONSTANTS
    Relays,        \* one owner name each
    None,          \* no owner
    MaxFacts,      \* facts are named by their place in the order of CreatedAt
    BatchSize, Lease, Backoff, MaxAttempts,
    MaxMishaps

ASSUME OutboxAssumption ==
    /\ None \notin Relays
    /\ MaxFacts \in Nat /\ BatchSize \in Nat \ {0} /\ Lease \in Nat \ {0}
    /\ Backoff \in Nat /\ MaxAttempts \in Nat \ {0} /\ MaxMishaps \in Nat

VARIABLES
    st,            \* status of each fact
    owner,         \* LeaseOwner
    until,         \* what remains of LeaseUntil
    next,          \* what remains of NextAttemptAt
    tries,         \* Attempts, saturating at MaxAttempts
    relay,         \* each relay: pc, the facts it has still to deliver, an outcome
    acked,         \* facts some relay holds a receipt for (history)
    failed,        \* facts some publish of which failed (history)
    lapsed,        \* facts of a relay's batch whose lease has run out (history)
    mishaps

store == <<st, owner, until, next, tries>>
vars  == <<st, owner, until, next, tries, relay, acked, failed, lapsed, mishaps>>

Facts    == 1..MaxFacts
Terminal == {"delivered", "dead", "quarantined"}
Outcomes == {"delivered", "retry", "auth", "dead", "quarantined"}
Idle     == [pc |-> "idle", batch |-> {}, out |-> "retry"]
WorksOn(B) == [pc |-> "publish", batch |-> B, out |-> "retry"]

TypeOK ==
    /\ st \in [Facts -> {"none", "pending", "leased"} \cup Terminal]
    /\ owner \in [Facts -> Relays \cup {None}]
    /\ until \in [Facts -> 0..Lease]
    /\ next \in [Facts -> 0..Backoff]
    /\ tries \in [Facts -> 0..MaxAttempts]
    /\ relay \in [Relays -> [pc : {"idle", "publish", "settle"}, batch : SUBSET Facts,
                             out : Outcomes]]
    /\ acked \subseteq Facts /\ failed \subseteq Facts
    /\ lapsed \in [Relays -> SUBSET Facts]
    /\ mishaps \in 0..MaxMishaps
    /\ \A e \in Facts : st[e] = "leased" <=> owner[e] # None

Init ==
    /\ st = [e \in Facts |-> "none"]
    /\ owner = [e \in Facts |-> None]
    /\ until = [e \in Facts |-> 0]
    /\ next = [e \in Facts |-> 0]
    /\ tries = [e \in Facts |-> 0]
    /\ relay = [w \in Relays |-> Idle]
    /\ acked = {} /\ failed = {}
    /\ lapsed = [w \in Relays |-> {}]
    /\ mishaps = 0

-----------------------------------------------------------------------------
\* A handler commits an audit event and its fact.  A repeated append of the
\* same fact changes nothing.
Append(e) ==
    /\ st[e] = "none"
    /\ st' = [st EXCEPT ![e] = "pending"]
    /\ UNCHANGED <<owner, until, next, tries, relay, acked, failed, lapsed, mishaps>>

eligibleNeverExpired ==
    {e \in Facts : st[e] = "pending" /\ next[e] = 0}

eligibleLocked ==
    {e \in Facts : \/ st[e] = "pending" /\ next[e] = 0
                   \/ st[e] = "leased" /\ until[e] = 0}

\* The oldest eligible facts, at most BatchSize of them.
Claimable(B) ==
    /\ B \subseteq eligibleLocked
    /\ \A e \in B : \A f \in eligibleLocked : f < e => f \in B
    /\ Cardinality(B) <= BatchSize
    /\ Cardinality(B) < BatchSize => B = eligibleLocked

ClaimOutbox(w) ==
    /\ relay[w].pc = "idle"
    /\ \E B \in SUBSET Facts :
         /\ Claimable(B) /\ B # {}
         /\ st' = [e \in Facts |-> IF e \in B THEN "leased" ELSE st[e]]
         /\ owner' = [e \in Facts |-> IF e \in B THEN w ELSE owner[e]]
         /\ until' = [e \in Facts |-> IF e \in B THEN Lease ELSE until[e]]
         /\ tries' = [e \in Facts |-> IF e \in B /\ tries[e] < MaxAttempts
                                      THEN tries[e] + 1 ELSE tries[e]]
         /\ relay' = [relay EXCEPT ![w] = WorksOn(B)]
    /\ lapsed' = [lapsed EXCEPT ![w] = {}]
    /\ UNCHANGED <<next, acked, failed, mishaps>>

\* Nothing to claim: wait for the next poll.
waitForPoll(w) ==
    /\ relay[w].pc = "idle" /\ eligibleLocked = {}
    /\ UNCHANGED vars

\* The fact the loop of RunOnce is at.
At(w, e) == e \in relay[w].batch /\ \A f \in relay[w].batch : e <= f

AtLast(w, e) == e \in relay[w].batch /\ \A f \in relay[w].batch : f <= e

\* The HTTP exchange and its classification (classifyDeliveryError).  A
\* transport error or a bad receipt says nothing about whether the receiver
\* took the fact.
Publish(w) ==
    /\ relay[w].pc = "publish"
    /\ \E e \in Facts, out \in Outcomes :
         /\ At(w, e)
         /\ relay' = [relay EXCEPT ![w] = [pc |-> "settle", batch |-> @.batch, out |-> out]]
         /\ acked' = IF out = "delivered" THEN acked \cup {e} ELSE acked
         /\ failed' = IF out = "delivered" THEN failed ELSE failed \cup {e}
         /\ out = "auth" => mishaps < MaxMishaps
         /\ mishaps' = IF out = "auth" THEN mishaps + 1 ELSE mishaps
    /\ UNCHANGED <<st, owner, until, next, tries, lapsed>>

\* What updateLeased demands of the caller.
holdsAnyLease(w, e) == st[e] = "leased"
holdsLease(w, e)    == st[e] = "leased" /\ owner[e] = w

Status(e, out) ==
    IF out \in Terminal THEN out
    ELSE IF out = "retry" /\ tries[e] >= MaxAttempts THEN "dead" ELSE "pending"

updateKeepingLease(e, out) ==
    /\ st' = [st EXCEPT ![e] = Status(e, out)]
    /\ \E d \in 0..Backoff : next' = [next EXCEPT ![e] = IF st'[e] = "pending" THEN d ELSE @]
    /\ UNCHANGED <<owner, until>>

\* CompleteOutbox, FailOutbox, QuarantineOutbox under updateLeased.  The time
\* of the next attempt is counted from before the publish, so any part of the
\* backoff may be over.
update(e, out) ==
    /\ st' = [st EXCEPT ![e] = Status(e, out)]
    /\ \E d \in 0..Backoff : next' = [next EXCEPT ![e] = IF st'[e] = "pending" THEN d ELSE @]
    /\ owner' = [owner EXCEPT ![e] = None]
    /\ until' = [until EXCEPT ![e] = 0]

\* The relay goes on with its batch, or ends it and waits for its next poll.
GoOn(w, e) ==
    LET rest == relay[w].batch \ {e} IN
    relay' = [relay EXCEPT ![w] = IF rest = {} THEN Idle ELSE WorksOn(rest)]

GiveUp(w) == relay' = [relay EXCEPT ![w] = Idle]

\* deliver's second half.  A lost lease and a rejected credential end the
\* batch; its other claims wait for their lease to run out.
SettleLast(w) ==
    /\ relay[w].pc = "settle"
    /\ \E e \in Facts :
         /\ AtLast(w, e)
         /\ \/ /\ holdsLease(w, e) /\ update(e, relay[w].out)
               /\ IF relay[w].out = "auth" THEN GiveUp(w) ELSE GoOn(w, e)
            \/ ~holdsLease(w, e) /\ GiveUp(w) /\ UNCHANGED <<st, owner, until, next>>
    /\ UNCHANGED <<tries, acked, failed, lapsed, mishaps>>

Settle(w) ==
    /\ relay[w].pc = "settle"
    /\ \E e \in Facts :
         /\ At(w, e)
         /\ \/ /\ holdsLease(w, e) /\ update(e, relay[w].out)
               /\ IF relay[w].out = "auth" THEN GiveUp(w) ELSE GoOn(w, e)
            \/ ~holdsLease(w, e) /\ GiveUp(w) /\ UNCHANGED <<st, owner, until, next>>
    /\ UNCHANGED <<tries, acked, failed, lapsed, mishaps>>

\* The context of a working relay ends (a stop of its generation, a crash):
\* whatever it has published, it records nothing more.
Stop(w) ==
    /\ relay[w].pc # "idle" /\ mishaps < MaxMishaps
    /\ mishaps' = mishaps + 1
    /\ GiveUp(w)
    /\ UNCHANGED <<st, owner, until, next, tries, acked, failed, lapsed>>

\* An operator's replay.
replayDelivered(e) ==
    /\ st[e] \in Terminal /\ mishaps < MaxMishaps
    /\ mishaps' = mishaps + 1
    /\ st' = [st EXCEPT ![e] = "pending"]
    /\ tries' = [tries EXCEPT ![e] = 0]
    /\ next' = [next EXCEPT ![e] = 0]
    /\ UNCHANGED <<owner, until, relay, acked, failed, lapsed>>

ReplayOutbox(e) ==
    /\ st[e] \in {"dead", "quarantined"} /\ mishaps < MaxMishaps
    /\ mishaps' = mishaps + 1
    /\ st' = [st EXCEPT ![e] = "pending"]
    /\ tries' = [tries EXCEPT ![e] = 0]
    /\ next' = [next EXCEPT ![e] = 0]
    /\ UNCHANGED <<owner, until, relay, acked, failed, lapsed>>

Quiet   == \A w \in Relays : relay[w].pc = "idle"
Down(n) == IF n > 0 THEN n - 1 ELSE 0

Tick ==
    /\ \E e \in Facts : until[e] > 0 \/ next[e] > 0
    /\ Quiet \/ mishaps < MaxMishaps
    /\ mishaps' = IF Quiet THEN mishaps ELSE mishaps + 1
    /\ until' = [e \in Facts |-> Down(until[e])]
    /\ next' = [e \in Facts |-> Down(next[e])]
    /\ lapsed' = [w \in Relays |->
                    lapsed[w] \cup {e \in relay[w].batch : owner[e] = w /\ until[e] <= 1}]
    /\ UNCHANGED <<st, owner, tries, relay, acked, failed>>

RelayStep(w) == ClaimOutbox(w) \/ Publish(w) \/ Settle(w)

Next ==
    \/ \E w \in Relays : \/ ClaimOutbox(w) \/ waitForPoll(w) \/ Publish(w) \/ Settle(w)
                         \/ Stop(w)
    \/ \E e \in Facts : Append(e) \/ ReplayOutbox(e)
    \/ Tick

Spec == Init /\ [][Next]_vars

\* A relay's loop goes on and time passes.
FairSpec == Spec /\ WF_vars(Tick) /\ \A w \in Relays : WF_vars(RelayStep(w))

-----------------------------------------------------------------------------
\* Two relays deliver the same fact only after the lease of one of them ran
\* out: a late relay's record never ends the claim of the one that took over
\* (claims and updateLeased).
Exclusive ==
    \A v, w \in Relays :
      v # w => relay[v].batch \cap relay[w].batch \subseteq lapsed[v] \cup lapsed[w]

\* A fact marked delivered has a receipt, and one marked dead or quarantined
\* was published and failed, whichever relays raced over it and however often
\* it was claimed without being published (deliver).
OutcomeJustified ==
    \A e \in Facts : /\ st[e] = "delivered" => e \in acked
                     /\ st[e] \in {"dead", "quarantined"} => e \in failed

\* What is delivered stays delivered: neither a late failure of a relay whose
\* lease ran out nor an operator's replay makes it pending again.
DeliveredStays ==
    [][\A e \in Facts : st[e] = "delivered" => st'[e] = "delivered"]_vars

\* Every fact is settled: delivered, or put before an operator.  Claims that a
\* stopped or paused relay left behind are not stranded (expired leases are
\* eligible again).
EventuallySettled ==
    \A e \in Facts : st[e] # "none" ~> st[e] \in Terminal

=============================================================================
