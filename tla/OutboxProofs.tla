---------------------------- MODULE OutboxProofs ----------------------------
(***************************************************************************)
(* For any number of relays and facts and any settings: the store's type,  *)
(* exclusive claims, justified outcomes, and delivered facts staying so.   *)
(***************************************************************************)
EXTENDS Outbox, TLAPS

\* A fact of a batch whose lease has not run out is leased to that relay.
ClaimsHeld ==
    \A w \in Relays : \A e \in relay[w].batch \ lapsed[w] : owner[e] = w /\ until[e] > 0

\* A relay about to record an outcome has had it from the receiver.
OutcomeKnown ==
    \A w \in Relays : \A e \in Facts :
      relay[w].pc = "settle" /\ At(w, e)
        => IF relay[w].out = "delivered" THEN e \in acked ELSE e \in failed

IInv == TypeOK /\ ClaimsHeld /\ OutcomeKnown /\ OutcomeJustified

\* Init establishes the invariant.
LEMMA InitIInv == Init => IInv
  BY OutboxAssumption
  DEF Init, IInv, TypeOK, ClaimsHeld, OutcomeKnown, OutcomeJustified, At, Idle, Facts,
      Terminal, Outcomes

\* Who comes next in a batch: nothing, or one fact.
LEMMA AtUnique ==
    ASSUME TypeOK, NEW w \in Relays, NEW e \in Facts, NEW f \in Facts, At(w, e), At(w, f)
    PROVE  e = f
  BY OutboxAssumption DEF TypeOK, At, Facts

\* The recorded status is a status, and it is final only with a reason.
LEMMA StatusType ==
    ASSUME TypeOK, NEW e \in Facts, NEW out \in Outcomes
    PROVE  /\ Status(e, out) \in {"pending"} \cup Terminal
           /\ Status(e, out) = "delivered" => out = "delivered"
           /\ Status(e, out) \in {"dead", "quarantined"} => out # "delivered"
  BY DEF TypeOK, Status, Terminal, Outcomes

\* Appending a fact.
LEMMA AppendStep == ASSUME IInv, NEW e \in Facts, Append(e) PROVE IInv'
  BY OutboxAssumption DEF IInv, TypeOK, ClaimsHeld, OutcomeKnown, OutcomeJustified, At,
     Append, Terminal

\* A claim takes only facts that nobody holds, or holds in time.
LEMMA ClaimStep == ASSUME IInv, NEW w \in Relays, ClaimOutbox(w) PROVE IInv'
  <1> PICK B \in SUBSET Facts :
         /\ Claimable(B) /\ B # {}
         /\ st' = [e \in Facts |-> IF e \in B THEN "leased" ELSE st[e]]
         /\ owner' = [e \in Facts |-> IF e \in B THEN w ELSE owner[e]]
         /\ until' = [e \in Facts |-> IF e \in B THEN Lease ELSE until[e]]
         /\ tries' = [e \in Facts |-> IF e \in B /\ tries[e] < MaxAttempts
                                      THEN tries[e] + 1 ELSE tries[e]]
         /\ relay' = [relay EXCEPT ![w] = WorksOn(B)]
    BY DEF ClaimOutbox
  <1>1. lapsed' = [lapsed EXCEPT ![w] = {}] /\ UNCHANGED <<next, acked, failed, mishaps>>
    BY DEF ClaimOutbox
  <1>2. TypeOK'
    BY <1>1, OutboxAssumption DEF IInv, TypeOK, Idle, WorksOn, Outcomes, Terminal
  <1>3. \A e \in B : st[e] = "pending" \/ (st[e] = "leased" /\ until[e] = 0)
    BY DEF Claimable, eligibleLocked
  <1>4. ClaimsHeld'
    <2> SUFFICES ASSUME NEW v \in Relays, NEW e \in relay'[v].batch \ lapsed'[v]
                 PROVE  owner'[e] = v /\ until'[e] > 0
      BY DEF ClaimsHeld
    <2>1. CASE v = w
      <3>1. relay'[v].batch = B
        BY <2>1 DEF IInv, TypeOK, WorksOn
      <3> QED BY <2>1, <3>1, OutboxAssumption
    <2>2. CASE v # w
      <3>1. relay'[v] = relay[v] /\ lapsed'[v] = lapsed[v]
        BY <2>2, <1>1 DEF IInv, TypeOK
      <3>2. e \in Facts /\ owner[e] = v /\ until[e] > 0
        BY <3>1 DEF IInv, TypeOK, ClaimsHeld
      <3>3. e \notin B
        BY <3>2, <1>3, OutboxAssumption DEF IInv, TypeOK
      <3> QED BY <3>2, <3>3
    <2> QED BY <2>1, <2>2
  <1>5. OutcomeKnown'
    <2> SUFFICES ASSUME NEW v \in Relays, NEW e \in Facts, relay'[v].pc = "settle", At(v, e)'
                 PROVE  IF relay'[v].out = "delivered" THEN e \in acked' ELSE e \in failed'
      BY DEF OutcomeKnown
    <2>1. v # w
      BY DEF IInv, TypeOK, WorksOn
    <2>2. relay'[v] = relay[v]
      BY <2>1 DEF IInv, TypeOK
    <2> QED BY <2>2, <1>1 DEF IInv, OutcomeKnown, At
  <1>6. OutcomeJustified'
    BY <1>1 DEF IInv, TypeOK, OutcomeJustified
  <1> QED BY <1>2, <1>4, <1>5, <1>6 DEF IInv

\* A publish hands the relay an outcome for the fact it is at.
LEMMA PublishStep == ASSUME IInv, NEW w \in Relays, Publish(w) PROVE IInv'
  <1> PICK e \in Facts, out \in Outcomes :
         /\ At(w, e)
         /\ relay' = [relay EXCEPT ![w] = [pc |-> "settle", batch |-> @.batch, out |-> out]]
         /\ acked' = IF out = "delivered" THEN acked \cup {e} ELSE acked
         /\ failed' = IF out = "delivered" THEN failed ELSE failed \cup {e}
         /\ out = "auth" => mishaps < MaxMishaps
         /\ mishaps' = IF out = "auth" THEN mishaps + 1 ELSE mishaps
    BY DEF Publish
  <1>1. UNCHANGED <<st, owner, until, next, tries, lapsed>>
    BY DEF Publish
  <1>2. TypeOK'
    BY <1>1, OutboxAssumption DEF IInv, TypeOK
  <1>3. \A v \in Relays : relay'[v].batch = relay[v].batch
    BY DEF IInv, TypeOK
  <1>4. ClaimsHeld'
    BY <1>1, <1>3 DEF IInv, ClaimsHeld
  <1>5. OutcomeKnown'
    <2> SUFFICES ASSUME NEW v \in Relays, NEW f \in Facts, relay'[v].pc = "settle", At(v, f)'
                 PROVE  IF relay'[v].out = "delivered" THEN f \in acked' ELSE f \in failed'
      BY DEF OutcomeKnown
    <2>1. At(v, f)
      BY <1>3 DEF At
    <2>2. CASE v = w
      <3>1. f = e
        BY <2>1, <2>2, AtUnique DEF IInv
      <3>2. relay'[v].out = out
        BY <2>2 DEF IInv, TypeOK
      <3> QED BY <3>1, <3>2
    <2>3. CASE v # w
      <3>1. relay'[v] = relay[v]
        BY <2>3 DEF IInv, TypeOK
      <3> QED BY <3>1, <2>1 DEF IInv, OutcomeKnown
    <2> QED BY <2>2, <2>3
  <1>6. OutcomeJustified'
    BY <1>1 DEF IInv, OutcomeJustified
  <1> QED BY <1>2, <1>4, <1>5, <1>6 DEF IInv

\* Recording an outcome: only the holder changes the fact, and it leaves the
\* fact when it does.
LEMMA SettleStep == ASSUME IInv, NEW w \in Relays, Settle(w) PROVE IInv'
  <1> PICK e \in Facts :
         /\ At(w, e)
         /\ \/ /\ holdsLease(w, e) /\ update(e, relay[w].out)
               /\ IF relay[w].out = "auth" THEN GiveUp(w) ELSE GoOn(w, e)
            \/ ~holdsLease(w, e) /\ GiveUp(w) /\ UNCHANGED <<st, owner, until, next>>
    BY DEF Settle
  <1> DEFINE out == relay[w].out
  <1>1. relay[w].pc = "settle" /\ UNCHANGED <<tries, acked, failed, lapsed, mishaps>>
    BY DEF Settle
  <1>2. out \in Outcomes
    BY DEF IInv, TypeOK
  <1>3. \/ relay' = [relay EXCEPT ![w] = Idle]
        \/ /\ relay[w].batch \ {e} # {}
           /\ relay' = [relay EXCEPT ![w] = WorksOn(relay[w].batch \ {e})]
    BY DEF GiveUp, GoOn
  <1>4. /\ relay' \in [Relays -> [pc : {"idle", "publish", "settle"}, batch : SUBSET Facts,
                                  out : Outcomes]]
        /\ \A v \in Relays : v # w => relay'[v] = relay[v]
        /\ relay'[w].pc # "settle"
        /\ relay'[w].batch \subseteq relay[w].batch \ {e}
    <2>1. relay[w] \in [pc : {"idle", "publish", "settle"}, batch : SUBSET Facts,
                        out : Outcomes]
      BY DEF IInv, TypeOK
    <2> QED BY <1>3, <2>1 DEF IInv, TypeOK, Idle, WorksOn, Outcomes
  <1>5. \/ /\ st[e] = "leased" /\ owner[e] = w
           /\ st' = [st EXCEPT ![e] = Status(e, out)]
           /\ next' \in [Facts -> 0..Backoff]
           /\ owner' = [owner EXCEPT ![e] = None]
           /\ until' = [until EXCEPT ![e] = 0]
        \/ UNCHANGED <<st, owner, until, next>>
    BY DEF IInv, TypeOK, holdsLease, update
  <1>6. TypeOK'
    <2>1. Status(e, out) \in {"pending"} \cup Terminal /\ Status(e, out) # "leased"
      BY <1>2, StatusType DEF IInv, Terminal
    <2> HIDE DEF out
    <2>2. /\ st' \in [Facts -> {"none", "pending", "leased"} \cup Terminal]
          /\ owner' \in [Facts -> Relays \cup {None}]
          /\ until' \in [Facts -> 0..Lease]
          /\ next' \in [Facts -> 0..Backoff]
      BY <1>5, <2>1, OutboxAssumption DEF IInv, TypeOK
    <2>3. \A f \in Facts : st'[f] = "leased" <=> owner'[f] # None
      BY <1>5, <2>1, OutboxAssumption DEF IInv, TypeOK
    <2> QED BY <1>1, <1>4, <2>2, <2>3 DEF IInv, TypeOK
  <1>7. ClaimsHeld'
    <2> SUFFICES ASSUME NEW v \in Relays, NEW f \in relay'[v].batch \ lapsed'[v]
                 PROVE  owner'[f] = v /\ until'[f] > 0
      BY DEF ClaimsHeld
    <2>1. f \in relay[v].batch \ lapsed[v] /\ f \in Facts
      BY <1>1, <1>4 DEF IInv, TypeOK
    <2>2. owner[f] = v /\ until[f] > 0
      BY <2>1 DEF IInv, ClaimsHeld
    <2>3. v = w => f # e
      BY <1>4
    <2> QED BY <1>5, <2>1, <2>2, <2>3 DEF IInv, TypeOK
  <1>8. OutcomeKnown'
    BY <1>1, <1>4 DEF IInv, OutcomeKnown, At
  <1>9. OutcomeJustified'
    <2>1. IF out = "delivered" THEN e \in acked ELSE e \in failed
      BY <1>1 DEF IInv, OutcomeKnown
    <2> QED BY <1>1, <1>2, <1>5, <2>1, StatusType DEF IInv, TypeOK, OutcomeJustified
  <1> QED BY <1>6, <1>7, <1>8, <1>9 DEF IInv

\* A stopped relay forgets its batch and leaves the store alone.
LEMMA StopStep == ASSUME IInv, NEW w \in Relays, Stop(w) PROVE IInv'
  <1>1. relay' = [relay EXCEPT ![w] = Idle]
        /\ UNCHANGED <<st, owner, until, next, tries, acked, failed, lapsed>>
    BY DEF Stop, GiveUp
  <1>2. TypeOK'
    BY <1>1, OutboxAssumption DEF Stop, IInv, TypeOK, Idle, WorksOn, Outcomes
  <1>3. ClaimsHeld'
    BY <1>1 DEF IInv, TypeOK, ClaimsHeld, Idle
  <1>4. OutcomeKnown'
    BY <1>1 DEF IInv, TypeOK, OutcomeKnown, At, Idle
  <1>5. OutcomeJustified'
    BY <1>1 DEF IInv, OutcomeJustified
  <1> QED BY <1>2, <1>3, <1>4, <1>5 DEF IInv

\* An operator's replay: the fact is terminal, so nobody holds it.
LEMMA ReplayStep == ASSUME IInv, NEW e \in Facts, ReplayOutbox(e) PROVE IInv'
  BY OutboxAssumption DEF IInv, TypeOK, ClaimsHeld, OutcomeKnown, OutcomeJustified, At,
     ReplayOutbox, Terminal

\* Time: a lease that runs out is recorded as lapsed.
LEMMA TickStep == ASSUME IInv, Tick PROVE IInv'
  <1>1. TypeOK'
    BY OutboxAssumption DEF Tick, Down, IInv, TypeOK
  <1>2. ClaimsHeld'
    <2> SUFFICES ASSUME NEW w \in Relays, NEW e \in relay'[w].batch \ lapsed'[w]
                 PROVE  owner'[e] = w /\ until'[e] > 0
      BY DEF ClaimsHeld
    <2>1. e \in Facts /\ e \in relay[w].batch \ lapsed[w]
      BY DEF Tick, IInv, TypeOK
    <2>2. owner[e] = w /\ until[e] > 0 /\ until[e] \in 0..Lease
      BY <2>1 DEF IInv, TypeOK, ClaimsHeld
    <2>3. ~(until[e] <= 1)
      BY <2>1, <2>2 DEF Tick
    <2> QED BY <2>1, <2>2, <2>3, OutboxAssumption DEF Tick, Down
  <1>3. OutcomeKnown' /\ OutcomeJustified'
    BY DEF Tick, IInv, OutcomeKnown, OutcomeJustified, At
  <1> QED BY <1>1, <1>2, <1>3 DEF IInv

\* Every step preserves the invariant.
LEMMA NextIInv == IInv /\ [Next]_vars => IInv'
  <1> SUFFICES ASSUME IInv, [Next]_vars PROVE IInv'
    OBVIOUS
  <1>1. CASE UNCHANGED vars
    BY <1>1 DEF vars, IInv, TypeOK, ClaimsHeld, OutcomeKnown, OutcomeJustified, At
  <1>2. ASSUME NEW w \in Relays, ClaimOutbox(w) PROVE IInv'
    BY <1>2, ClaimStep
  <1>3. ASSUME NEW w \in Relays, Publish(w) PROVE IInv'
    BY <1>3, PublishStep
  <1>4. ASSUME NEW w \in Relays, Settle(w) PROVE IInv'
    BY <1>4, SettleStep
  <1>5. ASSUME NEW w \in Relays, Stop(w) PROVE IInv'
    BY <1>5, StopStep
  <1>6. ASSUME NEW e \in Facts, Append(e) PROVE IInv'
    BY <1>6, AppendStep
  <1>7. ASSUME NEW e \in Facts, ReplayOutbox(e) PROVE IInv'
    BY <1>7, ReplayStep
  <1>8. CASE Tick
    BY <1>8, TickStep
  <1> QED BY <1>1, <1>2, <1>3, <1>4, <1>5, <1>6, <1>7, <1>8 DEF Next, waitForPoll

\* The inductive invariant holds of every behaviour.
LEMMA InvariantHolds == Spec => []IInv
  BY InitIInv, NextIInv, PTL DEF Spec

\* The store and the relays are well typed, and a fact is leased exactly when
\* it has an owner.
THEOREM TypeCorrect == Spec => []TypeOK
  <1>1. IInv => TypeOK
    BY DEF IInv
  <1> QED BY <1>1, InvariantHolds, PTL

\* Two relays deliver the same fact only once the lease of one has run out.
THEOREM ExclusiveClaims == Spec => []Exclusive
  <1>1. IInv => Exclusive
    BY DEF IInv, ClaimsHeld, Exclusive
  <1> QED BY <1>1, InvariantHolds, PTL

\* A final status has a reason: a receipt, or a failed publish.
THEOREM JustifiedOutcomes == Spec => []OutcomeJustified
  <1>1. IInv => OutcomeJustified
    BY DEF IInv
  <1> QED BY <1>1, InvariantHolds, PTL

\* A delivered fact stays delivered.
THEOREM DeliveredIsFinal == Spec => DeliveredStays
  <1>1. ASSUME IInv, [Next]_vars, NEW e \in Facts, st[e] = "delivered"
        PROVE  st'[e] = "delivered"
    <2>1. CASE UNCHANGED vars
      BY <1>1, <2>1 DEF vars
    <2>2. ASSUME NEW w \in Relays, ClaimOutbox(w) PROVE st'[e] = "delivered"
      BY <1>1, <2>2 DEF ClaimOutbox, Claimable, eligibleLocked
    <2>3. ASSUME NEW w \in Relays, Settle(w) PROVE st'[e] = "delivered"
      BY <1>1, <2>3 DEF Settle, holdsLease, update, IInv, TypeOK
    <2>4. ASSUME NEW f \in Facts, Append(f) PROVE st'[e] = "delivered"
      BY <1>1, <2>4 DEF Append, IInv, TypeOK
    <2>5. ASSUME NEW f \in Facts, ReplayOutbox(f) PROVE st'[e] = "delivered"
      BY <1>1, <2>5 DEF ReplayOutbox, IInv, TypeOK
    <2>6. ASSUME NEW w \in Relays, Publish(w) \/ Stop(w) PROVE st'[e] = "delivered"
      BY <1>1, <2>6 DEF Publish, Stop
    <2>7. CASE Tick
      BY <1>1, <2>7 DEF Tick
    <2> QED BY <1>1, <2>1, <2>2, <2>3, <2>4, <2>5, <2>6, <2>7 DEF Next, waitForPoll
  <1>2. IInv /\ [Next]_vars
          => [\A e \in Facts : st[e] = "delivered" => st'[e] = "delivered"]_vars
    BY <1>1
  <1> QED BY <1>2, InvariantHolds, PTL DEF Spec, DeliveredStays

=============================================================================
