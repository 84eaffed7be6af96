---------------------------- MODULE UsageLedger ----------------------------
(***************************************************************************)
(* domains/metering/usageledger: usage facts and quota reservations of one *)
(* bucket (tenant, dimension, period) behind the machine API.              *)
(*                                                                         *)
(* The service reads the entitlement and the clock first and then makes    *)
(* one store call, which runs under the store's mutex and judges expiry by *)
(* the time the service read.  A call is therefore three steps: the read   *)
(* of the limit, the read of the clock, the store call.                    *)
(*                                                                         *)
(* A fact is named by its idempotency key and a reservation by its own, so *)
(* a retry is a second call with the same name.  Quantities are small; the *)
(* overflow guards (additionOverflows) are never met.                      *)
(***************************************************************************)
EXTENDS Integers, FiniteSets

CONSTANTS
    Calls,          \* service calls in flight
    Keys,           \* idempotency keys of usage facts
    Reservations,
    ReleaseKeys,    \* idempotency keys of releases
    Direct,         \* the origin of a fact that no reservation stands behind
    MaxQuantity,    \* quantities are 1..MaxQuantity
    Limits,         \* hard limits the tenant's entitlement may have
    TTL, PeriodEnd,
    MaxRevision,    \* bound on the revisions of the source binding
    MaxTime         \* bound on the clock

ASSUME LedgerAssumption ==
    /\ Direct \notin Reservations
    /\ IsFiniteSet(Keys) /\ IsFiniteSet(Reservations)
    /\ MaxQuantity \in Nat /\ Limits \subseteq Nat /\ Limits # {}
    /\ TTL \in Nat \ {0} /\ PeriodEnd \in Nat /\ MaxRevision \in Nat \ {0}
    /\ MaxTime \in Nat

VARIABLES
    now,
    limit,          \* the entitlement's hard limit
    topLimit,       \* the highest it has been (history)
    binding,        \* the source binding: enabled, revision
    facts,          \* facts: a quantity, 0 when there is none, and an origin
    resv,           \* reservations
    relKey,         \* the reservation a release key belongs to
    rollup,         \* the closed period's rollup, committed with its outbox event
    call,
    late            \* facts committed for a reservation that had expired (history)

vars == <<now, limit, topLimit, binding, facts, resv, relKey, rollup, call, late>>

Quantities == 1..MaxQuantity
NoFact   == [qty |-> 0, from |-> Direct]
NoResv   == [st |-> "none", qty |-> 0, expires |-> 0]
NoRollup == [qty |-> -1, count |-> 0]
NoCall   == [pc |-> "idle", op |-> "close", key |-> {}, res |-> {}, rel |-> {}, qty |-> 0,
             rev |-> 0, lim |-> 0, at |-> 0]
Ops      == {"append", "reserve", "commit", "release", "close"}

TypeOK ==
    /\ now \in 0..MaxTime
    /\ limit \in Limits /\ topLimit \in Limits
    /\ binding \in [on : BOOLEAN, rev : 1..MaxRevision]
    /\ facts \in [Keys -> [qty : 0..MaxQuantity, from : Reservations \cup {Direct}]]
    /\ resv \in [Reservations -> [st : {"none", "pending", "committed", "released", "expired"},
                                  qty : 0..MaxQuantity, expires : 0..(MaxTime + TTL)]]
    /\ relKey \in [ReleaseKeys -> SUBSET Reservations]
    /\ rollup \in [qty : Int, count : Nat]
    /\ call \in [Calls -> [pc : {"idle", "limit", "clock", "store"}, op : Ops,
                           key : SUBSET Keys, res : SUBSET Reservations,
                           rel : SUBSET ReleaseKeys, qty : 0..MaxQuantity,
                           rev : 0..MaxRevision, lim : Nat, at : 0..MaxTime]]
    /\ late \subseteq Keys

Init ==
    /\ now = 0
    /\ limit \in Limits /\ topLimit = limit
    /\ binding = [on |-> TRUE, rev |-> 1]
    /\ facts = [k \in Keys |-> NoFact]
    /\ resv = [r \in Reservations |-> NoResv]
    /\ relKey = [x \in ReleaseKeys |-> {}]
    /\ rollup = NoRollup
    /\ call = [c \in Calls |-> NoCall]
    /\ late = {}

(***************************************************************************)
(* The bucket's counter.                                                   *)
(***************************************************************************)
Facts  == {k \in Keys : facts[k].qty > 0}
Closed == rollup # NoRollup

\* A sum of quantities is the number of their units: a quantity n has the units 1..n.
Units(S, h) == {u \in S \X Quantities : u[2] <= h[u[1]]}
Sum(S, h)   == Cardinality(Units(S, h))

Used == [k \in Keys |-> facts[k].qty]
Committed == Sum(Keys, Used)

Active(r, at) == resv[r].st = "pending" /\ resv[r].expires > at
Held(at) == [r \in Reservations |-> IF Active(r, at) THEN resv[r].qty ELSE 0]
Reserved(at) == Sum(Reservations, Held(at))

\* Mutant: pending reservations are not counted.
withinLimitCommitted(qty, at, hard) == Committed + qty <= hard
withinLimit(qty, at, hard) == Committed + Reserved(at) + qty <= hard

(***************************************************************************)
(* A service call.  Its evidence is the binding it was authorized by;      *)
(* ClosePeriod, an operator's call, takes none.                            *)
(***************************************************************************)
Begin(c, op, key, res, rel, qty) ==
    /\ call[c].pc = "idle"
    /\ op # "close" => binding.on
    /\ call' = [call EXCEPT ![c] =
          [pc |-> IF op \in {"append", "reserve"} THEN "limit" ELSE "clock", op |-> op,
           key |-> key, res |-> res, rel |-> rel, qty |-> qty, rev |-> binding.rev,
           lim |-> 0, at |-> 0]]
    /\ UNCHANGED <<now, limit, topLimit, binding, facts, resv, relKey, rollup, late>>

\* Append, Reserve, CommitAuthorized (which looks its reservation up and copies its
\* quantity), ReleaseAuthorized, ClosePeriod.
BeginCall(c) ==
    \/ \E k \in Keys, n \in Quantities : Begin(c, "append", {k}, {}, {}, n)
    \/ \E r \in Reservations, n \in Quantities : Begin(c, "reserve", {}, {r}, {}, n)
    \/ \E r \in Reservations, k \in Keys :
          resv[r].st # "none" /\ Begin(c, "commit", {k}, {r}, {}, resv[r].qty)
    \/ \E r \in Reservations, x \in ReleaseKeys : Begin(c, "release", {}, {r}, {x}, 0)
    \/ Begin(c, "close", {}, {}, {}, 0)

\* entitledLimit
ReadLimit(c) ==
    /\ call[c].pc = "limit"
    /\ call' = [call EXCEPT ![c].pc = "clock", ![c].lim = limit]
    /\ UNCHANGED <<now, limit, topLimit, binding, facts, resv, relKey, rollup, late>>

\* newFact, newReservation, and the other reads of Service.now.
ReadClock(c) ==
    /\ call[c].pc = "clock"
    /\ call' = [call EXCEPT ![c].pc = "store", ![c].at = now]
    /\ UNCHANGED <<now, limit, topLimit, binding, facts, resv, relKey, rollup, late>>

Return(c) == call' = [call EXCEPT ![c] = NoCall]
\* Mutant: the evidence is believed without looking at the binding again.
AuthorizedEarlier(c) == call[c].rev # 0
\* validateEvidenceLocked, in the same critical section as the write.
Authorized(c) == binding.on /\ binding.rev = call[c].rev
Storing(c, op) == call[c].pc = "store" /\ call[c].op = op

\* Mutant: a replayed key adds to its fact.
AppendAgain(c) ==
    /\ Storing(c, "append")
    /\ \E k \in call[c].key :
          facts' = IF /\ Authorized(c) /\ ~Closed
                      /\ withinLimit(call[c].qty, call[c].at, call[c].lim)
                   THEN [facts EXCEPT ![k].qty = @ + call[c].qty]
                   ELSE facts
    /\ Return(c)
    /\ UNCHANGED <<now, limit, topLimit, binding, resv, relKey, rollup, late>>

\* AppendFact.  A key that has a fact is a replay or a conflict: nothing changes.
AppendFact(c) ==
    /\ Storing(c, "append")
    /\ \E k \in call[c].key :
          facts' = IF /\ Authorized(c) /\ k \notin Facts /\ ~Closed
                      /\ withinLimit(call[c].qty, call[c].at, call[c].lim)
                   THEN [facts EXCEPT ![k] = [qty |-> call[c].qty, from |-> Direct]]
                   ELSE facts
    /\ Return(c)
    /\ UNCHANGED <<now, limit, topLimit, binding, resv, relKey, rollup, late>>

\* Mutant: a reservation is granted in a closed period.
ReserveClosed(c) ==
    /\ Storing(c, "reserve")
    /\ \E r \in call[c].res :
          resv' = IF /\ Authorized(c) /\ resv[r].st = "none" /\ call[c].at < PeriodEnd
                     /\ withinLimit(call[c].qty, call[c].at, call[c].lim)
                  THEN [resv EXCEPT ![r] = [st |-> "pending", qty |-> call[c].qty,
                                            expires |-> call[c].at + TTL]]
                  ELSE resv
    /\ Return(c)
    /\ UNCHANGED <<now, limit, topLimit, binding, facts, relKey, rollup, late>>

\* Reserve, for a time within the period.
Reserve(c) ==
    /\ Storing(c, "reserve")
    /\ \E r \in call[c].res :
          resv' = IF /\ Authorized(c) /\ resv[r].st = "none" /\ ~Closed
                     /\ call[c].at < PeriodEnd
                     /\ withinLimit(call[c].qty, call[c].at, call[c].lim)
                  THEN [resv EXCEPT ![r] = [st |-> "pending", qty |-> call[c].qty,
                                            expires |-> call[c].at + TTL]]
                  ELSE resv
    /\ Return(c)
    /\ UNCHANGED <<now, limit, topLimit, binding, facts, relKey, rollup, late>>

\* Mutant: a commit does not look for the rollup.
CommitClosed(c) ==
    /\ Storing(c, "commit")
    /\ \E r \in call[c].res, k \in call[c].key :
          IF Authorized(c) /\ Active(r, call[c].at) /\ k \notin Facts
          THEN /\ facts' = [facts EXCEPT ![k] = [qty |-> call[c].qty, from |-> r]]
               /\ resv' = [resv EXCEPT ![r].st = "committed"]
               /\ late' = IF resv[r].expires > now THEN late ELSE late \cup {k}
          ELSE UNCHANGED <<facts, resv, late>>
    /\ Return(c)
    /\ UNCHANGED <<now, limit, topLimit, binding, relKey, rollup>>

\* Mutant: a commit looks at the time of the reservation and not at its status.
CommitAnyStatus(c) ==
    /\ Storing(c, "commit")
    /\ \E r \in call[c].res, k \in call[c].key :
          IF Authorized(c) /\ resv[r].expires > call[c].at /\ ~Closed /\ k \notin Facts
          THEN /\ facts' = [facts EXCEPT ![k] = [qty |-> call[c].qty, from |-> r]]
               /\ resv' = [resv EXCEPT ![r].st = "committed"]
               /\ late' = IF resv[r].expires > now THEN late ELSE late \cup {k}
          ELSE UNCHANGED <<facts, resv, late>>
    /\ Return(c)
    /\ UNCHANGED <<now, limit, topLimit, binding, relKey, rollup>>

\* commitReservation.  The limit is not looked at again: the reservation holds room.
CommitReservation(c) ==
    /\ Storing(c, "commit")
    /\ \E r \in call[c].res, k \in call[c].key :
          IF /\ Authorized(c) /\ Active(r, call[c].at) /\ ~Closed /\ k \notin Facts
          THEN /\ facts' = [facts EXCEPT ![k] = [qty |-> call[c].qty, from |-> r]]
               /\ resv' = [resv EXCEPT ![r].st = "committed"]
               /\ late' = IF resv[r].expires > now THEN late ELSE late \cup {k}
          ELSE UNCHANGED <<facts, resv, late>>
    /\ Return(c)
    /\ UNCHANGED <<now, limit, topLimit, binding, relKey, rollup>>

\* releaseReservation: a reservation past its time becomes expired even if the key is
\* then refused (adoptReleaseKeyLocked: one key, one reservation, and the other way round).
ReleaseReservation(c) ==
    /\ Storing(c, "release")
    /\ \E r \in call[c].res, x \in call[c].rel :
          LET pending == resv[r].st = "pending"
              dead    == pending /\ ~Active(r, call[c].at)
              adopts  == /\ relKey[x] \subseteq {r}
                         /\ \A y \in ReleaseKeys : r \in relKey[y] => y = x
              known   == Authorized(c) /\ resv[r].st \notin {"none", "committed"}
          IN /\ resv' = IF known /\ pending /\ (dead \/ adopts)
                        THEN [resv EXCEPT ![r].st = IF dead THEN "expired" ELSE "released"]
                        ELSE resv
             /\ relKey' = IF known /\ adopts THEN [relKey EXCEPT ![x] = {r}] ELSE relKey
    /\ Return(c)
    /\ UNCHANGED <<now, limit, topLimit, binding, facts, rollup, late>>

\* ClosePeriod: the rollup and its outbox event in one critical section.
ClosePeriod(c) ==
    /\ Storing(c, "close")
    /\ rollup' = IF /\ call[c].at >= PeriodEnd /\ ~Closed
                    /\ \A r \in Reservations : ~Active(r, call[c].at)
                 THEN [qty |-> Committed, count |-> Cardinality(Facts)]
                 ELSE rollup
    /\ Return(c)
    /\ UNCHANGED <<now, limit, topLimit, binding, facts, resv, relKey, late>>

\* SweepExpiredReservations, up to its limit.
Sweep ==
    /\ \E some \in SUBSET {r \in Reservations : resv[r].st = "pending" /\ ~Active(r, now)} :
          /\ some # {}
          /\ resv' = [r \in Reservations |->
                         IF r \in some THEN [resv[r] EXCEPT !.st = "expired"] ELSE resv[r]]
    /\ UNCHANGED <<now, limit, topLimit, binding, facts, relKey, rollup, call, late>>

\* SaveSourceBinding: each save has the next revision.
SaveSourceBinding ==
    /\ binding.rev < MaxRevision
    /\ \E on \in BOOLEAN : binding' = [on |-> on, rev |-> binding.rev + 1]
    /\ UNCHANGED <<now, limit, topLimit, facts, resv, relKey, rollup, call, late>>

\* The tenant's entitlement changes.
ChangeLimit ==
    /\ \E n \in Limits \ {limit} :
          /\ limit' = n
          /\ topLimit' = IF n > topLimit THEN n ELSE topLimit
    /\ UNCHANGED <<now, binding, facts, resv, relKey, rollup, call, late>>

Tick ==
    /\ now < MaxTime
    /\ now' = now + 1
    /\ UNCHANGED <<limit, topLimit, binding, facts, resv, relKey, rollup, call, late>>

StoreCall(c) ==
    \/ AppendFact(c) \/ Reserve(c) \/ CommitReservation(c) \/ ReleaseReservation(c)
    \/ ClosePeriod(c)

Next ==
    \/ Tick \/ Sweep \/ SaveSourceBinding \/ ChangeLimit
    \/ \E c \in Calls : BeginCall(c) \/ ReadLimit(c) \/ ReadClock(c) \/ StoreCall(c)

Spec == Init /\ [][Next]_vars

(***************************************************************************)
(* Properties.                                                             *)
(***************************************************************************)
\* Safety.  What is billed is what was used: a closed period's rollup equals the sum
\* and the number of its facts for ever, although appends and commits that were on
\* their way when it closed arrive afterwards (ClosePeriod, ErrPeriodClosed).
RollupExact == Closed => rollup = [qty |-> Committed, count |-> Cardinality(Facts)]

\* Safety.  A reservation is charged exactly once if it is committed, with its own
\* quantity, and never if it was released or expired, under retries with other keys,
\* late commits, releases and sweeps (commitReservation).
ChargedOnce ==
    \A r \in Reservations :
        LET charges == {k \in Facts : facts[k].from = r}
        IN IF resv[r].st = "committed"
           THEN \E k \in charges : charges = {k} /\ facts[k].qty = resv[r].qty
           ELSE charges = {}

\* What the commits that came late added.
UsedLate == [k \in Keys |-> IF k \in late THEN facts[k].qty ELSE 0]

\* Safety.  Committed usage and the room still held for reservations exceed the highest
\* limit the tenant ever had by no more than the commits that came late: those that
\* read the clock before the reservation's end and reached the store after it.
QuotaBound == Committed + Reserved(now) <= topLimit + Sum(Keys, UsedLate)

\* Safety.  A period is never closed over a reservation that can still be committed:
\* neither the close nor a reservation on its way may overtake the other.
NoneStranded == Closed => \A r \in Reservations : ~Active(r, now)

\* Action.  Once a source binding was disabled or replaced, no call authorized by its
\* earlier revision writes a fact or moves a reservation (validateEvidenceLocked).
RevokedSourceStops ==
    [][\A c \in Calls :
          call[c].pc = "store" /\ call'[c].pc = "idle" /\ <<facts', resv'>> # <<facts, resv>>
              => binding.on /\ binding.rev = call[c].rev]_vars
=============================================================================
