------------------------- MODULE UsageLedgerProofs -------------------------
(***************************************************************************)
(* For any number of calls, keys and reservations, any quantities, limits  *)
(* and times: the rollup equals its facts, reservations are charged once,  *)
(* no close strands a reservation, usage stays within the limit but for    *)
(* late commits, and a revoked source writes nothing.                      *)
(***************************************************************************)
EXTENDS UsageLedger, FiniteSetTheorems, TLAPS

USE LedgerAssumption

-----------------------------------------------------------------------------
\* Sums of quantities.

Quantity == 0..MaxQuantity

\* A sum over a finite set is a number.
LEMMA SumType ==
    ASSUME NEW S, IsFiniteSet(S), NEW h
    PROVE  IsFiniteSet(Units(S, h)) /\ Sum(S, h) \in Nat
  <1>1. IsFiniteSet(Quantities)
    BY FS_Interval DEF Quantities
  <1>2. IsFiniteSet(S \X Quantities)
    BY <1>1, FS_Product
  <1>3. Units(S, h) \in SUBSET (S \X Quantities)
    BY DEF Units
  <1>4. IsFiniteSet(Units(S, h))
    BY <1>2, <1>3, FS_Subset
  <1> QED BY <1>4, FS_CardinalityType DEF Sum

\* A sum grows with its summands.
LEMMA SumMono ==
    ASSUME NEW S, IsFiniteSet(S), NEW h \in [S -> Quantity], NEW g \in [S -> Quantity],
           \A x \in S : h[x] <= g[x]
    PROVE  Sum(S, h) <= Sum(S, g)
  <1>1. Units(S, h) \in SUBSET Units(S, g)
    <2> SUFFICES ASSUME NEW u \in Units(S, h) PROVE u \in Units(S, g)
      OBVIOUS
    <2>1. u \in S \X Quantities /\ u[2] <= h[u[1]]
      BY DEF Units
    <2>2. u[1] \in S /\ u[2] \in Quantities /\ h[u[1]] <= g[u[1]]
      BY <2>1
    <2>3. u[2] <= g[u[1]]
      BY <2>1, <2>2 DEF Quantity, Quantities
    <2> QED BY <2>1, <2>3 DEF Units
  <1> QED BY <1>1, SumType, FS_Subset DEF Sum

\* Setting one summand from 0 to n adds n.
LEMMA SumSet ==
    ASSUME NEW S, IsFiniteSet(S), NEW h \in [S -> Quantity], NEW x \in S, h[x] = 0,
           NEW n \in Quantity
    PROVE  Sum(S, [h EXCEPT ![x] = n]) = Sum(S, h) + n
  <1> DEFINE g == [h EXCEPT ![x] = n]
  <1> DEFINE P == {x} \X (1..n)
  <1>1. IsFiniteSet(P) /\ Cardinality(P) = n
    <2>1. n \in Int /\ (n = 0 => ~(1 <= n)) /\ n >= 0
      BY DEF Quantity
    <2>2. IsFiniteSet(1..n) /\ Cardinality(1..n) = n
      BY <2>1, FS_Interval
    <2>3. IsFiniteSet({x}) /\ Cardinality({x}) = 1
      BY FS_Singleton
    <2>4. IsFiniteSet(P) /\ Cardinality(P) = Cardinality({x}) * Cardinality(1..n)
      BY <2>2, <2>3, FS_Product
    <2> QED BY <2>1, <2>2, <2>3, <2>4
  <1>2. Units(S, g) = Units(S, h) \cup P
    <2>1. ASSUME NEW u \in S \X Quantities
          PROVE  u[2] <= g[u[1]] <=> u[2] <= h[u[1]] \/ u \in P
      <3>0. u = <<u[1], u[2]>> /\ u[1] \in S /\ u[2] \in 1..MaxQuantity
        BY DEF Quantities
      <3>1. CASE u[1] = x
        <4>1. g[u[1]] = n /\ ~(u[2] <= h[u[1]])
          BY <3>0, <3>1
        <4>2. u \in P <=> u[2] <= n
          BY <3>0, <3>1 DEF Quantity
        <4> QED BY <4>1, <4>2
      <3>2. CASE u[1] # x
        <4>1. u \notin P /\ g[u[1]] = h[u[1]]
          BY <3>0, <3>2
        <4> QED BY <4>1
      <3> QED BY <3>1, <3>2
    <2>2. P \subseteq S \X Quantities
      BY DEF Quantity, Quantities
    <2> HIDE DEF P
    <2> QED BY <2>1, <2>2 DEF Units
  <1>3. Units(S, h) \cap P = {}
    <2> SUFFICES ASSUME NEW u \in P, u \in Units(S, h) PROVE FALSE
      OBVIOUS
    <2>1. u[1] = x /\ u[2] \in 1..n
      OBVIOUS
    <2>2. u[2] <= h[u[1]]
      BY DEF Units
    <2> QED BY <2>1, <2>2
  <1>4. IsFiniteSet(Units(S, h)) /\ Cardinality(Units(S, h)) \in Nat
    BY SumType DEF Sum
  <1> HIDE DEF P
  <1>5. Cardinality(Units(S, h) \cup P)
          = Cardinality(Units(S, h)) + Cardinality(P) - Cardinality(Units(S, h) \cap P)
    BY <1>1, <1>4, FS_Union
  <1>6. Cardinality({}) = 0
    BY FS_EmptySet
  <1>7. n \in Nat
    BY DEF Quantity
  <1> HIDE DEF g
  <1>8. Cardinality(Units(S, g)) = Cardinality(Units(S, h)) + n
    <2>1. Cardinality(Units(S, h) \cap P) = 0
      BY <1>3, <1>6
    <2>2. Cardinality(Units(S, h) \cup P) = Cardinality(Units(S, h)) + n
      BY <1>1, <1>4, <1>5, <1>7, <2>1
    <2> QED BY <1>2, <2>2
  <1> QED BY <1>8 DEF Sum, g

-----------------------------------------------------------------------------
\* The inductive invariant.

\* What a call under way knows: it read the clock and the limit earlier, and a commit
\* carries the quantity of its reservation.
CallKnows(c) ==
    /\ call[c].pc = "store" => call[c].at <= now
    /\ call[c].lim <= topLimit
    /\ call[c].pc # "idle" =>
          /\ call[c].op \in {"append", "reserve"} => call[c].qty \in Quantities
          /\ call[c].op = "commit" => \A r \in call[c].res :
                resv[r].st # "none" /\ call[c].qty = resv[r].qty
CallsKnow == \A c \in Calls : CallKnows(c)

\* A reservation has a quantity, and late commits are facts.
Substance ==
    /\ \A r \in Reservations : resv[r].st # "none" => resv[r].qty \in Quantities
    /\ late \subseteq Facts
    /\ limit <= topLimit

IInv == /\ TypeOK /\ CallsKnow /\ Substance
        /\ RollupExact /\ ChargedOnce /\ NoneStranded /\ QuotaBound

\* What a typed state sums up.
LEMMA SumsTyped ==
    ASSUME TypeOK
    PROVE  /\ Used \in [Keys -> Quantity] /\ UsedLate \in [Keys -> Quantity]
           /\ \A at : Held(at) \in [Reservations -> Quantity]
           /\ Committed \in Nat /\ Sum(Keys, UsedLate) \in Nat
           /\ \A at : Reserved(at) \in Nat
           /\ Cardinality(Facts) \in Nat
  <1>1. /\ Used \in [Keys -> Quantity] /\ UsedLate \in [Keys -> Quantity]
        /\ \A at : Held(at) \in [Reservations -> Quantity]
    BY DEF TypeOK, Used, UsedLate, Held, Quantity
  <1>2. Committed \in Nat /\ Sum(Keys, UsedLate) \in Nat /\ \A at : Reserved(at) \in Nat
    BY SumType DEF Committed, Reserved
  <1>3. Facts \in SUBSET Keys
    BY DEF Facts
  <1>4. Cardinality(Facts) \in Nat
    BY <1>3, FS_Subset, FS_CardinalityType
  <1> QED BY <1>1, <1>2, <1>4

\* A later look finds no more room held.
LEMMA HeldFades ==
    ASSUME TypeOK, NEW s \in 0..MaxTime, NEW t \in 0..MaxTime, s <= t
    PROVE  /\ Reserved(t) <= Reserved(s)
           /\ \A r \in Reservations : Active(r, t) => Active(r, s)
  <1>1. \A r \in Reservations : Active(r, t) => Active(r, s)
    BY DEF TypeOK, Active
  <1>2. \A r \in Reservations : Held(t)[r] <= Held(s)[r]
    BY <1>1 DEF Held, TypeOK
  <1> QED BY <1>1, <1>2, SumMono, SumsTyped DEF Reserved

\* Init establishes the invariant.
LEMMA InitIInv == Init => IInv
  <1> SUFFICES ASSUME Init PROVE IInv
    OBVIOUS
  <1>1. TypeOK
    BY DEF Init, TypeOK, NoFact, NoResv, NoRollup, NoCall, Ops
  <1>2. CallsKnow /\ Substance
    BY DEF Init, CallsKnow, CallKnows, Substance, NoCall, NoResv
  <1>3. Facts = {}
    BY DEF Init, Facts, NoFact
  <1>4. RollupExact /\ ChargedOnce /\ NoneStranded
    BY <1>3 DEF Init, RollupExact, ChargedOnce, NoneStranded, Closed, NoResv
  <1>5. QuotaBound
    <2>1. Units(Keys, Used) = {} /\ Units(Reservations, Held(now)) = {}
      BY DEF Init, Units, Used, Held, Active, Quantities, NoFact, NoResv
    <2>2. Committed = 0 /\ Reserved(now) = 0
      BY <2>1, FS_EmptySet DEF Committed, Reserved, Sum
    <2>3. topLimit \in Nat /\ Sum(Keys, UsedLate) \in Nat
      BY <1>1, SumsTyped DEF TypeOK
    <2> QED BY <2>2, <2>3 DEF QuotaBound
  <1> QED BY <1>1, <1>2, <1>4, <1>5 DEF IInv

-----------------------------------------------------------------------------
\* The effects a step may have on the bucket, each with what it preserves.

Bucket == Substance /\ RollupExact /\ ChargedOnce /\ NoneStranded /\ QuotaBound

\* Nothing but time and limits.
LEMMA QuietEffect ==
    ASSUME IInv, TypeOK', UNCHANGED <<facts, resv, rollup, late>>,
           now <= now', topLimit <= topLimit', limit' <= topLimit'
    PROVE  Bucket'
  <1>1. Facts' = Facts /\ Used' = Used /\ UsedLate' = UsedLate /\ Committed' = Committed
    BY DEF Facts, Used, UsedLate, Committed
  <1>2. Sum(Keys, UsedLate') = Sum(Keys, UsedLate)
    BY <1>1
  <1>3. \A at : Held(at)' = Held(at)
    BY DEF Held, Active
  <1>4. Reserved(now)' <= Reserved(now) /\ \A r \in Reservations : Active(r, now)' => Active(r, now)
    <2>1. Reserved(now)' = Reserved(now') /\ \A r \in Reservations : Active(r, now)' = Active(r, now')
      BY DEF Reserved, Held, Active
    <2>2. now \in 0..MaxTime /\ now' \in 0..MaxTime
      BY DEF IInv, TypeOK
    <2> QED BY <2>1, <2>2, HeldFades DEF IInv
  <1>5. Substance' /\ RollupExact' /\ ChargedOnce'
    BY <1>1 DEF IInv, Substance, RollupExact, ChargedOnce, Closed
  <1>6. NoneStranded'
    BY <1>4 DEF IInv, NoneStranded, Closed
  <1>7. QuotaBound'
    <2>1. /\ Committed \in Nat /\ Reserved(now) \in Nat /\ Sum(Keys, UsedLate) \in Nat
          /\ topLimit \in Nat
      BY SumsTyped DEF IInv, TypeOK
    <2>2. Reserved(now)' \in Nat /\ topLimit' \in Nat
      BY SumsTyped, SumType DEF TypeOK, Reserved
    <2>3. QuotaBound
      BY DEF IInv
    <2> QED BY <1>1, <1>2, <1>4, <2>1, <2>2, <2>3 DEF QuotaBound
  <1> QED BY <1>5, <1>6, <1>7 DEF Bucket

\* A fact is written under a new key of an open period.
LEMMA FactAdded ==
    ASSUME IInv, NEW k \in Keys, k \notin Facts, NEW n \in Quantities,
           NEW o \in Reservations \cup {Direct},
           facts' = [facts EXCEPT ![k] = [qty |-> n, from |-> o]]
    PROVE  /\ Facts' = Facts \cup {k}
           /\ facts'[k] = [qty |-> n, from |-> o]
           /\ \A j \in Keys : j # k => facts'[j] = facts[j]
           /\ Committed' = Committed + n
           /\ late' = late => Sum(Keys, UsedLate') = Sum(Keys, UsedLate)
           /\ late' = late \cup {k} => Sum(Keys, UsedLate') = Sum(Keys, UsedLate) + n
  <1>1. facts'[k] = [qty |-> n, from |-> o] /\ \A j \in Keys : j # k => facts'[j] = facts[j]
    BY DEF IInv, TypeOK
  <1>2. Facts' = Facts \cup {k}
    BY <1>1 DEF Facts, Quantities
  <1>3. facts[k].qty = 0 /\ n \in Quantity
    BY DEF Facts, IInv, TypeOK, Quantities, Quantity
  <1>4. Used' = [Used EXCEPT ![k] = n] /\ Used[k] = 0
    <2>1. Used[k] = 0
      BY <1>3 DEF Used
    <2>2. Used' = [j \in Keys |-> IF j = k THEN n ELSE facts[j].qty]
      BY <1>1 DEF Used
    <2>3. [Used EXCEPT ![k] = n] = [j \in Keys |-> IF j = k THEN n ELSE facts[j].qty]
      BY DEF Used
    <2> QED BY <2>1, <2>2, <2>3
  <1>5. Committed' = Committed + n
    <2>1. Used \in [Keys -> Quantity]
      BY SumsTyped DEF IInv
    <2>2. Sum(Keys, [Used EXCEPT ![k] = n]) = Sum(Keys, Used) + n
      BY <1>3, <1>4, <2>1, SumSet
    <2> QED BY <1>4, <2>2 DEF Committed
  <1>6. k \notin late
    BY DEF IInv, Substance
  <1>7. late' = late => UsedLate' = UsedLate
    BY <1>1, <1>6 DEF UsedLate
  <1>8. late' = late \cup {k} => Sum(Keys, UsedLate') = Sum(Keys, UsedLate) + n
    <2>1. UsedLate \in [Keys -> Quantity]
      BY SumsTyped DEF IInv
    <2>2. late' = late \cup {k} => UsedLate' = [UsedLate EXCEPT ![k] = n] /\ UsedLate[k] = 0
      <3> SUFFICES ASSUME late' = late \cup {k}
                   PROVE  UsedLate' = [UsedLate EXCEPT ![k] = n] /\ UsedLate[k] = 0
        OBVIOUS
      <3> DEFINE F == [j \in Keys |-> IF j = k THEN n ELSE IF j \in late THEN facts[j].qty ELSE 0]
      <3>1. UsedLate[k] = 0
        BY <1>6 DEF UsedLate
      <3>2. UsedLate' = F
        BY <1>1 DEF UsedLate
      <3>3. [UsedLate EXCEPT ![k] = n] = F
        BY DEF UsedLate
      <3> QED BY <3>1, <3>2, <3>3
    <2>3. ASSUME UsedLate[k] = 0
          PROVE  Sum(Keys, [UsedLate EXCEPT ![k] = n]) = Sum(Keys, UsedLate) + n
      BY <1>3, <2>1, <2>3, SumSet
    <2> QED BY <2>2, <2>3
  <1> QED BY <1>1, <1>2, <1>5, <1>7, <1>8

\* A direct append within the limit the call read.
LEMMA AppendEffect ==
    ASSUME IInv, TypeOK', NEW k \in Keys, k \notin Facts, ~Closed, NEW n \in Quantities,
           NEW at \in 0..MaxTime, at <= now, NEW lim \in Nat, lim <= topLimit,
           withinLimit(n, at, lim),
           facts' = [facts EXCEPT ![k] = [qty |-> n, from |-> Direct]],
           UNCHANGED <<now, limit, topLimit, resv, rollup, late>>
    PROVE  Bucket'
  <1>1. /\ Facts' = Facts \cup {k}
        /\ facts'[k] = [qty |-> n, from |-> Direct]
        /\ \A j \in Keys : j # k => facts'[j] = facts[j]
        /\ Committed' = Committed + n
        /\ Sum(Keys, UsedLate') = Sum(Keys, UsedLate)
    BY FactAdded
  <1>2. ~Closed'
    BY DEF Closed
  <1>3. Substance'
    BY <1>1 DEF IInv, Substance
  <1>4. ChargedOnce'
    <2> SUFFICES ASSUME NEW r \in Reservations
                 PROVE  LET charges == {j \in Facts' : facts'[j].from = r}
                        IN IF resv[r].st = "committed"
                           THEN \E j \in charges : charges = {j} /\ facts'[j].qty = resv[r].qty
                           ELSE charges = {}
      BY DEF ChargedOnce
    <2>1. r # Direct
      OBVIOUS
    <2>2. {j \in Facts' : facts'[j].from = r} = {j \in Facts : facts[j].from = r}
      BY <1>1, <2>1 DEF Facts
    <2>3. \A j \in Facts : facts'[j] = facts[j]
      BY <1>1 DEF Facts
    <2> QED BY <2>2, <2>3 DEF IInv, ChargedOnce
  <1>5. QuotaBound'
    <2>1. Reserved(now)' = Reserved(now)
      BY DEF Reserved, Held, Active
    <2>2. Reserved(now) <= Reserved(at)
      BY HeldFades DEF IInv, TypeOK
    <2>3. /\ Committed \in Nat /\ Reserved(now) \in Nat /\ Reserved(at) \in Nat
          /\ Sum(Keys, UsedLate) \in Nat /\ topLimit \in Nat /\ n \in Nat
      BY SumsTyped DEF IInv, TypeOK, Quantities
    <2>4. Committed + Reserved(at) + n <= lim
      BY DEF withinLimit
    <2> QED BY <1>1, <2>1, <2>2, <2>3, <2>4 DEF QuotaBound
  <1> QED BY <1>2, <1>3, <1>4, <1>5 DEF Bucket, RollupExact, NoneStranded

\* A reservation is granted in an open period, within the limit the call read.
LEMMA ReserveEffect ==
    ASSUME IInv, TypeOK', NEW r \in Reservations, resv[r].st = "none", ~Closed,
           NEW n \in Quantities,
           NEW at \in 0..MaxTime, at <= now, NEW lim \in Nat, lim <= topLimit,
           withinLimit(n, at, lim), NEW e \in Nat,
           resv' = [resv EXCEPT ![r] = [st |-> "pending", qty |-> n, expires |-> e]],
           UNCHANGED <<now, limit, topLimit, facts, rollup, late>>
    PROVE  Bucket'
  <1>1. Facts' = Facts /\ Committed' = Committed /\ Sum(Keys, UsedLate') = Sum(Keys, UsedLate)
    BY DEF Facts, Committed, Used, UsedLate
  <1>2. ~Closed'
    BY DEF Closed
  <1>3. /\ resv'[r] = [st |-> "pending", qty |-> n, expires |-> e]
        /\ \A s \in Reservations : s # r => resv'[s] = resv[s]
    BY DEF IInv, TypeOK
  <1>4. Substance'
    BY <1>1, <1>3 DEF IInv, Substance
  <1>5. ChargedOnce'
    <2> SUFFICES ASSUME NEW s \in Reservations
                 PROVE  LET charges == {j \in Facts : facts[j].from = s}
                        IN IF resv'[s].st = "committed"
                           THEN \E j \in charges : charges = {j} /\ facts[j].qty = resv'[s].qty
                           ELSE charges = {}
      BY <1>1 DEF ChargedOnce
    <2>1. CASE s = r
      BY <1>3, <2>1 DEF IInv, ChargedOnce
    <2>2. CASE s # r
      BY <1>3, <2>2 DEF IInv, ChargedOnce
    <2> QED BY <2>1, <2>2
  <1>6. QuotaBound'
    <2>1. Reserved(now)' <= Reserved(now) + n
      <3>1. Held(now) \in [Reservations -> Quantity] /\ Held(now)[r] = 0 /\ n \in Quantity
        BY SumsTyped DEF IInv, Held, Active, Quantity, Quantities
      <3> DEFINE g == [Held(now) EXCEPT ![r] = n]
      <3>2. Sum(Reservations, g) = Reserved(now) + n
        <4>1. IsFiniteSet(Reservations)
          OBVIOUS
        <4>2. Sum(Reservations, [Held(now) EXCEPT ![r] = n]) = Sum(Reservations, Held(now)) + n
          BY ONLY <3>1, <4>1, r \in Reservations, SumSet
        <4> QED BY <4>2 DEF Reserved
      <3>3. Held(now)' \in [Reservations -> Quantity] /\ g \in [Reservations -> Quantity]
        BY <3>1 DEF TypeOK, Held, Quantity
      <3>4. \A s \in Reservations : Held(now)'[s] <= g[s]
        <4> SUFFICES ASSUME NEW s \in Reservations PROVE Held(now)'[s] <= g[s]
          OBVIOUS
        <4>1. CASE s = r
          BY <1>3, <3>1, <4>1 DEF Held, Quantity
        <4>2. CASE s # r
          <5>1. Held(now)'[s] = Held(now)[s] /\ g[s] = Held(now)[s] /\ Held(now)[s] \in Quantity
            BY <1>3, <3>1, <4>2 DEF Held, Active
          <5> QED BY <5>1 DEF Quantity
        <4> QED BY <4>1, <4>2
      <3> HIDE DEF g
      <3> QED BY <3>2, <3>3, <3>4, SumMono DEF Reserved
    <2>2. Reserved(now) <= Reserved(at)
      BY HeldFades DEF IInv, TypeOK
    <2>3. /\ Committed \in Nat /\ Reserved(now) \in Nat /\ Reserved(at) \in Nat
          /\ Sum(Keys, UsedLate) \in Nat /\ topLimit \in Nat /\ n \in Nat
      BY SumsTyped DEF IInv, TypeOK, Quantities
    <2>4. Reserved(now)' \in Nat
      BY SumType DEF Reserved
    <2>5. Committed + Reserved(at) + n <= lim
      BY DEF withinLimit
    <2> QED BY <1>1, <2>1, <2>2, <2>3, <2>4, <2>5 DEF QuotaBound
  <1> QED BY <1>2, <1>4, <1>5, <1>6 DEF Bucket, RollupExact, NoneStranded

\* A pending reservation becomes a fact; if it had expired by now, a late one.
LEMMA CommitEffect ==
    ASSUME IInv, TypeOK', NEW r \in Reservations, NEW k \in Keys, k \notin Facts, ~Closed,
           resv[r].st = "pending",
           facts' = [facts EXCEPT ![k] = [qty |-> resv[r].qty, from |-> r]],
           resv' = [resv EXCEPT ![r].st = "committed"],
           late' = IF resv[r].expires > now THEN late ELSE late \cup {k},
           UNCHANGED <<now, limit, topLimit, rollup>>
    PROVE  Bucket'
  <1> DEFINE n == resv[r].qty
  <1>1. n \in Quantities
    BY DEF IInv, Substance
  <1>2. /\ resv'[r].st = "committed" /\ resv'[r].qty = n
        /\ \A s \in Reservations : s # r => resv'[s] = resv[s]
    BY DEF IInv, TypeOK
  <1> HIDE DEF n
  <1>3. /\ Facts' = Facts \cup {k}
        /\ facts'[k] = [qty |-> n, from |-> r]
        /\ \A j \in Keys : j # k => facts'[j] = facts[j]
        /\ Committed' = Committed + n
        /\ late' = late => Sum(Keys, UsedLate') = Sum(Keys, UsedLate)
        /\ late' = late \cup {k} => Sum(Keys, UsedLate') = Sum(Keys, UsedLate) + n
    BY <1>1, FactAdded DEF n
  <1>4. ~Closed'
    BY DEF Closed
  <1>5. Substance'
    BY <1>1, <1>2, <1>3 DEF IInv, Substance
  <1>6. ChargedOnce'
    <2> SUFFICES ASSUME NEW s \in Reservations
                 PROVE  LET charges == {j \in Facts' : facts'[j].from = s}
                        IN IF resv'[s].st = "committed"
                           THEN \E j \in charges : charges = {j} /\ facts'[j].qty = resv'[s].qty
                           ELSE charges = {}
      BY DEF ChargedOnce
    <2>0. \A j \in Facts : j # k /\ facts'[j] = facts[j]
      BY <1>3 DEF Facts
    <2>1. CASE s = r
      <3>1. {j \in Facts : facts[j].from = s} = {}
        BY <2>1 DEF IInv, ChargedOnce
      <3>2. {j \in Facts' : facts'[j].from = s} = {k}
        BY <1>3, <2>0, <2>1, <3>1
      <3> QED BY <1>2, <1>3, <2>1, <3>2
    <2>2. CASE s # r
      <3>1. {j \in Facts' : facts'[j].from = s} = {j \in Facts : facts[j].from = s}
        BY <1>3, <2>0, <2>2
      <3> QED BY <1>2, <2>0, <2>2, <3>1 DEF IInv, ChargedOnce
    <2> QED BY <2>1, <2>2
  <1>7. QuotaBound'
    <2>1. /\ Committed \in Nat /\ Reserved(now) \in Nat
          /\ Sum(Keys, UsedLate) \in Nat /\ topLimit \in Nat /\ n \in Nat
      BY <1>1, SumsTyped DEF IInv, TypeOK, Quantities
    <2>2. /\ Held(now)' \in [Reservations -> Quantity] /\ Held(now)'[r] = 0
          /\ \A s \in Reservations : s # r => Held(now)'[s] = Held(now)[s]
      BY <1>2 DEF TypeOK, Held, Active, Quantity
    <2>3. Reserved(now)' \in Nat
      BY SumType DEF Reserved
    <2>4. Committed + Reserved(now) <= topLimit + Sum(Keys, UsedLate)
      BY DEF IInv, QuotaBound
    <2>5. CASE resv[r].expires > now
      <3>1. Held(now)[r] = n /\ n \in Quantity
        BY <1>1, <2>5 DEF Held, Active, n, Quantity, Quantities
      <3>2. Held(now) = [Held(now)' EXCEPT ![r] = n]
        BY <2>2, <3>1 DEF Held
      <3> DEFINE h == Held(now)'
      <3>3. h \in [Reservations -> Quantity] /\ h[r] = 0 /\ n \in Quantity
        BY <2>2, <3>1
      <3>4. Held(now) = [h EXCEPT ![r] = n]
        BY <3>2
      <3> HIDE DEF h
      <3>5. Sum(Reservations, [h EXCEPT ![r] = n]) = Sum(Reservations, h) + n
        BY ONLY <3>3, IsFiniteSet(Reservations), r \in Reservations, SumSet
      <3>6. Reserved(now) = Reserved(now)' + n
        BY <3>4, <3>5 DEF Reserved, h
      <3> QED BY <1>3, <2>1, <2>3, <2>4, <2>5, <3>6 DEF QuotaBound
    <2>6. CASE ~(resv[r].expires > now)
      <3>1. Held(now)[r] = 0
        BY <2>6 DEF Held, Active
      <3>2. Held(now)' = Held(now)
        BY <2>2, <3>1 DEF Held
      <3>3. Reserved(now)' = Reserved(now)
        BY <3>2 DEF Reserved
      <3> QED BY <1>3, <2>1, <2>4, <2>6, <3>3 DEF QuotaBound
    <2> QED BY <2>5, <2>6
  <1> QED BY <1>4, <1>5, <1>6, <1>7 DEF Bucket, RollupExact, NoneStranded

\* Pending reservations end without a charge (release, sweep).
LEMMA EndEffect ==
    ASSUME IInv, TypeOK',
           \A r \in Reservations :
             \/ resv'[r] = resv[r]
             \/ /\ resv[r].st = "pending" /\ resv'[r].st \in {"released", "expired"}
                /\ resv'[r].qty = resv[r].qty,
           UNCHANGED <<now, limit, topLimit, facts, rollup, late>>
    PROVE  Bucket'
  <1>1. Facts' = Facts /\ Committed' = Committed /\ Sum(Keys, UsedLate') = Sum(Keys, UsedLate)
    BY DEF Facts, Committed, Used, UsedLate
  <1>2. Substance' /\ RollupExact'
    BY <1>1 DEF IInv, Substance, RollupExact, Closed
  <1>3. ChargedOnce'
    <2> SUFFICES ASSUME NEW s \in Reservations
                 PROVE  LET charges == {j \in Facts : facts[j].from = s}
                        IN IF resv'[s].st = "committed"
                           THEN \E j \in charges : charges = {j} /\ facts[j].qty = resv'[s].qty
                           ELSE charges = {}
      BY <1>1 DEF ChargedOnce
    <2>1. CASE resv'[s] = resv[s]
      BY <2>1 DEF IInv, ChargedOnce
    <2>2. CASE resv[s].st = "pending" /\ resv'[s].st \in {"released", "expired"}
      BY <2>2 DEF IInv, ChargedOnce
    <2> QED BY <2>1, <2>2
  <1>4. \A r \in Reservations : Active(r, now)' => Active(r, now) /\ resv'[r] = resv[r]
    BY DEF Active
  <1>5. NoneStranded'
    BY <1>4 DEF IInv, NoneStranded, Closed
  <1>6. QuotaBound'
    <2>1. Held(now) \in [Reservations -> Quantity] /\ Held(now)' \in [Reservations -> Quantity]
      BY SumsTyped DEF IInv, TypeOK, Held, Quantity
    <2>2. \A r \in Reservations : Held(now)'[r] <= Held(now)[r]
      BY <1>4, <2>1 DEF Held, Quantity
    <2>3. Reserved(now)' <= Reserved(now)
      BY <2>1, <2>2, SumMono DEF Reserved
    <2>4. /\ Committed \in Nat /\ Reserved(now) \in Nat /\ Reserved(now)' \in Nat
          /\ Sum(Keys, UsedLate) \in Nat /\ topLimit \in Nat
      BY SumsTyped, SumType DEF IInv, TypeOK, Reserved
    <2>5. QuotaBound
      BY DEF IInv
    <2> QED BY <1>1, <2>3, <2>4, <2>5 DEF QuotaBound
  <1> QED BY <1>2, <1>3, <1>5, <1>6 DEF Bucket

\* The period is closed when nothing can be committed any more.
LEMMA CloseEffect ==
    ASSUME IInv, TypeOK', NEW at \in 0..MaxTime, at <= now, ~Closed,
           \A r \in Reservations : ~Active(r, at),
           rollup' = [qty |-> Committed, count |-> Cardinality(Facts)],
           UNCHANGED <<now, limit, topLimit, facts, resv, late>>
    PROVE  Bucket'
  <1>1. Facts' = Facts /\ Committed' = Committed /\ Sum(Keys, UsedLate') = Sum(Keys, UsedLate)
    BY DEF Facts, Committed, Used, UsedLate
  <1>2. RollupExact'
    BY <1>1 DEF RollupExact
  <1>3. NoneStranded'
    <2>1. \A r \in Reservations : ~Active(r, now)
      BY HeldFades DEF IInv, TypeOK
    <2> QED BY <2>1 DEF NoneStranded, Active
  <1>4. Substance' /\ ChargedOnce'
    BY <1>1 DEF IInv, Substance, ChargedOnce
  <1>5. Reserved(now)' = Reserved(now)
    BY DEF Reserved, Held, Active
  <1>6. QuotaBound'
    BY <1>1, <1>5 DEF IInv, QuotaBound
  <1> QED BY <1>2, <1>3, <1>4, <1>6 DEF Bucket

-----------------------------------------------------------------------------
\* The steps.

CallRec == [pc : {"idle", "limit", "clock", "store"}, op : Ops, key : SUBSET Keys,
            res : SUBSET Reservations, rel : SUBSET ReleaseKeys, qty : 0..MaxQuantity,
            rev : 0..MaxRevision, lim : Nat, at : 0..MaxTime]

\* A reservation that was made keeps its quantity.
Keeps == \A r \in Reservations :
           resv[r].st # "none" => resv'[r].st # "none" /\ resv'[r].qty = resv[r].qty

\* The other calls know what they knew.
LEMMA OthersKnow ==
    ASSUME IInv, NEW c \in Calls, call' \in [Calls -> CallRec],
           \A d \in Calls : d # c => call'[d] = call[d],
           Keeps, now <= now', topLimit <= topLimit', TypeOK',
           CallKnows(c)'
    PROVE  CallsKnow'
  <1> SUFFICES ASSUME NEW d \in Calls, d # c PROVE CallKnows(d)'
    BY DEF CallsKnow
  <1>1. call'[d] = call[d] /\ CallKnows(d)
    BY DEF IInv, CallsKnow
  <1>2. /\ call[d].at \in Nat /\ now \in Nat /\ now' \in Nat /\ call[d].lim \in Nat
        /\ topLimit \in Nat /\ topLimit' \in Nat /\ call[d].res \subseteq Reservations
    BY DEF IInv, TypeOK
  <1> QED BY <1>1, <1>2 DEF CallKnows, Keeps

\* Nobody moves: the clock, the sweep, the binding, the entitlement.
LEMMA AllKnow ==
    ASSUME IInv, call' = call, Keeps, now <= now', topLimit <= topLimit', TypeOK'
    PROVE  CallsKnow'
  <1> SUFFICES ASSUME NEW d \in Calls PROVE CallKnows(d)'
    BY DEF CallsKnow
  <1>1. call'[d] = call[d] /\ CallKnows(d)
    BY DEF IInv, CallsKnow
  <1>2. /\ call[d].at \in Nat /\ now \in Nat /\ now' \in Nat /\ call[d].lim \in Nat
        /\ topLimit \in Nat /\ topLimit' \in Nat /\ call[d].res \subseteq Reservations
    BY DEF IInv, TypeOK
  <1> QED BY <1>1, <1>2 DEF CallKnows, Keeps

\* A call that returns is a call again, and knows nothing.
LEMMA Returned ==
    ASSUME IInv, NEW c \in Calls, Return(c)
    PROVE  /\ call' \in [Calls -> CallRec] /\ call'[c] = NoCall
           /\ \A d \in Calls : d # c => call'[d] = call[d]
  <1>1. NoCall \in CallRec
    BY DEF NoCall, CallRec, Ops
  <1>2. call \in [Calls -> CallRec]
    BY DEF IInv, TypeOK, CallRec
  <1> QED BY <1>1, <1>2 DEF Return

\* The reads of a call leave the bucket alone.
LEMMA BeginStep == ASSUME IInv, NEW c \in Calls, BeginCall(c) PROVE IInv'
  <1>1. PICK op \in Ops, key \in SUBSET Keys, rs \in SUBSET Reservations,
             rel \in SUBSET ReleaseKeys, qty \in Quantity :
          /\ Begin(c, op, key, rs, rel, qty)
          /\ op \in {"append", "reserve"} => qty \in Quantities
          /\ op = "commit" => \A r \in rs : resv[r].st # "none" /\ qty = resv[r].qty
    <2>1. \A n \in Quantities : n \in Quantity
      BY DEF Quantities, Quantity
    <2>2. 0 \in Quantity /\ \A r \in Reservations : resv[r].qty \in Quantity
      BY DEF Quantity, IInv, TypeOK
    <2>3. {"append", "reserve", "commit", "release", "close"} = Ops
      BY DEF Ops
    <2> USE <2>1, <2>2, <2>3
    <2>4. CASE \E k \in Keys, n \in Quantities : Begin(c, "append", {k}, {}, {}, n)
      <3> PICK k \in Keys, n \in Quantities : Begin(c, "append", {k}, {}, {}, n)
        BY <2>4
      <3> WITNESS "append" \in Ops, {k} \in SUBSET Keys, {} \in SUBSET Reservations,
                  {} \in SUBSET ReleaseKeys, n \in Quantity
      <3> QED OBVIOUS
    <2>5. CASE \E r \in Reservations, n \in Quantities : Begin(c, "reserve", {}, {r}, {}, n)
      <3> PICK r \in Reservations, n \in Quantities : Begin(c, "reserve", {}, {r}, {}, n)
        BY <2>5
      <3> WITNESS "reserve" \in Ops, {} \in SUBSET Keys, {r} \in SUBSET Reservations,
                  {} \in SUBSET ReleaseKeys, n \in Quantity
      <3> QED OBVIOUS
    <2>6. CASE \E r \in Reservations, k \in Keys :
                 resv[r].st # "none" /\ Begin(c, "commit", {k}, {r}, {}, resv[r].qty)
      <3> PICK r \in Reservations, k \in Keys :
                 resv[r].st # "none" /\ Begin(c, "commit", {k}, {r}, {}, resv[r].qty)
        BY <2>6
      <3> WITNESS "commit" \in Ops, {k} \in SUBSET Keys, {r} \in SUBSET Reservations,
                  {} \in SUBSET ReleaseKeys, resv[r].qty \in Quantity
      <3> QED OBVIOUS
    <2>7. CASE \E r \in Reservations, x \in ReleaseKeys : Begin(c, "release", {}, {r}, {x}, 0)
      <3> PICK r \in Reservations, x \in ReleaseKeys : Begin(c, "release", {}, {r}, {x}, 0)
        BY <2>7
      <3> WITNESS "release" \in Ops, {} \in SUBSET Keys, {r} \in SUBSET Reservations,
                  {x} \in SUBSET ReleaseKeys, 0 \in Quantity
      <3> QED OBVIOUS
    <2>8. CASE Begin(c, "close", {}, {}, {}, 0)
      <3> WITNESS "close" \in Ops, {} \in SUBSET Keys, {} \in SUBSET Reservations,
                  {} \in SUBSET ReleaseKeys, 0 \in Quantity
      <3> QED BY <2>8
    <2> QED BY <2>4, <2>5, <2>6, <2>7, <2>8 DEF BeginCall
  <1> DEFINE new == [pc |-> IF op \in {"append", "reserve"} THEN "limit" ELSE "clock",
                     op |-> op, key |-> key, res |-> rs, rel |-> rel, qty |-> qty,
                     rev |-> binding.rev, lim |-> 0, at |-> 0]
  <1>2. /\ call' = [call EXCEPT ![c] = new]
        /\ UNCHANGED <<now, limit, topLimit, binding, facts, resv, relKey, rollup, late>>
    BY <1>1 DEF Begin
  <1>3. new \in CallRec
    BY DEF CallRec, IInv, TypeOK, Quantity
  <1>4. new.pc # "store" /\ new.lim = 0 /\ new.op = op /\ new.qty = qty /\ new.res = rs
    OBVIOUS
  <1> HIDE DEF new
  <1>5. /\ call' \in [Calls -> CallRec] /\ call'[c] = new
        /\ \A d \in Calls : d # c => call'[d] = call[d]
    BY <1>2, <1>3 DEF IInv, TypeOK, CallRec
  <1>6. TypeOK'
    BY <1>2, <1>5 DEF IInv, TypeOK, CallRec
  <1>7. CallKnows(c)'
    BY <1>1, <1>2, <1>4, <1>5 DEF CallKnows, IInv, TypeOK
  <1>8. now <= now' /\ topLimit <= topLimit' /\ limit' <= topLimit'
    BY <1>2 DEF IInv, TypeOK, Substance
  <1>9. CallsKnow'
    BY <1>2, <1>5, <1>6, <1>7, <1>8, OthersKnow DEF Keeps
  <1> QED BY <1>2, <1>6, <1>8, <1>9, QuietEffect DEF IInv, Bucket

\* Reading the entitlement or the clock changes nothing in the store.
LEMMA ReadStep == ASSUME IInv, NEW c \in Calls, ReadLimit(c) \/ ReadClock(c) PROVE IInv'
  <1>1. UNCHANGED <<now, limit, topLimit, binding, facts, resv, relKey, rollup, late>>
    BY DEF ReadLimit, ReadClock
  <1>2. call \in [Calls -> CallRec]
    BY DEF IInv, TypeOK, CallRec
  <1>3. /\ call' \in [Calls -> CallRec]
        /\ \A d \in Calls : d # c => call'[d] = call[d]
        /\ call'[c].op = call[c].op /\ call'[c].qty = call[c].qty /\ call'[c].res = call[c].res
        /\ call[c].pc # "idle"
        /\ \/ call'[c].pc = "clock" /\ call'[c].lim = limit
           \/ call'[c].lim = call[c].lim /\ call'[c].at = now
    <2>1. limit \in Nat /\ now \in 0..MaxTime
      BY DEF IInv, TypeOK
    <2>2. CASE ReadLimit(c)
      BY <1>2, <2>1, <2>2 DEF ReadLimit, CallRec
    <2>3. CASE ReadClock(c)
      BY <1>2, <2>1, <2>3 DEF ReadClock, CallRec
    <2> QED BY <2>2, <2>3
  <1>4. TypeOK'
    BY <1>1, <1>3 DEF IInv, TypeOK, CallRec
  <1>5. CallKnows(c)'
    <2>1. CallKnows(c) /\ limit <= topLimit /\ now <= now
      BY DEF IInv, CallsKnow, Substance, TypeOK
    <2> QED BY <1>1, <1>3, <2>1 DEF CallKnows
  <1>6. now <= now' /\ topLimit <= topLimit' /\ limit' <= topLimit'
    BY <1>1 DEF IInv, TypeOK, Substance
  <1>7. CallsKnow'
    BY <1>1, <1>3, <1>4, <1>5, <1>6, OthersKnow DEF Keeps
  <1> QED BY <1>1, <1>4, <1>6, <1>7, QuietEffect DEF IInv, Bucket

\* A store call that has returned: what is left to show is the type and the bucket.
LEMMA StoreStep ==
    ASSUME IInv, NEW c \in Calls, Return(c), TypeOK', Keeps, Bucket',
           UNCHANGED <<now, limit, topLimit>>
    PROVE  IInv'
  <1>1. now <= now' /\ topLimit <= topLimit'
    BY DEF IInv, TypeOK
  <1>2. CallKnows(c)'
    BY Returned DEF CallKnows, NoCall, TypeOK
  <1>3. CallsKnow'
    BY <1>1, <1>2, Returned, OthersKnow
  <1> QED BY <1>3 DEF IInv, Bucket

\* The facts of the caller at the store.
LEMMA AtStore ==
    ASSUME IInv, NEW c \in Calls, call[c].pc = "store"
    PROVE  /\ call[c].at \in 0..MaxTime /\ call[c].at <= now
           /\ call[c].lim \in Nat /\ call[c].lim <= topLimit
           /\ call[c].key \subseteq Keys /\ call[c].res \subseteq Reservations
           /\ call[c].rel \subseteq ReleaseKeys
           /\ now \in Nat /\ topLimit \in Nat /\ now <= now /\ topLimit <= topLimit
           /\ limit <= topLimit
           /\ call[c].op \in {"append", "reserve"} => call[c].qty \in Quantities
           /\ call[c].op = "commit" => \A r \in call[c].res : call[c].qty = resv[r].qty
  BY DEF IInv, TypeOK, CallsKnow, CallKnows, Substance

\* AppendFact adds a fact to an open period, once per key.
LEMMA AppendStep == ASSUME IInv, NEW c \in Calls, AppendFact(c) PROVE IInv'
  <1>1. /\ call[c].pc = "store" /\ call[c].op = "append" /\ Return(c)
        /\ UNCHANGED <<now, limit, topLimit, binding, resv, relKey, rollup, late>>
    BY DEF AppendFact, Storing
  <1>2. Keeps
    BY <1>1 DEF Keeps
  <1> PICK k \in call[c].key :
        facts' = IF /\ Authorized(c) /\ k \notin Facts /\ ~Closed
                    /\ withinLimit(call[c].qty, call[c].at, call[c].lim)
                 THEN [facts EXCEPT ![k] = [qty |-> call[c].qty, from |-> Direct]]
                 ELSE facts
    BY DEF AppendFact
  <1>3. k \in Keys /\ call[c].qty \in Quantities /\ call[c].qty \in 0..MaxQuantity
    BY <1>1, AtStore DEF Quantities
  <1>4. facts' \in [Keys -> [qty : 0..MaxQuantity, from : Reservations \cup {Direct}]]
    BY <1>3 DEF IInv, TypeOK
  <1>5. TypeOK'
    BY <1>1, <1>4, Returned DEF IInv, TypeOK, CallRec
  <1>6. CASE facts' = facts
    <2>1. Bucket'
      BY <1>1, <1>5, <1>6, AtStore, QuietEffect
    <2> QED BY <1>1, <1>2, <1>5, <2>1, StoreStep
  <1>7. CASE facts' # facts
    <2>1. Bucket'
      BY <1>1, <1>3, <1>5, <1>7, AtStore, AppendEffect
    <2> QED BY <1>1, <1>2, <1>5, <2>1, StoreStep
  <1> QED BY <1>6, <1>7

\* Reserve adds a hold to an open period within the limit it was given.
LEMMA ReserveStep == ASSUME IInv, NEW c \in Calls, Reserve(c) PROVE IInv'
  <1>1. /\ call[c].pc = "store" /\ call[c].op = "reserve" /\ Return(c)
        /\ UNCHANGED <<now, limit, topLimit, binding, facts, relKey, rollup, late>>
    BY DEF Reserve, Storing
  <1> PICK r \in call[c].res :
        resv' = IF /\ Authorized(c) /\ resv[r].st = "none" /\ ~Closed
                   /\ call[c].at < PeriodEnd
                   /\ withinLimit(call[c].qty, call[c].at, call[c].lim)
                THEN [resv EXCEPT ![r] = [st |-> "pending", qty |-> call[c].qty,
                                          expires |-> call[c].at + TTL]]
                ELSE resv
    BY DEF Reserve
  <1>2. /\ r \in Reservations /\ call[c].qty \in Quantities /\ call[c].qty \in 0..MaxQuantity
        /\ call[c].at + TTL \in 0..(MaxTime + TTL) /\ call[c].at + TTL \in Nat
    BY <1>1, AtStore DEF Quantities
  <1>3. resv' \in [Reservations -> [st : {"none", "pending", "committed", "released", "expired"},
                                    qty : 0..MaxQuantity, expires : 0..(MaxTime + TTL)]]
    BY <1>2 DEF IInv, TypeOK
  <1>4. TypeOK'
    BY <1>1, <1>3, Returned DEF IInv, TypeOK, CallRec
  <1>5. Keeps
    BY DEF IInv, TypeOK, Keeps
  <1>6. CASE resv' = resv
    <2>1. Bucket'
      BY <1>1, <1>4, <1>6, AtStore, QuietEffect
    <2> QED BY <1>1, <1>4, <1>5, <2>1, StoreStep
  <1>7. CASE resv' # resv
    <2>1. Bucket'
      BY <1>1, <1>2, <1>4, <1>7, AtStore, ReserveEffect
    <2> QED BY <1>1, <1>4, <1>5, <2>1, StoreStep
  <1> QED BY <1>6, <1>7

\* A commit turns the hold into one fact of its quantity.
LEMMA CommitStep == ASSUME IInv, NEW c \in Calls, CommitReservation(c) PROVE IInv'
  <1>1. /\ call[c].pc = "store" /\ call[c].op = "commit" /\ Return(c)
        /\ UNCHANGED <<now, limit, topLimit, binding, relKey, rollup>>
    BY DEF CommitReservation, Storing
  <1> PICK r \in call[c].res, k \in call[c].key :
        IF Authorized(c) /\ Active(r, call[c].at) /\ ~Closed /\ k \notin Facts
        THEN /\ facts' = [facts EXCEPT ![k] = [qty |-> call[c].qty, from |-> r]]
             /\ resv' = [resv EXCEPT ![r].st = "committed"]
             /\ late' = IF resv[r].expires > now THEN late ELSE late \cup {k}
        ELSE UNCHANGED <<facts, resv, late>>
    BY DEF CommitReservation
  <1>2. r \in Reservations /\ k \in Keys /\ call[c].qty = resv[r].qty
    BY <1>1, AtStore
  <1>3. CASE UNCHANGED <<facts, resv, late>>
    <2>1. TypeOK'
      BY <1>1, <1>3, Returned DEF IInv, TypeOK, CallRec
    <2>2. Bucket'
      BY <1>1, <1>3, <2>1, AtStore, QuietEffect
    <2> QED BY <1>1, <1>3, <2>1, <2>2, StoreStep DEF Keeps
  <1>4. CASE /\ Active(r, call[c].at) /\ ~Closed /\ k \notin Facts
             /\ facts' = [facts EXCEPT ![k] = [qty |-> call[c].qty, from |-> r]]
             /\ resv' = [resv EXCEPT ![r].st = "committed"]
             /\ late' = IF resv[r].expires > now THEN late ELSE late \cup {k}
    <2>1. resv[r].st = "pending" /\ resv[r].qty \in 0..MaxQuantity
      BY <1>2, <1>4 DEF Active, IInv, TypeOK
    <2>2. facts' \in [Keys -> [qty : 0..MaxQuantity, from : Reservations \cup {Direct}]]
      BY <1>2, <1>4, <2>1 DEF IInv, TypeOK
    <2>3. /\ resv' \in [Reservations -> [st : {"none", "pending", "committed", "released",
                                               "expired"},
                                         qty : 0..MaxQuantity, expires : 0..(MaxTime + TTL)]]
          /\ Keeps
      BY <1>2, <1>4 DEF IInv, TypeOK, Keeps
    <2>4. TypeOK'
      <3>1. late' \subseteq Keys
        BY <1>2, <1>4 DEF IInv, TypeOK
      <3> QED BY <1>1, <2>2, <2>3, <3>1, Returned DEF IInv, TypeOK, CallRec
    <2>5. Bucket'
      BY <1>1, <1>2, <1>4, <2>1, <2>4, CommitEffect
    <2> QED BY <1>1, <2>3, <2>4, <2>5, StoreStep
  <1> QED BY <1>3, <1>4

\* A release gives the hold back without a fact.
LEMMA ReleaseStep == ASSUME IInv, NEW c \in Calls, ReleaseReservation(c) PROVE IInv'
  <1>1. /\ call[c].pc = "store" /\ Return(c)
        /\ UNCHANGED <<now, limit, topLimit, binding, facts, rollup, late>>
    BY DEF ReleaseReservation, Storing
  <1>2. PICK r \in call[c].res, x \in call[c].rel :
        /\ \/ resv' = resv
           \/ /\ resv[r].st = "pending"
              /\ \E end \in {"released", "expired"} : resv' = [resv EXCEPT ![r].st = end]
        /\ relKey' = relKey \/ relKey' = [relKey EXCEPT ![x] = {r}]
    BY DEF ReleaseReservation
  <1>3. r \in Reservations /\ x \in ReleaseKeys
    BY <1>1, AtStore
  <1>4. /\ resv' \in [Reservations -> [st : {"none", "pending", "committed", "released",
                                             "expired"},
                                       qty : 0..MaxQuantity, expires : 0..(MaxTime + TTL)]]
        /\ Keeps
        /\ \A s \in Reservations :
             \/ resv'[s] = resv[s]
             \/ /\ resv[s].st = "pending" /\ resv'[s].st \in {"released", "expired"}
                /\ resv'[s].qty = resv[s].qty
    <2>1. CASE resv' = resv
      BY <2>1 DEF IInv, TypeOK, Keeps
    <2>2. ASSUME resv[r].st = "pending", NEW end \in {"released", "expired"},
                 resv' = [resv EXCEPT ![r].st = end]
          PROVE  <1>4!1 /\ <1>4!2 /\ <1>4!3
      BY <1>3, <2>2 DEF IInv, TypeOK, Keeps
    <2> QED BY <1>2, <2>1, <2>2
  <1>5. relKey' \in [ReleaseKeys -> SUBSET Reservations]
    BY <1>2, <1>3 DEF IInv, TypeOK
  <1>6. TypeOK'
    BY <1>1, <1>4, <1>5, Returned DEF IInv, TypeOK, CallRec
  <1>7. Bucket'
    BY <1>1, <1>4, <1>6, EndEffect
  <1> QED BY <1>1, <1>4, <1>6, <1>7, StoreStep

\* Closing needs a period without holds and sums up its facts.
LEMMA CloseStep == ASSUME IInv, NEW c \in Calls, ClosePeriod(c) PROVE IInv'
  <1>1. /\ call[c].pc = "store" /\ Return(c)
        /\ UNCHANGED <<now, limit, topLimit, binding, facts, resv, relKey, late>>
    BY DEF ClosePeriod, Storing
  <1>2. \/ rollup' = rollup
        \/ /\ ~Closed /\ \A r \in Reservations : ~Active(r, call[c].at)
           /\ rollup' = [qty |-> Committed, count |-> Cardinality(Facts)]
    BY DEF ClosePeriod
  <1>3. rollup' \in [qty : Int, count : Nat]
    <2>1. Committed \in Nat /\ Cardinality(Facts) \in Nat
      BY SumsTyped DEF IInv
    <2> QED BY <1>2, <2>1 DEF IInv, TypeOK
  <1>4. TypeOK' /\ Keeps
    BY <1>1, <1>3, Returned DEF IInv, TypeOK, CallRec, Keeps
  <1>5. CASE rollup' = rollup
    <2>1. Bucket'
      BY <1>1, <1>4, <1>5, AtStore, QuietEffect
    <2> QED BY <1>1, <1>4, <2>1, StoreStep
  <1>6. CASE rollup' # rollup
    <2>1. Bucket'
      BY <1>1, <1>2, <1>4, <1>6, AtStore, CloseEffect
    <2> QED BY <1>1, <1>4, <2>1, StoreStep
  <1> QED BY <1>5, <1>6

\* The sweep only ends holds that have expired.
LEMMA SweepStep == ASSUME IInv, Sweep PROVE IInv'
  <1>1. UNCHANGED <<now, limit, topLimit, binding, facts, relKey, rollup, call, late>>
    BY DEF Sweep
  <1> PICK some \in SUBSET {r \in Reservations : resv[r].st = "pending" /\ ~Active(r, now)} :
        resv' = [r \in Reservations |->
                   IF r \in some THEN [resv[r] EXCEPT !.st = "expired"] ELSE resv[r]]
    BY DEF Sweep
  <1>2. /\ resv' \in [Reservations -> [st : {"none", "pending", "committed", "released",
                                             "expired"},
                                       qty : 0..MaxQuantity, expires : 0..(MaxTime + TTL)]]
        /\ Keeps
        /\ \A s \in Reservations :
             \/ resv'[s] = resv[s]
             \/ /\ resv[s].st = "pending" /\ resv'[s].st \in {"released", "expired"}
                /\ resv'[s].qty = resv[s].qty
    BY DEF IInv, TypeOK, Keeps
  <1>3. TypeOK' /\ now <= now' /\ topLimit <= topLimit'
    BY <1>1, <1>2 DEF IInv, TypeOK
  <1>4. Bucket'
    BY <1>1, <1>2, <1>3, EndEffect
  <1>5. CallsKnow'
    BY <1>1, <1>2, <1>3, AllKnow
  <1> QED BY <1>3, <1>4, <1>5 DEF IInv, Bucket

\* The clock, the entitlement and the source binding change outside the store.
LEMMA OutsideStep ==
    ASSUME IInv, Tick \/ SaveSourceBinding \/ ChangeLimit \/ UNCHANGED vars
    PROVE  IInv'
  <1>1. UNCHANGED <<facts, resv, relKey, rollup, call, late>>
    BY DEF Tick, SaveSourceBinding, ChangeLimit, vars
  <1>2. now <= now' /\ topLimit <= topLimit' /\ limit' <= topLimit'
    BY DEF Tick, SaveSourceBinding, ChangeLimit, vars, IInv, TypeOK, Substance
  <1>3. TypeOK'
    BY <1>1 DEF Tick, SaveSourceBinding, ChangeLimit, vars, IInv, TypeOK
  <1>4. CallsKnow'
    BY <1>1, <1>2, <1>3, AllKnow DEF Keeps
  <1> QED BY <1>1, <1>2, <1>3, <1>4, QuietEffect DEF IInv, Bucket

\* Every step preserves the invariant.
LEMMA NextIInv == IInv /\ [Next]_vars => IInv'
  <1> SUFFICES ASSUME IInv, [Next]_vars PROVE IInv'
    OBVIOUS
  <1>1. ASSUME NEW c \in Calls, BeginCall(c) \/ ReadLimit(c) \/ ReadClock(c) PROVE IInv'
    BY <1>1, BeginStep, ReadStep
  <1>2. ASSUME NEW c \in Calls, StoreCall(c) PROVE IInv'
    BY <1>2, AppendStep, ReserveStep, CommitStep, ReleaseStep, CloseStep DEF StoreCall
  <1>3. CASE Tick \/ SaveSourceBinding \/ ChangeLimit \/ UNCHANGED vars
    BY <1>3, OutsideStep
  <1>4. CASE Sweep
    BY <1>4, SweepStep
  <1> QED BY <1>1, <1>2, <1>3, <1>4 DEF Next

\* The inductive invariant holds of every behaviour.
LEMMA InvariantHolds == Spec => []IInv
  BY InitIInv, NextIInv, PTL DEF Spec

-----------------------------------------------------------------------------
\* The ledger is well typed.
THEOREM TypeCorrect == Spec => []TypeOK
  <1>1. IInv => TypeOK
    BY DEF IInv
  <1> QED BY <1>1, InvariantHolds, PTL

\* A closed period's rollup (ClosePeriod) equals its facts for ever.
THEOREM ClosedIsExact == Spec => []RollupExact
  <1>1. IInv => RollupExact
    BY DEF IInv
  <1> QED BY <1>1, InvariantHolds, PTL

\* No period is closed over a reservation that can still be committed (Reserve, ClosePeriod).
THEOREM NoReservationStranded == Spec => []NoneStranded
  <1>1. IInv => NoneStranded
    BY DEF IInv
  <1> QED BY <1>1, InvariantHolds, PTL

\* A committed reservation is charged exactly once, any other never.
THEOREM ReservationsChargedOnce == Spec => []ChargedOnce
  <1>1. IInv => ChargedOnce
    BY DEF IInv
  <1> QED BY <1>1, InvariantHolds, PTL

\* Usage and held room exceed the highest limit by no more than the late commits.
THEOREM QuotaHolds == Spec => []QuotaBound
  <1>1. IInv => QuotaBound
    BY DEF IInv
  <1> QED BY <1>1, InvariantHolds, PTL

\* A call authorized by a revoked binding writes nothing.
THEOREM RevokedStops == Spec => RevokedSourceStops
  <1> DEFINE A == \A c \in Calls :
          call[c].pc = "store" /\ call'[c].pc = "idle" /\ <<facts', resv'>> # <<facts, resv>>
              => binding.on /\ binding.rev = call[c].rev
  <1>1. ASSUME IInv, [Next]_vars, NEW c \in Calls, call[c].pc = "store", call'[c].pc = "idle",
               <<facts', resv'>> # <<facts, resv>>
        PROVE  binding.on /\ binding.rev = call[c].rev
    <2>0. facts' # facts \/ resv' # resv
      BY <1>1
    <2>1. ASSUME NEW d \in Calls, StoreCall(d) PROVE binding.on /\ binding.rev = call[c].rev
      <3>1. Return(d)
        BY <2>1 DEF StoreCall, AppendFact, Reserve, CommitReservation, ReleaseReservation,
                    ClosePeriod
      <3>2. d = c
        BY <1>1, <3>1, Returned
      <3>3. Authorized(d)
        BY <2>0, <2>1 DEF StoreCall, AppendFact, Reserve, CommitReservation,
                          ReleaseReservation, ClosePeriod
      <3> QED BY <3>2, <3>3 DEF Authorized
    <2>2. ASSUME NEW d \in Calls, BeginCall(d) \/ ReadLimit(d) \/ ReadClock(d) PROVE FALSE
      BY <2>0, <2>2 DEF BeginCall, Begin, ReadLimit, ReadClock
    <2>3. CASE Tick \/ SaveSourceBinding \/ ChangeLimit \/ UNCHANGED vars
      BY <2>0, <2>3 DEF Tick, SaveSourceBinding, ChangeLimit, vars
    <2>4. CASE Sweep
      BY <1>1, <2>4 DEF Sweep
    <2> QED BY <1>1, <2>1, <2>2, <2>3, <2>4 DEF Next
  <1>2. IInv /\ [Next]_vars => [A]_vars
    BY <1>1
  <1> QED BY <1>2, InvariantHolds, PTL DEF Spec, RevokedSourceStops

=============================================================================
