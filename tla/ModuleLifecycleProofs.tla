----------------------- MODULE ModuleLifecycleProofs -----------------------
(***************************************************************************)
(* For any catalog of modules, any callers and any number of generations,  *)
(* with or without failing callbacks: leases, dependencies and drains.     *)
(*                                                                         *)
(* The invariant is proved in layers.  Slots: where a transition stands    *)
(* fixes its slot.  Over it, independently: drained generations are free   *)
(* (Free), retirements start once (Once), instances hold the leases they   *)
(* were given (Given), and only unpublished generations drain (Draining).  *)
(***************************************************************************)
EXTENDS ModuleLifecycle, TLAPS

USE LifecycleAssumption

TransRec == [pc : TransPC, prev : 0..MaxGen, cand : 0..MaxGen]
Building == {"prepare", "launch", "commit", "drain", "finish", "cleanup", "wait"}
Hidden   == {"prepare", "launch", "commit", "cleanup"}   \* the candidate is nobody's yet

-----------------------------------------------------------------------------
\* Layer 1: slots.

\* Where a transition stands fixes its slot.
SlotOK(m) ==
    /\ current[m] <= next[m] /\ trans[m].prev <= next[m]
    /\ trans[m].pc \in {"check", "lease"} => next[m] < MaxGen
    /\ trans[m].pc \in Building =>
         trans[m].cand = next[m] /\ trans[m].cand > 0 /\ trans[m].prev < trans[m].cand
    /\ trans[m].pc \in Hidden \cup {"wait"} => current[m] < trans[m].cand
    /\ trans[m].pc \in {"drain", "finish"} => current[m] = trans[m].cand
    /\ trans[m].pc \in {"unpublish", "retire"} => trans[m].prev > 0
    /\ trans[m].pc = "unpublish" => current[m] = trans[m].prev
    /\ trans[m].pc = "retire" => current[m] = None
    /\ trans[m].pc \in {"drain", "unpublish"} => locked = m

\* graphMu, the closed flag and closeAll.
LockOK ==
    /\ closed <=> closer # "off"
    /\ closer \in {"detach", "draining", "done"} => \A m \in Modules : trans[m].pc = "idle"
    /\ locked # NoModule => \/ trans[locked].pc \in {"drain", "unpublish"}
                            \/ closer = "detach" /\ current[locked] # None

Slots == TypeOK /\ LockOK /\ \A m \in Modules : SlotOK(m)

\* A step of one slot leaves the others alone.
LEMMA OneSlot ==
    ASSUME Slots, NEW m \in Modules, SlotOK(m)',
           \A k \in Modules : k # m => /\ trans'[k] = trans[k] /\ current'[k] = current[k]
                                       /\ next'[k] = next[k],
           locked' = locked \/ locked = NoModule \/ locked = m
    PROVE  \A k \in Modules : SlotOK(k)'
  <1> SUFFICES ASSUME NEW k \in Modules, k # m PROVE SlotOK(k)'
    OBVIOUS
  <1>1. SlotOK(k)
    BY DEF Slots
  <1>2. trans[k].pc \in {"drain", "unpublish"} => locked' = k
    BY <1>1 DEF SlotOK
  <1> QED BY <1>1, <1>2 DEF SlotOK

\* Moving a transition on keeps what it carries.
LEMMA MovesTo ==
    ASSUME TypeOK, NEW m \in Modules, NEW pc \in TransPC, Moves(m, pc)
    PROVE  /\ trans' \in [Modules -> TransRec]
           /\ trans'[m].pc = pc /\ trans'[m].prev = trans[m].prev /\ trans'[m].cand = trans[m].cand
           /\ \A k \in Modules : k # m => trans'[k] = trans[k]
  BY DEF TypeOK, Moves, TransRec

\* Replacing a transition.
LEMMA Becomes ==
    ASSUME TypeOK, NEW m \in Modules, NEW t \in TransRec, trans' = [trans EXCEPT ![m] = t]
    PROVE  /\ trans' \in [Modules -> TransRec] /\ trans'[m] = t
           /\ \A k \in Modules : k # m => trans'[k] = trans[k]
  BY DEF TypeOK, TransRec

\* The transition of a slot at rest.
LEMMA IdleTyped == Idle \in TransRec /\ Idle.pc = "idle" /\ Idle.prev = 0 /\ Idle.cand = 0
  BY DEF Idle, TransRec, TransPC, None

\* Draining a generation.
LEMMA DrainTyped ==
    ASSUME TypeOK, NEW g \in Gens, BeginDrain(g)
    PROVE  /\ draining' \subseteq Gens /\ drained' \subseteq Gens
           /\ draining' = draining \cup {g}
           /\ drained' = drained \/ drained' = drained \cup {g}
  BY DEF TypeOK, BeginDrain

\* Layer 1 holds at the start.
LEMMA InitSlots == Init => Slots
  <1> SUFFICES ASSUME Init PROVE Slots
    OBVIOUS
  <1>1. /\ trans \in [Modules -> TransRec]
        /\ \A m \in Modules : trans[m] = Idle /\ current[m] = 0 /\ next[m] = 0
    BY IdleTyped DEF Init, None
  <1>2. /\ current \in [Modules -> 0..MaxGen] /\ next \in [Modules -> 0..MaxGen]
        /\ deps \in [Gens -> SUBSET Gens] /\ task \in [Gens -> Tasks]
    BY DEF Init, None, Tasks
  <1>3. /\ call \in [Callers -> [pc : {"idle", "loaded", "recheck", "again", "held", "refused"},
                                 mod : Modules \cup {NoModule}, gen : 0..MaxGen]]
        /\ \A c \in Callers : call[c].pc = "idle"
    BY DEF Init, Quiet, None
  <1>4. TypeOK
    BY <1>1, <1>2, <1>3 DEF Init, TypeOK, TransRec
  <1>5. LockOK /\ \A m \in Modules : SlotOK(m)
    BY <1>1, IdleTyped DEF Init, LockOK, SlotOK, Building, Hidden
  <1> QED BY <1>4, <1>5 DEF Slots

\* A step that touches no slot.
LEMMA SlotsFrame ==
    ASSUME Slots, TypeOK', UNCHANGED <<current, next, trans, locked, closed, closer>>
    PROVE  Slots'
  BY DEF Slots, LockOK, SlotOK

\* Callers move no slot.
LEMMA CallerSlots == ASSUME Slots, NEW c \in Callers, CallerStep(c) PROVE Slots'
  <1>1. UNCHANGED <<current, next, trans, locked, draining, working, deps, task, closed, closer>>
    BY DEF CallerStep, Load, Acquire, Recheck, Return, Release, slots, leases
  <1>2. drained' \subseteq Gens
    <2>1. CASE Release(c)
      BY <2>1 DEF Release, CloseIfLast, Slots, TypeOK
    <2>2. CASE ~Release(c)
      BY <2>2 DEF CallerStep, Load, Acquire, Recheck, Return, leases, Slots, TypeOK
    <2> QED BY <2>1, <2>2
  <1>3. /\ call' \in [Callers -> [pc : {"idle", "loaded", "recheck", "again", "held", "refused"},
                                  mod : Modules \cup {NoModule}, gen : 0..MaxGen]]
        /\ \A d \in Callers : call'[d].pc # "idle" =>
              call'[d].mod \in Modules /\ call'[d].gen \in 1..MaxGen
    <2>0. TypeOK
      BY DEF Slots
    <2>1. ASSUME NEW m \in Modules, Load(c, m) PROVE <1>3!1 /\ <1>3!2
      BY <2>0, <2>1 DEF TypeOK, Load, Quiet, None
    <2>2. CASE Acquire(c)
      BY <2>0, <2>2 DEF TypeOK, Acquire
    <2>3. CASE Recheck(c)
      BY <2>0, <2>3 DEF TypeOK, Recheck
    <2>4. CASE Return(c) \/ Release(c)
      <3>1. call' = [call EXCEPT ![c] = Quiet]
        BY <2>4 DEF Return, Release
      <3>2. /\ Quiet \in [pc : {"idle", "loaded", "recheck", "again", "held", "refused"},
                           mod : Modules \cup {NoModule}, gen : 0..MaxGen]
            /\ Quiet.pc = "idle"
        BY DEF Quiet, None
      <3> QED BY <2>0, <3>1, <3>2 DEF TypeOK
    <2> QED BY <2>1, <2>2, <2>3, <2>4 DEF CallerStep
  <1>4. TypeOK'
    BY <1>1, <1>2, <1>3 DEF Slots, TypeOK
  <1> QED BY <1>1, <1>4, SlotsFrame

\* Background workers move no slot.
LEMMA WorkerSlots ==
    ASSUME Slots, NEW g \in Gens, AcquireBackground(g) \/ ReleaseBackground(g)
    PROVE  Slots'
  <1>1. TypeOK'
    BY DEF Slots, TypeOK, AcquireBackground, ReleaseBackground, CloseIfLast, slots
  <1> QED BY <1>1, SlotsFrame DEF AcquireBackground, ReleaseBackground, slots

\* Retirements move no slot.
LEMMA RetirementSlots == ASSUME Slots, NEW g \in Gens, RetirementStep(g) PROVE Slots'
  <1>1. UNCHANGED <<current, next, trans, locked, closed, closer>>
    BY DEF RetirementStep, StopGeneration, Stopped, ReleaseDependency, slots
  <1>2. TypeOK'
    <2>1. CASE StopGeneration(g) \/ Stopped(g)
      BY <2>1 DEF Slots, TypeOK, StopGeneration, Stopped, Tasks, slots, leases
    <2>2. CASE ReleaseDependency(g)
      <3>1. /\ deps' \in [Gens -> SUBSET Gens] /\ drained' \subseteq Gens
            /\ task' \in [Gens -> Tasks]
        <4>0. TypeOK /\ (drained' \subseteq Gens)
          <5>1. CASE UNCHANGED drained
            BY <5>1 DEF Slots, TypeOK
          <5>2. ASSUME NEW d \in deps[g], CloseIfLast(d) PROVE drained' \subseteq Gens
            BY <5>2 DEF Slots, TypeOK, CloseIfLast
          <5> QED BY <2>2, <5>1, <5>2 DEF ReleaseDependency, Slots
        <4>1. task' \in [Gens -> Tasks]
          BY <2>2, <4>0 DEF TypeOK, ReleaseDependency, Tasks
        <4>2. deps' \in [Gens -> SUBSET Gens]
          <5>1. ASSUME NEW d \in deps[g], deps' = [deps EXCEPT ![g] = @ \ {d}]
                PROVE  deps' \in [Gens -> SUBSET Gens]
            BY <4>0, <5>1 DEF TypeOK
          <5> QED BY <2>2, <4>0, <5>1 DEF ReleaseDependency, TypeOK
        <4> QED BY <4>0, <4>1, <4>2
      <3> QED BY <1>1, <2>2, <3>1 DEF Slots, TypeOK, ReleaseDependency
    <2> QED BY <2>1, <2>2 DEF RetirementStep
  <1> QED BY <1>1, <1>2, SlotsFrame

\* The transitions.
LEMMA BeginSlots ==
    ASSUME Slots, NEW m \in Modules, BeginActivate(m) \/ BeginDisable(m)
    PROVE  Slots'
  <1> PICK t \in TransRec :
        /\ trans' = [trans EXCEPT ![m] = t]
        /\ t.pc \in {"check", "disable"} /\ t.prev \in {None, current[m]}
        /\ t.pc = "check" => next[m] < MaxGen
    <2>1. CASE BeginActivate(m)
      <3> DEFINE t == [pc |-> "check", prev |-> current[m], cand |-> None]
      <3>1. t \in TransRec
        BY DEF Slots, TypeOK, TransRec, TransPC, None
      <3> QED BY <2>1, <3>1 DEF BeginActivate
    <2>2. CASE BeginDisable(m)
      <3> DEFINE t == [pc |-> "disable", prev |-> None, cand |-> None]
      <3>1. t \in TransRec
        BY DEF TransRec, TransPC, None
      <3> QED BY <2>2, <3>1 DEF BeginDisable
    <2> QED BY <2>1, <2>2
  <1>1. UNCHANGED <<current, next, locked, leases, task, call, closed, closer>> /\ ~closed
    BY DEF BeginActivate, BeginDisable
  <1>2. trans[m].pc = "idle"
    BY DEF BeginActivate, BeginDisable
  <1>3. /\ trans' \in [Modules -> TransRec] /\ trans'[m] = t
        /\ \A k \in Modules : k # m => trans'[k] = trans[k]
    BY Becomes DEF Slots
  <1>4. TypeOK'
    BY <1>1, <1>3 DEF Slots, TypeOK, TransRec, leases
  <1>5. SlotOK(m)'
    BY <1>1, <1>3 DEF Slots, TypeOK, SlotOK, Building, Hidden, None
  <1>6. LockOK'
    BY <1>1, <1>2, <1>3 DEF Slots, LockOK, TypeOK
  <1> QED BY <1>1, <1>3, <1>4, <1>5, <1>6, OneSlot DEF Slots

\* rejectActiveDependents lets the activation go on or ends it.
LEMMA CheckSlots == ASSUME Slots, NEW m \in Modules, CheckDependents(m) PROVE Slots'
  <1>1. UNCHANGED <<current, next, locked, leases, task, call, closed, closer>>
        /\ trans[m].pc = "check"
    BY DEF CheckDependents
  <1>2. \/ trans' = [trans EXCEPT ![m] = Idle]
        \/ Moves(m, "lease")
    BY DEF CheckDependents, Moves
  <1>3. /\ trans' \in [Modules -> TransRec]
        /\ \/ trans'[m] = Idle
           \/ trans'[m].pc = "lease" /\ trans'[m].prev = trans[m].prev
        /\ \A k \in Modules : k # m => trans'[k] = trans[k]
    BY <1>2, Becomes, MovesTo, IdleTyped DEF Slots, TransPC
  <1>4. TypeOK'
    BY <1>1, <1>3 DEF Slots, TypeOK, TransRec, leases
  <1>5. SlotOK(m)'
    BY <1>1, <1>3, IdleTyped DEF Slots, TypeOK, SlotOK, Building, Hidden
  <1>6. LockOK'
    BY <1>1, <1>3 DEF Slots, LockOK, TypeOK
  <1> QED BY <1>1, <1>3, <1>4, <1>5, <1>6, OneSlot DEF Slots

\* acquireDependencies numbers the candidate, above the published generation.
LEMMA AcquireSlots == ASSUME Slots, NEW m \in Modules, AcquireDependencies(m) PROVE Slots'
  <1>1. /\ UNCHANGED <<current, locked, draining, drained, working, task, call, closed, closer>>
        /\ trans[m].pc = "lease" /\ locked = NoModule
    BY DEF AcquireDependencies
  <1>2. SlotOK(m) /\ TypeOK /\ next[m] + 1 \in 1..MaxGen
    BY <1>1 DEF Slots, SlotOK, TypeOK
  <1>3. CASE trans' = [trans EXCEPT ![m] = Idle] /\ UNCHANGED <<deps, next>>
    <2>1. /\ trans' \in [Modules -> TransRec] /\ trans'[m] = Idle
          /\ \A k \in Modules : k # m => trans'[k] = trans[k]
      BY <1>2, <1>3, Becomes, IdleTyped
    <2>2. TypeOK'
      BY <1>1, <1>3, <2>1 DEF Slots, TypeOK, TransRec
    <2>3. SlotOK(m)' /\ LockOK'
      BY <1>1, <1>2, <1>3, <2>1, IdleTyped
      DEF Slots, TypeOK, SlotOK, LockOK, Building, Hidden
    <2> QED BY <1>1, <1>3, <2>1, <2>2, <2>3, OneSlot DEF Slots
  <1>4. CASE /\ \A d \in Deps[m] : current[d] # None /\ <<d, current[d]>> \notin draining
             /\ deps' = [deps EXCEPT ![<<m, next[m] + 1>>] = {<<d, current[d]>> : d \in Deps[m]}]
             /\ next' = [next EXCEPT ![m] = next[m] + 1]
             /\ trans' = [trans EXCEPT ![m].pc = "prepare", ![m].cand = next[m] + 1]
    <2>1. /\ trans' \in [Modules -> TransRec]
          /\ trans'[m].pc = "prepare" /\ trans'[m].cand = next[m] + 1
          /\ trans'[m].prev = trans[m].prev
          /\ \A k \in Modules : k # m => trans'[k] = trans[k]
      <3> DEFINE t == [trans[m] EXCEPT !.pc = "prepare", !.cand = next[m] + 1]
      <3>1. trans[m] \in TransRec /\ next[m] + 1 \in 0..MaxGen
        BY <1>2 DEF TypeOK, TransRec
      <3>2. /\ t \in TransRec /\ t.pc = "prepare" /\ t.cand = next[m] + 1
            /\ t.prev = trans[m].prev
        BY <3>1 DEF TransRec, TransPC
      <3>3. trans' = [trans EXCEPT ![m] = t]
        BY <1>4
      <3> HIDE DEF t
      <3> QED BY <1>2, <3>2, <3>3, Becomes
    <2>2. /\ next' \in [Modules -> 0..MaxGen] /\ next'[m] = next[m] + 1
          /\ \A k \in Modules : k # m => next'[k] = next[k]
      BY <1>2, <1>4 DEF TypeOK
    <2>3. deps' \in [Gens -> SUBSET Gens]
      <3>1. \A d \in Deps[m] : <<d, current[d]>> \in Gens
        BY <1>2, <1>4 DEF TypeOK, Gens, None
      <3> DEFINE D == {<<d, current[d]>> : d \in Deps[m]}
      <3>2. D \in SUBSET Gens
        BY <3>1
      <3>3. deps' = [deps EXCEPT ![<<m, next[m] + 1>>] = D]
        BY <1>4
      <3> HIDE DEF D
      <3> QED BY <1>2, <3>2, <3>3 DEF TypeOK
    <2>4. TypeOK'
      BY <1>1, <2>1, <2>2, <2>3 DEF Slots, TypeOK, TransRec
    <2>5. SlotOK(m)'
      BY <1>1, <1>2, <2>1, <2>2 DEF TypeOK, SlotOK, Building, Hidden
    <2>6. LockOK'
      BY <1>1, <2>1 DEF Slots, LockOK
    <2>7. \A k \in Modules : SlotOK(k)'
      BY <1>1, <2>1, <2>2, <2>5, OneSlot
    <2> QED BY <2>4, <2>6, <2>7 DEF Slots
  <1> QED BY <1>3, <1>4 DEF AcquireDependencies

\* A candidate that is prepared, started and ready is still the slot's newest.
LEMMA PrepareSlots == ASSUME Slots, NEW m \in Modules, PrepareCandidate(m) PROVE Slots'
  <1>1. UNCHANGED <<current, next, locked, leases, task, call, closed, closer>>
        /\ trans[m].pc \in {"prepare", "launch"}
    BY DEF PrepareCandidate
  <1>2. PICK pc \in {"launch", "commit", "cleanup"} : Moves(m, pc)
    BY DEF PrepareCandidate
  <1>3. /\ trans' \in [Modules -> TransRec]
        /\ trans'[m].pc = pc /\ trans'[m].prev = trans[m].prev /\ trans'[m].cand = trans[m].cand
        /\ \A k \in Modules : k # m => trans'[k] = trans[k]
    BY <1>2, MovesTo DEF Slots, TransPC
  <1>4. TypeOK'
    BY <1>1, <1>3 DEF Slots, TypeOK, TransRec, leases
  <1>5. SlotOK(m)' /\ LockOK'
    BY <1>1, <1>3 DEF Slots, TypeOK, SlotOK, LockOK, Building, Hidden
  <1> QED BY <1>1, <1>3, <1>4, <1>5, OneSlot DEF Slots

\* commitCandidateSlot publishes the candidate under graphMu, or gives it up.
LEMMA CommitSlots == ASSUME Slots, NEW m \in Modules, CommitCandidate(m) PROVE Slots'
  <1>1. /\ UNCHANGED <<next, leases, task, call, closed, closer>>
        /\ trans[m].pc = "commit" /\ locked = NoModule
    BY DEF CommitCandidate
  <1>2. SlotOK(m) /\ TypeOK
    BY DEF Slots
  <1>3. CASE Moves(m, "cleanup") /\ UNCHANGED <<current, locked>>
    <2>1. /\ trans' \in [Modules -> TransRec]
          /\ trans'[m].pc = "cleanup" /\ trans'[m].prev = trans[m].prev
          /\ trans'[m].cand = trans[m].cand
          /\ \A k \in Modules : k # m => trans'[k] = trans[k]
      BY <1>2, <1>3, MovesTo DEF TransPC
    <2>2. TypeOK'
      BY <1>1, <1>3, <2>1 DEF Slots, TypeOK, TransRec, leases
    <2>3. SlotOK(m)' /\ LockOK'
      BY <1>1, <1>3, <2>1 DEF Slots, TypeOK, SlotOK, LockOK, Building, Hidden
    <2> QED BY <1>1, <1>3, <2>1, <2>2, <2>3, OneSlot DEF Slots
  <1>4. CASE /\ ~closed /\ Moves(m, "drain") /\ locked' = m
             /\ current' = [current EXCEPT ![m] = trans[m].cand]
    <2>1. /\ trans' \in [Modules -> TransRec]
          /\ trans'[m].pc = "drain" /\ trans'[m].prev = trans[m].prev
          /\ trans'[m].cand = trans[m].cand
          /\ \A k \in Modules : k # m => trans'[k] = trans[k]
      BY <1>2, <1>4, MovesTo DEF TransPC
    <2>2. /\ current' \in [Modules -> 0..MaxGen] /\ current'[m] = trans[m].cand
          /\ \A k \in Modules : k # m => current'[k] = current[k]
      BY <1>2, <1>4 DEF TypeOK
    <2>3. TypeOK'
      BY <1>1, <1>4, <2>1, <2>2 DEF Slots, TypeOK, TransRec, leases
    <2>4. SlotOK(m)' /\ LockOK'
      BY <1>1, <1>2, <1>4, <2>1, <2>2 DEF Slots, TypeOK, SlotOK, LockOK, Building, Hidden
    <2>5. \A k \in Modules : SlotOK(k)'
      BY <1>1, <2>1, <2>2, <2>4, OneSlot
    <2> QED BY <2>3, <2>4, <2>5 DEF Slots
  <1> QED BY <1>3, <1>4 DEF CommitCandidate

\* What a step of m's transition that ends a critical section or has none does.
LEMMA DrainSlots == ASSUME Slots, NEW m \in Modules, DrainPrevious(m) PROVE Slots'
  <1>1. /\ UNCHANGED <<current, next, working, deps, task, call, closed, closer>>
        /\ trans[m].pc = "drain" /\ locked' = NoModule
        /\ SlotOK(m) /\ TypeOK
    BY DEF DrainPrevious, Slots
  <1>2. /\ trans' \in [Modules -> TransRec]
        /\ trans'[m].pc = "finish" /\ trans'[m].prev = trans[m].prev
        /\ trans'[m].cand = trans[m].cand
        /\ \A k \in Modules : k # m => trans'[k] = trans[k]
    BY <1>1, MovesTo DEF TransPC, DrainPrevious
  <1>3. draining' \subseteq Gens /\ drained' \subseteq Gens
    <2>1. CASE trans[m].prev = None
      BY <1>1, <2>1 DEF DrainPrevious, TypeOK
    <2>2. CASE trans[m].prev # None
      <3>1. <<m, trans[m].prev>> \in Gens
        BY <1>1, <2>2 DEF TypeOK, Gens, None
      <3> QED BY <1>1, <2>2, <3>1, DrainTyped DEF DrainPrevious
    <2> QED BY <2>1, <2>2
  <1>4. TypeOK'
    BY <1>1, <1>2, <1>3 DEF TypeOK, TransRec
  <1>5. locked = m
    BY <1>1 DEF SlotOK
  <1>6. SlotOK(m)' /\ LockOK'
    BY <1>1, <1>2, <1>5 DEF Slots, TypeOK, SlotOK, LockOK, Building, Hidden
  <1>7. \A k \in Modules : SlotOK(k)'
    BY <1>1, <1>2, <1>5, <1>6, OneSlot
  <1> QED BY <1>4, <1>6, <1>7 DEF Slots

\* A transition that ends leaves its slot at rest.
LEMMA EndSlots ==
    ASSUME Slots, NEW m \in Modules, FinishCommit(m) \/ EndCleanup(m) \/ RetireDisabled(m)
    PROVE  Slots'
  <1>1. /\ UNCHANGED <<current, next, locked, leases, call, closed, closer>>
        /\ trans' = [trans EXCEPT ![m] = Idle]
        /\ trans[m].pc \in {"finish", "wait", "retire"} /\ SlotOK(m) /\ TypeOK
    BY DEF FinishCommit, EndCleanup, RetireDisabled, Slots
  <1>2. task' \in [Gens -> Tasks]
    BY DEF FinishCommit, EndCleanup, RetireDisabled, Slots, TypeOK, Tasks
  <1>3. /\ trans' \in [Modules -> TransRec] /\ trans'[m] = Idle
        /\ \A k \in Modules : k # m => trans'[k] = trans[k]
    BY <1>1, Becomes, IdleTyped
  <1>4. TypeOK'
    BY <1>1, <1>2, <1>3 DEF TypeOK, TransRec, leases
  <1>5. SlotOK(m)' /\ LockOK'
    BY <1>1, <1>3, IdleTyped DEF Slots, TypeOK, SlotOK, LockOK, Building, Hidden
  <1> QED BY <1>1, <1>3, <1>4, <1>5, OneSlot DEF Slots

\* A candidate given up was never published.
LEMMA CleanupSlots == ASSUME Slots, NEW m \in Modules, CleanupCandidate(m) PROVE Slots'
  <1>1. /\ UNCHANGED <<current, next, locked, working, deps, call, closed, closer>>
        /\ trans[m].pc = "cleanup" /\ SlotOK(m) /\ TypeOK
    BY DEF CleanupCandidate, Slots
  <1>2. /\ trans' \in [Modules -> TransRec]
        /\ trans'[m].pc = "wait" /\ trans'[m].prev = trans[m].prev
        /\ trans'[m].cand = trans[m].cand
        /\ \A k \in Modules : k # m => trans'[k] = trans[k]
    BY <1>1, MovesTo DEF TransPC, CleanupCandidate
  <1>3. Candidate(m) \in Gens
    BY <1>1 DEF TypeOK, SlotOK, Candidate, Gens, Building
  <1>4. draining' \subseteq Gens /\ drained' \subseteq Gens
    BY <1>1, <1>3, DrainTyped DEF CleanupCandidate
  <1>5. task' \in [Gens -> Tasks]
    BY <1>1 DEF CleanupCandidate, TypeOK, Tasks
  <1>6. TypeOK'
    BY <1>1, <1>2, <1>4, <1>5 DEF TypeOK, TransRec
  <1>7. SlotOK(m)' /\ LockOK'
    BY <1>1, <1>2 DEF Slots, TypeOK, SlotOK, LockOK, Building, Hidden
  <1> QED BY <1>1, <1>2, <1>6, <1>7, OneSlot DEF Slots

\* commitDisable remembers what it takes out of the slot, under graphMu.
LEMMA DisableSlots == ASSUME Slots, NEW m \in Modules, CommitDisable(m) PROVE Slots'
  <1>1. /\ UNCHANGED <<current, next, working, deps, task, call, closed, closer>>
        /\ trans[m].pc = "disable" /\ locked = NoModule /\ SlotOK(m) /\ TypeOK
    BY DEF CommitDisable, Slots
  <1>2. CASE trans' = [trans EXCEPT ![m] = Idle] /\ UNCHANGED <<locked, draining, drained>>
    <2>1. /\ trans' \in [Modules -> TransRec] /\ trans'[m] = Idle
          /\ \A k \in Modules : k # m => trans'[k] = trans[k]
      BY <1>1, <1>2, Becomes, IdleTyped
    <2>2. TypeOK'
      BY <1>1, <1>2, <2>1 DEF TypeOK, TransRec
    <2>3. SlotOK(m)' /\ LockOK'
      BY <1>1, <1>2, <2>1, IdleTyped DEF Slots, TypeOK, SlotOK, LockOK, Building, Hidden
    <2> QED BY <1>1, <1>2, <2>1, <2>2, <2>3, OneSlot DEF Slots
  <1>3. CASE /\ ~closed /\ current[m] # None
             /\ BeginDrain(<<m, current[m]>>) /\ locked' = m
             /\ trans' = [trans EXCEPT ![m] = [pc |-> "unpublish", prev |-> current[m],
                                               cand |-> None]]
    <2> DEFINE t == [pc |-> "unpublish", prev |-> current[m], cand |-> None]
    <2>1. t \in TransRec
      BY <1>1 DEF TypeOK, TransRec, TransPC, None
    <2>2. /\ trans' \in [Modules -> TransRec] /\ trans'[m] = t
          /\ \A k \in Modules : k # m => trans'[k] = trans[k]
      BY <1>1, <1>3, <2>1, Becomes
    <2>3. <<m, current[m]>> \in Gens
      BY <1>1, <1>3 DEF TypeOK, Gens, None
    <2>4. draining' \subseteq Gens /\ drained' \subseteq Gens
      BY <1>1, <1>3, <2>3, DrainTyped
    <2>5. TypeOK'
      BY <1>1, <1>3, <2>2, <2>4 DEF TypeOK, TransRec
    <2>6. SlotOK(m)' /\ LockOK'
      BY <1>1, <1>3, <2>2 DEF Slots, TypeOK, SlotOK, LockOK, Building, Hidden, None
    <2>7. \A k \in Modules : SlotOK(k)'
      BY <1>1, <2>2, <2>6, OneSlot
    <2> QED BY <2>5, <2>6, <2>7 DEF Slots
  <1> QED BY <1>2, <1>3 DEF CommitDisable

\* The disabled slot is empty when graphMu is released.
LEMMA UnpublishSlots == ASSUME Slots, NEW m \in Modules, Unpublish(m) PROVE Slots'
  <1>1. /\ UNCHANGED <<next, leases, task, call, closed, closer>>
        /\ current' = [current EXCEPT ![m] = None] /\ locked' = NoModule
        /\ trans[m].pc = "unpublish" /\ SlotOK(m) /\ TypeOK
    BY DEF Unpublish, Slots
  <1>2. /\ trans' \in [Modules -> TransRec]
        /\ trans'[m].pc = "retire" /\ trans'[m].prev = trans[m].prev
        /\ trans'[m].cand = trans[m].cand
        /\ \A k \in Modules : k # m => trans'[k] = trans[k]
    BY <1>1, MovesTo DEF TransPC, Unpublish
  <1>3. /\ current' \in [Modules -> 0..MaxGen] /\ current'[m] = None
        /\ \A k \in Modules : k # m => current'[k] = current[k]
    BY <1>1 DEF TypeOK, None
  <1>4. TypeOK'
    BY <1>1, <1>2, <1>3 DEF TypeOK, TransRec, leases
  <1>5. locked = m
    BY <1>1 DEF SlotOK
  <1>6. SlotOK(m)' /\ LockOK'
    BY <1>1, <1>2, <1>3, <1>5 DEF Slots, TypeOK, SlotOK, LockOK, Building, Hidden, None
  <1>7. \A k \in Modules : SlotOK(k)'
    BY <1>1, <1>2, <1>3, <1>5, <1>6, OneSlot
  <1> QED BY <1>4, <1>6, <1>7 DEF Slots

\* A cleanup that times out ends the transition only.
LEMMA TimeoutSlots == ASSUME Slots, NEW g \in Gens, DrainTimeout(g) PROVE Slots'
  <1> DEFINE m == g[1]
  <1>0. m \in Modules
    BY DEF Gens
  <1> HIDE DEF m
  <1>1. /\ UNCHANGED <<current, next, locked, leases, task, call, closed, closer>>
        /\ trans' = [trans EXCEPT ![m] = Idle]
        /\ trans[m].pc = "wait" /\ SlotOK(m) /\ TypeOK
    BY <1>0 DEF DrainTimeout, Slots, m
  <1>2. /\ trans' \in [Modules -> TransRec] /\ trans'[m] = Idle
        /\ \A k \in Modules : k # m => trans'[k] = trans[k]
    BY <1>0, <1>1, Becomes, IdleTyped
  <1>3. TypeOK'
    BY <1>1, <1>2 DEF TypeOK, TransRec, leases
  <1>4. SlotOK(m)' /\ LockOK'
    BY <1>0, <1>1, <1>2, IdleTyped DEF Slots, TypeOK, SlotOK, LockOK, Building, Hidden
  <1> QED BY <1>0, <1>1, <1>2, <1>3, <1>4, OneSlot DEF Slots

\* Closing detaches when no transition is under way.
LEMMA CloseSlots == ASSUME Slots, Close \/ CloseStep PROVE Slots'
  <1>1. CASE Close \/ TransitionsOver \/ AllDetached \/ CloseDone
    <2>1. UNCHANGED <<current, next, trans, locked, draining, drained, working, deps, task, call>>
      BY <1>1 DEF Close, TransitionsOver, AllDetached, CloseDone, slots, leases
    <2>2. TypeOK'
      BY <1>1, <2>1 DEF Close, TransitionsOver, AllDetached, CloseDone, Slots, TypeOK
    <2>3. \A m \in Modules : SlotOK(m)'
      BY <2>1 DEF Slots, SlotOK
    <2>4. LockOK'
      BY <1>1, <2>1
      DEF Close, TransitionsOver, AllDetached, CloseDone, Slots, LockOK, TypeOK
    <2> QED BY <2>2, <2>3, <2>4 DEF Slots
  <1>2. ASSUME NEW m \in Modules, DetachBegin(m) PROVE Slots'
    <2>1. /\ UNCHANGED <<current, next, trans, working, deps, task, call, closed, closer>>
          /\ closer = "detach" /\ locked = NoModule /\ locked' = m /\ current[m] # None
          /\ BeginDrain(<<m, current[m]>>) /\ TypeOK
      BY <1>2 DEF DetachBegin, ToDetach, Slots
    <2>2. <<m, current[m]>> \in Gens
      BY <2>1 DEF TypeOK, Gens, None
    <2>3. TypeOK'
      BY <2>1, <2>2, DrainTyped DEF TypeOK
    <2>4. \A k \in Modules : SlotOK(k)'
      BY <2>1 DEF Slots, SlotOK, LockOK
    <2>5. LockOK'
      BY <2>1 DEF Slots, LockOK
    <2> QED BY <2>3, <2>4, <2>5 DEF Slots
  <1>3. ASSUME NEW m \in Modules, DetachEnd(m) PROVE Slots'
    <2>1. /\ UNCHANGED <<next, trans, leases, call, closed, closer>>
          /\ closer = "detach" /\ locked = m /\ locked' = NoModule
          /\ current' = [current EXCEPT ![m] = None] /\ TypeOK
      BY <1>3 DEF DetachEnd, Slots
    <2>2. /\ current' \in [Modules -> 0..MaxGen] /\ current'[m] = None
          /\ \A k \in Modules : k # m => current'[k] = current[k]
      BY <2>1 DEF TypeOK, None
    <2>3. task' \in [Gens -> Tasks]
      BY <1>3, <2>1 DEF DetachEnd, TypeOK, Tasks
    <2>4. TypeOK'
      BY <2>1, <2>2, <2>3 DEF TypeOK, leases
    <2>5. \A k \in Modules : trans[k].pc = "idle"
      BY <2>1 DEF Slots, LockOK
    <2>6. \A k \in Modules : SlotOK(k)'
      BY <2>1, <2>2, <2>5 DEF Slots, SlotOK, TypeOK, Building, Hidden, None
    <2>7. LockOK'
      BY <2>1 DEF Slots, LockOK
    <2> QED BY <2>4, <2>6, <2>7 DEF Slots
  <1> QED BY <1>1, <1>2, <1>3 DEF CloseStep

\* Layer 1 is inductive.
LEMMA NextSlots == Slots /\ [Next]_vars => Slots'
  <1> SUFFICES ASSUME Slots, [Next]_vars PROVE Slots'
    OBVIOUS
  <1>1. CASE UNCHANGED vars
    <2>1. TypeOK'
      BY <1>1 DEF vars, slots, leases, Slots, TypeOK
    <2> QED BY <1>1, <2>1, SlotsFrame DEF vars, slots
  <1>2. ASSUME NEW c \in Callers, CallerStep(c) PROVE Slots'
    BY <1>2, CallerSlots
  <1>3. ASSUME NEW m \in Modules, BeginActivate(m) \/ BeginDisable(m) PROVE Slots'
    BY <1>3, BeginSlots
  <1>4. ASSUME NEW m \in Modules, TransitionStep(m) PROVE Slots'
    BY <1>4, CheckSlots, AcquireSlots, PrepareSlots, CommitSlots, DrainSlots, EndSlots,
       CleanupSlots, DisableSlots, UnpublishSlots DEF TransitionStep
  <1>5. ASSUME NEW g \in Gens, AcquireBackground(g) \/ ReleaseBackground(g) PROVE Slots'
    BY <1>5, WorkerSlots
  <1>6. ASSUME NEW g \in Gens, DrainTimeout(g) PROVE Slots'
    BY <1>6, TimeoutSlots
  <1>7. ASSUME NEW g \in Gens, RetirementStep(g) PROVE Slots'
    BY <1>7, RetirementSlots
  <1>8. CASE Close \/ CloseStep
    BY <1>8, CloseSlots
  <1> QED BY <1>1, <1>2, <1>3, <1>4, <1>5, <1>6, <1>7, <1>8 DEF Next, AtRest

-----------------------------------------------------------------------------
\* Layer 2: leases and stops.

Free == /\ drained \subseteq draining
        /\ \A g \in Gens : g \in drained => ~Leased(g)
        /\ \A g \in Gens : Ending(g) => g \in drained

\* What any step does to leases and drains: a drain is never taken back, its channel
\* closes without leases, and a new lease is on a generation that does not drain.
LeaseRules ==
    /\ draining \subseteq draining' /\ drained \subseteq drained'
    /\ \A g \in Gens : g \in drained' => g \in drained \/ (g \in draining' /\ ~Leased(g)')
    /\ \A g \in Gens : Leased(g)' => Leased(g) \/ g \notin draining

\* Leases are their holders.
LEMMA SameHolders ==
    ASSUME UNCHANGED <<call, deps, working>>, NEW g \in Gens
    PROVE  Leased(g)' <=> Leased(g)
  BY DEF Leased, Users, Dependents

\* A step that leaves leases and drains alone.
LEMMA RulesFrame ==
    ASSUME UNCHANGED <<call, deps, working, draining, drained>>
    PROVE  LeaseRules
  BY SameHolders DEF LeaseRules

\* A step that only begins a drain.
LEMMA RulesDrain ==
    ASSUME Slots, UNCHANGED <<call, deps, working>>, NEW h \in Gens, BeginDrain(h)
    PROVE  LeaseRules
  <1>1. \A g \in Gens : Leased(g)' <=> Leased(g)
    BY SameHolders
  <1> QED BY <1>1 DEF LeaseRules, BeginDrain

\* A step that only gives leases back.
LEMMA RulesRelease ==
    ASSUME Slots, UNCHANGED draining, NEW h \in Gens, CloseIfLast(h) \/ UNCHANGED drained,
           \A g \in Gens : Leased(g)' => Leased(g)
    PROVE  LeaseRules
  BY DEF LeaseRules, CloseIfLast

\* Callers.
LEMMA CallerRules == ASSUME Slots, NEW c \in Callers, CallerStep(c) PROVE LeaseRules
  <1>0. TypeOK
    BY DEF Slots
  <1>1. UNCHANGED <<draining, working, deps>>
    BY DEF CallerStep, Load, Acquire, Recheck, Return, Release, slots, leases
  <1>2. \A g \in Gens : (Dependents(g)' = Dependents(g)) /\ (g \in working' <=> g \in working)
    BY <1>1 DEF Dependents
  <1>3. \A d \in Callers : d # c => call'[d] = call[d]
    BY <1>0 DEF TypeOK, CallerStep, Load, Acquire, Recheck, Return, Release
  <1>4. CASE Acquire(c)
    <2>1. call'[c].pc = "held" => <<call'[c].mod, call'[c].gen>> \notin draining
      <3>1. call'[c] = [call[c] EXCEPT !.pc = IF <<call[c].mod, call[c].gen>> \in draining
                                              THEN "recheck" ELSE "held"]
        BY <1>0, <1>4 DEF TypeOK, Acquire
      <3>2. /\ call'[c].mod = call[c].mod /\ call'[c].gen = call[c].gen
            /\ call'[c].pc = IF <<call[c].mod, call[c].gen>> \in draining THEN "recheck" ELSE "held"
        BY <1>0, <3>1 DEF TypeOK
      <3> QED BY <3>2
    <2>2. \A g \in Gens : g \in draining => Users(g)' \subseteq Users(g)
      <3> SUFFICES ASSUME NEW g \in Gens, g \in draining, NEW d \in Callers, d \in Users(g)'
                   PROVE  d \in Users(g)
        BY DEF Users
      <3>1. call'[d].pc = "held" /\ <<call'[d].mod, call'[d].gen>> = g
        BY DEF Users
      <3>2. d # c
        BY <2>1, <3>1
      <3> QED BY <1>3, <3>1, <3>2 DEF Users
    <2>3. \A g \in Gens : Leased(g)' => Leased(g) \/ g \notin draining
      BY <1>2, <2>2 DEF Leased
    <2>4. UNCHANGED drained
      BY <1>4 DEF Acquire, leases
    <2> QED BY <1>1, <2>3, <2>4 DEF LeaseRules
  <1>5. CASE ~Acquire(c)
    <2>1. call'[c].pc # "held"
      <3>1. call'[c] = Quiet \/ call'[c].pc \in {"loaded", "refused", "again"}
        BY <1>0, <1>5 DEF TypeOK, CallerStep, Load, Recheck, Return, Release
      <3> QED BY <3>1 DEF Quiet
    <2>2. \A g \in Gens : Users(g)' \subseteq Users(g)
      BY <1>3, <2>1 DEF Users
    <2>3. \A g \in Gens : Leased(g)' => Leased(g)
      BY <1>2, <2>2 DEF Leased
    <2>4. CASE Release(c)
      BY <1>1, <2>3, <2>4, RulesRelease DEF Release
    <2>5. CASE ~Release(c)
      <3>1. UNCHANGED drained
        BY <1>5, <2>5 DEF CallerStep, Load, Recheck, Return, leases
      <3> QED BY <1>1, <2>3, <3>1 DEF LeaseRules
    <2> QED BY <2>4, <2>5
  <1> QED BY <1>4, <1>5

\* Background work.
LEMMA WorkerRules ==
    ASSUME Slots, NEW g \in Gens, AcquireBackground(g) \/ ReleaseBackground(g)
    PROVE  LeaseRules
  <1>1. \A h \in Gens : Users(h)' = Users(h) /\ Dependents(h)' = Dependents(h)
    BY DEF AcquireBackground, ReleaseBackground, Users, Dependents
  <1>2. CASE AcquireBackground(g)
    <2>1. \A h \in Gens : Leased(h)' => Leased(h) \/ h \notin draining
      BY <1>1, <1>2 DEF AcquireBackground, Leased
    <2> QED BY <1>2, <2>1 DEF AcquireBackground, LeaseRules
  <1>3. CASE ReleaseBackground(g)
    <2>1. \A h \in Gens : Leased(h)' => Leased(h)
      BY <1>1, <1>3 DEF ReleaseBackground, Leased
    <2> QED BY <1>3, <2>1, RulesRelease DEF ReleaseBackground
  <1> QED BY <1>2, <1>3

\* Retirements.
LEMMA RetirementRules == ASSUME Slots, NEW g \in Gens, RetirementStep(g) PROVE LeaseRules
  <1>1. CASE StopGeneration(g) \/ Stopped(g)
    BY <1>1, RulesFrame DEF StopGeneration, Stopped, leases
  <1>2. CASE ReleaseDependency(g)
    <2>1. UNCHANGED <<call, working, draining>>
      BY <1>2 DEF ReleaseDependency
    <2>2. CASE UNCHANGED <<deps, drained>>
      BY <2>1, <2>2, RulesFrame
    <2>3. ASSUME NEW d \in deps[g], deps' = [deps EXCEPT ![g] = @ \ {d}], CloseIfLast(d)
          PROVE  LeaseRules
      <3>1. d \in Gens
        BY DEF Slots, TypeOK
      <3>2. \A h \in Gens : deps'[h] \subseteq deps[h]
        BY <2>3 DEF Slots, TypeOK
      <3>3. \A h \in Gens : Users(h)' = Users(h) /\ Dependents(h)' \subseteq Dependents(h)
        BY <2>1, <3>2 DEF Users, Dependents
      <3>4. \A h \in Gens : Leased(h)' => Leased(h)
        BY <2>1, <3>3 DEF Leased
      <3> QED BY <2>1, <2>3, <3>1, <3>4, RulesRelease
    <2> QED BY <1>2, <2>2, <2>3 DEF ReleaseDependency
  <1> QED BY <1>1, <1>2 DEF RetirementStep

\* What AcquireDependencies does when it succeeds.
Leases(m) ==
    /\ \A d \in Deps[m] : current[d] # None /\ <<d, current[d]>> \notin draining
    /\ deps' = [deps EXCEPT ![<<m, next[m] + 1>>] = {<<d, current[d]>> : d \in Deps[m]}]
    /\ next' = [next EXCEPT ![m] = next[m] + 1]
    /\ trans' = [trans EXCEPT ![m].pc = "prepare", ![m].cand = next[m] + 1]

\* The new leases of a candidate.
LEMMA CandidateLeases ==
    ASSUME Slots, NEW m \in Modules, AcquireDependencies(m), Leases(m)
    PROVE  /\ <<m, next[m] + 1>> \in Gens
           /\ deps'[<<m, next[m] + 1>>] = {<<d, current[d]>> : d \in Deps[m]}
           /\ \A h \in Gens : h # <<m, next[m] + 1>> => deps'[h] = deps[h]
           /\ \A g \in Gens : Dependents(g)' \subseteq Dependents(g)
                                 \/ \E d \in Deps[m] : g = <<d, current[d]>>
  <1>1. <<m, next[m] + 1>> \in Gens
    BY DEF Slots, TypeOK, SlotOK, AcquireDependencies, Gens
  <1> DEFINE D == {<<d, current[d]>> : d \in Deps[m]}
  <1>2. deps' = [deps EXCEPT ![<<m, next[m] + 1>>] = D]
    BY DEF Leases
  <1> HIDE DEF D
  <1>3. /\ deps'[<<m, next[m] + 1>>] = D
        /\ \A h \in Gens : h # <<m, next[m] + 1>> => deps'[h] = deps[h]
    BY <1>1, <1>2 DEF Slots, TypeOK
  <1>4. \A g \in Gens : Dependents(g)' \subseteq Dependents(g) \/ g \in D
    BY <1>3 DEF Dependents
  <1>5. \A g \in Gens : g \in D => \E d \in Deps[m] : g = <<d, current[d]>>
    BY DEF D
  <1> QED BY <1>1, <1>3, <1>4, <1>5 DEF D

\* Transitions.
LEMMA TransitionRules ==
    ASSUME Slots, NEW m \in Modules, TransitionStep(m)
    PROVE  LeaseRules
  <1>0. TypeOK /\ SlotOK(m)
    BY DEF Slots
  <1>1. CASE \/ CheckDependents(m) \/ PrepareCandidate(m) \/ CommitCandidate(m) \/ FinishCommit(m)
             \/ EndCleanup(m) \/ Unpublish(m) \/ RetireDisabled(m)
    BY <1>1, RulesFrame DEF CheckDependents, PrepareCandidate, CommitCandidate, FinishCommit,
       EndCleanup, Unpublish, RetireDisabled, leases
  <1>2. CASE AcquireDependencies(m)
    <2>1. CASE UNCHANGED deps
      BY <1>2, <2>1, RulesFrame DEF AcquireDependencies
    <2>2. CASE Leases(m)
      <3>1. \A g \in Gens : g \in draining => Dependents(g)' \subseteq Dependents(g)
        <4>1. \A d \in Deps[m] : <<d, current[d]>> \notin draining
          BY <2>2 DEF Leases
        <4>2. \A g \in Gens : Dependents(g)' \subseteq Dependents(g)
                                \/ \E d \in Deps[m] : g = <<d, current[d]>>
          BY <1>2, <2>2, CandidateLeases
        <4> QED BY <4>1, <4>2
      <3>2. UNCHANGED <<call, working, draining, drained>>
        BY <1>2 DEF AcquireDependencies
      <3>3. \A g \in Gens : Users(g)' = Users(g)
        BY <3>2 DEF Users
      <3>4. \A g \in Gens : Leased(g)' => Leased(g) \/ g \notin draining
        BY <3>1, <3>2, <3>3 DEF Leased
      <3> QED BY <3>2, <3>4 DEF LeaseRules
    <2> QED BY <1>2, <2>1, <2>2 DEF AcquireDependencies, Leases
  <1>3. CASE DrainPrevious(m)
    <2>1. CASE trans[m].prev = None
      BY <1>3, <2>1, RulesFrame DEF DrainPrevious
    <2>2. CASE trans[m].prev # None
      <3>1. <<m, trans[m].prev>> \in Gens
        BY <1>0, <2>2 DEF TypeOK, Gens, None
      <3> QED BY <1>3, <2>2, <3>1, RulesDrain DEF DrainPrevious
    <2> QED BY <2>1, <2>2
  <1>4. CASE CleanupCandidate(m)
    <2>1. Candidate(m) \in Gens
      BY <1>0, <1>4 DEF TypeOK, SlotOK, Candidate, Gens, Building, CleanupCandidate
    <2> QED BY <1>4, <2>1, RulesDrain DEF CleanupCandidate
  <1>5. CASE CommitDisable(m)
    <2>1. CASE UNCHANGED <<draining, drained>>
      BY <1>5, <2>1, RulesFrame DEF CommitDisable
    <2>2. CASE current[m] # None /\ BeginDrain(<<m, current[m]>>)
      <3>1. <<m, current[m]>> \in Gens
        BY <1>0, <2>2 DEF TypeOK, Gens, None
      <3> QED BY <1>5, <2>2, <3>1, RulesDrain DEF CommitDisable
    <2> QED BY <1>5, <2>1, <2>2 DEF CommitDisable
  <1> QED BY <1>1, <1>2, <1>3, <1>4, <1>5 DEF TransitionStep

\* Closing.
LEMMA CloseRules == ASSUME Slots, Close \/ CloseStep PROVE LeaseRules
  <1>1. CASE Close \/ TransitionsOver \/ AllDetached \/ CloseDone
    BY <1>1, RulesFrame DEF Close, TransitionsOver, AllDetached, CloseDone, leases
  <1>2. ASSUME NEW m \in Modules, DetachBegin(m) PROVE LeaseRules
    <2>1. <<m, current[m]>> \in Gens
      BY <1>2 DEF DetachBegin, ToDetach, Slots, TypeOK, Gens, None
    <2> QED BY <1>2, <2>1, RulesDrain DEF DetachBegin
  <1>3. ASSUME NEW m \in Modules, DetachEnd(m) PROVE LeaseRules
    BY <1>3, RulesFrame DEF DetachEnd, leases
  <1> QED BY <1>1, <1>2, <1>3 DEF CloseStep

\* Every step.
LEMMA NextRules == ASSUME Slots, [Next]_vars PROVE LeaseRules
  <1>1. CASE UNCHANGED vars
    BY <1>1, RulesFrame DEF vars, leases
  <1>2. ASSUME NEW m \in Modules, BeginActivate(m) \/ BeginDisable(m) PROVE LeaseRules
    BY <1>2, RulesFrame DEF BeginActivate, BeginDisable, leases
  <1>3. ASSUME NEW g \in Gens, DrainTimeout(g) PROVE LeaseRules
    BY <1>3, RulesFrame DEF DrainTimeout, leases
  <1> QED BY <1>1, <1>2, <1>3, CallerRules, WorkerRules, RetirementRules, TransitionRules,
             CloseRules DEF Next, AtRest

\* Only a drained generation comes to be stopped.
LEMMA NextEnding ==
    ASSUME Slots, [Next]_vars, NEW g \in Gens, Ending(g)' PROVE Ending(g) \/ g \in drained
  <1>0. TypeOK
    BY DEF Slots
  <1>1. CASE UNCHANGED task
    BY <1>1 DEF Ending
  <1>2. ASSUME NEW h \in Gens, task' = [task EXCEPT ![h] = "draining"]
        PROVE  Ending(g) \/ g \in drained
    BY <1>0, <1>2 DEF Ending, TypeOK
  <1>3. ASSUME NEW h \in Gens, RetirementStep(h) PROVE Ending(g) \/ g \in drained
    BY <1>0, <1>3 DEF RetirementStep, StopGeneration, Stopped, ReleaseDependency, Ending, TypeOK
  <1>4. ASSUME NEW m \in Modules, TransitionStep(m) PROVE Ending(g) \/ g \in drained
    <2>1. SlotOK(m)
      BY DEF Slots
    <2>2. CASE FinishCommit(m) /\ trans[m].prev # None
      <3>1. <<m, trans[m].prev>> \in Gens
        BY <1>0, <2>2 DEF TypeOK, Gens, None
      <3> QED BY <1>2, <2>2, <3>1 DEF FinishCommit
    <2>3. CASE CleanupCandidate(m)
      <3>1. Candidate(m) \in Gens
        BY <1>0, <2>1, <2>3 DEF TypeOK, SlotOK, Candidate, Gens, Building, CleanupCandidate
      <3> QED BY <1>2, <2>3, <3>1 DEF CleanupCandidate
    <2>4. CASE RetireDisabled(m)
      <3>1. <<m, trans[m].prev>> \in Gens
        BY <1>0, <2>1, <2>4 DEF TypeOK, SlotOK, RetireDisabled, Gens
      <3> QED BY <1>2, <2>4, <3>1 DEF RetireDisabled
    <2> QED BY <1>1, <1>4, <2>2, <2>3, <2>4 DEF TransitionStep, CheckDependents,
        AcquireDependencies, PrepareCandidate, CommitCandidate, DrainPrevious, FinishCommit,
        EndCleanup, CommitDisable, Unpublish
  <1>5. ASSUME NEW m \in Modules, DetachEnd(m) PROVE Ending(g) \/ g \in drained
    <2>1. <<m, current[m]>> \in Gens
      BY <1>0, <1>5 DEF DetachEnd, Slots, LockOK, TypeOK, Gens, None
    <2> QED BY <1>2, <1>5, <2>1 DEF DetachEnd
  <1>6. CASE \E c \in Callers : CallerStep(c)
    BY <1>1, <1>6 DEF CallerStep, Load, Acquire, Recheck, Return, Release
  <1>7. CASE Close \/ CloseStep
    BY <1>1, <1>5, <1>7 DEF Close, CloseStep, TransitionsOver, AllDetached, CloseDone, DetachBegin
  <1> QED BY <1>1, <1>3, <1>4, <1>6, <1>7 DEF Next, AtRest, vars, BeginActivate, BeginDisable,
          AcquireBackground, ReleaseBackground, DrainTimeout

\* Layer 2 is inductive.
LEMMA NextFree == ASSUME Slots, Free, [Next]_vars PROVE Free'
  <1>1. LeaseRules
    BY NextRules
  <1>2. drained' \subseteq draining'
    <2>1. Slots'
      BY NextSlots
    <2> QED BY <1>1, <2>1 DEF LeaseRules, Free, Slots, TypeOK
  <1>3. \A g \in Gens : g \in drained' => ~Leased(g)'
    BY <1>1 DEF LeaseRules, Free
  <1>4. \A g \in Gens : Ending(g)' => g \in drained'
    BY <1>1, NextEnding DEF LeaseRules, Free
  <1> QED BY <1>2, <1>3, <1>4 DEF Free

\* Layer 2 holds at the start: nothing drains.
LEMMA InitFree == Init => Free
  BY DEF Init, Free, Ending

\* Layers 1 and 2 hold throughout.
LEMMA FreeHolds == Spec => [](Slots /\ Free)
  <1>1. Slots /\ Free /\ [Next]_vars => (Slots /\ Free)'
    BY NextSlots, NextFree
  <1> QED BY <1>1, InitSlots, InitFree, PTL DEF Spec

\* The type invariant, for any catalog, callers and number of generations
\* (platform/lifecycle/modules: Manager, RouteSlot, generation).
THEOREM TypeCorrect == Spec => []TypeOK
  <1>1. Slots /\ Free => TypeOK
    BY DEF Slots
  <1> QED BY <1>1, FreeHolds, PTL

\* No instance is quiesced or stopped while a request, a worker or a dependent module
\* holds a lease on its generation, and none gets one later (generation.acquire,
\* beginDrain, release and stopGeneration).
THEOREM StoppedIsUnused == Spec => []InUseNotStopped
  <1>1. Slots /\ Free => InUseNotStopped
    BY DEF Free, InUseNotStopped
  <1> QED BY <1>1, FreeHolds, PTL

-----------------------------------------------------------------------------
\* Layer 3: a retirement starts once, and an instance keeps what it was given.

\* The generations a slot or a transition still answers for are not being retired.
Once(m) ==
    /\ current[m] # None => task[<<m, current[m]>>] = "none"
    /\ trans[m].pc \in {"drain", "finish", "unpublish", "retire"} /\ trans[m].prev # None =>
          task[<<m, trans[m].prev>>] = "none"
    /\ trans[m].pc \in Hidden => task[Candidate(m)] = "none"
    /\ \A n \in 1..MaxGen : n > next[m] => task[<<m, n>>] = "none"

Given == \A g \in Gens : Alive(g) =>
             \A d \in Deps[g[1]] : \E n \in 1..MaxGen : <<d, n>> \in deps[g]

Kept == (\A m \in Modules : Once(m)) /\ Given

\* A step that changes the task of no generation and no slot.
LEMMA OnceFrame ==
    ASSUME UNCHANGED <<current, next, trans, task>>, \A m \in Modules : Once(m)
    PROVE  \A m \in Modules : Once(m)'
  BY DEF Once, Candidate

\* A step of one module.
LEMMA OneOnce ==
    ASSUME \A m \in Modules : Once(m), NEW m \in Modules, Once(m)',
           \A k \in Modules : k # m => /\ trans'[k] = trans[k] /\ current'[k] = current[k]
                                       /\ next'[k] = next[k],
           \A k \in Modules, n \in 1..MaxGen : k # m => task'[<<k, n>>] = task[<<k, n>>],
           Slots
    PROVE  \A k \in Modules : Once(k)'
  <1> SUFFICES ASSUME NEW k \in Modules, k # m PROVE Once(k)'
    OBVIOUS
  <1>1. Once(k) /\ SlotOK(k) /\ TypeOK
    BY DEF Slots
  <1>2. \A n \in 1..MaxGen : task'[<<k, n>>] = task[<<k, n>>]
    OBVIOUS
  <1>3. current[k] # None => task'[<<k, current[k]>>] = "none"
    BY <1>1, <1>2 DEF Once, TypeOK, None
  <1>4. trans[k].pc \in {"drain", "finish", "unpublish", "retire"} /\ trans[k].prev # None =>
          task'[<<k, trans[k].prev>>] = "none"
    BY <1>1, <1>2 DEF Once, TypeOK, None
  <1>5. trans[k].pc \in Hidden => task'[<<k, trans[k].cand>>] = "none"
    BY <1>1, <1>2 DEF Once, TypeOK, SlotOK, Hidden, Building, Candidate
  <1>6. \A n \in 1..MaxGen : n > next[k] => task'[<<k, n>>] = "none"
    BY <1>1, <1>2 DEF Once
  <1> QED BY <1>3, <1>4, <1>5, <1>6 DEF Once, Candidate

\* Setting one generation's task.
LEMMA TaskSet ==
    ASSUME TypeOK, NEW m \in Modules, NEW n \in 1..MaxGen, NEW t,
           task' = [task EXCEPT ![<<m, n>>] = t]
    PROVE  /\ task'[<<m, n>>] = t
           /\ \A k \in Modules, i \in 1..MaxGen : k # m \/ i # n => task'[<<k, i>>] = task[<<k, i>>]
  <1>1. /\ <<m, n>> \in Gens /\ \A k \in Modules, i \in 1..MaxGen : <<k, i>> \in Gens
        /\ \A k \in Modules, i \in 1..MaxGen : k # m \/ i # n => <<k, i>> # <<m, n>>
    BY DEF Gens
  <1> QED BY <1>1 DEF TypeOK

\* A retirement that has begun goes on.
LEMMA RetirementOnce ==
    ASSUME Slots, \A m \in Modules : Once(m), NEW g \in Gens, RetirementStep(g)
    PROVE  \A m \in Modules : Once(m)'
  <1>1. UNCHANGED <<current, next, trans>> /\ task[g] # "none"
    BY DEF RetirementStep, StopGeneration, Stopped, ReleaseDependency, slots
  <1>2. \A h \in Gens : task[h] = "none" => task'[h] = "none"
    <2>1. \A h \in Gens : h # g => task'[h] = task[h]
      BY DEF RetirementStep, StopGeneration, Stopped, ReleaseDependency, Slots, TypeOK
    <2> QED BY <1>1, <2>1
  <1> SUFFICES ASSUME NEW m \in Modules PROVE Once(m)'
    OBVIOUS
  <1>3. Once(m) /\ SlotOK(m) /\ TypeOK /\ \A n \in 1..MaxGen : <<m, n>> \in Gens
    BY DEF Slots, Gens
  <1>4. current[m] # None => task'[<<m, current[m]>>] = "none"
    BY <1>2, <1>3 DEF Once, TypeOK, None
  <1>5. trans[m].pc \in {"drain", "finish", "unpublish", "retire"} /\ trans[m].prev # None =>
          task'[<<m, trans[m].prev>>] = "none"
    BY <1>2, <1>3 DEF Once, TypeOK, None
  <1>6. trans[m].pc \in Hidden => task'[<<m, trans[m].cand>>] = "none"
    BY <1>2, <1>3 DEF Once, TypeOK, SlotOK, Hidden, Building, Candidate
  <1>7. \A n \in 1..MaxGen : n > next[m] => task'[<<m, n>>] = "none"
    BY <1>2, <1>3 DEF Once
  <1> QED BY <1>1, <1>4, <1>5, <1>6, <1>7 DEF Once, Candidate

\* Steps of a transition that retire nothing.
LEMMA QuietOnce ==
    ASSUME Slots, \A m \in Modules : Once(m), NEW m \in Modules, UNCHANGED task,
           \/ BeginActivate(m) \/ BeginDisable(m) \/ CheckDependents(m) \/ AcquireDependencies(m)
           \/ PrepareCandidate(m) \/ CommitCandidate(m) \/ DrainPrevious(m) \/ EndCleanup(m)
           \/ CommitDisable(m) \/ Unpublish(m)
    PROVE  \A k \in Modules : Once(k)'
  <1>0. TypeOK /\ SlotOK(m) /\ Once(m)
    BY DEF Slots
  <1>1. /\ \A k \in Modules : k # m => trans'[k] = trans[k] /\ next'[k] = next[k]
        /\ \A k \in Modules : k # m => current'[k] = current[k]
    BY <1>0 DEF TypeOK, BeginActivate, BeginDisable, CheckDependents, AcquireDependencies,
       PrepareCandidate, CommitCandidate, DrainPrevious, EndCleanup, CommitDisable, Unpublish, Moves
  <1>2. Once(m)'
    <2>1. CASE BeginActivate(m) \/ BeginDisable(m)
      <3>1. trans'[m].pc \in {"check", "disable"} /\ UNCHANGED <<current, next>>
        BY <1>0, <2>1 DEF TypeOK, BeginActivate, BeginDisable
      <3> QED BY <1>0, <3>1 DEF Once, Hidden
    <2>2. CASE CheckDependents(m) \/ EndCleanup(m)
      <3>1. trans'[m].pc \in {"idle", "lease"} /\ UNCHANGED <<current, next>>
        BY <1>0, <2>2, IdleTyped DEF TypeOK, CheckDependents, EndCleanup
      <3> QED BY <1>0, <3>1 DEF Once, Hidden
    <2>3. CASE AcquireDependencies(m) /\ ~Leases(m)
      <3>1. trans'[m].pc = "idle" /\ UNCHANGED <<current, next>>
        BY <1>0, <2>3, IdleTyped DEF TypeOK, AcquireDependencies, Leases
      <3> QED BY <1>0, <3>1 DEF Once, Hidden
    <2>4. CASE AcquireDependencies(m) /\ Leases(m)
      <3>1. /\ trans'[m].pc = "prepare" /\ trans'[m].cand = next[m] + 1 /\ next[m] + 1 \in 1..MaxGen
            /\ UNCHANGED current
        BY <1>0, <2>4 DEF TypeOK, SlotOK, AcquireDependencies, Leases
      <3>2. next'[m] = next[m] + 1
        BY <1>0, <2>4 DEF TypeOK, Leases
      <3> QED BY <1>0, <3>1, <3>2 DEF Once, Hidden, Candidate, TypeOK
    <2>5. CASE PrepareCandidate(m)
      <3>1. /\ trans'[m].pc \in Hidden /\ trans'[m].cand = trans[m].cand /\ trans[m].pc \in Hidden
            /\ UNCHANGED <<current, next>>
        BY <1>0, <2>5 DEF TypeOK, PrepareCandidate, Moves, Hidden
      <3> QED BY <1>0, <3>1 DEF Once, Hidden, Candidate
    <2>6. CASE CommitCandidate(m) /\ UNCHANGED current
      <3>1. /\ trans'[m].pc = "cleanup" /\ trans'[m].cand = trans[m].cand /\ trans[m].pc \in Hidden
            /\ UNCHANGED next
        <4>1. current[m] # trans[m].cand
          BY <1>0, <2>6 DEF TypeOK, SlotOK, CommitCandidate, Hidden
        <4> QED BY <1>0, <2>6, <4>1 DEF TypeOK, CommitCandidate, Moves, Hidden
      <3> QED BY <1>0, <2>6, <3>1 DEF Once, Hidden, Candidate
    <2>7. CASE CommitCandidate(m) /\ ~UNCHANGED current
      <3>1. /\ trans'[m].pc = "drain" /\ trans'[m].prev = trans[m].prev
            /\ current'[m] = trans[m].cand /\ current[m] = trans[m].prev
            /\ trans[m].pc \in Hidden /\ UNCHANGED next
        BY <1>0, <2>7 DEF TypeOK, CommitCandidate, Moves, Hidden
      <3> QED BY <1>0, <3>1 DEF Once, Hidden, Candidate
    <2>8. CASE DrainPrevious(m)
      <3>1. /\ trans'[m].pc = "finish" /\ trans'[m].prev = trans[m].prev /\ trans[m].pc = "drain"
            /\ UNCHANGED <<current, next>>
        BY <1>0, <2>8 DEF TypeOK, DrainPrevious, Moves
      <3> QED BY <1>0, <3>1 DEF Once, Hidden
    <2>9. CASE CommitDisable(m)
      <3>1. /\ \/ trans'[m].pc = "idle"
               \/ trans'[m].pc = "unpublish" /\ trans'[m].prev = current[m] /\ current[m] # None
            /\ UNCHANGED <<current, next>>
        BY <1>0, <2>9, IdleTyped DEF TypeOK, CommitDisable
      <3> QED BY <1>0, <3>1 DEF Once, Hidden
    <2>10. CASE Unpublish(m)
      <3>1. /\ trans'[m].pc = "retire" /\ trans'[m].prev = trans[m].prev
            /\ trans[m].pc = "unpublish" /\ current'[m] = None /\ UNCHANGED next
        BY <1>0, <2>10 DEF TypeOK, Unpublish, Moves, None
      <3> QED BY <1>0, <3>1 DEF Once, Hidden
    <2> QED BY <2>1, <2>2, <2>3, <2>4, <2>5, <2>6, <2>7, <2>8, <2>9, <2>10
  <1> QED BY <1>1, <1>2, OneOnce

\* Steps that begin a retirement do so with a generation nobody answers for any more.
LEMMA RetireOnce ==
    ASSUME Slots, \A m \in Modules : Once(m), NEW m \in Modules,
           FinishCommit(m) \/ CleanupCandidate(m) \/ RetireDisabled(m) \/ DetachEnd(m)
    PROVE  /\ \A k \in Modules : Once(k)'
           /\ \/ UNCHANGED task
              \/ \E n \in 1..MaxGen : /\ task[<<m, n>>] = "none"
                                      /\ task' = [task EXCEPT ![<<m, n>>] = "draining"]
  <1>0. TypeOK /\ SlotOK(m) /\ Once(m)
    BY DEF Slots
  <1>1. /\ \A k \in Modules : k # m => trans'[k] = trans[k] /\ next'[k] = next[k]
        /\ \A k \in Modules : k # m => current'[k] = current[k]
    BY <1>0 DEF TypeOK, FinishCommit, CleanupCandidate, RetireDisabled, DetachEnd, Moves
  <1>2. CASE FinishCommit(m) /\ trans[m].prev = None
    <2>1. UNCHANGED <<current, next, task>> /\ trans'[m].pc = "idle"
      BY <1>0, <1>2, IdleTyped DEF FinishCommit, TypeOK
    <2>2. Once(m)'
      BY <1>0, <2>1 DEF Once, Hidden
    <2> QED BY <1>1, <2>1, <2>2, OneOnce
  <1>3. ASSUME NEW n \in 1..MaxGen, task[<<m, n>>] = "none", n <= next[m], n # current'[m],
               task' = [task EXCEPT ![<<m, n>>] = "draining"], next'[m] = next[m],
               current'[m] \in {None, current[m]}, trans'[m].pc \in {"idle", "wait"}
        PROVE  \A k \in Modules : Once(k)'
    <2>1. /\ task'[<<m, n>>] = "draining"
          /\ \A k \in Modules, i \in 1..MaxGen : k # m \/ i # n => task'[<<k, i>>] = task[<<k, i>>]
      BY <1>0, <1>3, TaskSet
    <2>2. Once(m)'
      <3>1. current'[m] # None => task'[<<m, current'[m]>>] = "none"
        BY <1>0, <1>3, <2>1 DEF Once, TypeOK, None
      <3>2. \A i \in 1..MaxGen : i > next'[m] => task'[<<m, i>>] = "none"
        BY <1>0, <1>3, <2>1 DEF Once, TypeOK
      <3> QED BY <1>3, <3>1, <3>2 DEF Once, Hidden
    <2> QED BY <1>1, <2>1, <2>2, OneOnce
  <1>4. CASE FinishCommit(m) /\ trans[m].prev # None
    <2>1. UNCHANGED <<current, next>> /\ trans'[m].pc = "idle" /\ trans[m].pc = "finish"
      BY <1>0, <1>4, IdleTyped DEF FinishCommit, TypeOK
    <2>2. /\ trans[m].prev \in 1..MaxGen /\ trans[m].prev <= next[m] /\ trans[m].prev # current'[m]
          /\ task[<<m, trans[m].prev>>] = "none"
      BY <1>0, <1>4, <2>1 DEF TypeOK, SlotOK, Once, None, Building
    <2>3. task' = [task EXCEPT ![<<m, trans[m].prev>>] = "draining"]
      BY <1>4 DEF FinishCommit
    <2> QED BY <1>3, <2>1, <2>2, <2>3
  <1>5. CASE CleanupCandidate(m)
    <2>1. /\ UNCHANGED <<current, next>> /\ trans'[m].pc = "wait" /\ trans[m].pc = "cleanup"
          /\ task' = [task EXCEPT ![<<m, trans[m].cand>>] = "draining"]
      BY <1>0, <1>5 DEF CleanupCandidate, TypeOK, Moves, Candidate
    <2>2. /\ trans[m].cand \in 1..MaxGen /\ trans[m].cand <= next[m] /\ trans[m].cand # current'[m]
          /\ task[<<m, trans[m].cand>>] = "none"
      BY <1>0, <2>1 DEF TypeOK, SlotOK, Once, Building, Hidden, Candidate
    <2> QED BY <1>3, <2>1, <2>2
  <1>6. CASE RetireDisabled(m)
    <2>1. /\ UNCHANGED <<current, next>> /\ trans'[m].pc = "idle" /\ trans[m].pc = "retire"
          /\ task' = [task EXCEPT ![<<m, trans[m].prev>>] = "draining"]
      BY <1>0, <1>6, IdleTyped DEF RetireDisabled, TypeOK
    <2>2. /\ trans[m].prev \in 1..MaxGen /\ trans[m].prev <= next[m] /\ trans[m].prev # current'[m]
          /\ task[<<m, trans[m].prev>>] = "none"
      BY <1>0, <2>1 DEF TypeOK, SlotOK, Once, None
    <2> QED BY <1>3, <2>1, <2>2
  <1>7. CASE DetachEnd(m)
    <2>1. /\ UNCHANGED <<next, trans>> /\ current'[m] = None
          /\ task' = [task EXCEPT ![<<m, current[m]>>] = "draining"]
      BY <1>0, <1>7 DEF DetachEnd, TypeOK
    <2>2. trans[m].pc = "idle" /\ current[m] # None
      BY <1>7 DEF DetachEnd, Slots, LockOK
    <2>3. /\ current[m] \in 1..MaxGen /\ current[m] <= next[m]
          /\ task[<<m, current[m]>>] = "none"
      BY <1>0, <2>2 DEF TypeOK, SlotOK, Once, None
    <2> QED BY <1>3, <2>1, <2>2, <2>3 DEF None
  <1> QED BY <1>2, <1>4, <1>5, <1>6, <1>7

\* Layer 3 for retirements is inductive.
LEMMA NextOnce ==
    ASSUME Slots, \A m \in Modules : Once(m), [Next]_vars
    PROVE  \A m \in Modules : Once(m)'
  <1> DEFINE Goal == \A m \in Modules : Once(m)'
  <1>1. CASE UNCHANGED <<current, next, trans, task>>
    BY <1>1, OnceFrame
  <1>2. ASSUME NEW m \in Modules, BeginActivate(m) \/ BeginDisable(m) PROVE Goal
    <2>1. UNCHANGED task
      BY <1>2 DEF BeginActivate, BeginDisable
    <2> QED BY <1>2, <2>1, QuietOnce
  <1>3. ASSUME NEW m \in Modules, TransitionStep(m) PROVE Goal
    <2>1. CASE FinishCommit(m) \/ CleanupCandidate(m) \/ RetireDisabled(m)
      BY <2>1, RetireOnce
    <2>2. CASE ~(FinishCommit(m) \/ CleanupCandidate(m) \/ RetireDisabled(m))
      <3>1. UNCHANGED task
        BY <1>3, <2>2 DEF TransitionStep, CheckDependents, AcquireDependencies, PrepareCandidate,
           CommitCandidate, DrainPrevious, EndCleanup, CommitDisable, Unpublish
      <3> QED BY <1>3, <2>2, <3>1, QuietOnce DEF TransitionStep
    <2> QED BY <2>1, <2>2
  <1>4. ASSUME NEW g \in Gens, DrainTimeout(g) PROVE Goal
    <2> DEFINE m == g[1]
    <2>0. m \in Modules
      BY DEF Gens
    <2>1. UNCHANGED <<current, next, task>> /\ trans' = [trans EXCEPT ![m] = Idle]
      BY <1>4 DEF DrainTimeout
    <2> HIDE DEF m
    <2>2. trans'[m].pc = "idle" /\ \A k \in Modules : k # m => trans'[k] = trans[k]
      BY <2>0, <2>1, IdleTyped DEF Slots, TypeOK
    <2>3. Once(m)'
      BY <2>0, <2>1, <2>2 DEF Once, Hidden
    <2> QED BY <2>0, <2>1, <2>2, <2>3, OneOnce
  <1>5. ASSUME NEW m \in Modules, DetachBegin(m) \/ DetachEnd(m) PROVE Goal
    BY <1>1, <1>5, RetireOnce DEF DetachBegin
  <1>6. CASE Close \/ TransitionsOver \/ AllDetached \/ CloseDone
    BY <1>1, <1>6 DEF Close, TransitionsOver, AllDetached, CloseDone, slots
  <1>7. ASSUME NEW c \in Callers, CallerStep(c) PROVE Goal
    BY <1>1, <1>7 DEF CallerStep, Load, Acquire, Recheck, Return, Release, slots
  <1>8. ASSUME NEW g \in Gens, AcquireBackground(g) \/ ReleaseBackground(g) PROVE Goal
    BY <1>1, <1>8 DEF AcquireBackground, ReleaseBackground, slots
  <1>9. CASE UNCHANGED vars
    BY <1>1, <1>9 DEF vars, slots
  <1> QED BY <1>2, <1>3, <1>4, <1>5, <1>6, <1>7, <1>8, <1>9, RetirementOnce
          DEF Next, AtRest, CloseStep

\* What a step may do to an instance and its leases: nothing, create it with a lease on
\* each dependency, or let go of leases once it has stopped.
GivenRules(g) ==
    \/ deps'[g] = deps[g] /\ (Alive(g)' => Alive(g))
    \/ ~Alive(g)'
    \/ \A d \in Deps[g[1]] : \E n \in 1..MaxGen : <<d, n>> \in deps'[g]

\* A step that leaves instances alone.
LEMMA GivenFrame ==
    ASSUME UNCHANGED <<next, deps, task>>, NEW g \in Gens PROVE GivenRules(g)
  BY DEF GivenRules, Alive

\* Beginning a retirement does not make an instance alive that was not.
LEMMA GivenRetire ==
    ASSUME Slots, UNCHANGED <<next, deps>>, NEW m \in Modules, NEW n \in 1..MaxGen,
           task[<<m, n>>] = "none", task' = [task EXCEPT ![<<m, n>>] = "draining"], NEW g \in Gens
    PROVE  GivenRules(g)
  <1>1. <<m, n>> \in Gens /\ task \in [Gens -> Tasks]
    BY DEF Gens, Slots, TypeOK
  <1>2. task'[g] = IF g = <<m, n>> THEN "draining" ELSE task[g]
    BY <1>1
  <1>3. Alive(g)' => Alive(g)
    BY <1>2 DEF Alive
  <1> QED BY <1>3 DEF GivenRules

\* Every step keeps the rules on instances and their leases.
LEMMA NextGiven ==
    ASSUME Slots, \A m \in Modules : Once(m), [Next]_vars, NEW g \in Gens
    PROVE  GivenRules(g)
  <1>1. CASE UNCHANGED <<next, deps, task>>
    BY <1>1, GivenFrame
  <1>2. ASSUME NEW m \in Modules,
               FinishCommit(m) \/ CleanupCandidate(m) \/ RetireDisabled(m) \/ DetachEnd(m)
        PROVE  GivenRules(g)
    <2>1. UNCHANGED <<next, deps>>
      BY <1>2 DEF FinishCommit, CleanupCandidate, RetireDisabled, DetachEnd, leases
    <2>2. \/ UNCHANGED task
          \/ \E n \in 1..MaxGen : /\ task[<<m, n>>] = "none"
                                  /\ task' = [task EXCEPT ![<<m, n>>] = "draining"]
      BY <1>2, RetireOnce
    <2> QED BY <1>1, <2>1, <2>2, GivenRetire
  <1>3. ASSUME NEW m \in Modules, AcquireDependencies(m) PROVE GivenRules(g)
    <2>1. CASE ~Leases(m)
      BY <1>1, <1>3, <2>1 DEF AcquireDependencies, Leases
    <2>2. CASE Leases(m) /\ g = <<m, next[m] + 1>>
      <3>1. deps'[g] = {<<d, current[d]>> : d \in Deps[m]}
        BY <1>3, <2>2, CandidateLeases
      <3>2. \A d \in Deps[m] : current[d] \in 1..MaxGen
        <4>1. \A d \in Deps[m] : d \in Modules /\ current[d] # None
          BY <2>2 DEF Leases
        <4> QED BY <4>1 DEF Slots, TypeOK, None
      <3>3. g[1] = m
        BY <2>2
      <3> QED BY <3>1, <3>2, <3>3 DEF GivenRules
    <2>3. CASE Leases(m) /\ g # <<m, next[m] + 1>>
      <3>1. deps'[g] = deps[g] /\ UNCHANGED task
        BY <1>3, <2>3, CandidateLeases DEF AcquireDependencies
      <3>2. /\ g[1] \in Modules /\ g[2] \in 1..MaxGen /\ g = <<g[1], g[2]>>
            /\ next \in [Modules -> 0..MaxGen] /\ next' = [next EXCEPT ![m] = next[m] + 1]
        BY <2>3 DEF Gens, Slots, TypeOK, Leases
      <3>3. g[2] <= next'[g[1]] => g[2] <= next[g[1]]
        <4>1. CASE g[1] = m
          BY <2>3, <3>2, <4>1
        <4>2. CASE g[1] # m
          BY <3>2, <4>2
        <4> QED BY <4>1, <4>2
      <3> QED BY <3>1, <3>3 DEF GivenRules, Alive
    <2> QED BY <2>1, <2>2, <2>3
  <1>4. ASSUME NEW h \in Gens, RetirementStep(h) PROVE GivenRules(g)
    <2>1. /\ UNCHANGED next /\ (g # h => task'[g] = task[g] /\ deps'[g] = deps[g])
      BY <1>4 DEF RetirementStep, StopGeneration, Stopped, ReleaseDependency, Slots, TypeOK, slots,
         leases
    <2>2. CASE g # h
      BY <2>1, <2>2 DEF GivenRules, Alive
    <2>3. CASE g = h /\ ReleaseDependency(h)
      <3>1. task'[g] \in {"releasing", "done"}
        BY <2>3 DEF ReleaseDependency, Slots, TypeOK
      <3> QED BY <3>1 DEF GivenRules, Alive
    <2>4. CASE g = h /\ (StopGeneration(h) \/ Stopped(h))
      <3>1. /\ deps' = deps /\ task[g] \in {"draining", "stopping"}
        BY <2>4 DEF StopGeneration, Stopped, leases
      <3> QED BY <2>1, <3>1 DEF GivenRules, Alive
    <2> QED BY <1>4, <2>2, <2>3, <2>4 DEF RetirementStep
  <1>5. ASSUME NEW m \in Modules, TransitionStep(m) PROVE GivenRules(g)
    BY <1>1, <1>2, <1>3, <1>5 DEF TransitionStep, CheckDependents, PrepareCandidate,
       CommitCandidate, DrainPrevious, EndCleanup, CommitDisable, Unpublish, leases
  <1>6. CASE Close \/ CloseStep
    BY <1>1, <1>2, <1>6 DEF Close, CloseStep, TransitionsOver, AllDetached, CloseDone, DetachBegin,
       slots, leases
  <1>7. ASSUME NEW c \in Callers, CallerStep(c) PROVE GivenRules(g)
    BY <1>1, <1>7 DEF CallerStep, Load, Acquire, Recheck, Return, Release, slots, leases
  <1>8. ASSUME NEW h \in Gens,
               AcquireBackground(h) \/ ReleaseBackground(h) \/ DrainTimeout(h)
        PROVE  GivenRules(g)
    BY <1>1, <1>8 DEF AcquireBackground, ReleaseBackground, DrainTimeout, slots, leases
  <1>9. ASSUME NEW m \in Modules, BeginActivate(m) \/ BeginDisable(m) PROVE GivenRules(g)
    BY <1>1, <1>9 DEF BeginActivate, BeginDisable, leases
  <1>10. CASE UNCHANGED vars
    BY <1>1, <1>10 DEF vars, slots, leases
  <1> QED BY <1>4, <1>5, <1>6, <1>7, <1>8, <1>9, <1>10 DEF Next, AtRest

\* Layer 3 is inductive.
LEMMA NextKept == ASSUME Slots, Kept, [Next]_vars PROVE Kept'
  <1>1. \A m \in Modules : Once(m)'
    BY NextOnce DEF Kept
  <1>2. ASSUME NEW g \in Gens, Alive(g)', NEW d \in Deps[g[1]]
        PROVE  \E n \in 1..MaxGen : <<d, n>> \in deps'[g]
    <2>1. GivenRules(g)
      BY NextGiven DEF Kept
    <2> QED BY <1>2, <2>1 DEF GivenRules, Kept, Given
  <1> QED BY <1>1, <1>2 DEF Kept, Given

\* Layer 3 holds at the start: there is no instance.
LEMMA InitKept == Init => Kept
  <1> SUFFICES ASSUME Init PROVE Kept
    OBVIOUS
  <1>1. \A g \in Gens : task[g] = "none" /\ ~Alive(g)
    BY DEF Init, Alive, Gens
  <1>2. \A m \in Modules : current[m] = None /\ trans[m].pc = "idle"
    BY IdleTyped DEF Init
  <1>3. \A m \in Modules : Once(m)
    BY <1>1, <1>2 DEF Once, Hidden, Gens
  <1> QED BY <1>1, <1>3 DEF Kept, Given

\* A dependency whose lease is held is not being stopped.
LEMMA KeptRuns == Slots /\ Free /\ Kept => DependenciesRunning
  <1> SUFFICES ASSUME Slots, Free, Kept, NEW g \in Gens, Alive(g), NEW d \in Deps[g[1]]
               PROVE  \E n \in 1..MaxGen : <<d, n>> \in deps[g] /\ ~Ending(<<d, n>>)
    BY DEF DependenciesRunning
  <1>1. PICK n \in 1..MaxGen : <<d, n>> \in deps[g]
    BY DEF Kept, Given
  <1>2. <<d, n>> \in Gens
    BY <1>1 DEF Slots, TypeOK
  <1>3. g \in Dependents(<<d, n>>)
    BY <1>1 DEF Dependents
  <1>4. Leased(<<d, n>>)
    BY <1>3 DEF Leased
  <1> QED BY <1>1, <1>2, <1>4 DEF Free

\* As long as an instance may run, each module it was given still runs in the very
\* generation it was given (acquireDependencies, stopGeneration, releaseLeases).
THEOREM DependenciesKeepRunning == Spec => []DependenciesRunning
  <1>1. Slots /\ Free /\ Kept /\ [Next]_vars => (Slots /\ Free /\ Kept)'
    BY NextSlots, NextFree, NextKept
  <1> QED BY <1>1, InitSlots, InitFree, InitKept, KeptRuns, PTL DEF Spec

-----------------------------------------------------------------------------
\* Layer 4: what may drain, and who is told of it.

\* Nobody depends on g.
Alone(g) == \A h \in Gens : g \notin deps[h]

\* A candidate has no dependents and does not drain before it is given up; the published
\* generation drains only on its way out of the slot.
Drains(m) ==
    /\ \A n \in 1..MaxGen : n > next[m] => <<m, n>> \notin draining /\ Alone(<<m, n>>)
    /\ trans[m].pc \in Hidden => Candidate(m) \notin draining /\ Alone(Candidate(m))
    /\ trans[m].pc = "drain" /\ trans[m].prev # None => Alone(<<m, trans[m].prev>>)
    /\ current[m] # None /\ <<m, current[m]>> \in draining =>
          trans[m].pc = "unpublish" \/ closer = "detach"

Told == \A c \in Callers : call[c].pc = "recheck" => <<call[c].mod, call[c].gen>> \in draining

Guarded == (\A m \in Modules : Drains(m)) /\ DependentsKeepIt /\ Told

\* Nobody depends on a generation exactly when its set of dependents is empty.
LEMMA AloneIs == ASSUME NEW g \in Gens PROVE Alone(g) <=> Dependents(g) = {}
  BY DEF Alone, Dependents

\* A step of one module that adds no dependents.
LEMMA OneDrains ==
    ASSUME Slots, \A m \in Modules : Drains(m), NEW m \in Modules, Drains(m)',
           \A k \in Modules : k # m => /\ trans'[k] = trans[k] /\ current'[k] = current[k]
                                       /\ next'[k] = next[k],
           \A k \in Modules, n \in 1..MaxGen :
              k # m => (<<k, n>> \in draining' => <<k, n>> \in draining),
           \A h \in Gens : deps'[h] \subseteq deps[h],
           closer = "detach" => closer' = "detach"
    PROVE  \A k \in Modules : Drains(k)'
  <1> SUFFICES ASSUME NEW k \in Modules, k # m PROVE Drains(k)'
    OBVIOUS
  <1>1. Drains(k) /\ SlotOK(k) /\ TypeOK
    BY DEF Slots
  <1>2. \A n \in 1..MaxGen : <<k, n>> \in Gens
    BY DEF Gens
  <1>3. \A n \in 1..MaxGen : n > next[k] => <<k, n>> \notin draining' /\ Alone(<<k, n>>)'
    BY <1>1, <1>2 DEF Drains, Alone
  <1>4. trans[k].pc \in Hidden =>
           <<k, trans[k].cand>> \notin draining' /\ Alone(<<k, trans[k].cand>>)'
    <2>1. trans[k].pc \in Hidden => trans[k].cand \in 1..MaxGen
      BY <1>1 DEF TypeOK, SlotOK, Hidden, Building
    <2> QED BY <1>1, <1>2, <2>1 DEF Drains, Alone, Candidate
  <1>5. trans[k].pc = "drain" /\ trans[k].prev # None => Alone(<<k, trans[k].prev>>)'
    BY <1>1, <1>2 DEF Drains, Alone, TypeOK, None
  <1>6. current[k] # None /\ <<k, current[k]>> \in draining' =>
           trans[k].pc = "unpublish" \/ closer' = "detach"
    BY <1>1, <1>2 DEF Drains, Alone, TypeOK, None
  <1> QED BY <1>3, <1>4, <1>5, <1>6 DEF Drains, Alone, Candidate

\* A step that moves no slot and drains nothing.
LEMMA DrainsFrame ==
    ASSUME Slots, \A m \in Modules : Drains(m),
           UNCHANGED <<current, next, trans, draining>>,
           \A h \in Gens : deps'[h] \subseteq deps[h],
           closer = "detach" => \/ closer' = "detach"
                                \/ \A m \in Modules : current[m] = None
    PROVE  \A m \in Modules : Drains(m)'
  <1> SUFFICES ASSUME NEW k \in Modules PROVE Drains(k)'
    OBVIOUS
  <1>1. Drains(k) /\ SlotOK(k) /\ TypeOK
    BY DEF Slots
  <1>2. \A n \in 1..MaxGen : <<k, n>> \in Gens
    BY DEF Gens
  <1>3. \A n \in 1..MaxGen : n > next[k] => <<k, n>> \notin draining' /\ Alone(<<k, n>>)'
    BY <1>1, <1>2 DEF Drains, Alone
  <1>4. trans[k].pc \in Hidden =>
           <<k, trans[k].cand>> \notin draining' /\ Alone(<<k, trans[k].cand>>)'
    <2>1. trans[k].pc \in Hidden => trans[k].cand \in 1..MaxGen
      BY <1>1 DEF TypeOK, SlotOK, Hidden, Building
    <2> QED BY <1>1, <1>2, <2>1 DEF Drains, Alone, Candidate
  <1>5. trans[k].pc = "drain" /\ trans[k].prev # None => Alone(<<k, trans[k].prev>>)'
    BY <1>1, <1>2 DEF Drains, Alone, TypeOK, None
  <1>6. current[k] # None /\ <<k, current[k]>> \in draining' =>
           trans[k].pc = "unpublish" \/ closer' = "detach"
    BY <1>1 DEF Drains, Alone
  <1> QED BY <1>3, <1>4, <1>5, <1>6 DEF Drains, Alone, Candidate

\* Steps of a transition that drain nothing and lease nothing.
LEMMA QuietDrains ==
    ASSUME Slots, Guarded, NEW m \in Modules, UNCHANGED <<draining, deps>>,
           \/ BeginActivate(m) \/ BeginDisable(m) \/ CheckDependents(m)
           \/ (AcquireDependencies(m) /\ ~Leases(m)) \/ PrepareCandidate(m) \/ CommitCandidate(m)
           \/ DrainPrevious(m) \/ FinishCommit(m) \/ EndCleanup(m) \/ CommitDisable(m)
           \/ Unpublish(m) \/ RetireDisabled(m)
    PROVE  \A k \in Modules : Drains(k)'
  <1>0. TypeOK /\ SlotOK(m) /\ Drains(m)
    BY DEF Slots, Guarded
  <1>d. \A h \in Gens : deps'[h] = deps[h]
    OBVIOUS
  <1>s. /\ \A k \in Modules : k # m => trans'[k] = trans[k] /\ next'[k] = next[k]
        /\ \A k \in Modules : k # m => current'[k] = current[k]
        /\ UNCHANGED closer
    BY <1>0 DEF TypeOK, BeginActivate, BeginDisable, CheckDependents, AcquireDependencies,
       PrepareCandidate, CommitCandidate, DrainPrevious, FinishCommit, EndCleanup, CommitDisable,
       Unpublish, RetireDisabled, Moves
  \* The slot keeps its generation and the transition goes on or ends.
  <1>1. ASSUME current'[m] = current[m], next'[m] = next[m],
               trans'[m].pc \notin Hidden \cup {"drain"}, trans[m].pc # "unpublish"
        PROVE  Drains(m)'
    <2>1. \A n \in 1..MaxGen : n > next[m] => <<m, n>> \notin draining' /\ Alone(<<m, n>>)'
      BY <1>0, <1>d DEF Drains, Alone, Gens
    <2> QED BY <1>0, <1>1, <1>s, <2>1 DEF Drains, Alone
  <1>2. CASE \/ BeginActivate(m) \/ BeginDisable(m) \/ CheckDependents(m) \/ DrainPrevious(m)
             \/ FinishCommit(m) \/ EndCleanup(m) \/ CommitDisable(m) \/ RetireDisabled(m)
    <2>1. /\ UNCHANGED <<current, next>> /\ trans[m].pc # "unpublish"
          /\ trans'[m].pc \in {"check", "lease", "idle", "disable", "finish", "unpublish"}
      BY <1>0, <1>2, IdleTyped DEF TypeOK, BeginActivate, BeginDisable, CheckDependents,
         DrainPrevious, FinishCommit, EndCleanup, CommitDisable, RetireDisabled, Moves
    <2>2. Drains(m)'
      BY <1>1, <2>1 DEF Hidden
    <2> QED BY <1>d, <1>s, <2>2, OneDrains DEF Guarded
  <1>3. CASE AcquireDependencies(m) /\ ~Leases(m)
    <2>1. UNCHANGED <<current, next>> /\ trans'[m].pc = "idle" /\ trans[m].pc = "lease"
      BY <1>0, <1>3, IdleTyped DEF TypeOK, AcquireDependencies, Leases
    <2>2. Drains(m)'
      BY <1>1, <2>1 DEF Hidden
    <2> QED BY <1>d, <1>s, <2>2, OneDrains DEF Guarded
  <1>4. ASSUME trans[m].pc \in Hidden, trans'[m].pc \in Hidden, trans'[m].cand = trans[m].cand,
               UNCHANGED <<current, next>>
        PROVE  \A k \in Modules : Drains(k)'
    <2>1. trans[m].cand \in 1..MaxGen
      BY <1>0, <1>4 DEF TypeOK, SlotOK, Hidden, Building
    <2>2. /\ <<m, trans[m].cand>> \notin draining' /\ Alone(<<m, trans[m].cand>>)'
          /\ \A n \in 1..MaxGen : n > next[m] =>
                <<m, n>> \notin draining' /\ Alone(<<m, n>>)'
      BY <1>0, <1>4, <1>d, <2>1 DEF Drains, Alone, Gens, Candidate
    <2>3. Drains(m)'
      BY <1>0, <1>4, <1>s, <2>2 DEF Drains, Alone, Hidden, Candidate
    <2> QED BY <1>d, <1>s, <2>3, OneDrains DEF Guarded
  <1>5. CASE PrepareCandidate(m)
    <2>1. /\ trans'[m].pc \in Hidden /\ trans'[m].cand = trans[m].cand /\ trans[m].pc \in Hidden
          /\ UNCHANGED <<current, next>>
      BY <1>0, <1>5 DEF TypeOK, PrepareCandidate, Moves, Hidden
    <2> QED BY <1>4, <2>1
  <1>6. CASE CommitCandidate(m) /\ UNCHANGED current
    <2>1. current[m] # trans[m].cand
      BY <1>0, <1>6 DEF TypeOK, SlotOK, CommitCandidate, Hidden
    <2>2. /\ trans'[m].pc \in Hidden /\ trans'[m].cand = trans[m].cand /\ trans[m].pc \in Hidden
          /\ UNCHANGED next
      BY <1>0, <1>6, <2>1 DEF TypeOK, CommitCandidate, Moves, Hidden
    <2> QED BY <1>4, <1>6, <2>2
  <1>7. CASE CommitCandidate(m) /\ ~UNCHANGED current
    <2>1. /\ trans'[m].pc = "drain" /\ trans'[m].prev = trans[m].prev
          /\ current'[m] = trans[m].cand /\ trans[m].pc = "commit" /\ UNCHANGED next
          /\ trans[m].prev # None => Alone(<<m, trans[m].prev>>)
      <3>1. /\ Moves(m, "drain") /\ current' = [current EXCEPT ![m] = trans[m].cand]
            /\ trans[m].pc = "commit" /\ UNCHANGED next
            /\ trans[m].prev # None => Dependents(<<m, trans[m].prev>>) = {}
        BY <1>7 DEF CommitCandidate
      <3>2. trans[m].prev # None => <<m, trans[m].prev>> \in Gens
        BY <1>0 DEF TypeOK, Gens, None
      <3>3. trans'[m].pc = "drain" /\ trans'[m].prev = trans[m].prev /\ current'[m] = trans[m].cand
        BY <1>0, <3>1, MovesTo DEF TypeOK, TransPC
      <3> QED BY <3>1, <3>2, <3>3, AloneIs
    <2>2. <<m, trans[m].cand>> \notin draining'
      BY <1>0, <2>1 DEF Drains, Alone, Hidden, Candidate
    <2>3. /\ \A n \in 1..MaxGen : n > next[m] =>
                <<m, n>> \notin draining' /\ Alone(<<m, n>>)'
          /\ trans[m].prev # None => Alone(<<m, trans[m].prev>>)'
      BY <1>0, <1>d, <2>1 DEF Drains, Alone, Gens, TypeOK, None
    <2>4. Drains(m)'
      BY <1>0, <1>s, <2>1, <2>2, <2>3 DEF Drains, Alone, Hidden
    <2> QED BY <1>d, <1>s, <2>4, OneDrains DEF Guarded
  <1>8. CASE Unpublish(m)
    <2>1. trans'[m].pc = "retire" /\ current'[m] = None /\ UNCHANGED next
      BY <1>0, <1>8 DEF TypeOK, Unpublish, Moves, None
    <2>2. \A n \in 1..MaxGen : n > next[m] => <<m, n>> \notin draining' /\ Alone(<<m, n>>)'
      BY <1>0, <1>d DEF Drains, Alone, Gens
    <2>3. Drains(m)'
      BY <2>1, <2>2 DEF Drains, Alone, Hidden
    <2> QED BY <1>d, <1>s, <2>3, OneDrains DEF Guarded
  <1> QED BY <1>2, <1>3, <1>5, <1>6, <1>7, <1>8

\* Steps of a transition that begin a drain: of a generation without dependents that is
\* not, or will not be, the slot's.
LEMMA BeginDrains ==
    ASSUME Slots, Guarded, NEW m \in Modules,
           \/ DrainPrevious(m) /\ trans[m].prev # None
           \/ CleanupCandidate(m)
           \/ CommitDisable(m) /\ locked' = m
    PROVE  /\ \A k \in Modules : Drains(k)'
           /\ \E n \in 1..MaxGen : /\ draining' = draining \cup {<<m, n>>}
                                   /\ Alone(<<m, n>>)
  <1>0. TypeOK /\ SlotOK(m) /\ Drains(m)
    BY DEF Slots, Guarded
  <1>1. UNCHANGED deps
    BY DEF DrainPrevious, CleanupCandidate, CommitDisable
  <1>d. \A h \in Gens : deps'[h] = deps[h]
    BY <1>1
  <1>s. /\ \A k \in Modules : k # m => trans'[k] = trans[k] /\ next'[k] = next[k]
        /\ \A k \in Modules : k # m => current'[k] = current[k]
        /\ UNCHANGED <<closer, current, next>>
    BY <1>0 DEF TypeOK, DrainPrevious, CleanupCandidate, CommitDisable, Moves
  <1>2. PICK n \in 1..MaxGen :
           /\ draining' = draining \cup {<<m, n>>} /\ Alone(<<m, n>>) /\ n <= next[m]
           /\ trans'[m].pc \in {"finish", "wait", "unpublish"}
           /\ n = current[m] => trans'[m].pc = "unpublish"
           /\ trans[m].pc # "unpublish"
    <2>1. CASE DrainPrevious(m) /\ trans[m].prev # None
      <3>1. /\ draining' = draining \cup {<<m, trans[m].prev>>} /\ trans[m].pc = "drain"
            /\ trans'[m].pc = "finish"
        BY <1>0, <2>1 DEF DrainPrevious, BeginDrain, Moves, TypeOK
      <3>2. /\ trans[m].prev \in 1..MaxGen /\ trans[m].prev <= next[m]
            /\ trans[m].prev # current[m] /\ Alone(<<m, trans[m].prev>>)
        <4>1. trans[m].prev \in 1..MaxGen /\ trans[m].prev <= next[m] /\ trans[m].prev # current[m]
          BY <1>0, <2>1, <3>1 DEF TypeOK, SlotOK, None, Building
        <4>2. Alone(<<m, trans[m].prev>>)
          BY <1>0, <2>1, <3>1 DEF Drains
        <4> QED BY <4>1, <4>2
      <3> QED BY <3>1, <3>2
    <2>2. CASE CleanupCandidate(m)
      <3>1. /\ draining' = draining \cup {<<m, trans[m].cand>>} /\ trans[m].pc = "cleanup"
            /\ trans'[m].pc = "wait"
        BY <1>0, <2>2 DEF CleanupCandidate, BeginDrain, Moves, TypeOK, Candidate
      <3>2. /\ trans[m].cand \in 1..MaxGen /\ trans[m].cand <= next[m]
            /\ trans[m].cand # current[m] /\ Alone(<<m, trans[m].cand>>)
        <4>1. trans[m].cand \in 1..MaxGen /\ trans[m].cand <= next[m] /\ trans[m].cand # current[m]
          BY <1>0, <3>1 DEF TypeOK, SlotOK, Hidden, Building
        <4>2. Alone(<<m, trans[m].cand>>)
          BY <1>0, <3>1 DEF Drains, Hidden, Candidate
        <4> QED BY <4>1, <4>2
      <3> QED BY <3>1, <3>2
    <2>3. CASE CommitDisable(m) /\ locked' = m
      <3>1. /\ draining' = draining \cup {<<m, current[m]>>} /\ trans[m].pc = "disable"
            /\ trans'[m].pc = "unpublish" /\ current[m] # None
            /\ Alone(<<m, current[m]>>)
        <4>1. locked = NoModule /\ locked # m
          BY <2>3 DEF CommitDisable
        <4>2. /\ BeginDrain(<<m, current[m]>>) /\ current[m] # None /\ trans[m].pc = "disable"
              /\ Dependents(<<m, current[m]>>) = {}
              /\ trans' = [trans EXCEPT ![m] = [pc |-> "unpublish", prev |-> current[m],
                                               cand |-> None]]
          BY <2>3, <4>1 DEF CommitDisable
        <4>3. trans'[m].pc = "unpublish" /\ <<m, current[m]>> \in Gens
          BY <1>0, <4>2 DEF TypeOK, Gens, None
        <4> QED BY <4>2, <4>3, AloneIs DEF BeginDrain
      <3>2. current[m] \in 1..MaxGen /\ current[m] <= next[m]
        BY <1>0, <3>1 DEF TypeOK, SlotOK, None
      <3> QED BY <3>1, <3>2
    <2> QED BY <2>1, <2>2, <2>3
  <1>3. \A i \in 1..MaxGen : i > next[m] => <<m, i>> \notin draining' /\ Alone(<<m, i>>)'
    BY <1>0, <1>2, <1>d DEF Drains, Alone, Gens, TypeOK
  <1>4. current[m] # None /\ <<m, current[m]>> \in draining' =>
           trans'[m].pc = "unpublish" \/ closer = "detach"
    BY <1>0, <1>2 DEF Drains, Alone
  <1>5. Drains(m)'
    BY <1>2, <1>3, <1>4, <1>s DEF Drains, Alone, Hidden
  <1>6. \A k \in Modules, i \in 1..MaxGen :
           k # m => (<<k, i>> \in draining' => <<k, i>> \in draining)
    BY <1>2
  <1>7. \A k \in Modules : Drains(k)'
    BY <1>5, <1>6, <1>d, <1>s, OneDrains DEF Guarded
  <1> QED BY <1>2, <1>7

\* A candidate's leases are on published generations, which no rule but the last is about.
LEMMA LeaseDrains ==
    ASSUME Slots, Guarded, NEW m \in Modules, AcquireDependencies(m), Leases(m)
    PROVE  \A k \in Modules : Drains(k)'
  <1>0. TypeOK /\ SlotOK(m) /\ Drains(m)
    BY DEF Slots, Guarded
  <1>1. /\ UNCHANGED <<current, locked, draining, closer>> /\ trans[m].pc = "lease"
        /\ locked = NoModule
    BY DEF AcquireDependencies
  <1>2. /\ trans'[m].pc = "prepare" /\ trans'[m].cand = next[m] + 1 /\ next'[m] = next[m] + 1
        /\ next[m] + 1 \in 1..MaxGen
        /\ \A k \in Modules : k # m => trans'[k] = trans[k] /\ next'[k] = next[k]
    BY <1>0, <1>1 DEF TypeOK, SlotOK, Leases
  \* A generation that is not published gets no new dependent.
  <1>3. ASSUME NEW k \in Modules, NEW n \in 1..MaxGen, n # current[k], Alone(<<k, n>>)
        PROVE  \A h \in Gens : <<k, n>> \notin deps'[h]
    <2>1. <<k, n>> \notin {<<d, current[d]>> : d \in Deps[m]}
      BY <1>3
    <2>2. \A h \in Gens : \/ deps'[h] = {<<d, current[d]>> : d \in Deps[m]}
                          \/ deps'[h] = deps[h]
      BY CandidateLeases
    <2> QED BY <1>3, <2>1, <2>2 DEF Alone
  <1> SUFFICES ASSUME NEW k \in Modules PROVE Drains(k)'
    OBVIOUS
  <1>4. Drains(k) /\ SlotOK(k)
    BY DEF Slots, Guarded
  <1>5. \A n \in 1..MaxGen : n > next[k] =>
           <<k, n>> \notin draining' /\ \A h \in Gens : <<k, n>> \notin deps'[h]
    <2> SUFFICES ASSUME NEW n \in 1..MaxGen, n > next[k]
                 PROVE  <<k, n>> \notin draining' /\ \A h \in Gens : <<k, n>> \notin deps'[h]
      OBVIOUS
    <2>1. n # current[k]
      BY <1>0, <1>4 DEF TypeOK, SlotOK
    <2>2. <<k, n>> \notin draining /\ Alone(<<k, n>>)
      BY <1>4 DEF Drains
    <2> QED BY <1>1, <1>3, <2>1, <2>2
  <1>6. current'[k] # None /\ <<k, current'[k]>> \in draining' =>
           trans'[k].pc = "unpublish" \/ closer' = "detach"
    BY <1>1, <1>2, <1>4 DEF Drains
  <1>7. CASE k = m
    <2>1. \A n \in 1..MaxGen : n > next'[k] => n > next[k]
      BY <1>0, <1>2, <1>7 DEF TypeOK
    <2>2. next[m] + 1 > next[m]
      BY <1>0 DEF TypeOK
    <2>3. /\ <<m, next[m] + 1>> \notin draining'
          /\ \A h \in Gens : <<m, next[m] + 1>> \notin deps'[h]
      BY <1>2, <1>5, <1>7, <2>2
    <2>4. Candidate(m)' \notin draining' /\ Alone(Candidate(m))'
      BY <1>2, <2>3 DEF Candidate, Alone
    <2>5. \A n \in 1..MaxGen : n > next'[k] => <<k, n>> \notin draining' /\ Alone(<<k, n>>)'
      BY <1>5, <2>1 DEF Alone
    <2> QED BY <1>2, <1>6, <1>7, <2>4, <2>5 DEF Drains
  <1>8. CASE k # m
    <2>1. trans'[k] = trans[k] /\ next'[k] = next[k] /\ trans[k].pc # "drain"
      BY <1>1, <1>2, <1>4, <1>8 DEF SlotOK
    <2>2. trans[k].pc \in Hidden => /\ <<k, trans[k].cand>> \notin draining'
                                    /\ \A h \in Gens : <<k, trans[k].cand>> \notin deps'[h]
      <3> SUFFICES ASSUME trans[k].pc \in Hidden
                   PROVE  /\ <<k, trans[k].cand>> \notin draining'
                          /\ \A h \in Gens : <<k, trans[k].cand>> \notin deps'[h]
        OBVIOUS
      <3>1. trans[k].cand \in 1..MaxGen /\ trans[k].cand # current[k]
        BY <1>0, <1>4 DEF TypeOK, SlotOK, Hidden, Building
      <3>2. <<k, trans[k].cand>> \notin draining /\ Alone(<<k, trans[k].cand>>)
        BY <1>4 DEF Drains, Candidate
      <3> QED BY <1>1, <1>3, <3>1, <3>2
    <2>3. trans'[k].pc \in Hidden => Candidate(k)' \notin draining' /\ Alone(Candidate(k))'
      BY <2>1, <2>2 DEF Candidate, Alone
    <2>4. \A n \in 1..MaxGen : n > next'[k] => <<k, n>> \notin draining' /\ Alone(<<k, n>>)'
      BY <1>5, <2>1 DEF Alone
    <2> QED BY <1>6, <2>1, <2>3, <2>4 DEF Drains
  <1> QED BY <1>7, <1>8

\* closeAll detaches published generations, when no transition is under way.
LEMMA DetachDrains ==
    ASSUME Slots, Guarded, NEW m \in Modules, DetachBegin(m) \/ DetachEnd(m)
    PROVE  \A k \in Modules : Drains(k)'
  <1>0. TypeOK /\ SlotOK(m) /\ Drains(m)
    BY DEF Slots, Guarded
  <1>1. /\ UNCHANGED <<next, trans, deps, closer>> /\ closer = "detach"
        /\ \A k \in Modules : k # m => current'[k] = current[k]
    BY <1>0 DEF DetachBegin, DetachEnd, TypeOK, leases
  <1>2. trans[m].pc = "idle"
    BY <1>1 DEF Slots, LockOK
  <1>3. \/ draining' = draining
        \/ draining' = draining \cup {<<m, current[m]>>}
    BY DEF DetachBegin, DetachEnd, BeginDrain, leases
  <1>4. \A n \in 1..MaxGen : n > next[m] => <<m, n>> \notin draining' /\ Alone(<<m, n>>)'
    <2>1. \A n \in 1..MaxGen : n > next[m] => n # current[m]
      BY <1>0 DEF TypeOK, SlotOK
    <2> QED BY <1>0, <1>1, <1>3, <2>1 DEF Drains, Alone
  <1>5. Drains(m)'
    BY <1>1, <1>2, <1>4 DEF Drains, Hidden
  <1>6. \A k \in Modules, n \in 1..MaxGen :
           k # m => (<<k, n>> \in draining' => <<k, n>> \in draining)
    BY <1>3
  <1> QED BY <1>1, <1>5, <1>6, OneDrains DEF Guarded

\* The rules on draining hold after every step.
LEMMA NextDrains == ASSUME Slots, Guarded, [Next]_vars PROVE \A m \in Modules : Drains(m)'
  <1> DEFINE Goal == \A m \in Modules : Drains(m)'
  <1>0. TypeOK /\ \A m \in Modules : Drains(m)
    BY DEF Slots, Guarded
  <1>1. ASSUME UNCHANGED <<current, next, trans, draining, deps>>,
               closer = "detach" => closer' = "detach" \/ \A m \in Modules : current[m] = None
        PROVE  Goal
    BY <1>0, <1>1, DrainsFrame
  <1>2. ASSUME NEW m \in Modules, TransitionStep(m) PROVE Goal
    <2>1. CASE AcquireDependencies(m) /\ Leases(m)
      BY <2>1, LeaseDrains
    <2>2. CASE \/ DrainPrevious(m) /\ trans[m].prev # None
               \/ CleanupCandidate(m)
               \/ CommitDisable(m) /\ locked' = m
      BY <2>2, BeginDrains
    <2>3. CASE AcquireDependencies(m) /\ ~Leases(m)
      <3>1. UNCHANGED <<draining, deps>>
        BY <2>3 DEF AcquireDependencies, Leases
      <3> QED BY <2>3, <3>1, QuietDrains
    <2>4. CASE DrainPrevious(m) /\ trans[m].prev = None
      <3>1. UNCHANGED <<draining, deps>>
        BY <2>4 DEF DrainPrevious
      <3> QED BY <2>4, <3>1, QuietDrains
    <2>5. CASE CommitDisable(m) /\ locked' # m
      <3>1. UNCHANGED <<draining, deps>>
        BY <2>5 DEF CommitDisable
      <3> QED BY <2>5, <3>1, QuietDrains
    <2>6. CASE \/ CheckDependents(m) \/ PrepareCandidate(m) \/ CommitCandidate(m)
               \/ FinishCommit(m) \/ EndCleanup(m) \/ Unpublish(m) \/ RetireDisabled(m)
      <3>1. UNCHANGED <<draining, deps>>
        BY <2>6 DEF CheckDependents, PrepareCandidate, CommitCandidate, FinishCommit, EndCleanup,
           Unpublish, RetireDisabled, leases
      <3> QED BY <2>6, <3>1, QuietDrains
    <2> QED BY <1>2, <2>1, <2>2, <2>3, <2>4, <2>5, <2>6 DEF TransitionStep
  <1>3. ASSUME NEW m \in Modules, BeginActivate(m) \/ BeginDisable(m) PROVE Goal
    <2>1. UNCHANGED <<draining, deps>>
      BY <1>3 DEF BeginActivate, BeginDisable, leases
    <2> QED BY <1>3, <2>1, QuietDrains
  <1>4. ASSUME NEW g \in Gens, DrainTimeout(g) PROVE Goal
    <2> DEFINE m == g[1]
    <2>0. m \in Modules
      BY DEF Gens
    <2>1. /\ UNCHANGED <<current, next, draining, deps, closer>> /\ trans[m].pc = "wait"
          /\ trans' = [trans EXCEPT ![m] = Idle]
      BY <1>4 DEF DrainTimeout, leases
    <2> HIDE DEF m
    <2>2. trans'[m].pc = "idle" /\ \A k \in Modules : k # m => trans'[k] = trans[k]
      BY <1>0, <2>0, <2>1, IdleTyped DEF TypeOK
    <2>3. Drains(m)'
      BY <1>0, <2>0, <2>1, <2>2 DEF Drains, Alone, Hidden
    <2> QED BY <1>0, <2>0, <2>1, <2>2, <2>3, OneDrains
  <1>5. ASSUME NEW g \in Gens, RetirementStep(g) PROVE Goal
    <2>1. UNCHANGED <<current, next, trans, draining, closer>>
      BY <1>5 DEF RetirementStep, StopGeneration, Stopped, ReleaseDependency, slots, leases
    <2>2. \A h \in Gens : deps'[h] \subseteq deps[h]
      BY <1>0, <1>5 DEF RetirementStep, StopGeneration, Stopped, ReleaseDependency, leases, TypeOK
    <2> QED BY <1>0, <2>1, <2>2, DrainsFrame
  <1>6. ASSUME NEW m \in Modules, DetachBegin(m) \/ DetachEnd(m) PROVE Goal
    BY <1>6, DetachDrains
  <1>7. CASE Close \/ TransitionsOver \/ AllDetached \/ CloseDone
    <2>1. UNCHANGED <<current, next, trans, draining, deps>>
      BY <1>7 DEF Close, TransitionsOver, AllDetached, CloseDone, slots, leases
    <2>2. closer = "detach" => closer' = "detach" \/ \A m \in Modules : current[m] = None
      BY <1>7 DEF Close, TransitionsOver, AllDetached, CloseDone, Slots, LockOK
    <2> QED BY <1>1, <2>1, <2>2
  <1>8. ASSUME NEW c \in Callers, CallerStep(c) PROVE Goal
    BY <1>1, <1>8 DEF CallerStep, Load, Acquire, Recheck, Return, Release, slots, leases
  <1>9. ASSUME NEW g \in Gens, AcquireBackground(g) \/ ReleaseBackground(g) PROVE Goal
    BY <1>1, <1>9 DEF AcquireBackground, ReleaseBackground, slots, leases
  <1>10. CASE UNCHANGED vars
    BY <1>1, <1>10 DEF vars, slots, leases
  <1>11. CASE CloseStep
    BY <1>6, <1>7, <1>11 DEF CloseStep
  <1> QED BY <1>2, <1>3, <1>4, <1>5, <1>7, <1>8, <1>9, <1>10, <1>11 DEF Next, AtRest

\* What keeps DependentsKeepIt: a drain that begins has no dependents or is the close's, and
\* a new dependent is on a generation that does not drain.
KeepRules ==
    /\ closed => closed'
    /\ \A g \in Gens : g \in draining' => g \in draining \/ closed' \/ Alone(g)
    /\ \A g \in Gens : g \in draining' /\ ~closed' /\ Alone(g) => \A h \in Gens : g \notin deps'[h]

\* A step that adds no dependents and no drains.
LEMMA KeepFrame ==
    ASSUME UNCHANGED closed, draining' = draining, \A h \in Gens : deps'[h] \subseteq deps[h]
    PROVE  KeepRules
  BY DEF KeepRules, Alone

\* Every step keeps the rules on drains and dependents.
LEMMA NextKeep == ASSUME Slots, Guarded, [Next]_vars PROVE KeepRules
  <1>0. TypeOK
    BY DEF Slots
  <1>1. ASSUME UNCHANGED <<draining, deps>>, closed => closed' PROVE KeepRules
    BY <1>1 DEF KeepRules, Alone
  <1>2. ASSUME NEW m \in Modules, TransitionStep(m) PROVE KeepRules
    <2>1. CASE AcquireDependencies(m) /\ Leases(m)
      <3>1. UNCHANGED <<draining, closed>>
        BY <2>1 DEF AcquireDependencies
      <3>2. \A g \in Gens : g \in draining => g \notin {<<d, current[d]>> : d \in Deps[m]}
        BY <2>1 DEF Leases
      <3>3. \A h \in Gens : \/ deps'[h] = {<<d, current[d]>> : d \in Deps[m]}
                            \/ deps'[h] = deps[h]
        BY <2>1, CandidateLeases
      <3> QED BY <3>1, <3>2, <3>3 DEF KeepRules, Alone
    <2>2. CASE \/ DrainPrevious(m) /\ trans[m].prev # None
               \/ CleanupCandidate(m)
               \/ CommitDisable(m) /\ locked' = m
      <3>1. PICK n \in 1..MaxGen : draining' = draining \cup {<<m, n>>} /\ Alone(<<m, n>>)
        BY <2>2, BeginDrains
      <3>2. UNCHANGED <<deps, closed>>
        BY <2>2 DEF DrainPrevious, CleanupCandidate, CommitDisable
      <3> QED BY <3>1, <3>2 DEF KeepRules, Alone
    <2>3. CASE ~(\/ DrainPrevious(m) /\ trans[m].prev # None
                 \/ CleanupCandidate(m)
                 \/ CommitDisable(m) /\ locked' = m
                 \/ AcquireDependencies(m) /\ Leases(m))
      <3>1. UNCHANGED <<draining, deps, closed>>
        BY <1>2, <2>3 DEF TransitionStep, CheckDependents, AcquireDependencies, Leases,
           PrepareCandidate, CommitCandidate, DrainPrevious, FinishCommit, EndCleanup,
           CommitDisable, Unpublish, RetireDisabled, leases
      <3> QED BY <1>1, <3>1
    <2> QED BY <2>1, <2>2, <2>3
  <1>3. ASSUME NEW m \in Modules, BeginActivate(m) \/ BeginDisable(m) PROVE KeepRules
    BY <1>1, <1>3 DEF BeginActivate, BeginDisable, leases
  <1>4. ASSUME NEW g \in Gens, DrainTimeout(g) \/ AcquireBackground(g) \/ ReleaseBackground(g)
        PROVE  KeepRules
    BY <1>1, <1>4 DEF DrainTimeout, AcquireBackground, ReleaseBackground, leases
  <1>5. ASSUME NEW g \in Gens, RetirementStep(g) PROVE KeepRules
    <2>1. UNCHANGED <<draining, closed>>
      BY <1>5 DEF RetirementStep, StopGeneration, Stopped, ReleaseDependency, leases
    <2>2. \A h \in Gens : deps'[h] \subseteq deps[h]
      BY <1>0, <1>5 DEF RetirementStep, StopGeneration, Stopped, ReleaseDependency, leases, TypeOK
    <2> QED BY <2>1, <2>2, KeepFrame
  <1>6. CASE CloseStep
    <2>1. closed /\ closed' /\ UNCHANGED deps
      BY <1>6 DEF CloseStep, TransitionsOver, AllDetached, CloseDone, DetachBegin, DetachEnd, Slots,
         LockOK, leases
    <2> QED BY <2>1 DEF KeepRules
  <1>7. CASE Close
    BY <1>1, <1>7 DEF Close, leases
  <1>8. ASSUME NEW c \in Callers, CallerStep(c) PROVE KeepRules
    BY <1>1, <1>8 DEF CallerStep, Load, Acquire, Recheck, Return, Release, leases
  <1>9. CASE UNCHANGED vars
    BY <1>1, <1>9 DEF vars, leases
  <1> QED BY <1>2, <1>3, <1>4, <1>5, <1>6, <1>7, <1>8, <1>9 DEF Next, AtRest

\* Only a caller's own step makes it look at the slot again.
LEMMA NextTold == ASSUME Slots, Told, [Next]_vars PROVE Told'
  <1>0. TypeOK /\ draining \subseteq draining'
    BY NextRules DEF Slots, LeaseRules
  <1>1. CASE UNCHANGED call
    BY <1>0, <1>1 DEF Told
  <1>2. ASSUME NEW c \in Callers, CallerStep(c) PROVE Told'
    <2>1. \A d \in Callers : d # c => call'[d] = call[d]
      BY <1>0, <1>2 DEF TypeOK, CallerStep, Load, Acquire, Recheck, Return, Release
    <2>2. call'[c].pc = "recheck" => <<call'[c].mod, call'[c].gen>> \in draining
      <3>1. CASE Acquire(c)
        <4>1. /\ call'[c].mod = call[c].mod /\ call'[c].gen = call[c].gen
              /\ call'[c].pc = IF <<call[c].mod, call[c].gen>> \in draining THEN "recheck"
                               ELSE "held"
          BY <1>0, <3>1 DEF TypeOK, Acquire
        <4> QED BY <4>1
      <3>2. CASE ~Acquire(c)
        <4>1. call'[c] = Quiet \/ call'[c].pc \in {"loaded", "refused", "again"}
          BY <1>0, <1>2, <3>2 DEF TypeOK, CallerStep, Load, Recheck, Return, Release
        <4> QED BY <4>1 DEF Quiet
      <3> QED BY <3>1, <3>2
    <2> QED BY <1>0, <2>1, <2>2 DEF Told
  <1>3. ASSUME NEW m \in Modules, TransitionStep(m) PROVE UNCHANGED call
    BY <1>3 DEF TransitionStep, CheckDependents, AcquireDependencies, PrepareCandidate,
       CommitCandidate, DrainPrevious, FinishCommit, CleanupCandidate, EndCleanup, CommitDisable,
       Unpublish, RetireDisabled
  <1>4. ASSUME NEW g \in Gens,
               \/ AcquireBackground(g) \/ ReleaseBackground(g) \/ DrainTimeout(g)
               \/ RetirementStep(g)
        PROVE  UNCHANGED call
    BY <1>4 DEF AcquireBackground, ReleaseBackground, DrainTimeout, RetirementStep, StopGeneration,
       Stopped, ReleaseDependency
  <1>5. CASE Close \/ CloseStep
    BY <1>1, <1>5 DEF Close, CloseStep, TransitionsOver, AllDetached, CloseDone, DetachBegin,
       DetachEnd
  <1> QED BY <1>1, <1>2, <1>3, <1>4, <1>5 DEF Next, AtRest, vars, BeginActivate, BeginDisable

\* Layer 4 is inductive.
LEMMA NextGuarded == ASSUME Slots, Guarded, [Next]_vars PROVE Guarded'
  <1>1. (\A m \in Modules : Drains(m)') /\ Told'
    BY NextDrains, NextTold DEF Guarded
  <1>2. KeepRules
    BY NextKeep
  <1>3. ASSUME NEW g \in Gens, g \in draining', ~closed'
        PROVE  \A h \in Gens : g \notin deps'[h]
    <2>1. g \in draining => Alone(g)
      BY <1>2, <1>3, AloneIs DEF KeepRules, Guarded, DependentsKeepIt
    <2> QED BY <1>2, <1>3, <2>1 DEF KeepRules
  <1>4. DependentsKeepIt'
    BY <1>3 DEF DependentsKeepIt, Dependents
  <1> QED BY <1>1, <1>4 DEF Guarded

\* Layer 4 holds at the start: nothing drains.
LEMMA InitGuarded == Init => Guarded
  <1> SUFFICES ASSUME Init PROVE Guarded
    OBVIOUS
  <1>1. /\ \A m \in Modules : current[m] = None /\ trans[m].pc = "idle"
        /\ draining = {} /\ \A h \in Gens : deps[h] = {}
    BY IdleTyped DEF Init
  <1>2. \A m \in Modules : Drains(m)
    BY <1>1 DEF Drains, Alone, Hidden
  <1>3. DependentsKeepIt /\ Told
    BY <1>1 DEF DependentsKeepIt, Told, Init, Quiet
  <1> QED BY <1>2, <1>3 DEF Guarded

\* Layers 1 and 4 hold throughout.
LEMMA GuardedHolds == Spec => [](Slots /\ Guarded)
  <1>1. Slots /\ Guarded /\ [Next]_vars => (Slots /\ Guarded)'
    BY NextSlots, NextGuarded
  <1> QED BY <1>1, InitSlots, InitGuarded, PTL DEF Spec

\* Until the manager is closed no generation drains that another one depends on, however
\* activations, replacements and disables interleave (graphMu, rejectActiveDependents,
\* commitCandidateSlot, commitDisable).
THEOREM DependentsAreSafe == Spec => []DependentsKeepIt
  <1>1. Slots /\ Guarded => DependentsKeepIt
    BY DEF Guarded
  <1> QED BY <1>1, GuardedHolds, PTL

\* A caller is told ErrModuleDraining only while the module is disabled or closed
\* (Manager.acquire's second look at the slot; the order of commitCandidateSlot's writes).
THEOREM ReplacedWithoutRefusal == Spec => NoRefusalOnReplace
  <1> DEFINE Step == \A c \in Callers : call'[c].pc = "refused" /\ call[c].pc # "refused" =>
                        trans[call[c].mod].pc = "unpublish" \/ closer = "detach"
  <1>1. ASSUME Slots, Guarded, [Next]_vars PROVE [Step]_vars
    <2> SUFFICES ASSUME NEW c \in Callers, call'[c].pc = "refused", call[c].pc # "refused"
                 PROVE  trans[call[c].mod].pc = "unpublish" \/ closer = "detach"
      OBVIOUS
    <2>0. TypeOK
      BY <1>1 DEF Slots
    <2>1. Recheck(c)
      <3>1. ASSUME NEW d \in Callers, CallerStep(d) PROVE Recheck(c)
        <4>1. d = c
          BY <2>0, <3>1 DEF TypeOK, CallerStep, Load, Acquire, Recheck, Return, Release
        <4>2. ASSUME ~Recheck(d)
              PROVE  call'[d] = Quiet \/ call'[d].pc \in {"loaded", "recheck", "held"}
          BY <2>0, <3>1, <4>2 DEF TypeOK, CallerStep, Load, Acquire, Return, Release
        <4> QED BY <4>1, <4>2 DEF Quiet
      <3>2. ASSUME NEW m \in Modules, TransitionStep(m) PROVE UNCHANGED call
        BY <3>2 DEF TransitionStep, CheckDependents, AcquireDependencies, PrepareCandidate,
           CommitCandidate, DrainPrevious, FinishCommit, CleanupCandidate, EndCleanup,
           CommitDisable, Unpublish, RetireDisabled
      <3>3. ASSUME NEW g \in Gens,
                   \/ AcquireBackground(g) \/ ReleaseBackground(g) \/ DrainTimeout(g)
                   \/ RetirementStep(g)
            PROVE  UNCHANGED call
        BY <3>3 DEF AcquireBackground, ReleaseBackground, DrainTimeout, RetirementStep,
           StopGeneration, Stopped, ReleaseDependency
      <3>4. ASSUME Close \/ CloseStep PROVE UNCHANGED call
        BY <3>4 DEF Close, CloseStep, TransitionsOver, AllDetached, CloseDone, DetachBegin,
           DetachEnd
      <3> QED BY <1>1, <3>1, <3>2, <3>3, <3>4 DEF Next, AtRest, vars, BeginActivate, BeginDisable
    <2>2. current[call[c].mod] = call[c].gen
      BY <2>0, <2>1 DEF Recheck, TypeOK
    <2>3. /\ call[c].pc = "recheck" /\ call[c].mod \in Modules /\ call[c].gen \in 1..MaxGen
          /\ <<call[c].mod, call[c].gen>> \in draining
      BY <1>1, <2>0, <2>1 DEF Recheck, TypeOK, Guarded, Told
    <2>4. Drains(call[c].mod)
      BY <1>1, <2>3 DEF Guarded
    <2> QED BY <2>2, <2>3, <2>4 DEF Drains, None
  <1> QED BY <1>1, GuardedHolds, PTL DEF Spec, NoRefusalOnReplace

=============================================================================
