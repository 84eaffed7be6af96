-------------------------- MODULE ModuleLifecycle --------------------------
(***************************************************************************)
(* platform/lifecycle/modules: generations of modules are prepared,        *)
(* published, replaced, disabled and closed while requests, background     *)
(* workers and dependent modules hold leases on them.                      *)
(*                                                                         *)
(* A generation is a pair <<module, number>>.  Its lease counts are not    *)
(* variables: a lease is counted exactly while its holder has it, so the   *)
(* counts are the holders (callers, background work, and the dependency    *)
(* lists of other generations).                                            *)
(*                                                                         *)
(* Manager.Acquire takes no manager lock.  The two writes of a commit, the *)
(* slot's pointer and the drain of the old generation, are therefore two   *)
(* steps under graphMu that callers may run between.                       *)
(***************************************************************************)
EXTENDS Integers, Sequences, FiniteSets

CONSTANTS
    Modules,
    Deps,           \* Deps[m]: the modules m's definition names
    Order,          \* the catalog's topological order, dependencies first
    HasWorker,      \* modules whose instances run background work under leases
    Callers,        \* requests and workers that use Manager.Acquire
    NoModule,
    MaxGen,         \* bound on the generations of a module
    CallbackErrors  \* may Prepare, Start, Ready, Quiesce and Stop fail?

ASSUME LifecycleAssumption ==
    /\ MaxGen \in Nat
    /\ HasWorker \subseteq Modules
    /\ NoModule \notin Modules
    /\ Deps \in [Modules -> SUBSET Modules]
    /\ CallbackErrors \in BOOLEAN
    /\ Order \in Seq(Modules)

\* buildCatalog: every module once, after the modules it depends on.
topologicalOrder ==
    /\ {Order[i] : i \in 1..Len(Order)} = Modules
    /\ \A i, j \in 1..Len(Order) :
          (Order[i] = Order[j] => i = j) /\ (Order[j] \in Deps[Order[i]] => j < i)
ASSUME CatalogAssumption == topologicalOrder

Gens == Modules \X (1..MaxGen)
None == 0                        \* no generation in a slot

VARIABLES
    current,        \* slot.current: the published generation's number
    next,           \* slot.next: generations numbered so far
    trans,          \* a slot's transition in progress
    locked,         \* who holds graphMu across two steps
    draining,       \* generations whose drain has begun
    drained,        \* generations whose drained channel is closed
    working,        \* generations with background work under a lease
    deps,           \* generation.dependencies: the leases it holds on others
    task,           \* what the retirement of a generation has reached
    call,           \* callers of Manager.Acquire
    closed,
    closer          \* closeAll: modules still to detach, or the end

slots  == <<current, next, trans, locked>>
leases == <<draining, drained, working, deps>>
vars   == <<slots, leases, task, call, closed, closer>>

Idle  == [pc |-> "idle", prev |-> None, cand |-> None]
Quiet == [pc |-> "idle", mod |-> NoModule, gen |-> None]

TransPC == {"idle", "check", "lease", "prepare", "launch", "commit", "drain", "finish",
            "cleanup", "wait", "disable", "unpublish", "retire"}
Tasks   == {"none", "draining", "stopping", "releasing", "done", "failed"}

TypeOK ==
    /\ current \in [Modules -> 0..MaxGen]
    /\ next \in [Modules -> 0..MaxGen]
    /\ trans \in [Modules -> [pc : TransPC, prev : 0..MaxGen, cand : 0..MaxGen]]
    /\ locked \in Modules \cup {NoModule}
    /\ draining \subseteq Gens /\ drained \subseteq Gens /\ working \subseteq Gens
    /\ deps \in [Gens -> SUBSET Gens]
    /\ task \in [Gens -> Tasks]
    /\ call \in [Callers -> [pc : {"idle", "loaded", "recheck", "again", "held", "refused"},
                             mod : Modules \cup {NoModule}, gen : 0..MaxGen]]
    /\ \A c \in Callers : call[c].pc # "idle" =>
          call[c].mod \in Modules /\ call[c].gen \in 1..MaxGen
    /\ closed \in BOOLEAN
    /\ closer \in {"off", "waiting", "detach", "draining", "done"}

Init ==
    /\ current = [m \in Modules |-> None]
    /\ next = [m \in Modules |-> 0]
    /\ trans = [m \in Modules |-> Idle]
    /\ locked = NoModule
    /\ draining = {} /\ drained = {} /\ working = {}
    /\ deps = [g \in Gens |-> {}]
    /\ task = [g \in Gens |-> "none"]
    /\ call = [c \in Callers |-> Quiet]
    /\ closed = FALSE
    /\ closer = "off"

(***************************************************************************)
(* Leases.                                                                 *)
(***************************************************************************)
Users(g)      == {c \in Callers : call[c].pc = "held" /\ <<call[c].mod, call[c].gen>> = g}
Dependents(g) == {h \in Gens : g \in deps[h]}
Leased(g)     == Users(g) # {} \/ Dependents(g) # {} \/ g \in working

\* beginDrain: refuse new leases; the channel closes at once if there are none.
BeginDrain(g) ==
    /\ draining' = draining \cup {g}
    /\ drained' = IF g \in draining \/ Leased(g) THEN drained ELSE drained \cup {g}

\* Mutant: release forgets the channel that the drain waits for.
CloseNever(g) == UNCHANGED drained
\* What a release does to the channel once the lease is gone.
CloseIfLast(g) ==
    drained' = IF g \in draining /\ ~Leased(g)' THEN drained \cup {g} ELSE drained

(***************************************************************************)
(* Manager.Acquire and Lease.Release.  A caller that finds the manager     *)
(* closed or the slot empty is answered at once and changes nothing.       *)
(***************************************************************************)
\* Mutant: the slot's pointer is not checked for nil after the retry.
LoadUnchecked(c, m) ==
    /\ \/ call[c].pc = "idle" /\ ~closed /\ current[m] # None
       \/ call[c].pc = "again" /\ call[c].mod = m
    /\ call' = [call EXCEPT ![c] = [pc |-> "loaded", mod |-> m, gen |-> current[m]]]
    /\ UNCHANGED <<slots, leases, task, closed, closer>>

Load(c, m) ==
    /\ \/ call[c].pc = "idle" /\ ~closed /\ current[m] # None
       \/ call[c].pc = "again" /\ call[c].mod = m
    /\ call' = [call EXCEPT ![c] =
                   IF current[m] = None THEN Quiet
                   ELSE [pc |-> "loaded", mod |-> m, gen |-> current[m]]]
    /\ UNCHANGED <<slots, leases, task, closed, closer>>

\* Mutant: acquire does not look at the draining flag.
AcquireDraining(c) ==
    /\ call[c].pc = "loaded"
    /\ call' = [call EXCEPT ![c].pc = "held"]
    /\ UNCHANGED <<slots, leases, task, closed, closer>>

Acquire(c) ==
    /\ call[c].pc = "loaded"
    /\ call' = [call EXCEPT ![c].pc =
                   IF <<call[c].mod, call[c].gen>> \in draining THEN "recheck" ELSE "held"]
    /\ UNCHANGED <<slots, leases, task, closed, closer>>

\* Mutant: a draining generation is reported without loading the slot again.
RefuseAtOnce(c) ==
    /\ call[c].pc = "recheck"
    /\ call' = [call EXCEPT ![c].pc = "refused"]
    /\ UNCHANGED <<slots, leases, task, closed, closer>>

\* Only a generation that is still the slot's is reported as ErrModuleDraining.
Recheck(c) ==
    /\ call[c].pc = "recheck"
    /\ call' = [call EXCEPT ![c].pc =
                   IF current[call[c].mod] = call[c].gen THEN "refused" ELSE "again"]
    /\ UNCHANGED <<slots, leases, task, closed, closer>>

Return(c) ==
    /\ call[c].pc = "refused"
    /\ call' = [call EXCEPT ![c] = Quiet]
    /\ UNCHANGED <<slots, leases, task, closed, closer>>

Release(c) ==
    \E g \in Gens :
       /\ c \in Users(g)
       /\ call' = [call EXCEPT ![c] = Quiet]
       /\ UNCHANGED <<slots, draining, working, deps, task, closed, closer>>
       /\ CloseIfLast(g)

\* generationController.AcquireBackground: an instance's own worker.  The controller
\* exists from Prepare on, whether or not the generation is ever published.
AcquireBackground(g) ==
    /\ g[1] \in HasWorker /\ g[2] <= next[g[1]]
    /\ g \notin working /\ g \notin draining
    /\ working' = working \cup {g}
    /\ UNCHANGED <<slots, draining, drained, deps, task, call, closed, closer>>

ReleaseBackground(g) ==
    /\ g \in working
    /\ working' = working \ {g}
    /\ UNCHANGED <<slots, draining, deps, task, call, closed, closer>>
    /\ CloseIfLast(g)

(***************************************************************************)
(* Manager.Activate.                                                       *)
(***************************************************************************)
Moves(m, pc) == trans' = [trans EXCEPT ![m].pc = pc]
Candidate(m) == <<m, trans[m].cand>>

\* beginTransition and the read of the previous generation.
BeginActivate(m) ==
    /\ ~closed /\ locked = NoModule
    /\ trans[m].pc = "idle"
    /\ next[m] < MaxGen
    /\ trans' = [trans EXCEPT ![m] = [pc |-> "check", prev |-> current[m], cand |-> None]]
    /\ UNCHANGED <<current, next, locked, leases, task, call, closed, closer>>

\* rejectActiveDependents
CheckDependents(m) ==
    /\ trans[m].pc = "check" /\ locked = NoModule
    /\ trans' = [trans EXCEPT ![m] =
          IF trans[m].prev # None /\ Dependents(<<m, trans[m].prev>>) # {}
          THEN Idle ELSE [@ EXCEPT !.pc = "lease"]]
    /\ UNCHANGED <<current, next, locked, leases, task, call, closed, closer>>

\* acquireDependencies, all or none, and the candidate's number.  The first
\* dependencies acquired before one fails are released unchanged: nothing can begin
\* to drain them while graphMu is held.
AcquireDependencies(m) ==
    /\ trans[m].pc = "lease" /\ locked = NoModule
    /\ LET n == next[m] + 1
       IN IF \A d \in Deps[m] : current[d] # None /\ <<d, current[d]>> \notin draining
          THEN /\ deps' = [deps EXCEPT ![<<m, n>>] = {<<d, current[d]>> : d \in Deps[m]}]
               /\ next' = [next EXCEPT ![m] = n]
               /\ trans' = [trans EXCEPT ![m].pc = "prepare", ![m].cand = n]
          ELSE /\ trans' = [trans EXCEPT ![m] = Idle]
               /\ UNCHANGED <<deps, next>>
    /\ UNCHANGED <<current, locked, draining, drained, working, task, call, closed, closer>>

\* Factory.Prepare, Instance.Start, Instance.Ready: callbacks with a deadline.
PrepareCandidate(m) ==
    /\ trans[m].pc \in {"prepare", "launch"}
    /\ \/ Moves(m, IF trans[m].pc = "prepare" THEN "launch" ELSE "commit")
       \/ CallbackErrors /\ Moves(m, "cleanup")
    /\ UNCHANGED <<current, next, locked, leases, task, call, closed, closer>>

\* Mutant: the commit trusts rejectActiveDependents' earlier answer.
CommitUnchecked(m) ==
    /\ trans[m].pc = "commit" /\ locked = NoModule
    /\ IF closed \/ current[m] # trans[m].prev
       THEN /\ Moves(m, "cleanup")
            /\ UNCHANGED <<current, locked>>
       ELSE /\ current' = [current EXCEPT ![m] = trans[m].cand]
            /\ locked' = m
            /\ Moves(m, "drain")
    /\ UNCHANGED <<next, leases, task, call, closed, closer>>

\* commitCandidateSlot: the first write under both locks.
CommitCandidate(m) ==
    /\ trans[m].pc = "commit" /\ locked = NoModule
    /\ IF \/ closed
          \/ current[m] # trans[m].prev
          \/ trans[m].prev # None /\ Dependents(<<m, trans[m].prev>>) # {}
       THEN /\ Moves(m, "cleanup")
            /\ UNCHANGED <<current, locked>>
       ELSE /\ current' = [current EXCEPT ![m] = trans[m].cand]
            /\ locked' = m
            /\ Moves(m, "drain")
    /\ UNCHANGED <<next, leases, task, call, closed, closer>>

\* ... and the second: the previous generation stops accepting leases.
DrainPrevious(m) ==
    /\ trans[m].pc = "drain"
    /\ IF trans[m].prev # None THEN BeginDrain(<<m, trans[m].prev>>)
       ELSE UNCHANGED <<draining, drained>>
    /\ locked' = NoModule
    /\ Moves(m, "finish")
    /\ UNCHANGED <<current, next, working, deps, task, call, closed, closer>>

\* finishCandidateCommit: the previous generation's retirement is on its way.
FinishCommit(m) ==
    /\ trans[m].pc = "finish"
    /\ trans' = [trans EXCEPT ![m] = Idle]
    /\ task' = IF trans[m].prev = None THEN task
               ELSE [task EXCEPT ![<<m, trans[m].prev>>] = "draining"]
    /\ UNCHANGED <<current, next, locked, leases, call, closed, closer>>

\* cleanupCandidate: the candidate that was not published drains as well, since its
\* workers may hold leases.
CleanupCandidate(m) ==
    /\ trans[m].pc = "cleanup"
    /\ BeginDrain(Candidate(m))
    /\ task' = [task EXCEPT ![Candidate(m)] = "draining"]
    /\ Moves(m, "wait")
    /\ UNCHANGED <<current, next, locked, working, deps, call, closed, closer>>

\* Activate returns when the candidate is gone; DrainTimeout ends the wait early.
EndCleanup(m) ==
    /\ trans[m].pc = "wait"
    /\ task[Candidate(m)] \in {"done", "failed"}
    /\ trans' = [trans EXCEPT ![m] = Idle]
    /\ UNCHANGED <<current, next, locked, leases, task, call, closed, closer>>

(***************************************************************************)
(* Manager.Disable.                                                        *)
(***************************************************************************)
BeginDisable(m) ==
    /\ ~closed /\ locked = NoModule
    /\ trans[m].pc = "idle"
    /\ trans' = [trans EXCEPT ![m] = [pc |-> "disable", prev |-> None, cand |-> None]]
    /\ UNCHANGED <<current, next, locked, leases, task, call, closed, closer>>

\* commitDisable: drain first, then empty the slot, under both locks.
CommitDisable(m) ==
    /\ trans[m].pc = "disable" /\ locked = NoModule
    /\ IF closed \/ current[m] = None \/ Dependents(<<m, current[m]>>) # {}
       THEN /\ trans' = [trans EXCEPT ![m] = Idle]
            /\ UNCHANGED <<locked, draining, drained>>
       ELSE /\ BeginDrain(<<m, current[m]>>)
            /\ locked' = m
            /\ trans' = [trans EXCEPT ![m] = [pc |-> "unpublish", prev |-> current[m],
                                              cand |-> None]]
    /\ UNCHANGED <<current, next, working, deps, task, call, closed, closer>>

Unpublish(m) ==
    /\ trans[m].pc = "unpublish"
    /\ current' = [current EXCEPT ![m] = None]
    /\ locked' = NoModule
    /\ Moves(m, "retire")
    /\ UNCHANGED <<next, leases, task, call, closed, closer>>

RetireDisabled(m) ==
    /\ trans[m].pc = "retire"
    /\ task' = [task EXCEPT ![<<m, trans[m].prev>>] = "draining"]
    /\ trans' = [trans EXCEPT ![m] = Idle]
    /\ UNCHANGED <<current, next, locked, leases, call, closed, closer>>

(***************************************************************************)
(* retireGeneration, finishCandidateDrain and stopGeneration: wait for the *)
(* leases, then quiesce and stop the instance, then let go of the          *)
(* dependencies.  A generation whose Stop fails keeps them.                *)
(***************************************************************************)
\* cleanupCandidate's wait runs out: Activate returns ErrDrainTimeout and the rest of
\* the cleanup goes on as a background task.
DrainTimeout(g) ==
    /\ task[g] = "draining" /\ g \notin drained
    /\ trans[g[1]].pc = "wait" /\ trans[g[1]].cand = g[2]
    /\ trans' = [trans EXCEPT ![g[1]] = Idle]
    /\ UNCHANGED <<current, next, locked, leases, task, call, closed, closer>>

StopGeneration(g) ==
    /\ task[g] = "draining" /\ g \in drained
    /\ task' = [task EXCEPT ![g] = "stopping"]
    /\ UNCHANGED <<slots, leases, call, closed, closer>>

\* Mutant: the dependencies are released whether or not Stop succeeded.
StoppedOrNot(g) ==
    /\ task[g] = "stopping"
    /\ task' = [task EXCEPT ![g] = IF CallbackErrors THEN "failed" ELSE "releasing"]
    /\ deps' = [deps EXCEPT ![g] = {}]
    /\ UNCHANGED <<slots, draining, drained, working, call, closed, closer>>

\* A failed Quiesce is only reported; a failed Stop ends the retirement.
Stopped(g) ==
    /\ task[g] = "stopping"
    /\ \E end \in {"releasing"} \cup (IF CallbackErrors THEN {"failed"} ELSE {}) :
          task' = [task EXCEPT ![g] = end]
    /\ UNCHANGED <<slots, leases, call, closed, closer>>

\* releaseGenerationDependencies, one lease at a time.
ReleaseDependency(g) ==
    /\ task[g] = "releasing"
    /\ UNCHANGED <<slots, draining, working, call, closed, closer>>
    /\ \/ \E d \in deps[g] :
             /\ deps' = [deps EXCEPT ![g] = @ \ {d}]
             /\ CloseIfLast(d)
             /\ UNCHANGED task
       \/ /\ deps[g] = {}
          /\ task' = [task EXCEPT ![g] = "done"]
          /\ UNCHANGED <<deps, drained>>

(***************************************************************************)
(* Manager.Close and closeAll.                                             *)
(***************************************************************************)
Close ==
    /\ ~closed /\ locked = NoModule
    /\ closed' = TRUE
    /\ closer' = "waiting"
    /\ UNCHANGED <<slots, leases, task, call>>

\* transitions.Wait
TransitionsOver ==
    /\ closer = "waiting"
    /\ \A m \in Modules : trans[m].pc = "idle"
    /\ closer' = "detach"
    /\ UNCHANGED <<slots, leases, task, call, closed>>

\* disableAll, dependents before their dependencies: the last module of the order
\* that still has a generation.
ToDetach(m) ==
    /\ current[m] # None
    /\ \E i \in 1..Len(Order) :
          /\ Order[i] = m
          /\ \A j \in i+1..Len(Order) : current[Order[j]] = None

\* detachForClose: drain, then empty the slot, under graphMu.
DetachBegin(m) ==
    /\ closer = "detach" /\ locked = NoModule /\ ToDetach(m)
    /\ BeginDrain(<<m, current[m]>>)
    /\ locked' = m
    /\ UNCHANGED <<current, next, trans, working, deps, task, call, closed, closer>>

DetachEnd(m) ==
    /\ closer = "detach" /\ locked = m
    /\ current' = [current EXCEPT ![m] = None]
    /\ task' = [task EXCEPT ![<<m, current[m]>>] = "draining"]
    /\ locked' = NoModule
    /\ UNCHANGED <<next, trans, leases, call, closed, closer>>

AllDetached ==
    /\ closer = "detach"
    /\ \A m \in Modules : current[m] = None
    /\ closer' = "draining"
    /\ UNCHANGED <<slots, leases, task, call, closed>>

\* Every retirement, and every background cleanup, has ended.
CloseDone ==
    /\ closer = "draining"
    /\ \A g \in Gens : task[g] \in {"none", "done", "failed"}
    /\ closer' = "done"
    /\ UNCHANGED <<slots, leases, task, call, closed>>

CallerStep(c) ==
    \/ \E m \in Modules : Load(c, m)
    \/ Acquire(c) \/ Recheck(c) \/ Return(c) \/ Release(c)
TransitionStep(m) ==
    \/ CheckDependents(m) \/ AcquireDependencies(m) \/ PrepareCandidate(m)
    \/ CommitCandidate(m) \/ DrainPrevious(m) \/ FinishCommit(m)
    \/ CleanupCandidate(m) \/ EndCleanup(m)
    \/ CommitDisable(m) \/ Unpublish(m) \/ RetireDisabled(m)
RetirementStep(g) == StopGeneration(g) \/ Stopped(g) \/ ReleaseDependency(g)
CloseStep ==
    \/ TransitionsOver \/ AllDetached \/ CloseDone
    \/ \E m \in Modules : DetachBegin(m) \/ DetachEnd(m)

\* A closed manager may come to rest; CloseCompletes says where.
AtRest == closed /\ UNCHANGED vars

Next ==
    \/ AtRest
    \/ \E c \in Callers : CallerStep(c)
    \/ \E m \in Modules : BeginActivate(m) \/ BeginDisable(m) \/ TransitionStep(m)
    \/ \E g \in Gens : AcquireBackground(g) \/ ReleaseBackground(g)
    \/ \E g \in Gens : DrainTimeout(g) \/ RetirementStep(g)
    \/ Close \/ CloseStep

Spec == Init /\ [][Next]_vars

\* Goroutines run on, and whoever holds a lease gives it back; nobody has to ask for
\* a lease, a transition or the close.
Fairness ==
    /\ \A c \in Callers : WF_vars(Acquire(c) \/ Recheck(c) \/ Return(c) \/ Release(c))
    /\ \A c \in Callers, m \in Modules : WF_vars(call[c].pc = "again" /\ Load(c, m))
    /\ \A m \in Modules : WF_vars(TransitionStep(m))
    /\ \A g \in Gens : WF_vars(ReleaseBackground(g)) /\ WF_vars(RetirementStep(g))
    /\ WF_vars(CloseStep)
FairSpec == Spec /\ Fairness

(***************************************************************************)
(* Properties.                                                             *)
(***************************************************************************)
\* Quiesce and Stop are called, and have been or are being.
Ending(g) == task[g] \in {"stopping", "releasing", "done", "failed"}

\* Safety.  An instance is quiesced and stopped only when nobody holds a lease on its
\* generation, whether a request, a background worker or a dependent module, and no
\* lease is granted afterwards (generation.acquire, beginDrain, release).
InUseNotStopped == \A g \in Gens : Ending(g) => ~Leased(g)

\* A generation's instance exists from AcquireDependencies until Stop has succeeded.
Alive(g) == g[2] <= next[g[1]] /\ task[g] \notin {"releasing", "done"}

\* Safety.  As long as an instance may run, failed starts and failed stops included,
\* each module it was given by dependencyInstances is still running, in the very
\* generation it was given.
DependenciesRunning ==
    \A g \in Gens : Alive(g) =>
        \A d \in Deps[g[1]] : \E n \in 1..MaxGen :
            <<d, n>> \in deps[g] /\ ~Ending(<<d, n>>)

\* Safety.  Replacing or disabling a module never begins while another module depends
\* on it, however the dependent's activation interleaves (graphMu, ErrDependentsActive):
\* only closing the manager drains a generation that has dependents.
DependentsKeepIt ==
    \A g \in Gens : g \in draining /\ Dependents(g) # {} => closed

\* Action.  A caller is refused with ErrModuleDraining only while the module is being
\* disabled or closed.  During a replacement it always gets a lease, on the old or on
\* the new generation.
NoRefusalOnReplace ==
    [][\A c \in Callers : call'[c].pc = "refused" /\ call[c].pc # "refused" =>
           trans[call[c].mod].pc = "unpublish" \/ closer = "detach"]_vars

\* A failed Stop keeps its dependency leases for good: closing cannot get past it.
Blocked == \E g \in Gens : task[g] = "failed" /\ deps[g] # {}

\* Liveness.  Once Close was called the shutdown completes, if holders give their
\* leases back: transitions under way end, the generations drain in dependency order
\* and stop.  The one exception is a Stop that failed in a generation with dependencies.
CloseCompletes == closed ~> (closer = "done" \/ Blocked)
=============================================================================
