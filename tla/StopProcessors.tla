---------------------------- MODULE StopProcessors ----------------------------
(***************************************************************************)
(* The processor rendezvous of BlackBone/Private.c, as BBHookInline uses it *)
(* (BlackBone/Routines.c): one core (the initiator) traps all other cores   *)
(* in a DPC, patches code, and lets them go.                                *)
(*                                                                         *)
(* Every call has its own NOPPROCINFO, a local variable of BBHookInline     *)
(* that holds the DPC objects and the counters: it is gone when the call    *)
(* returns.  Calls on different cores are not serialised by anything.       *)
(***************************************************************************)
EXTENDS Integers, FiniteSets, FiniteSetsExt

CONSTANTS
    Cores,       \* the active processors, numbered
    Initiators   \* the processors on which BBHookInline is called

ASSUME CoresAssumption == /\ Cores \subseteq Nat
                          /\ IsFiniteSet(Cores)
                          /\ Initiators \subseteq Cores

VARIABLES
    pc,        \* per initiator: where its call stands
    todo,      \* per initiator: processors whose DPC is not queued yet
    trap,      \* per initiator and core: the state of DpcTraps[core]
    seen,      \* per initiator and core: ActiveCores as the DPC last read it
    active,    \* Info->ActiveCores
    count,     \* Info->DPCCount
    executed   \* Info->IsCodeExecuted

vars == << pc, todo, trap, seen, active, count, executed >>

Pc   == {"idle", "queue", "wait", "patch", "drain"}
Trap == {"none", "queued", "gather", "compare", "held"}

Inside  == {"gather", "compare", "held"}        \* counted in DPCCount
Raised  == {"queue", "patch"}                   \* initiator above PASSIVE_LEVEL

\* The calls whose DPC occupies core c, above any thread of that core.
Trapping(c) == {k \in Initiators : trap[k][c] \in Inside}

\* A thread of core c runs: no DPC preempts it.
ThreadRuns(c) == Trapping(c) = {}

\* A new DPC may start on core c: none runs there, and its thread has not
\* raised the IRQL.
DpcMayStart(c) == Trapping(c) = {} /\ (c \in Initiators => pc[c] \notin Raised)

-----------------------------------------------------------------------------
(* The initiator, core k.                                                   *)

\* InitializeStopProcessors and the start of StopProcessors.
Begin(k) ==
    /\ pc[k] = "idle" /\ ThreadRuns(k)
    /\ pc'       = [pc EXCEPT ![k] = IF Cores = {k} THEN "patch" ELSE "queue"]
    /\ todo'     = [todo EXCEPT ![k] = Cores \ {k}]
    /\ active'   = [active EXCEPT ![k] = 0]
    /\ count'    = [count EXCEPT ![k] = 0]
    /\ executed' = [executed EXCEPT ![k] = FALSE]
    /\ UNCHANGED << trap, seen >>

\* One turn of the loop over the processors, at DISPATCH_LEVEL.
QueueDpc(k) ==
    /\ pc[k] = "queue"
    /\ \E i \in todo[k] :
        /\ \A j \in todo[k] : i <= j
        /\ todo'   = [todo EXCEPT ![k] = @ \ {i}]
        /\ active' = [active EXCEPT ![k] = @ + 1]
        /\ trap'   = [trap EXCEPT ![k][i] = "queued"]
    /\ UNCHANGED << pc, seen, count, executed >>

LowerIrql(k) ==
    /\ pc[k] = "queue" /\ todo[k] = {}
    /\ pc' = [pc EXCEPT ![k] = "wait"]
    /\ UNCHANGED << todo, trap, seen, active, count, executed >>

\* Mutant: no wait for the processors to arrive.
MutStopped(k) ==
    /\ pc[k] = "wait" /\ ThreadRuns(k)
    /\ pc' = [pc EXCEPT ![k] = "patch"]
    /\ UNCHANGED << todo, trap, seen, active, count, executed >>

\* The end of StopProcessors: everyone queued has arrived.
Stopped(k) ==
    /\ pc[k] = "wait" /\ ThreadRuns(k)
    /\ active[k] = count[k]
    /\ pc' = [pc EXCEPT ![k] = "patch"]
    /\ UNCHANGED << todo, trap, seen, active, count, executed >>

\* Mutant: the flag is not set.
MutRelease(k) ==
    /\ pc[k] = "patch"
    /\ pc' = [pc EXCEPT ![k] = IF Cores = {k} THEN "idle" ELSE "drain"]
    /\ UNCHANGED << todo, trap, seen, active, count, executed >>

\* StartProcessors after the patch ...
Release(k) ==
    /\ pc[k] = "patch"
    /\ executed' = [executed EXCEPT ![k] = TRUE]
    /\ pc' = [pc EXCEPT ![k] = IF Cores = {k} THEN "idle" ELSE "drain"]
    /\ UNCHANGED << todo, trap, seen, active, count >>

\* Mutant: no wait for the trapped processors.
MutReturn(k) ==
    /\ pc[k] = "drain" /\ ThreadRuns(k)
    /\ pc' = [pc EXCEPT ![k] = "idle"]
    /\ UNCHANGED << todo, trap, seen, active, count, executed >>

\* ... and its wait for the trapped processors, after which Info is gone.
Return(k) ==
    /\ pc[k] = "drain" /\ ThreadRuns(k)
    /\ count[k] <= 0
    /\ pc' = [pc EXCEPT ![k] = "idle"]
    /\ UNCHANGED << todo, trap, seen, active, count, executed >>

-----------------------------------------------------------------------------
(* DpcRoutine on core c, for the call of initiator k.                       *)

Enter(k, c) ==
    /\ trap[k][c] = "queued" /\ DpcMayStart(c)
    /\ trap'  = [trap EXCEPT ![k][c] = "gather"]
    /\ count' = [count EXCEPT ![k] = @ + 1]
    /\ UNCHANGED << pc, todo, seen, active, executed >>

\* The loop condition reads the two counters one after the other.
ReadActive(k, c) ==
    /\ trap[k][c] = "gather"
    /\ trap' = [trap EXCEPT ![k][c] = "compare"]
    /\ seen' = [seen EXCEPT ![k][c] = active[k]]
    /\ UNCHANGED << pc, todo, active, count, executed >>

\* Equal: raise to HIGH_LEVEL and wait for the patch.  Else: once more.
CompareCount(k, c) ==
    /\ trap[k][c] = "compare"
    /\ trap' = [trap EXCEPT ![k][c] = IF seen[k][c] = count[k] THEN "held" ELSE "gather"]
    /\ seen' = [seen EXCEPT ![k][c] = 0]
    /\ UNCHANGED << pc, todo, active, count, executed >>

\* Mutant: the departure is counted again and again.
MutLeave(k, c) ==
    /\ trap[k][c] = "held" /\ executed[k]
    /\ count' = [count EXCEPT ![k] = @ - 1]
    /\ UNCHANGED << pc, todo, trap, seen, active, executed >>

Leave(k, c) ==
    /\ trap[k][c] = "held" /\ executed[k]
    /\ trap'  = [trap EXCEPT ![k][c] = "none"]
    /\ count' = [count EXCEPT ![k] = @ - 1]
    /\ UNCHANGED << pc, todo, seen, active, executed >>

-----------------------------------------------------------------------------

Init ==
    /\ pc       = [k \in Initiators |-> "idle"]
    /\ todo     = [k \in Initiators |-> {}]
    /\ trap     = [k \in Initiators |-> [c \in Cores |-> "none"]]
    /\ seen     = [k \in Initiators |-> [c \in Cores |-> 0]]
    /\ active   = [k \in Initiators |-> 0]
    /\ count    = [k \in Initiators |-> 0]
    /\ executed = [k \in Initiators |-> FALSE]

DpcRoutine(k, c) ==
    Enter(k, c) \/ ReadActive(k, c) \/ CompareCount(k, c) \/ Leave(k, c)

BBHookInline(k) ==
    QueueDpc(k) \/ LowerIrql(k) \/ Stopped(k) \/ Release(k) \/ Return(k)

Next ==
    \/ \E k \in Initiators : Begin(k) \/ BBHookInline(k)
    \/ \E k \in Initiators, c \in Cores : DpcRoutine(k, c)

Spec == Init /\ [][Next]_vars

\* Every processor keeps executing: a call under way and a DPC that may run
\* take their next step.  Nothing obliges anybody to start a call.
Fairness ==
    /\ \A k \in Initiators : WF_vars(BBHookInline(k))
    /\ \A k \in Initiators, c \in Cores : WF_vars(DpcRoutine(k, c))

FairSpec == Spec /\ Fairness

-----------------------------------------------------------------------------
(* Properties.                                                              *)

TypeOK ==
    /\ pc \in [Initiators -> Pc]
    /\ todo \in [Initiators -> SUBSET Cores]
    /\ trap \in [Initiators -> [Cores -> Trap]]
    /\ seen \in [Initiators -> [Cores -> Nat]]
    /\ active \in [Initiators -> Nat]
    /\ count \in [Initiators -> Nat]
    /\ executed \in [Initiators -> BOOLEAN]

\* StopProcessors stalls all but the current processor: while a call patches
\* code, every other core is in the DPC of that call.
OthersAreTrapped ==
    \A k \in Initiators : pc[k] = "patch" =>
        \A c \in Cores \ {k} : trap[k][c] \in Inside

\* Two calls never patch at the same time.
OnePatcher ==
    \A j, k \in Initiators : pc[j] = "patch" /\ pc[k] = "patch" => j = k

\* When BBHookInline returns, its NOPPROCINFO disappears from the stack: no DPC
\* of the call is queued or still reads the counters.
InfoOutlivesTraps ==
    \A k \in Initiators : pc[k] = "idle" => \A c \in Cores : trap[k][c] = "none"

\* A DPC that did not see the counters equal before another one left, and that
\* will compare a shrinking DPCCount with ActiveCores for ever.
Missed(k, c) == trap[k][c] \in {"gather", "compare"} /\ executed[k] /\ count[k] < active[k]

\* The only thing that can keep a call from ending, when it runs alone, is a DPC
\* that missed the rendezvous.  (Two calls may trap each other for ever.)
EndsUnlessMissed ==
    \A k \in Initiators :
        pc[k] # "idle" ~> \/ pc[k] = "idle"
                          \/ \E c \in Cores : Missed(k, c)
                          \/ \E j \in Initiators \ {k} : pc[j] # "idle"

\* StartProcessors resumes all stopped processors: a core that is trapped gets
\* out again.
TrappedCoresResume ==
    \A k \in Initiators : \A c \in Cores :
        trap[k][c] \in Inside ~> trap[k][c] = "none"
=============================================================================
