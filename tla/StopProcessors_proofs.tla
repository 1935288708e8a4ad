------------------------- MODULE StopProcessors_proofs -------------------------
(***************************************************************************)
(* Proofs about StopProcessors, for any finite set of processors and any    *)
(* number of concurrent callers.                                            *)
(*                                                                         *)
(* The argument: DPCCount counts the cores inside the DPC and ActiveCores   *)
(* the cores whose DPC was queued.  Until the release no core leaves, so    *)
(* when the two are equal after the queueing loop, the cores inside are all *)
(* the others.  A core with a raised IRQL runs no DPC, and therefore two    *)
(* calls cannot have trapped each other and patch.                          *)
(***************************************************************************)
EXTENDS StopProcessors, FiniteSetTheorems, TLAPS

Trapped(k) == {c \in Cores : trap[k][c] \in Inside}
Queued(k)  == Cores \ ({k} \cup todo[k])

CountsTraps  == \A k \in Initiators : count[k] = Cardinality(Trapped(k))
CountsQueued == \A k \in Initiators : pc[k] # "idle" => active[k] = Cardinality(Queued(k))

\* A call queues a DPC to the other cores, once, and until its release nobody
\* who was trapped gets out.
TodoIsFree ==
    \A k \in Initiators :
        /\ todo[k] \subseteq Cores \ {k}
        /\ pc[k] # "queue" => todo[k] = {}
        /\ trap[k][k] = "none"
        /\ pc[k] \in {"queue", "wait", "patch"} =>
              /\ ~executed[k]
              /\ \A c \in Cores \ {k} : trap[k][c] = "none" <=> c \in todo[k]

DrainIsInside ==
    \A k \in Initiators : pc[k] = "drain" => \A c \in Cores : trap[k][c] # "queued"

RaisedRunsNoDpc == \A c \in Initiators : pc[c] \in Raised => Trapping(c) = {}

IInv ==
    /\ TypeOK
    /\ CountsTraps
    /\ CountsQueued
    /\ TodoIsFree
    /\ DrainIsInside
    /\ RaisedRunsNoDpc
    /\ OthersAreTrapped
    /\ InfoOutlivesTraps

-----------------------------------------------------------------------------

LEMMA CountIsNatural ==
    ASSUME NEW S \in SUBSET Cores
    PROVE  IsFiniteSet(S) /\ Cardinality(S) \in Nat
BY FS_Subset, FS_CardinalityType, CoresAssumption

\* Initially no call is under way.
LEMMA InitEstablishes == Init => IInv
<1> SUFFICES ASSUME Init PROVE IInv
  OBVIOUS
<1>1. TypeOK
  BY DEF Init, TypeOK, Pc, Trap
<1>2. CountsTraps
  <2> SUFFICES ASSUME NEW k \in Initiators PROVE count[k] = Cardinality(Trapped(k))
    BY DEF CountsTraps
  <2>1. Trapped(k) = {}
    BY DEF Init, Trapped, Inside
  <2> QED BY <2>1, FS_EmptySet DEF Init
<1>3. CountsQueued /\ TodoIsFree /\ DrainIsInside
  BY CoresAssumption DEF Init, CountsQueued, TodoIsFree, DrainIsInside
<1>4. RaisedRunsNoDpc /\ OthersAreTrapped /\ InfoOutlivesTraps
  BY DEF Init, RaisedRunsNoDpc, OthersAreTrapped, InfoOutlivesTraps, Raised
<1> QED BY <1>1, <1>2, <1>3, <1>4 DEF IInv

-----------------------------------------------------------------------------
(* One lemma per action.                                                    *)

LEMMA BeginKeeps ==
    ASSUME IInv, NEW k \in Initiators, Begin(k)
    PROVE  IInv'
<1> USE CoresAssumption DEF IInv
<1>0. k \in Cores /\ \A c \in Cores : trap[k][c] = "none"
  BY DEF InfoOutlivesTraps, Begin
<1>1. TypeOK'
  BY DEF TypeOK, Begin, Pc
<1>2. CountsTraps'
  <2> SUFFICES ASSUME NEW j \in Initiators PROVE count'[j] = Cardinality(Trapped(j)')
    BY DEF CountsTraps
  <2>1. Trapped(j)' = Trapped(j)
    BY DEF Begin, Trapped
  <2>2. CASE j = k
    <3>1. Trapped(k) = {}
      BY <1>0 DEF Trapped, Inside
    <3> QED BY <2>1, <2>2, <3>1, FS_EmptySet DEF Begin, TypeOK
  <2>3. CASE j # k
    BY <2>1, <2>3 DEF Begin, TypeOK, CountsTraps
  <2> QED BY <2>2, <2>3
<1>3. CountsQueued'
  <2> SUFFICES ASSUME NEW j \in Initiators, pc'[j] # "idle"
               PROVE  active'[j] = Cardinality(Queued(j)')
    BY DEF CountsQueued
  <2>1. CASE j = k
    <3>1. Queued(k)' = {}
      BY DEF Queued, Begin, TypeOK
    <3> QED BY <2>1, <3>1, FS_EmptySet DEF Begin, TypeOK
  <2>2. CASE j # k
    BY <2>2 DEF Begin, TypeOK, CountsQueued, Queued
  <2> QED BY <2>1, <2>2
<1>4. TodoIsFree'
  BY <1>0 DEF TodoIsFree, Begin, TypeOK
<1>5. DrainIsInside' /\ InfoOutlivesTraps'
  BY DEF DrainIsInside, InfoOutlivesTraps, Begin, TypeOK
<1>6. RaisedRunsNoDpc'
  BY DEF RaisedRunsNoDpc, Begin, TypeOK, ThreadRuns, Trapping
<1>7. OthersAreTrapped'
  BY DEF OthersAreTrapped, Begin, TypeOK
<1> QED BY <1>1, <1>2, <1>3, <1>4, <1>5, <1>6, <1>7

LEMMA QueueDpcKeeps ==
    ASSUME IInv, NEW k \in Initiators, QueueDpc(k)
    PROVE  IInv'
<1> USE CoresAssumption DEF IInv
<1> PICK i \in todo[k] : /\ todo'   = [todo EXCEPT ![k] = @ \ {i}]
                         /\ active' = [active EXCEPT ![k] = @ + 1]
                         /\ trap'   = [trap EXCEPT ![k][i] = "queued"]
  BY DEF QueueDpc
<1>0. /\ i \in Cores \ {k} /\ trap[k][i] = "none" /\ pc[k] = "queue"
      /\ UNCHANGED << pc, seen, count, executed >>
  BY DEF TodoIsFree, QueueDpc
<1>1. TypeOK'
  BY <1>0 DEF TypeOK, Trap
<1>2. ASSUME NEW j \in Initiators PROVE Trapped(j)' = Trapped(j)
  BY <1>0 DEF Trapped, Inside, TypeOK
<1>3. CountsTraps'
  BY <1>0, <1>2 DEF CountsTraps
<1>4. CountsQueued'
  <2> SUFFICES ASSUME NEW j \in Initiators, pc'[j] # "idle"
               PROVE  active'[j] = Cardinality(Queued(j)')
    BY DEF CountsQueued
  <2>1. CASE j = k
    <3>1. Queued(k)' = Queued(k) \cup {i} /\ i \notin Queued(k)
      BY <1>0 DEF Queued, TypeOK
    <3>2. IsFiniteSet(Queued(k))
      BY CountIsNatural DEF Queued
    <3>3. Cardinality(Queued(k)') = Cardinality(Queued(k)) + 1
      BY <3>1, <3>2, FS_AddElement
    <3> QED BY <1>0, <2>1, <3>3 DEF CountsQueued, TypeOK
  <2>2. CASE j # k
    BY <1>0, <2>2 DEF TypeOK, CountsQueued, Queued
  <2> QED BY <2>1, <2>2
<1>5. TodoIsFree'
  BY <1>0 DEF TodoIsFree, TypeOK
<1>6. DrainIsInside' /\ InfoOutlivesTraps' /\ OthersAreTrapped'
  BY <1>0 DEF DrainIsInside, InfoOutlivesTraps, OthersAreTrapped, TypeOK, Inside
<1>7. RaisedRunsNoDpc'
  BY <1>0 DEF RaisedRunsNoDpc, TypeOK, Trapping, Inside
<1> QED BY <1>1, <1>3, <1>4, <1>5, <1>6, <1>7

LEMMA LowerIrqlKeeps ==
    ASSUME IInv, NEW k \in Initiators, LowerIrql(k)
    PROVE  IInv'
<1> USE DEF IInv, LowerIrql
<1>1. TypeOK'
  BY DEF TypeOK, Pc
<1>2. CountsTraps' /\ CountsQueued'
  BY DEF CountsTraps, CountsQueued, Trapped, Queued, TypeOK
<1>3. TodoIsFree' /\ DrainIsInside' /\ InfoOutlivesTraps'
  BY DEF TodoIsFree, DrainIsInside, InfoOutlivesTraps, TypeOK
<1>4. RaisedRunsNoDpc' /\ OthersAreTrapped'
  BY DEF RaisedRunsNoDpc, OthersAreTrapped, TypeOK, Trapping, Raised
<1> QED BY <1>1, <1>2, <1>3, <1>4

\* The step the rendezvous is about: equal counters mean that the cores inside
\* are the cores queued, which are all the others.
LEMMA StoppedKeeps ==
    ASSUME IInv, NEW k \in Initiators, Stopped(k)
    PROVE  IInv'
<1> USE CoresAssumption DEF IInv, Stopped
<1>1. TypeOK'
  BY DEF TypeOK, Pc
<1>2. CountsTraps' /\ CountsQueued'
  BY DEF CountsTraps, CountsQueued, Trapped, Queued, TypeOK
<1>3. TodoIsFree' /\ DrainIsInside' /\ InfoOutlivesTraps'
  BY DEF TodoIsFree, DrainIsInside, InfoOutlivesTraps, TypeOK
<1>4. RaisedRunsNoDpc'
  BY DEF RaisedRunsNoDpc, TypeOK, Trapping, ThreadRuns
<1>5. Trapped(k) = Cores \ {k}
  <2>1. Queued(k) = Cores \ {k}
    BY DEF TodoIsFree, Queued
  <2>2. Trapped(k) \subseteq Cores \ {k}
    BY DEF Trapped, TodoIsFree, Inside
  <2>3. Cardinality(Trapped(k)) = Cardinality(Cores \ {k})
    BY <2>1 DEF CountsTraps, CountsQueued
  <2> QED BY <2>2, <2>3, FS_Subset, CountIsNatural
<1>6. OthersAreTrapped'
  BY <1>5 DEF OthersAreTrapped, Trapped, TypeOK
<1> QED BY <1>1, <1>2, <1>3, <1>4, <1>6

LEMMA ReleaseKeeps ==
    ASSUME IInv, NEW k \in Initiators, Release(k)
    PROVE  IInv'
<1> USE CoresAssumption DEF IInv, Release
<1>1. TypeOK'
  BY DEF TypeOK, Pc
<1>2. CountsTraps' /\ CountsQueued'
  BY DEF CountsTraps, CountsQueued, Trapped, Queued, TypeOK
<1>3. TodoIsFree'
  BY DEF TodoIsFree, TypeOK
<1>4. DrainIsInside' /\ InfoOutlivesTraps'
  BY DEF TodoIsFree, DrainIsInside, InfoOutlivesTraps, OthersAreTrapped, Inside, TypeOK
<1>5. RaisedRunsNoDpc' /\ OthersAreTrapped'
  BY DEF RaisedRunsNoDpc, OthersAreTrapped, TypeOK, Trapping, Raised
<1> QED BY <1>1, <1>2, <1>3, <1>4, <1>5

LEMMA ReturnKeeps ==
    ASSUME IInv, NEW k \in Initiators, Return(k)
    PROVE  IInv'
<1> USE CoresAssumption DEF IInv, Return
<1>1. TypeOK'
  BY DEF TypeOK, Pc
<1>2. CountsTraps' /\ CountsQueued'
  BY DEF CountsTraps, CountsQueued, Trapped, Queued, TypeOK
<1>3. TodoIsFree' /\ DrainIsInside'
  BY DEF TodoIsFree, DrainIsInside, TypeOK
<1>4. Trapped(k) = {}
  <2>1. IsFiniteSet(Trapped(k)) /\ Cardinality(Trapped(k)) \in Nat
    BY CountIsNatural DEF Trapped
  <2>2. Cardinality(Trapped(k)) = 0
    BY <2>1 DEF CountsTraps
  <2> QED BY <2>1, <2>2, FS_EmptySet
<1>5. InfoOutlivesTraps'
  BY <1>4 DEF InfoOutlivesTraps, Trapped, DrainIsInside, TypeOK, Trap, Inside
<1>6. RaisedRunsNoDpc' /\ OthersAreTrapped'
  BY DEF RaisedRunsNoDpc, OthersAreTrapped, TypeOK, Trapping, Raised
<1> QED BY <1>1, <1>2, <1>3, <1>5, <1>6

LEMMA EnterKeeps ==
    ASSUME IInv, NEW k \in Initiators, NEW c \in Cores, Enter(k, c)
    PROVE  IInv'
<1> USE CoresAssumption DEF IInv, Enter
<1>1. TypeOK'
  BY DEF TypeOK, Trap
<1>2. CountsTraps'
  <2> SUFFICES ASSUME NEW j \in Initiators PROVE count'[j] = Cardinality(Trapped(j)')
    BY DEF CountsTraps
  <2>1. CASE j = k
    <3>1. Trapped(k)' = Trapped(k) \cup {c} /\ c \notin Trapped(k)
      BY DEF Trapped, Inside, TypeOK
    <3>2. IsFiniteSet(Trapped(k))
      BY CountIsNatural DEF Trapped
    <3>3. Cardinality(Trapped(k)') = Cardinality(Trapped(k)) + 1
      BY <3>1, <3>2, FS_AddElement
    <3> QED BY <2>1, <3>3 DEF CountsTraps, TypeOK
  <2>2. CASE j # k
    <3>1. Trapped(j)' = Trapped(j)
      BY <2>2 DEF Trapped, TypeOK
    <3> QED BY <2>2, <3>1 DEF CountsTraps, TypeOK
  <2> QED BY <2>1, <2>2
<1>3. CountsQueued'
  BY DEF CountsQueued, Queued
<1>4. TodoIsFree'
  BY DEF TodoIsFree, TypeOK
<1>5. DrainIsInside' /\ InfoOutlivesTraps' /\ OthersAreTrapped'
  BY DEF DrainIsInside, InfoOutlivesTraps, OthersAreTrapped, TypeOK, Inside
<1>6. RaisedRunsNoDpc'
  BY DEF RaisedRunsNoDpc, TypeOK, Trapping, DpcMayStart
<1> QED BY <1>1, <1>2, <1>3, <1>4, <1>5, <1>6

\* The two reads of the loop move a core between states that are all inside.
LEMMA LoopKeeps ==
    ASSUME IInv, NEW k \in Initiators, NEW c \in Cores,
           ReadActive(k, c) \/ CompareCount(k, c)
    PROVE  IInv'
<1> USE CoresAssumption DEF IInv
<1>0. PICK s \in Inside : /\ trap' = [trap EXCEPT ![k][c] = s]
                          /\ trap[k][c] \in Inside
                          /\ UNCHANGED << pc, todo, active, count, executed >>
  BY DEF ReadActive, CompareCount, Inside
<1>1. TypeOK'
  <2>1. seen' \in [Initiators -> [Cores -> Nat]]
    BY DEF TypeOK, ReadActive, CompareCount
  <2> QED BY <1>0, <2>1 DEF TypeOK, Trap, Inside
<1>2. ASSUME NEW j \in Initiators PROVE Trapped(j)' = Trapped(j)
  BY <1>0 DEF Trapped, TypeOK
<1>3. CountsTraps' /\ CountsQueued'
  BY <1>0, <1>2 DEF CountsTraps, CountsQueued, Queued
<1>4. TodoIsFree'
  BY <1>0 DEF TodoIsFree, TypeOK, Inside
<1>5. DrainIsInside' /\ InfoOutlivesTraps'
  BY <1>0 DEF DrainIsInside, InfoOutlivesTraps, TypeOK, Inside
<1>6. RaisedRunsNoDpc' /\ OthersAreTrapped'
  BY <1>0 DEF RaisedRunsNoDpc, OthersAreTrapped, TypeOK, Trapping
<1> QED BY <1>1, <1>3, <1>4, <1>5, <1>6

LEMMA LeaveKeeps ==
    ASSUME IInv, NEW k \in Initiators, NEW c \in Cores, Leave(k, c)
    PROVE  IInv'
<1> USE CoresAssumption DEF IInv, Leave
<1>0. pc[k] \notin {"idle", "queue", "wait", "patch"}
  BY DEF TodoIsFree, InfoOutlivesTraps
<1>1. count'[k] = Cardinality(Trapped(k)') /\ count'[k] \in Nat
  <2>1. Trapped(k)' = Trapped(k) \ {c} /\ c \in Trapped(k)
    BY DEF Trapped, Inside, TypeOK
  <2>2. IsFiniteSet(Trapped(k)) /\ Cardinality(Trapped(k)) \in Nat
    BY CountIsNatural DEF Trapped
  <2>3. Cardinality(Trapped(k)') = Cardinality(Trapped(k)) - 1
    BY <2>1, <2>2, FS_RemoveElement
  <2>4. Cardinality(Trapped(k)) # 0
    BY <2>1, <2>2, FS_EmptySet
  <2> QED BY <2>2, <2>3, <2>4 DEF CountsTraps, TypeOK
<1>2. TypeOK'
  BY <1>1 DEF TypeOK, Trap
<1>3. CountsTraps'
  <2> SUFFICES ASSUME NEW j \in Initiators, j # k
               PROVE  count'[j] = Cardinality(Trapped(j)')
    BY <1>1 DEF CountsTraps
  <2>1. Trapped(j)' = Trapped(j)
    BY DEF Trapped, TypeOK
  <2> QED BY <2>1 DEF CountsTraps, TypeOK
<1>4. CountsQueued'
  BY DEF CountsQueued, Queued
<1>5. TodoIsFree'
  BY <1>0 DEF TodoIsFree, TypeOK
<1>6. DrainIsInside' /\ InfoOutlivesTraps' /\ OthersAreTrapped'
  BY <1>0 DEF DrainIsInside, InfoOutlivesTraps, OthersAreTrapped, TypeOK
<1>7. RaisedRunsNoDpc'
  BY DEF RaisedRunsNoDpc, TypeOK, Trapping, Inside
<1> QED BY <1>2, <1>3, <1>4, <1>5, <1>6, <1>7

LEMMA NextKeeps == IInv /\ [Next]_vars => IInv'
<1> SUFFICES ASSUME IInv, [Next]_vars PROVE IInv'
  OBVIOUS
<1>1. CASE \E k \in Initiators : Begin(k) \/ BBHookInline(k)
  BY <1>1, BeginKeeps, QueueDpcKeeps, LowerIrqlKeeps, StoppedKeeps, ReleaseKeeps,
     ReturnKeeps DEF BBHookInline
<1>2. CASE \E k \in Initiators, c \in Cores : DpcRoutine(k, c)
  BY <1>2, EnterKeeps, LoopKeeps, LeaveKeeps DEF DpcRoutine
<1>3. CASE UNCHANGED vars
  BY <1>3 DEF vars, IInv, TypeOK, CountsTraps, CountsQueued, Trapped, Queued, TodoIsFree,
     DrainIsInside, RaisedRunsNoDpc, Trapping, OthersAreTrapped, InfoOutlivesTraps
<1> QED BY <1>1, <1>2, <1>3 DEF Next

THEOREM Invariance == Spec => []IInv
BY InitEstablishes, NextKeeps, PTL DEF Spec

-----------------------------------------------------------------------------

\* The counters are natural numbers: DPCCount is never decremented below zero.
THEOREM TypeCorrect == Spec => []TypeOK
<1>1. IInv => TypeOK
  BY DEF IInv
<1> QED BY <1>1, Invariance, PTL

\* StopProcessors stalls every core but the caller's before code is patched.
THEOREM PatchIsExclusive == Spec => []OthersAreTrapped
<1>1. IInv => OthersAreTrapped
  BY DEF IInv
<1> QED BY <1>1, Invariance, PTL

\* Two calls of BBHookInline never patch at the same time.
THEOREM PatchersExclude == Spec => []OnePatcher
<1>1. IInv => OnePatcher
  <2> SUFFICES ASSUME IInv, NEW j \in Initiators, NEW k \in Initiators,
                      pc[j] = "patch", pc[k] = "patch", j # k
               PROVE  FALSE
    BY DEF OnePatcher
  <2>1. trap[j][k] \in Inside
    BY CoresAssumption DEF IInv, OthersAreTrapped
  <2>2. Trapping(k) = {}
    BY DEF IInv, RaisedRunsNoDpc, Raised
  <2> QED BY <2>1, <2>2 DEF Trapping
<1> QED BY <1>1, Invariance, PTL

\* No DPC is queued or running for a call that has returned and whose
\* NOPPROCINFO is gone.
THEOREM InfoIsSafe == Spec => []InfoOutlivesTraps
<1>1. IInv => InfoOutlivesTraps
  BY DEF IInv
<1> QED BY <1>1, Invariance, PTL
=============================================================================
