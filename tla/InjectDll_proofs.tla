--------------------------- MODULE InjectDll_proofs ---------------------------
(***************************************************************************)
(* Proofs about ManualMap, the calls of UserCall it makes, and InjectDll,   *)
(* for any images, import tables, flags and number of polls and whatever    *)
(* goes wrong.  Of a mapping: the types, that the shared code buffer is not *)
(* written or freed under anybody unless a wait has timed out, that images  *)
(* run when their imports are bound and in the order of their imports, and  *)
(* that the files read are freed once.  Of an injection: all this holds of  *)
(* the mapping inside it, and injections by thread and by APC are sound.    *)
(***************************************************************************)
EXTENDS InjectDll, SequenceTheorems, TLAPS

-----------------------------------------------------------------------------
(* The calls.                                                               *)

Resting == worker \in {None, Fresh}

\* Nobody executes the buffer or is about to.
Quiet == apcs = 0 /\ Resting /\ threads = {}

\* A call by new thread is under way: the thread made for it is the only one that may
\* be in the buffer, and is still to enter it as long as nobody has.
ThreadCall ==
    /\ apcs = 0 /\ Resting
    /\ threads \subseteq {[made |-> call, runs |-> Fresh], [made |-> call, runs |-> call]}
    /\ alive /\ unread => threads = {[made |-> call, runs |-> Fresh]}

\* A call by APC is under way: queued, being executed, or executed.
ApcCall ==
    /\ threads = {}
    /\ alive => \/ ~event /\ apcs = 1 /\ Resting
                \/ ~event /\ apcs = 0 /\ worker = call /\ ~unread
                \/ event /\ apcs = 0 /\ Resting /\ ~unread

\* Where the buffer stands as long as no wait has timed out.
OnTime ==
    "late" \notin met =>
        /\ call = None => Quiet /\ (ok /\ alive => ~unread)
        /\ call # None /\ inThread => code = call /\ ThreadCall
        /\ call # None /\ ~inThread => code = call /\ ApcCall

\* Whoever is to execute the buffer finds code in it.
HasCode == code = None => apcs = 0 /\ threads = {} /\ call = None

CInv ==
    /\ CallTypeOK
    /\ HasCode
    /\ ~alive => apcs = 0 /\ worker = None /\ threads = {}
    /\ OnTime

\* Meeting a hazard only weakens what is said.
LEMMA MeetsKeeps ==
    ASSUME CInv, NEW h, Meets(h),
           UNCHANGED << code, call, inThread, ok, event, apcs, worker, threads, alive, unread >>
    PROVE  CInv'
<1>1. h \in Hazards /\ met' = met \cup {h}
  BY EnvAssumption DEF Meets
<1> QED
  BY <1>1 DEF CInv, CallTypeOK, HasCode, OnTime, Quiet, ThreadCall, ApcCall, Resting

LEMMA IdleKeeps == CInv /\ UNCHANGED callVars => CInv'
  BY DEF callVars, CInv, CallTypeOK, HasCode, OnTime, Quiet, ThreadCall, ApcCall, Resting

\* A call starts in a quiet process.
LEMMA RoutineCallKeeps ==
    ASSUME CInv, NEW r \in Routine, NEW newThread \in BOOLEAN, BBCallRoutine(r, newThread)
    PROVE  CInv'
<1> USE DEF CInv, CallTypeOK, HasCode, BBCallRoutine
<1>1. r # None /\ r # Fresh /\ r # Freed
  BY NamesAssumption
<1>2. CASE alive /\ call' = r /\ newThread
  <2>1. ExecuteInNewThread(r) /\ UNCHANGED << ok, met, worker, alive >>
    BY <1>1, <1>2
  <2>2. /\ threads' = threads \cup {[made |-> r, runs |-> Fresh]}
        /\ inThread' = TRUE /\ apcs' = apcs /\ event' = event
    BY <2>1 DEF ExecuteInNewThread
  <2>3. [made |-> r, runs |-> Fresh] \in Thread
    BY DEF Thread
  <2>4. CallTypeOK'
    BY <1>2, <2>1, <2>2, <2>3
  <2>5. OnTime'
    BY <1>1, <1>2, <2>1, <2>2 DEF OnTime, Quiet, ThreadCall, Resting
  <2> QED BY <1>1, <1>2, <2>1, <2>4, <2>5
<1>3. CASE alive /\ call' = r /\ ~newThread
  <2>1. QueueApc(r) /\ UNCHANGED << ok, met, worker, alive >>
    BY <1>1, <1>3
  <2>2. threads' = threads /\ inThread' = FALSE /\ apcs' = apcs + 1 /\ event' = FALSE
    BY <2>1 DEF QueueApc
  <2>3. apcs' \in Nat
    BY <2>2
  <2>4. CallTypeOK'
    BY <1>3, <2>1, <2>2, <2>3
  <2>5. OnTime'
    BY <1>1, <1>3, <2>1, <2>2 DEF OnTime, Quiet, ApcCall, Resting
  <2> QED BY <1>1, <1>3, <2>1, <2>4, <2>5
<1>4. CASE UNCHANGED << call, inThread, apcs, threads >>
  <2>1. ok' = FALSE /\ UNCHANGED << worker, alive >> /\ event' \in BOOLEAN
        /\ met' \in {met, met \cup {"callFails"}}
    BY <1>1, <1>4
  <2>2. CallTypeOK'
    BY <1>4, <2>1 DEF Hazards
  <2>3. OnTime'
    BY <1>4, <2>1 DEF OnTime, Quiet, Resting
  <2> QED BY <1>1, <1>4, <2>1, <2>2, <2>3
<1> QED BY <1>2, <1>3, <1>4

\* The wait ends, in time or not.
LEMMA WaitKeeps ==
    ASSUME CInv, WaitEnds \/ WaitTimesOut
    PROVE  CInv' /\ call' = None
<1> USE DEF CInv, CallTypeOK, HasCode
<1>1. CASE WaitEnds
  <2>1. /\ call # None /\ call' = None /\ ok' = TRUE
        /\ UNCHANGED << code, inThread, event, apcs, worker, threads, alive, unread, met >>
        /\ IF inThread THEN \A t \in threads : t.made # call ELSE event
    BY <1>1 DEF WaitEnds
  <2>2. ASSUME "late" \notin met PROVE Quiet /\ (alive => ~unread)
    <3>1. CASE inThread
      <4>1. ThreadCall
        BY <2>1, <2>2, <3>1 DEF OnTime
      <4>2. threads = {}
        BY <2>1, <3>1, <4>1 DEF ThreadCall
      <4> QED BY <4>1, <4>2 DEF ThreadCall, Quiet
    <3>2. CASE ~inThread /\ alive
      BY <2>1, <2>2, <3>2 DEF OnTime, ApcCall, Quiet
    <3>3. CASE ~alive
      BY <3>3 DEF Quiet, Resting
    <3> QED BY <3>1, <3>2, <3>3
  <2> QED BY <2>1, <2>2 DEF OnTime, Quiet, Resting
<1>2. CASE WaitTimesOut
  <2>1. /\ call' = None /\ ok' = FALSE
        /\ UNCHANGED << code, inThread, event, apcs, worker, threads, alive, unread >>
        /\ IF alive THEN Meets("late") ELSE UNCHANGED met
    BY <1>2 DEF WaitTimesOut
  <2>2. CASE alive
    <3>1. "late" \in met' /\ met' \subseteq Hazards
      BY <2>1, <2>2, EnvAssumption DEF Meets, Hazards
    <3> QED BY <2>1, <3>1, <2>2 DEF OnTime
  <2>3. CASE ~alive
    BY <2>1, <2>3 DEF OnTime, Quiet, Resting
  <2> QED BY <2>2, <2>3
<1> QED BY <1>1, <1>2

\* Threads of the process enter and leave the buffer, or the process exits.
LEMMA StartKeeps ==
    ASSUME CInv, StartApc \/ \E t \in threads : StartThread(t)
    PROVE  CInv'
<1> USE DEF CInv, CallTypeOK, HasCode
<1>1. CASE StartApc
  <2>1. /\ worker = Fresh /\ apcs > 0 /\ apcs' = apcs - 1 /\ worker' = code /\ unread' = FALSE
        /\ UNCHANGED << code, call, inThread, ok, event, threads, alive, met >>
    BY <1>1 DEF StartApc
  <2>2. alive
    BY <2>1
  <2>3. apcs' \in Nat
    BY <2>1
  <2>4. CallTypeOK'
    BY <2>1, <2>3
  <2>5. OnTime'
    BY <2>1, <2>2, NamesAssumption DEF OnTime, Quiet, ThreadCall, ApcCall, Resting
  <2> QED BY <2>1, <2>2, <2>4, <2>5
<1>2. ASSUME NEW t \in threads, StartThread(t) PROVE CInv'
  <2>1. /\ t.runs = Fresh /\ threads' = (threads \ {t}) \cup {[t EXCEPT !.runs = code]}
        /\ unread' = FALSE
        /\ UNCHANGED << code, call, inThread, ok, event, apcs, worker, alive, met >>
    BY <1>2 DEF StartThread
  <2>2. alive
    BY <1>2
  <2>3. CallTypeOK'
    BY <1>2, <2>1 DEF Thread
  <2>4. OnTime'
    BY <1>2, <2>1, <2>2 DEF OnTime, Quiet, ThreadCall, ApcCall, Resting
  <2> QED BY <2>1, <2>2, <2>3, <2>4
<1> QED BY <1>1, <1>2

LEMMA EndKeeps ==
    ASSUME CInv, EndApc \/ \E t \in threads : EndThread(t)
    PROVE  CInv'
<1> USE DEF CInv, CallTypeOK, HasCode
<1>1. CASE EndApc
  <2>1. /\ worker \in Routine /\ worker' = Fresh /\ event' = TRUE
        /\ UNCHANGED << code, call, inThread, ok, apcs, threads, alive, unread, met >>
    BY <1>1 DEF EndApc
  <2>2. alive
    BY <2>1, NamesAssumption
  <2>3. OnTime'
    BY <2>1, <2>2, NamesAssumption DEF OnTime, Quiet, ThreadCall, ApcCall, Resting
  <2> QED BY <2>1, <2>2, <2>3
<1>2. ASSUME NEW t \in threads, EndThread(t) PROVE CInv'
  <2>1. /\ t.runs \in Routine /\ threads' = threads \ {t} /\ event' = TRUE
        /\ UNCHANGED << code, call, inThread, ok, apcs, worker, alive, unread, met >>
    BY <1>2 DEF EndThread
  <2>2. alive
    BY <1>2
  <2>3. ASSUME "late" \notin met PROVE call # None /\ inThread /\ ~unread
    BY <2>1, <2>2, <2>3, NamesAssumption DEF OnTime, Quiet, ThreadCall, ApcCall
  <2>4. OnTime'
    BY <2>1, <2>2, <2>3 DEF OnTime, ThreadCall, Resting
  <2> QED BY <2>1, <2>2, <2>4
<1> QED BY <1>1, <1>2

LEMMA ExitKeeps == CInv /\ Exit => CInv'
<1> SUFFICES ASSUME CInv, Exit PROVE CInv'
  OBVIOUS
<1>1. /\ alive' = FALSE /\ worker' = None /\ threads' = {} /\ apcs' = 0
      /\ UNCHANGED << code, call, inThread, ok, event, unread >>
      /\ met' = met \cup {"exits"}
  BY DEF Exit, Meets
<1>2. CallTypeOK'
  BY <1>1 DEF CInv, CallTypeOK, Hazards
<1>3. OnTime'
  BY <1>1 DEF CInv, OnTime, Quiet, ThreadCall, ApcCall, Resting
<1> QED BY <1>1, <1>2, <1>3 DEF CInv, HasCode

\* The step of a driver that calls nothing, or meets a hazard of its own.
LEMMA StepAside ==
    ASSUME CInv, (\E h : Meets(h)) \/ UNCHANGED met,
           UNCHANGED << code, call, inThread, ok, event, apcs, worker, threads, alive, unread >>
    PROVE  CInv'
BY MeetsKeeps, IdleKeeps DEF callVars

LEMMA SetUpKeeps == CInv /\ call = None /\ SetUp => CInv'
<1> SUFFICES ASSUME CInv, call = None, SetUp PROVE CInv'
  OBVIOUS
<1>1. /\ UNCHANGED << code, call, inThread, ok, event, apcs, threads, alive, unread >>
      /\ worker' \in {None, Fresh} /\ (~alive => worker' = None)
      /\ met' \in {met, met \cup {"setupFails"}}
  BY DEF SetUp, Meets
<1>2. CallTypeOK'
  BY <1>1 DEF CInv, CallTypeOK, Hazards
<1> QED BY <1>1, <1>2 DEF CInv, OnTime, Quiet, Resting, HasCode

LEMMA CleanUpKeeps == CInv /\ CleanUp => CInv'
<1> SUFFICES ASSUME CInv, CleanUp PROVE CInv'
  OBVIOUS
<1>1. /\ call = None /\ code' = Freed
      /\ UNCHANGED << call, inThread, ok, event, threads, alive, unread, met >>
      /\ (worker' = worker /\ apcs' = apcs) \/ (worker' = None /\ apcs' = 0)
  BY DEF CleanUp, AtCall
<1>2. CallTypeOK'
  BY <1>1 DEF CInv, CallTypeOK
<1> QED BY <1>1, <1>2, NamesAssumption DEF CInv, OnTime, Quiet, Resting, HasCode

-----------------------------------------------------------------------------
(* The images.                                                              *)

Frame == [dll : Dll, next : Nat \ {0}]

MapTypeOK ==
    /\ imports \in [Dll -> Seq(Dll)] /\ imports \in Graphs
    /\ flags \in FlagSets /\ loaded \subseteq Dll
    /\ pc \in {"start", "map", "createActCtx", "activateActCtx", "place", "imports", "find",
               "loaded", "return", "fail", "init", "entry", "entered", "cleanup", "done",
               "thrown"}
    /\ frames \in Seq(Frame) /\ modules \in Seq(Dll)
    /\ mapped \subseteq Dll /\ initialized \subseteq Dll
    /\ iat \in [Dll -> Seq(Dll)]
    /\ local \in [Dll -> {"none", "held", "freed", "freedTwice"}]
    /\ ptr \in Dll \cup {None}

Mapping == {"createActCtx", "activateActCtx", "place", "imports", "find", "loaded",
            "return", "fail"}

\* While images are being mapped there is an innermost one, and while an import is
\* looked for there is one.
StackOK ==
    /\ pc \in Mapping => frames # << >>
    /\ pc = "find" => Top.next <= Len(imports[Image])
    /\ pc = "start" => call = None

MInv == MapTypeOK /\ StackOK

IInv == CInv /\ MInv

LEMMA LastIsAt ==
    ASSUME NEW S, NEW s \in Seq(S), s # << >>
    PROVE  /\ Last(s) = s[Len(s)] /\ Len(s) \in Nat \ {0}
           /\ Front(s) \in Seq(S) /\ Len(Front(s)) = Len(s) - 1
           /\ \A i \in 1 .. Len(s) - 1 : Front(s)[i] = s[i]
<1>1. Len(s) \in Nat \ {0} /\ \A i \in 1 .. Len(s) : s[i] \in S
  BY EmptySeq, LenProperties, ElementOfSeq
<1>2. \A i \in 1 .. Len(s) - 1 : s[i] \in S
  BY <1>1
<1>3. /\ SubSeq(s, 1, Len(s) - 1) \in Seq(S)
      /\ Len(SubSeq(s, 1, Len(s) - 1)) = IF 1 <= Len(s) - 1 THEN Len(s) - 1 ELSE 0
      /\ \A i \in 1 .. Len(s) - 1 : SubSeq(s, 1, Len(s) - 1)[i] = s[i]
  BY <1>1, <1>2
<1>4. (IF 1 <= Len(s) - 1 THEN Len(s) - 1 ELSE 0) = Len(s) - 1
  <2>1. \A n \in Nat \ {0} : (IF 1 <= n - 1 THEN n - 1 ELSE 0) = n - 1
    OBVIOUS
  <2> QED BY <1>1, <2>1
<1>5. Front(s) = SubSeq(s, 1, Len(s) - 1) /\ Last(s) = s[Len(s)]
  BY DEF Last, Front
<1> QED BY <1>1, <1>3, <1>4, <1>5

LEMMA LastIsIn ==
    ASSUME NEW S, NEW s \in Seq(S), s # << >>
    PROVE  Last(s) \in S /\ Front(s) \in Seq(S) /\ Len(s) \in Nat \ {0}
           /\ (Len(s) # 1 => Front(s) # << >>)
<1>1. Len(s) \in Nat \ {0} /\ \A i \in 1 .. Len(s) : s[i] \in S
  BY EmptySeq, LenProperties, ElementOfSeq
<1>2. Front(s) \in Seq(S) /\ Len(Front(s)) = Len(s) - 1
  BY LastIsAt
<1>3. Len(s) # 1 => Front(s) # << >>
  BY <1>1, <1>2
<1> QED BY <1>1, <1>2, <1>3 DEF Last

LEMMA ImageIsDll ==
    ASSUME MInv, frames # << >>
    PROVE  Image \in Dll /\ Top.next \in Nat \ {0}
           /\ (Top.next <= Len(imports[Image]) => Import \in Dll)
<1>1. Top \in Frame
  BY LastIsIn DEF MInv, MapTypeOK, Top
<1>2. imports[Image] \in Seq(Dll)
  BY <1>1 DEF MInv, MapTypeOK, Image, Frame
<1> QED BY <1>1, <1>2, ElementOfSeq DEF Import, Image, Frame

LEMMA WaitingIsDll == MInv => Waiting \subseteq Dll
<1>1. MInv => \A i \in DOMAIN modules : modules[i] \in Dll
  BY DEF MInv, MapTypeOK
<1> QED BY <1>1 DEF Waiting

\* A thunk list grows by the image it is bound to.
LEMMA BindKeeps ==
    ASSUME MInv, NEW fs \in Seq(Frame), fs # << >>, NEW d \in Dll, Bind(fs, d)
    PROVE  /\ iat' \in [Dll -> Seq(Dll)] /\ frames' \in Seq(Frame) /\ frames' # << >>
           /\ pc' \in {"imports", "fail"}
           /\ (\E h : Meets(h)) \/ UNCHANGED met
<1> DEFINE f == Last(fs)
<1>1. f \in Frame /\ Front(fs) \in Seq(Frame)
  BY LastIsIn
<1>2. CASE /\ iat' = [iat EXCEPT ![f.dll] = Append(@, d)]
           /\ frames' = Front(fs) \o << [f EXCEPT !.next = @ + 1] >>
           /\ pc' = "imports" /\ UNCHANGED met
  <2>1. [f EXCEPT !.next = @ + 1] \in Frame
    <3>1. f.dll \in Dll /\ f.next \in Nat \ {0} /\ f = [dll |-> f.dll, next |-> f.next]
      BY <1>1 DEF Frame
    <3>2. f.next + 1 \in Nat \ {0}
      BY <3>1
    <3>3. [f EXCEPT !.next = @ + 1] = [dll |-> f.dll, next |-> f.next + 1]
      BY <3>1
    <3> QED BY <3>1, <3>2, <3>3 DEF Frame
  <2>2. << [f EXCEPT !.next = @ + 1] >> \in Seq(Frame) /\ Len(<< [f EXCEPT !.next = @ + 1] >>) = 1
    BY <2>1
  <2>3. frames' \in Seq(Frame) /\ Len(frames') = Len(Front(fs)) + 1
    BY <1>1, <1>2, <2>2, ConcatProperties
  <2>4. frames' # << >>
    BY <2>3, <1>1, LenProperties
  <2>5. iat' \in [Dll -> Seq(Dll)]
    <3>1. f.dll \in Dll /\ Append(iat[f.dll], d) \in Seq(Dll)
      BY <1>1, AppendProperties DEF Frame, MInv, MapTypeOK
    <3> QED BY <1>2, <3>1 DEF MInv, MapTypeOK
  <2> QED BY <1>2, <2>3, <2>4, <2>5
<1>3. CASE Meets("loadFails") /\ pc' = "fail" /\ frames' = fs /\ UNCHANGED iat
  BY <1>3 DEF MInv, MapTypeOK
<1> QED BY <1>2, <1>3 DEF Bind

\* A file is read, or not.
LEMMA LoadKeeps ==
    ASSUME MInv, NEW d \in Dll, LoadImage(d)
    PROVE  /\ local' \in [Dll -> {"none", "held", "freed", "freedTwice"}]
           /\ frames' \in Seq(Frame)
           /\ pc' \in {"createActCtx", "place", "fail"} => frames' # << >>
           /\ pc' \in {"createActCtx", "place", "fail", "cleanup"}
           /\ (\E h : Meets(h)) \/ UNCHANGED met
<1>1. CASE LoadFails(d)
  <2>1. local' \in [Dll -> {"none", "held", "freed", "freedTwice"}]
    BY <1>1 DEF LoadFails, MInv, MapTypeOK
  <2> QED BY <1>1, <2>1 DEF LoadFails, Fail, MInv, MapTypeOK
<1>2. CASE /\ local' = [local EXCEPT ![d] = "held"]
           /\ frames' = Append(frames, [dll |-> d, next |-> 1])
           /\ pc' = IF d = Root /\ "manifest" \in flags THEN "createActCtx" ELSE "place"
           /\ UNCHANGED met
  <2>1. [dll |-> d, next |-> 1] \in Frame
    BY DEF Frame
  <2>2. frames' \in Seq(Frame) /\ Len(frames') = Len(frames) + 1 /\ Len(frames) \in Nat
    BY <1>2, <2>1, AppendProperties DEF MInv, MapTypeOK
  <2>3. frames' # << >>
    BY <2>2
  <2> QED BY <1>2, <2>2, <2>3 DEF MInv, MapTypeOK
<1> QED BY <1>1, <1>2 DEF LoadImage

-----------------------------------------------------------------------------
(* The steps of the driver.                                                 *)

LEMMA CallIsRoutine == \A k \in Kind, d \in Dll : << k, d >> \in Routine
  BY RoutineAssumption

LEMMA MapIdleKeeps ==
    ASSUME MInv, UNCHANGED mapVars, call' = call \/ call' = None
    PROVE  MInv'
BY NamesAssumption DEF mapVars, MInv, MapTypeOK, StackOK, Mapping, Top, Image

\* Preparing, and the activation context.
LEMMA StartKeepsInv ==
    ASSUME IInv, SetUp \/ MapRoot \/ CreateActCtx \/ ActivateActCtx \/ Place
    PROVE  IInv'
<1> USE DEF IInv
<1>1. CASE SetUp
  <2>1. CInv'
    BY <1>1, SetUpKeeps DEF SetUp, MInv, StackOK
  <2>2. MInv'
    BY <1>1 DEF SetUp, MInv, MapTypeOK, StackOK, Mapping
  <2> QED BY <2>1, <2>2
<1>2. CASE MapRoot
  <2>1. LoadImage(Root)
    BY <1>2 DEF MapRoot
  <2>2. CInv'
    BY <1>2, <2>1, LoadKeeps, StepAside, RootAssumption DEF MapRoot
  <2>3. MInv'
    BY <1>2, <2>1, LoadKeeps, RootAssumption DEF MapRoot, MInv, MapTypeOK, StackOK, Mapping
  <2> QED BY <2>2, <2>3
<1>3. CASE CreateActCtx
  <2>1. Image \in Dll
    BY <1>3, ImageIsDll DEF CreateActCtx, AtCall, MInv, StackOK, Mapping
  <2>2. CInv'
    BY <1>3, <2>1, CallIsRoutine, RoutineCallKeeps, IdleKeeps DEF CreateActCtx, Kind
  <2>3. MInv'
    BY <1>3 DEF CreateActCtx, AtCall, MInv, MapTypeOK, StackOK, Mapping
  <2> QED BY <2>2, <2>3
<1>4. CASE ActivateActCtx
  <2>1. Image \in Dll
    BY <1>4, ImageIsDll DEF ActivateActCtx, AtCall, MInv, StackOK, Mapping
  <2>2. CInv'
    BY <1>4, <2>1, CallIsRoutine, RoutineCallKeeps, IdleKeeps DEF ActivateActCtx, Kind
  <2>3. MInv'
    BY <1>4 DEF ActivateActCtx, AtCall, MInv, MapTypeOK, StackOK, Mapping
  <2> QED BY <2>2, <2>3
<1>5. CASE Place
  <2>1. Image \in Dll
    BY <1>5, ImageIsDll DEF Place, AtCall, MInv, StackOK, Mapping
  <2>2. CInv'
    BY <1>5, StepAside DEF Place
  <2>3. modules' \in Seq(Dll) /\ mapped' \subseteq Dll
    <3>1. << Image >> \in Seq(Dll) /\ modules \in Seq(Dll)
      BY <2>1 DEF MInv, MapTypeOK
    <3>2. << Image >> \o modules \in Seq(Dll)
      BY <3>1, ConcatProperties
    <3> QED BY <1>5, <2>1, <3>2 DEF Place, Placed, MInv, MapTypeOK
  <2>4. MInv'
    BY <1>5, <2>3 DEF Place, AtCall, MInv, MapTypeOK, StackOK, Mapping
  <2> QED BY <2>2, <2>4
<1> QED BY <1>1, <1>2, <1>3, <1>4, <1>5

\* Imports.
LEMMA ResolveKeepsInv ==
    ASSUME IInv, ResolvePath \/ FindModule \/ MapImport \/ LoadImport \/ BindLoaded
    PROVE  IInv'
<1> USE DEF IInv
<1>0. /\ pc \in {"imports", "find", "loaded"} /\ frames # << >> /\ frames \in Seq(Frame)
      /\ ResolvePath \/ pc = "find" => Import \in Dll
  <2>1. /\ pc \in {"imports", "find", "loaded"}
        /\ ResolvePath => Top.next <= Len(imports[Image])
    BY DEF ResolvePath, FindModule, MapImport, LoadImport, BindLoaded, AtCall
  <2> QED BY <2>1, ImageIsDll DEF MInv, MapTypeOK, StackOK, Mapping
<1>1. CASE ResolvePath
  <2>1. CInv'
    BY <1>0, <1>1, CallIsRoutine, RoutineCallKeeps, IdleKeeps DEF ResolvePath, Kind
  <2>2. MInv'
    BY <1>0, <1>1 DEF ResolvePath, MInv, MapTypeOK, StackOK, Top, Image
  <2> QED BY <2>1, <2>2
<1>2. CASE FindModule
  <2>1. Bind(frames, Import) /\ Import \in Dll
    BY <1>0, <1>2 DEF FindModule, AtCall
  <2>2. CInv'
    BY <1>0, <1>2, <2>1, BindKeeps, StepAside DEF FindModule
  <2>3. MInv'
    BY <1>0, <1>2, <2>1, BindKeeps DEF FindModule, MInv, MapTypeOK, StackOK
  <2> QED BY <2>2, <2>3
<1>3. CASE MapImport
  <2>1. LoadImage(Import) /\ Import \in Dll
    BY <1>0, <1>3 DEF MapImport, AtCall
  <2>2. CInv'
    BY <1>3, <2>1, LoadKeeps, StepAside DEF MapImport
  <2>3. MInv'
    BY <1>3, <2>1, LoadKeeps DEF MapImport, MInv, MapTypeOK, StackOK, Mapping
  <2> QED BY <2>2, <2>3
<1>4. CASE LoadImport
  <2>1. CInv'
    <3>1. BBCallRoutine(<< "load", Import >>, "noThreads" \notin flags)
      BY <1>4 DEF LoadImport
    <3>2. << "load", Import >> \in Routine /\ ("noThreads" \notin flags) \in BOOLEAN
      BY <1>0, <1>4, CallIsRoutine DEF LoadImport, AtCall, Kind
    <3> QED BY <3>1, <3>2, RoutineCallKeeps
  <2>2. MInv'
    BY <1>0, <1>4 DEF LoadImport, MInv, MapTypeOK, StackOK
  <2> QED BY <2>1, <2>2
<1>5. CASE BindLoaded
  <2>1. CASE ptr = None
    BY <1>0, <1>5, <2>1, StepAside DEF BindLoaded, MInv, MapTypeOK, StackOK
  <2>2. CASE ptr # None
    <3>1. Bind(frames, ptr) /\ ptr \in Dll
      BY <1>5, <2>2 DEF BindLoaded, MInv, MapTypeOK
    <3>2. CInv'
      BY <1>0, <1>5, <3>1, BindKeeps, StepAside DEF BindLoaded
    <3>3. MInv'
      BY <1>0, <1>5, <3>1, BindKeeps DEF BindLoaded, MInv, MapTypeOK, StackOK
    <3> QED BY <3>2, <3>3
  <2> QED BY <2>1, <2>2
<1> QED BY <1>1, <1>2, <1>3, <1>4, <1>5

\* The list without the image is still a list.
LEMMA UnlistedIsSeq == MInv => Unlisted \in Seq(Dll)
<1> SUFFICES ASSUME MInv PROVE Unlisted \in Seq(Dll)
  OBVIOUS
<1>1. modules \in Seq(Dll) /\ DOMAIN modules = 1 .. Len(modules) /\ Len(modules) \in Nat
      /\ \A j \in 1 .. Len(modules) : modules[j] \in Dll
  BY LenProperties, ElementOfSeq DEF MInv, MapTypeOK
<1>2. ASSUME NEW i \in DOMAIN modules PROVE RemoveAt(modules, i) \in Seq(Dll)
  <2>1. SubSeq(modules, 1, i - 1) \in Seq(Dll) /\ SubSeq(modules, i + 1, Len(modules)) \in Seq(Dll)
    BY <1>1, <1>2, SubSeqProperties
  <2> QED BY <2>1, ConcatProperties DEF RemoveAt
<1>3. CASE Image \in Range(modules)
  <2>1. \E i \in DOMAIN modules : modules[i] = Image
    BY <1>3 DEF Range
  <2> QED BY <1>2, <1>3, <2>1 DEF Unlisted
<1> QED BY <1>1, <1>3 DEF Unlisted

\* The end of an image.
LEMMA EndKeepsInv ==
    ASSUME IInv, Protect \/ Return \/ Abandon
    PROVE  IInv'
<1> USE DEF IInv
<1>0. /\ pc \in {"imports", "return", "fail"}
      /\ frames # << >> /\ frames \in Seq(Frame) /\ Image \in Dll
      /\ Front(frames) \in Seq(Frame) /\ (Len(frames) # 1 => Front(frames) # << >>)
  <2>1. pc \in {"imports", "return", "fail"}
    BY DEF Protect, Return, Abandon, AtCall
  <2>2. frames # << >> /\ frames \in Seq(Frame)
    BY <2>1 DEF MInv, MapTypeOK, StackOK, Mapping
  <2> QED BY <2>1, <2>2, ImageIsDll, LastIsIn
<1>1. CASE Protect
  <2>1. CInv'
    BY <1>0, <1>1, CallIsRoutine, RoutineCallKeeps, IdleKeeps, MeetsKeeps DEF Protect, Kind
  <2>2. MInv'
    BY <1>0, <1>1 DEF Protect, MInv, MapTypeOK, StackOK
  <2> QED BY <2>1, <2>2
<1>2. CASE Return
  <2>1. local' \in [Dll -> {"none", "held", "freed", "freedTwice"}]
    BY <1>2 DEF Return, MInv, MapTypeOK
  <2>2. CASE Len(frames) = 1
    <3>1. CInv'
      BY <1>2, <2>2, StepAside DEF Return
    <3>2. MInv'
      <4>1. << >> \in Seq(Frame)
        OBVIOUS
      <4> QED BY <1>2, <2>1, <2>2, <4>1 DEF Return, MInv, MapTypeOK, StackOK, Mapping
    <3> QED BY <3>1, <3>2
  <2>3. CASE Len(frames) # 1
    <3>1. Bind(Front(frames), Image)
      BY <1>2, <2>3 DEF Return
    <3>2. CInv'
      BY <1>0, <1>2, <2>3, <3>1, BindKeeps, StepAside DEF Return
    <3>3. MInv'
      BY <1>0, <1>2, <2>1, <2>3, <3>1, BindKeeps DEF Return, MInv, MapTypeOK, StackOK
    <3> QED BY <3>2, <3>3
  <2> QED BY <2>2, <2>3
<1>3. CASE Abandon
  <2>1. CInv'
    BY <1>3, IdleKeeps DEF Abandon
  <2>2. local' \in [Dll -> {"none", "held", "freed", "freedTwice"}]
    BY <1>3 DEF Abandon, MInv, MapTypeOK
  <2>3. MInv'
    BY <1>0, <1>3, <2>2, UnlistedIsSeq DEF Abandon, MInv, MapTypeOK, StackOK, Mapping
  <2> QED BY <2>1, <2>3
<1> QED BY <1>1, <1>2, <1>3

\* The initialisers, and the end of the mapping.
LEMMA InitialiseKeepsInv ==
    ASSUME IInv, CallTls \/ CallEntry \/ Entered \/ InitRoutine \/ CleanUp \/ Throw
    PROVE  IInv'
<1> USE DEF IInv
<1>0. Waiting \subseteq Dll
  BY WaitingIsDll
<1>1. CASE CallTls
  <2>1. CInv'
    BY <1>0, <1>1, CallIsRoutine, RoutineCallKeeps, IdleKeeps DEF CallTls, Kind
  <2>2. MInv'
    BY <1>1 DEF CallTls, MInv, MapTypeOK, StackOK, Mapping
  <2> QED BY <2>1, <2>2
<1>2. CASE CallEntry
  <2>1. CInv'
    BY <1>0, <1>2, CallIsRoutine, RoutineCallKeeps, IdleKeeps DEF CallEntry, Kind
  <2>2. MInv'
    BY <1>0, <1>2 DEF CallEntry, MInv, MapTypeOK, StackOK, Mapping
  <2> QED BY <2>1, <2>2
<1>3. CASE Entered
  <2>1. CInv'
    BY <1>3, IdleKeeps DEF Entered
  <2>2. MInv'
    BY <1>0, <1>3 DEF Entered, MInv, MapTypeOK, StackOK, Mapping
  <2> QED BY <2>1, <2>2
<1>4. CASE InitRoutine
  <2>1. CInv'
    BY <1>4, CallIsRoutine, RoutineCallKeeps, IdleKeeps, RootAssumption DEF InitRoutine, Kind
  <2>2. MInv'
    BY <1>4 DEF InitRoutine, MInv, MapTypeOK, StackOK, Mapping
  <2> QED BY <2>1, <2>2
<1>5. CASE CleanUp
  <2>1. CInv'
    BY <1>5, CleanUpKeeps
  <2>2. << >> \in Seq(Dll)
    OBVIOUS
  <2>3. MInv'
    BY <1>5, <2>2 DEF CleanUp, MInv, MapTypeOK, StackOK, Mapping
  <2> QED BY <2>1, <2>3
<1>6. CASE Throw
  <2>1. CInv'
    BY <1>6, IdleKeeps DEF Throw, Raises
  <2>2. MInv'
    BY <1>6 DEF Throw, Raises, MInv, MapTypeOK, StackOK, Mapping
  <2> QED BY <2>1, <2>2
<1> QED BY <1>1, <1>2, <1>3, <1>4, <1>5, <1>6

\* What runs in the process.
LEMMA ProcessKeepsInv ==
    ASSUME IInv, Process
    PROVE  IInv'
<1> USE DEF IInv
<1>1. CASE StartApc /\ UNCHANGED mapVars
  BY <1>1, StartKeeps, MapIdleKeeps DEF StartApc
<1>2. CASE Exit /\ UNCHANGED mapVars
  BY <1>2, ExitKeeps, MapIdleKeeps DEF Exit
<1>3. ASSUME NEW t \in threads, StartThread(t), UNCHANGED mapVars PROVE IInv'
  <2>1. CInv'
    BY <1>3, StartKeeps
  <2> QED BY <1>3, <2>1, MapIdleKeeps DEF StartThread
<1>4. ASSUME NEW r \in Routine, Executed(r), call' = call PROVE MInv'
  <2>1. r[2] \in Dll
    BY <1>4, RoutineAssumption
  <2> QED BY <1>4, <2>1 DEF Executed, Effect, MInv, MapTypeOK, StackOK, Mapping, Top, Image
<1>5. CASE EndApc /\ Executed(worker)
  BY <1>4, <1>5, EndKeeps DEF EndApc
<1>6. ASSUME NEW t \in threads, EndThread(t), Executed(t.runs) PROVE IInv'
  <2>1. CInv'
    BY <1>6, EndKeeps
  <2> QED BY <1>4, <1>6, <2>1 DEF EndThread
<1> QED BY <1>1, <1>2, <1>3, <1>5, <1>6 DEF Process

-----------------------------------------------------------------------------
(* What is bound to what, and in which order images are initialised.        *)

Preparing == {"createActCtx", "activateActCtx", "place"}
Resolving == {"imports", "find", "loaded", "return"}
Before == {"start", "map"}
Running == {"init", "entry", "entered"}

\* What is in the code buffer, or was when somebody entered it.
Buffered == Executing \cup {code}

\* No initialiser has been called.
Tame == \A d \in Dll : << "tls", d >> \notin Buffered /\ << "entry", d >> \notin Buffered

\* Only without manual imports is the loader asked, and only for imports of the first
\* image; so the handle, whenever it was stored, is of one of these.
HandleOK ==
    /\ \A d \in Dll : << "load", d >> \in Buffered => d \in Range(imports[Root])
    /\ ptr # None => ptr \in loaded /\ ptr \in Range(imports[Root])

\* The images being mapped are different ones, each the import the one before it is at.
Nested ==
    /\ frames[1].dll = Root
    /\ ~Manual => Len(frames) = 1
    /\ \A i \in 1 .. Len(frames) - 1 :
          /\ frames[i].dll \in Range(modules)
          /\ frames[i].next <= Len(imports[frames[i].dll])
          /\ frames[i + 1].dll = imports[frames[i].dll][frames[i].next]
    /\ \A i, j \in 1 .. Len(frames) : frames[i].dll = frames[j].dll => i = j

\* Each of them has bound its imports so far, the other images of the list have bound
\* all of theirs.
Resolved ==
    /\ \A i \in 1 .. Len(frames) : /\ Len(iat[frames[i].dll]) = frames[i].next - 1
                                   /\ frames[i].next <= Len(imports[frames[i].dll]) + 1
    /\ \A d \in Range(modules) : \/ Len(iat[d]) = Len(imports[d])
                                 \/ \E i \in 1 .. Len(frames) : frames[i].dll = d
    /\ \A d \in Dll \ Range(modules) : iat[d] = << >>

\* How far the innermost one is.
Innermost ==
    /\ pc \in Preparing <=> Image \notin Range(modules)
    /\ pc \in {"find", "loaded"} => Top.next <= Len(imports[Image])
    /\ pc = "loaded" => ~Manual
    /\ pc = "return" => Top.next > Len(imports[Image])

\* The list is of the images there are, each of which, but for the first one, was put
\* in it after an image that imports it.
Listed ==
    /\ mapped = Range(modules)
    /\ \A i, j \in 1 .. Len(modules) : modules[i] = modules[j] => i = j
    /\ \A k \in 1 .. Len(modules) :
          \/ modules[k] = Root
          \/ \E l \in k + 1 .. Len(modules) : modules[k] \in Range(imports[modules[l]])

BoundToThere == \A d \in Dll : Range(iat[d]) \subseteq mapped \cup loaded

AllResolved == \A d \in Range(modules) : Len(iat[d]) = Len(imports[d])

InOrder == \A j \in 1 .. Len(modules), i \in 1 .. Len(modules) :
               i < j /\ modules[j] \in initialized => modules[i] \in initialized

\* A mapping that has not got to its initialisers.
Building ==
    /\ Tame /\ initialized = {}
    /\ pc \in Before => frames = << >> /\ modules = << >> /\ \A d \in Dll : iat[d] = << >>
    /\ pc \in Preparing \cup Resolving => Nested /\ Resolved /\ Innermost
    /\ pc # "fail" => Listed /\ BoundToThere

\* One that has.
Built == Listed /\ BoundToThere /\ AllResolved /\ InOrder

Over == (Tame \/ (BoundToThere /\ AllResolved)) /\ ImportsInitialisedFirst

BuildInv ==
    /\ HandleOK /\ BoundAsImported
    /\ pc \in Before \cup Preparing \cup Resolving \cup {"fail"} => Building
    /\ pc \in Running => Built
    /\ pc \in {"cleanup", "done", "thrown"} => Over

\* What is held of system memory is for an image being mapped, or for the first.
Files ==
    /\ pc \notin Preparing \cup Resolving \cup {"fail", "thrown"} => frames = << >>
    /\ \A d \in Dll :
          /\ local[d] = "held" =>
                \/ \E i \in 1 .. Len(frames) : frames[i].dll = d
                \/ pc \in Before /\ d = Root
                \/ "setupFails" \in met
          /\ local[d] = "freedTwice" => "readFails" \in met

\* The images being mapped have their files still, also when an exception has cut
\* their mapping short, which happens only to a process that has exited.
Left ==
    /\ pc # "fail" => \A i \in 1 .. Len(frames) : local[frames[i].dll] = "held"
    /\ pc = "thrown" => ~alive

-----------------------------------------------------------------------------

LEMMA TopIsAt ==
    ASSUME frames \in Seq(Frame), frames # << >>
    PROVE  Top = frames[Len(frames)] /\ Image = frames[Len(frames)].dll
           /\ Len(frames) \in Nat \ {0}
           /\ \A i \in 1 .. Len(frames) :
                 frames[i].dll \in Dll /\ frames[i].next \in Nat \ {0} /\ frames[i] \in Frame
           /\ Import = imports[frames[Len(frames)].dll][frames[Len(frames)].next]
<1>1. \A i \in 1 .. Len(frames) : frames[i] \in Frame
  BY ElementOfSeq
<1> QED BY <1>1, LastIsAt DEF Top, Image, Import, Frame

\* The primed stack, for the steps that change it.
LEMMA NewTopIsAt ==
    ASSUME frames' \in Seq(Frame), frames' # << >>
    PROVE  Top' = frames'[Len(frames')] /\ Image' = frames'[Len(frames')].dll
BY LastIsAt DEF Top, Image

\* A binding: the frame moves on by one, and its thunks get one more.
LEMMA BindShape ==
    ASSUME MInv, NEW fs \in Seq(Frame), fs # << >>, NEW d \in Dll, Bind(fs, d)
    PROVE  \/ /\ pc' = "imports" /\ frames' \in Seq(Frame) /\ Len(frames') = Len(fs)
              /\ Len(fs) \in Nat \ {0} /\ fs[Len(fs)] \in Frame
              /\ \A i \in 1 .. Len(fs) - 1 : frames'[i] = fs[i]
              /\ frames'[Len(fs)].dll = fs[Len(fs)].dll
              /\ frames'[Len(fs)].next = fs[Len(fs)].next + 1
              /\ iat' \in [Dll -> Seq(Dll)]
              /\ \A e \in Dll \ {fs[Len(fs)].dll} : iat'[e] = iat[e]
              /\ iat'[fs[Len(fs)].dll] = Append(iat[fs[Len(fs)].dll], d)
           \/ pc' = "fail" /\ frames' = fs /\ UNCHANGED iat
<1>0. PICK f : f = fs[Len(fs)]
  OBVIOUS
<1>1. /\ Last(fs) = f /\ f \in Frame /\ Len(fs) \in Nat \ {0}
      /\ Front(fs) \in Seq(Frame) /\ Len(Front(fs)) = Len(fs) - 1
      /\ \A i \in 1 .. Len(fs) - 1 : Front(fs)[i] = fs[i]
  BY <1>0, LastIsAt, LastIsIn
<1>2. CASE /\ iat' = [iat EXCEPT ![f.dll] = Append(@, d)]
           /\ frames' = Front(fs) \o << [f EXCEPT !.next = @ + 1] >>
           /\ pc' = "imports" /\ UNCHANGED met
  <2>0. PICK g : g = [f EXCEPT !.next = @ + 1]
    OBVIOUS
  <2>1. g \in Frame /\ g.dll = f.dll /\ g.next = f.next + 1
    <3>1. f.dll \in Dll /\ f.next \in Nat \ {0} /\ f = [dll |-> f.dll, next |-> f.next]
      BY <1>1 DEF Frame
    <3>2. f.next + 1 \in Nat \ {0}
      BY <3>1
    <3>3. g = [dll |-> f.dll, next |-> f.next + 1]
      BY <2>0, <3>1
    <3> QED BY <3>1, <3>2, <3>3 DEF Frame
  <2>2. << g >> \in Seq(Frame) /\ Len(<< g >>) = 1 /\ << g >>[1] = g
    BY <2>1
  <2>3. /\ frames' \in Seq(Frame) /\ Len(frames') = Len(fs)
        /\ \A i \in 1 .. Len(fs) :
              frames'[i] = IF i <= Len(fs) - 1 THEN Front(fs)[i] ELSE << g >>[i - (Len(fs) - 1)]
    BY <1>1, <1>2, <2>0, <2>2, ConcatProperties
  <2>4. frames'[Len(fs)] = g /\ \A i \in 1 .. Len(fs) - 1 : frames'[i] = fs[i]
    <3>1. /\ Len(fs) \in 1 .. Len(fs) /\ ~(Len(fs) <= Len(fs) - 1)
          /\ Len(fs) - (Len(fs) - 1) = 1
          /\ \A i \in 1 .. Len(fs) - 1 : i \in 1 .. Len(fs) /\ i <= Len(fs) - 1
      BY <1>1
    <3> QED BY <1>1, <2>2, <2>3, <3>1
  <2>5. f.dll \in Dll /\ Append(iat[f.dll], d) \in Seq(Dll) /\ iat \in [Dll -> Seq(Dll)]
    BY <1>1, AppendProperties DEF Frame, MInv, MapTypeOK
  <2>6. /\ iat' \in [Dll -> Seq(Dll)] /\ iat'[f.dll] = Append(iat[f.dll], d)
        /\ \A e \in Dll \ {f.dll} : iat'[e] = iat[e]
    BY <1>2, <2>5
  <2> QED BY <1>0, <1>1, <1>2, <2>1, <2>3, <2>4, <2>6
<1>3. CASE Meets("loadFails") /\ pc' = "fail" /\ frames' = fs /\ UNCHANGED iat
  BY <1>3
<1> QED BY <1>0, <1>1, <1>2, <1>3 DEF Bind

LEMMA AppendedRange ==
    ASSUME NEW S, NEW s \in Seq(S), NEW e \in S
    PROVE  Range(Append(s, e)) = Range(s) \cup {e} /\ Len(Append(s, e)) = Len(s) + 1
           /\ \A i \in DOMAIN Append(s, e) :
                 \/ i \in DOMAIN s /\ Append(s, e)[i] = s[i]
                 \/ i = Len(s) + 1 /\ Append(s, e)[i] = e
<1>1. /\ Append(s, e) \in Seq(S) /\ Len(Append(s, e)) = Len(s) + 1 /\ Len(s) \in Nat
      /\ \A i \in 1 .. Len(s) : Append(s, e)[i] = s[i]
      /\ Append(s, e)[Len(s) + 1] = e
  BY AppendProperties, LenProperties
<1>2. DOMAIN Append(s, e) = 1 .. Len(s) + 1 /\ DOMAIN s = 1 .. Len(s)
  BY <1>1, LenProperties
<1>3. \A i \in 1 .. Len(s) + 1 : i \in 1 .. Len(s) \/ i = Len(s) + 1
  BY <1>1
<1>4. Len(s) + 1 \in 1 .. Len(s) + 1 /\ \A i \in 1 .. Len(s) : i \in 1 .. Len(s) + 1
  BY <1>1
<1> QED BY <1>1, <1>2, <1>3, <1>4 DEF Range

\* An image is put at the head of the list.
LEMMA PlacedShape ==
    ASSUME MInv, Image \in Dll, Placed
    PROVE  /\ Len(modules) \in Nat /\ Len(modules') = Len(modules) + 1 /\ modules'[1] = Image
           /\ \A i \in 1 .. Len(modules) : modules'[i + 1] = modules[i]
           /\ Range(modules') = Range(modules) \cup {Image}
           /\ DOMAIN modules = 1 .. Len(modules) /\ modules' \in Seq(Dll)
<1>1. /\ << Image >> \in Seq(Dll) /\ Len(<< Image >>) = 1 /\ << Image >>[1] = Image
      /\ modules \in Seq(Dll)
  BY DEF MInv, MapTypeOK
<1>2. Len(modules) \in Nat /\ DOMAIN modules = 1 .. Len(modules)
  BY <1>1, LenProperties
<1>3. /\ modules' \in Seq(Dll) /\ Len(modules') = 1 + Len(modules)
      /\ \A i \in 1 .. 1 + Len(modules) :
            modules'[i] = IF i <= 1 THEN << Image >>[i] ELSE modules[i - 1]
  BY <1>1, ConcatProperties DEF Placed
<1>4. modules'[1] = Image /\ \A i \in 1 .. Len(modules) : modules'[i + 1] = modules[i]
  BY <1>1, <1>2, <1>3
<1>5. Range(<< Image >>) = {Image}
  BY DEF Range
<1>6. Range(<< Image >> \o modules) = Range(<< Image >>) \cup Range(modules)
  <2>1. PICK a \in Seq(Dll), b \in Seq(Dll) : a = << Image >> /\ b = modules
    BY <1>1
  <2>2. Range(a \o b) = Range(a) \cup Range(b)
    BY RangeConcatenation
  <2> QED BY <2>1, <2>2
<1> QED BY <1>2, <1>3, <1>4, <1>5, <1>6 DEF Placed

-----------------------------------------------------------------------------
(* What is in the code buffer.                                              *)

LEMMA CallWrites ==
    ASSUME NEW r, NEW newThread, BBCallRoutine(r, newThread)
    PROVE  Buffered' \subseteq Buffered \cup {r, Fresh}
<1>1. code' = r /\ worker' = worker
  BY DEF BBCallRoutine
<1>2. threads' = threads \/ threads' = threads \cup {[made |-> r, runs |-> Fresh]}
  BY DEF BBCallRoutine, QueueApc, ExecuteInNewThread
<1> QED BY <1>1, <1>2 DEF Buffered, Executing

LEMMA ProcessReads ==
    ASSUME Process
    PROVE  Buffered' \subseteq Buffered \cup {None, Fresh}
<1>1. CASE StartApc \/ EndApc \/ Exit
  BY <1>1 DEF StartApc, EndApc, Exit, Buffered, Executing
<1>2. ASSUME NEW t \in threads, StartThread(t) \/ EndThread(t)
      PROVE  Buffered' \subseteq Buffered
  <2>1. code' = code /\ worker' = worker
    BY <1>2 DEF StartThread, EndThread
  <2>2. threads' = threads \ {t} \/ threads' = (threads \ {t}) \cup {[t EXCEPT !.runs = code]}
    BY <1>2 DEF StartThread, EndThread
  <2>3. \A u \in threads' : u.runs \in {code} \cup {v.runs : v \in threads}
    <3>1. CASE threads' = threads \ {t}
      BY <3>1
    <3>2. CASE threads' = (threads \ {t}) \cup {[t EXCEPT !.runs = code]}
      <4>1. StartThread(t) => [t EXCEPT !.runs = code].runs \in {code, t.runs}
        BY DEF StartThread
      <4> QED BY <1>2, <3>2, <4>1 DEF EndThread
    <3> QED BY <2>2, <3>1, <3>2
  <2> QED BY <2>1, <2>3 DEF Buffered, Executing
<1> QED BY <1>1, <1>2 DEF Process

\* The routines that are no initialisers.
Helpers == {"createActCtx", "activateActCtx", "redirect", "load", "functionTable", "init"}

LEMMA HelpersAreTame ==
    ASSUME Tame, NEW r \in Helpers \X Dll, Buffered' \subseteq Buffered \cup {r, None, Fresh}
    PROVE  Tame'
<1>1. \A k \in {"tls", "entry"}, d \in Dll : << k, d >> # r
  BY DEF Helpers
<1>2. \A k \in {"tls", "entry"}, d \in Dll : << k, d >> \notin {None, Fresh}
  BY NamesAssumption, CallIsRoutine DEF Kind
<1> QED BY <1>1, <1>2 DEF Tame

\* A routine that loads is of an import of the first image.
LEMMA HandleKeeps ==
    ASSUME HandleOK, UNCHANGED << imports, loaded, ptr >>,
           NEW r, Buffered' \subseteq Buffered \cup {r, None, Fresh},
           \A d \in Dll : r = << "load", d >> => d \in Range(imports[Root])
    PROVE  HandleOK'
<1>1. \A d \in Dll : << "load", d >> \notin {None, Fresh}
  BY NamesAssumption, CallIsRoutine DEF Kind
<1> QED BY <1>1 DEF HandleOK

\* What a routine does that has been executed: the loader's handle.
LEMMA EffectKeepsHandle ==
    ASSUME HandleOK, NEW r \in Buffered, r \in Routine, Executed(r),
           Buffered' \subseteq Buffered \cup {None, Fresh}
    PROVE  HandleOK'
<1>1. \A d \in Dll : << "load", d >> \notin {None, Fresh}
  BY NamesAssumption, CallIsRoutine DEF Kind
<1>2. imports' = imports
  BY DEF Executed
<1>3. \A d \in Dll : << "load", d >> \in Buffered' => d \in Range(imports'[Root])
  BY <1>1, <1>2 DEF HandleOK
<1>4. CASE UNCHANGED << loaded, ptr >>
  BY <1>2, <1>3, <1>4 DEF HandleOK
<1>5. CASE r[1] = "load" /\ loaded' = loaded \cup {r[2]} /\ ptr' = r[2]
  <2>1. r = << "load", r[2] >> /\ r[2] \in Dll
    BY <1>5, RoutineAssumption
  <2>2. r[2] \in Range(imports[Root])
    BY <2>1 DEF HandleOK
  <2> QED BY <1>2, <1>3, <1>5, <2>2 DEF HandleOK
<1> QED BY <1>4, <1>5 DEF Executed, Effect

-----------------------------------------------------------------------------
(* Steps of the construction.                                               *)

LEMMA Lengths ==
    ASSUME MInv
    PROVE  /\ \A d \in Dll : /\ Len(imports[d]) \in Nat /\ Len(iat[d]) \in Nat
                             /\ imports[d] \in Seq(Dll) /\ iat[d] \in Seq(Dll)
                             /\ DOMAIN imports[d] = 1 .. Len(imports[d])
                             /\ DOMAIN iat[d] = 1 .. Len(iat[d])
           /\ Len(modules) \in Nat /\ DOMAIN modules = 1 .. Len(modules)
           /\ \A i \in 1 .. Len(modules) : modules[i] \in Dll
           /\ Range(modules) \subseteq Dll /\ Len(frames) \in Nat
<1>1. \A d \in Dll : imports[d] \in Seq(Dll) /\ iat[d] \in Seq(Dll)
  BY DEF MInv, MapTypeOK
<1>2. modules \in Seq(Dll) /\ frames \in Seq(Frame)
  BY DEF MInv, MapTypeOK
<1>3. \A i \in 1 .. Len(modules) : modules[i] \in Dll
  BY <1>2, ElementOfSeq
<1>4. Range(modules) \subseteq Dll
  BY <1>2, RangeOfSeq
<1> QED BY <1>1, <1>2, <1>3, <1>4, LenProperties

\* An import is bound for the n-th frame, which is or becomes the innermost one.
LEMMA BindBuilds ==
    ASSUME MInv, frames # << >>, Nested, Resolved, Listed, BoundToThere,
           NEW n \in 1 .. Len(frames),
           NEW fs \in Seq(Frame), Len(fs) = n, \A i \in 1 .. n : fs[i] = frames[i],
           NEW d \in mapped \cup loaded, Bind(fs, d), pc' = "imports",
           frames[n].dll \in Range(modules), frames[n].next <= Len(imports[frames[n].dll]),
           \A i \in n + 1 .. Len(frames) : Len(iat[frames[i].dll]) = Len(imports[frames[i].dll]),
           UNCHANGED << imports, flags, loaded, modules, mapped >>
    PROVE  Nested' /\ Resolved' /\ Innermost' /\ BoundToThere'
<1> DEFINE f == frames[n]
<1>1. /\ \A i \in 1 .. Len(frames) : frames[i].dll \in Dll /\ frames[i].next \in Nat \ {0}
      /\ n \in Nat \ {0} /\ fs # << >> /\ d \in Dll /\ fs[n] = f
      /\ Len(frames) \in Nat
  <2>1. frames \in Seq(Frame)
    BY DEF MInv, MapTypeOK
  <2>2. n \in Nat \ {0} /\ Len(frames) \in Nat
    BY <2>1, TopIsAt
  <2>3. fs # << >>
    BY <2>2
  <2>4. d \in Dll
    BY DEF MInv, MapTypeOK
  <2> QED BY <2>1, <2>2, <2>3, <2>4, TopIsAt
<1>2. /\ frames' \in Seq(Frame) /\ Len(frames') = n
      /\ \A i \in 1 .. n - 1 : frames'[i] = frames[i]
      /\ frames'[n].dll = f.dll /\ frames'[n].next = f.next + 1
      /\ \A e \in Dll \ {f.dll} : iat'[e] = iat[e]
      /\ iat'[f.dll] = Append(iat[f.dll], d)
  <2>1. f = fs[Len(fs)]
    BY <1>1
  <2>2. /\ frames' \in Seq(Frame) /\ Len(frames') = Len(fs)
        /\ \A i \in 1 .. Len(fs) - 1 : frames'[i] = fs[i]
        /\ frames'[Len(fs)].dll = f.dll /\ frames'[Len(fs)].next = f.next + 1
        /\ \A e \in Dll \ {f.dll} : iat'[e] = iat[e]
        /\ iat'[f.dll] = Append(iat[f.dll], d)
    <3>1. pc' # "fail"
      OBVIOUS
    <3> QED BY <1>1, <2>1, <3>1, BindShape
  <2>3. \A i \in 1 .. n - 1 : i \in 1 .. n
    BY <1>1
  <2> QED BY <2>2, <2>3
<1>3. /\ Len(iat'[f.dll]) = Len(iat[f.dll]) + 1
      /\ Range(iat'[f.dll]) = Range(iat[f.dll]) \cup {d}
  BY <1>1, <1>2, Lengths, AppendedRange
<1>4. \A i \in 1 .. n : frames'[i].dll = frames[i].dll
  <2>1. \A i \in 1 .. n : i \in 1 .. n - 1 \/ i = n
    BY <1>1
  <2> QED BY <1>2, <2>1
<1>5. \A i \in 1 .. Len(frames) : i # n => frames[i].dll # f.dll
  BY DEF Nested
<1>6. Nested'
  <2>1. frames'[1].dll = Root /\ (~Manual' => Len(frames') = 1)
    <3>1. frames'[1].dll = frames[1].dll
      BY <1>1, <1>4
    <3>2. ~Manual' => Len(frames) = 1
      BY DEF Nested, Manual
    <3> QED BY <1>1, <1>2, <3>1, <3>2 DEF Nested
  <2>2. ASSUME NEW i \in 1 .. n - 1
        PROVE  /\ frames'[i].dll \in Range(modules)
               /\ frames'[i].next <= Len(imports[frames'[i].dll])
               /\ frames'[i + 1].dll = imports[frames'[i].dll][frames'[i].next]
    <3>1. i \in 1 .. Len(frames) - 1 /\ i + 1 \in 1 .. n
      BY <1>1, <2>2
    <3> QED BY <1>2, <1>4, <2>2, <3>1 DEF Nested
  <2>3. \A i, j \in 1 .. n : frames'[i].dll = frames'[j].dll => i = j
    <3>1. \A i \in 1 .. n : i \in 1 .. Len(frames)
      BY <1>1
    <3> QED BY <1>4, <3>1 DEF Nested
  <2> QED BY <1>2, <2>1, <2>2, <2>3 DEF Nested
<1>7. Resolved'
  <2>1. ASSUME NEW i \in 1 .. n
        PROVE  /\ Len(iat'[frames'[i].dll]) = frames'[i].next - 1
               /\ frames'[i].next <= Len(imports[frames'[i].dll]) + 1
    <3>1. i \in 1 .. Len(frames) /\ (i \in 1 .. n - 1 \/ i = n)
      BY <1>1, <2>1
    <3>2. /\ Len(iat[frames[i].dll]) = frames[i].next - 1
          /\ frames[i].next <= Len(imports[frames[i].dll]) + 1
      BY <3>1 DEF Resolved
    <3>3. CASE i = n
      <4>1. frames'[i].dll = f.dll /\ frames'[i].next = f.next + 1
        BY <1>2, <3>3
      <4>2. Len(iat'[f.dll]) = Len(iat[f.dll]) + 1 /\ Len(iat[f.dll]) = f.next - 1
        BY <1>3, <3>2, <3>3
      <4>3. f.next \in Nat /\ Len(imports[f.dll]) \in Nat /\ f.next <= Len(imports[f.dll])
        BY <1>1, Lengths
      <4> HIDE DEF f
      <4> QED BY <4>1, <4>2, <4>3
    <3>4. CASE i \in 1 .. n - 1
      <4>0. i # n
        BY <1>1, <3>4
      <4>1. frames'[i] = frames[i] /\ frames[i].dll # f.dll
        <5>1. frames'[i] = frames[i]
          BY <1>2, <3>4
        <5>2. frames[i].dll # f.dll
          BY <1>5, <3>1, <4>0
        <5> QED BY <5>1, <5>2
      <4> QED BY <1>1, <1>2, <3>1, <3>2, <4>1
    <3> QED BY <3>1, <3>3, <3>4
  <2>2. ASSUME NEW e \in Range(modules)
        PROVE  \/ Len(iat'[e]) = Len(imports[e])
               \/ \E i \in 1 .. n : frames'[i].dll = e
    <3>1. CASE e = f.dll
      BY <1>1, <1>2, <3>1
    <3>2. CASE e # f.dll
      <4>1. iat'[e] = iat[e]
        BY <1>2, <2>2, <3>2, Lengths
      <4>2. CASE Len(iat[e]) = Len(imports[e])
        BY <4>1, <4>2
      <4>3. CASE \E i \in 1 .. Len(frames) : frames[i].dll = e
        <5>1. PICK i \in 1 .. Len(frames) : frames[i].dll = e
          BY <4>3
        <5>2. i \in 1 .. n \/ i \in n + 1 .. Len(frames)
          BY <1>1
        <5> QED BY <1>4, <4>1, <5>1, <5>2
      <4> QED BY <4>2, <4>3 DEF Resolved
    <3> QED BY <3>1, <3>2
  <2>3. \A e \in Dll \ Range(modules) : iat'[e] = << >>
    BY <1>2 DEF Resolved
  <2> QED BY <1>2, <2>1, <2>2, <2>3 DEF Resolved
<1>8. Innermost'
  <2>1. Image' = frames'[n].dll
    <3>1. frames' # << >>
      BY <1>1, <1>2
    <3> QED BY <1>2, <3>1, NewTopIsAt
  <2> QED BY <1>2, <2>1 DEF Innermost, Preparing
<1>9. BoundToThere'
  <2>1. \A e \in Dll : Range(iat[e]) \subseteq mapped \cup loaded
    BY DEF BoundToThere
  <2>2. \A e \in Dll : e # f.dll => Range(iat'[e]) \subseteq mapped \cup loaded
    <3>1. \A e \in Dll : e # f.dll => iat'[e] = iat[e]
      BY <1>2
    <3> QED BY <2>1, <3>1
  <2>3. Range(iat'[f.dll]) \subseteq mapped \cup loaded
    <3>1. f.dll \in Dll
      BY <1>1
    <3> QED BY <1>3, <2>1, <3>1
  <2> QED BY <2>2, <2>3 DEF BoundToThere
<1> QED BY <1>6, <1>7, <1>8, <1>9

\* What is bound is what is imported.
LEMMA BindKeepsImported ==
    ASSUME MInv, BoundAsImported, UNCHANGED << imports, flags >>,
           NEW fs \in Seq(Frame), fs # << >>, NEW d \in Dll, Bind(fs, d),
           NEW f, f = fs[Len(fs)],
           Len(iat[f.dll]) = f.next - 1,
           Manual \/ Len(imports[f.dll]) <= 1 => d = imports[f.dll][f.next]
    PROVE  BoundAsImported'
<1>1. CASE UNCHANGED iat
  BY <1>1 DEF BoundAsImported, Manual
<1>2. CASE /\ f \in Frame
           /\ \A e \in Dll \ {f.dll} : iat'[e] = iat[e]
           /\ iat'[f.dll] = Append(iat[f.dll], d)
  <2>1. f.dll \in Dll /\ f.next \in Nat
    BY <1>2 DEF Frame
  <2>2. \A i \in DOMAIN iat'[f.dll] :
           \/ i \in DOMAIN iat[f.dll] /\ iat'[f.dll][i] = iat[f.dll][i]
           \/ i = f.next /\ iat'[f.dll][i] = d
    BY <1>2, <2>1, Lengths, AppendedRange
  <2>3. ASSUME NEW e \in Dll, Manual \/ Len(imports[e]) <= 1, NEW i \in DOMAIN iat'[e]
        PROVE  iat'[e][i] = imports[e][i]
    <3>1. CASE e # f.dll
      BY <1>2, <2>3, <3>1 DEF BoundAsImported
    <3>2. CASE e = f.dll
      BY <2>2, <2>3, <3>2 DEF BoundAsImported
    <3> QED BY <3>1, <3>2
  <2> QED BY <2>3 DEF BoundAsImported, Manual
<1> QED BY <1>1, <1>2, BindShape

\* Another image is to be mapped: the first, or the import the innermost one is at.
LEMMA GrowBuilds ==
    ASSUME MInv, NEW d \in Dll, LoadImage(d), pc' \in Preparing,
           d \notin Range(modules), Resolved,
           \/ frames = << >> /\ d = Root
           \/ /\ frames # << >> /\ Nested /\ Manual /\ d = Import
              /\ Image \in Range(modules) /\ Top.next <= Len(imports[Image]),
           UNCHANGED << imports, flags, loaded, modules, mapped, iat >>
    PROVE  Nested' /\ Resolved' /\ Innermost'
<1>1. frames' = Append(frames, [dll |-> d, next |-> 1])
  BY DEF LoadImage, LoadFails, Fail, Preparing
<1>2. PICK n \in Nat : n = Len(frames)
  BY Lengths
<1>3. /\ frames' \in Seq(Frame) /\ frames' # << >> /\ Len(frames') = n + 1
      /\ \A i \in 1 .. n : frames'[i] = frames[i]
      /\ frames'[n + 1].dll = d /\ frames'[n + 1].next = 1
  <2>0. [dll |-> d, next |-> 1] \in Frame
    BY DEF Frame
  <2>1. PICK g \in Frame : g = [dll |-> d, next |-> 1]
    BY <2>0
  <2>2. frames \in Seq(Frame)
    BY DEF MInv, MapTypeOK
  <2>3. g.dll = d /\ g.next = 1
    BY <2>1
  <2> QED BY <1>1, <1>2, <2>1, <2>2, <2>3, AppendProperties
<1>4. frames = << >> => n = 0
  BY <1>2, EmptySeq
<1>5. frames # << >> =>
         /\ n \in Nat \ {0} /\ Image = frames[n].dll /\ Top = frames[n]
         /\ \A i \in 1 .. n : frames[i].dll \in Dll /\ frames[i].next \in Nat \ {0}
         /\ Import = imports[frames[n].dll][frames[n].next]
  BY <1>2, TopIsAt DEF MInv, MapTypeOK
<1>6. \A i \in 1 .. n : frames[i].dll \in Range(modules) /\ frames[i].dll # d
  <2>1. \A i \in 1 .. n : i = n \/ i \in 1 .. n - 1
    BY <1>2
  <2> QED BY <1>2, <1>4, <1>5, <2>1 DEF Nested
<1>7. \A i \in 1 .. n + 1 : i = n + 1 \/ i \in 1 .. n
  BY <1>2
<1>8. Nested'
  <2>1. frames'[1].dll = Root
    BY <1>2, <1>3, <1>4, <1>5 DEF Nested
  <2>2. ~Manual' => Len(frames') = 1
    BY <1>2, <1>3, <1>4 DEF Manual
  <2>3. ASSUME NEW i \in 1 .. n
        PROVE  /\ frames'[i].dll \in Range(modules)
               /\ frames'[i].next <= Len(imports[frames'[i].dll])
               /\ frames'[i + 1].dll = imports[frames'[i].dll][frames'[i].next]
    <3>1. frames # << >>
      BY <1>4, <2>3
    <3>2. CASE i = n
      BY <1>3, <1>5, <1>6, <2>3, <3>1, <3>2
    <3>3. CASE i \in 1 .. n - 1
      <4>1. i + 1 \in 1 .. n
        BY <1>2, <3>3
      <4>2. frames'[i] = frames[i] /\ frames'[i + 1] = frames[i + 1]
        BY <1>3, <4>1
      <4> QED BY <1>2, <3>1, <3>3, <4>2 DEF Nested
    <3> QED BY <1>2, <3>2, <3>3
  <2>4. ASSUME NEW i \in 1 .. n + 1, NEW j \in 1 .. n + 1, frames'[i].dll = frames'[j].dll
        PROVE  i = j
    <3>1. CASE i = n + 1 \/ j = n + 1
      BY <1>3, <1>6, <1>7, <2>4, <3>1
    <3>2. CASE i \in 1 .. n /\ j \in 1 .. n
      BY <1>2, <1>3, <1>4, <2>4, <3>2 DEF Nested
    <3> QED BY <1>7, <3>1, <3>2
  <2>5. n + 1 - 1 = n
    BY <1>2
  <2> QED BY <1>3, <2>1, <2>2, <2>3, <2>4, <2>5 DEF Nested
<1>9. Resolved'
  <2>1. iat[d] = << >> /\ Len(iat[d]) = 0 /\ Len(imports[d]) \in Nat
    BY Lengths, EmptySeq DEF Resolved
  <2>2. ASSUME NEW i \in 1 .. n + 1
        PROVE  /\ Len(iat[frames'[i].dll]) = frames'[i].next - 1
               /\ frames'[i].next <= Len(imports[frames'[i].dll]) + 1
    <3>1. CASE i = n + 1
      BY <1>3, <2>1, <3>1
    <3>2. CASE i \in 1 .. n
      BY <1>2, <1>3, <3>2 DEF Resolved
    <3> QED BY <1>7, <3>1, <3>2
  <2>3. ASSUME NEW e \in Range(modules)
        PROVE  \/ Len(iat[e]) = Len(imports[e])
               \/ \E i \in 1 .. n + 1 : frames'[i].dll = e
    <3>1. CASE Len(iat[e]) = Len(imports[e])
      BY <3>1
    <3>2. CASE \E i \in 1 .. n : frames[i].dll = e
      BY <1>2, <1>3, <3>2
    <3> QED BY <1>2, <3>1, <3>2 DEF Resolved
  <2> QED BY <1>3, <2>2, <2>3 DEF Resolved
<1>10. Innermost'
  <2>1. Image' = d
    BY <1>3, NewTopIsAt
  <2> QED BY <2>1 DEF Innermost, Preparing
<1> QED BY <1>8, <1>9, <1>10

\* The innermost image is put in the list.
LEMMA PlaceBuilds ==
    ASSUME MInv, frames # << >>, Nested, Resolved, Innermost, Listed, BoundToThere,
           pc = "place", Placed, mapped' = mapped \cup {Image}, pc' = "imports",
           UNCHANGED << imports, flags, loaded, frames, iat >>
    PROVE  Nested' /\ Resolved' /\ Innermost' /\ Listed' /\ BoundToThere'
<1>0. frames \in Seq(Frame)
  BY DEF MInv, MapTypeOK
<1>1. PICK n \in Nat \ {0} : n = Len(frames)
  BY <1>0, TopIsAt
<1>2. /\ Image = frames[n].dll /\ Image \in Dll /\ Image \notin Range(modules) /\ Top = frames[n]
      /\ \A i \in 1 .. n : frames[i].dll \in Dll /\ frames[i].next \in Nat \ {0}
  BY <1>0, <1>1, TopIsAt DEF Innermost, Preparing
<1>3. /\ Len(modules') = Len(modules) + 1 /\ modules'[1] = Image /\ Len(modules) \in Nat
      /\ \A i \in 1 .. Len(modules) : modules'[i + 1] = modules[i]
      /\ Range(modules') = Range(modules) \cup {Image}
      /\ DOMAIN modules = 1 .. Len(modules)
  BY <1>2, PlacedShape
<1>4. Nested'
  BY <1>3 DEF Nested, Manual
<1>5. Resolved'
  <2>1. n \in 1 .. Len(frames)
    BY <1>1
  <2> QED BY <1>2, <1>3, <2>1 DEF Resolved
<1>6. Innermost'
  <2>1. Image' = Image
    BY DEF Image, Top
  <2> QED BY <1>3, <2>1 DEF Innermost, Preparing
<1>7. Listed'
  <2>1. \A i \in 1 .. Len(modules) + 1 : i = 1 \/ (i - 1 \in 1 .. Len(modules) /\ i = (i - 1) + 1)
    BY <1>3
  <2>2. \A i \in 1 .. Len(modules) : modules[i] \in Range(modules)
    BY <1>3 DEF Range
  <2>3. \A i \in 1 .. Len(modules) + 1 :
           \/ i = 1 /\ modules'[i] = Image
           \/ i - 1 \in 1 .. Len(modules) /\ modules'[i] = modules[i - 1]
    BY <1>3, <2>1
  <2>4. ASSUME NEW i \in 1 .. Len(modules) + 1, NEW j \in 1 .. Len(modules) + 1,
               modules'[i] = modules'[j]
        PROVE  i = j
    <3>1. CASE i = 1 \/ j = 1
      BY <1>2, <2>2, <2>3, <2>4, <3>1
    <3>2. CASE i - 1 \in 1 .. Len(modules) /\ j - 1 \in 1 .. Len(modules)
               /\ modules'[i] = modules[i - 1] /\ modules'[j] = modules[j - 1]
      <4>1. i - 1 = j - 1
        BY <2>4, <3>2 DEF Listed
      <4> QED BY <1>3, <2>4, <4>1
    <3> QED BY <2>3, <3>1, <3>2
  <2>5. ASSUME NEW k \in 1 .. Len(modules) + 1
        PROVE  \/ modules'[k] = Root
               \/ \E l \in k + 1 .. Len(modules) + 1 : modules'[k] \in Range(imports[modules'[l]])
    <3>1. CASE k = 1 /\ n = 1
      BY <1>2, <1>3, <3>1 DEF Nested
    <3>2. CASE k = 1 /\ n # 1
      <4>1. n - 1 \in 1 .. n - 1 /\ (n - 1) + 1 = n /\ n - 1 \in 1 .. n
        BY <3>2
      <4>2. PICK f : f = frames[n - 1]
        OBVIOUS
      <4>3. /\ f.dll \in Range(modules) /\ f.next <= Len(imports[f.dll])
            /\ Image = imports[f.dll][f.next]
            /\ f.dll \in Dll /\ f.next \in Nat \ {0}
        BY <1>1, <1>2, <4>1, <4>2 DEF Nested
      <4>4. Image \in Range(imports[f.dll])
        <5>1. f.next \in DOMAIN imports[f.dll]
          BY <4>3, Lengths
        <5> QED BY <4>3, <5>1 DEF Range
      <4>5. PICK l \in 1 .. Len(modules) : modules[l] = f.dll
        BY <1>3, <4>3 DEF Range
      <4>6. modules'[l + 1] = f.dll /\ l + 1 \in 2 .. Len(modules) + 1
        BY <1>3, <4>5
      <4> QED BY <1>3, <3>2, <4>4, <4>6
    <3>3. CASE k - 1 \in 1 .. Len(modules) /\ modules'[k] = modules[k - 1]
      <4>1. CASE modules[k - 1] = Root
        BY <3>3, <4>1
      <4>2. CASE \E l \in (k - 1) + 1 .. Len(modules) :
                    modules[k - 1] \in Range(imports[modules[l]])
        <5>1. PICK l \in (k - 1) + 1 .. Len(modules) :
                      modules[k - 1] \in Range(imports[modules[l]])
          BY <4>2
        <5>2. l \in 1 .. Len(modules) /\ l + 1 \in k + 1 .. Len(modules) + 1
          BY <1>3, <3>3, <5>1
        <5>3. modules'[l + 1] = modules[l]
          BY <1>3, <5>2
        <5> QED BY <3>3, <5>1, <5>2, <5>3
      <4> QED BY <3>3, <4>1, <4>2 DEF Listed
    <3> QED BY <2>3, <3>1, <3>2, <3>3
  <2> QED BY <1>3, <2>4, <2>5 DEF Listed
<1>8. BoundToThere'
  BY DEF BoundToThere
<1> QED BY <1>4, <1>5, <1>6, <1>7, <1>8

-----------------------------------------------------------------------------
(* The steps.                                                               *)

LEMMA QuietStep ==
    ASSUME Buffered' \subseteq Buffered \cup {None, Fresh}, UNCHANGED << imports, loaded, ptr >>
    PROVE  (HandleOK => HandleOK') /\ (Tame => Tame')
<1>1. << "init", Root >> \in Helpers \X Dll
  BY RootAssumption DEF Helpers
<1>2. \A d \in Dll : << "init", Root >> # << "load", d >>
  OBVIOUS
<1> QED BY <1>1, <1>2, HandleKeeps, HelpersAreTame

LEMMA SameBuffer ==
    ASSUME UNCHANGED << code, worker, threads >>
    PROVE  Buffered' \subseteq Buffered \cup {None, Fresh}
BY DEF Buffered, Executing

LEMMA CallStep ==
    ASSUME NEW r \in Helpers \X Dll, NEW newThread,
           BBCallRoutine(r, newThread) \/ UNCHANGED callVars,
           \A d \in Dll : r = << "load", d >> => d \in Range(imports[Root]),
           UNCHANGED << imports, loaded, ptr >>
    PROVE  (HandleOK => HandleOK') /\ (Tame => Tame')
<1>1. CASE BBCallRoutine(r, newThread)
  <2>1. Buffered' \subseteq Buffered \cup {r, None, Fresh}
    BY <1>1, CallWrites
  <2> QED BY <2>1, HandleKeeps, HelpersAreTame
<1>2. CASE UNCHANGED callVars
  BY <1>2, SameBuffer, QuietStep DEF callVars
<1> QED BY <1>1, <1>2

LEMMA SameBindings ==
    ASSUME BoundAsImported, UNCHANGED << imports, flags, iat >>
    PROVE  BoundAsImported'
BY DEF BoundAsImported, Manual

\* Where the parts of the invariant are to be shown.
LEMMA StillBuilding ==
    ASSUME HandleOK', BoundAsImported', Tame', initialized' = {},
           \/ /\ pc' \in Preparing \cup Resolving
              /\ Nested' /\ Resolved' /\ Innermost' /\ Listed' /\ BoundToThere'
           \/ pc' = "fail"
    PROVE  BuildInv'
<1>1. /\ pc' \notin Before /\ pc' \notin Running /\ pc' \notin {"cleanup", "done", "thrown"}
      /\ (pc' = "fail" => pc' \notin Preparing /\ pc' \notin Resolving)
  BY DEF Before, Running, Preparing, Resolving
<1> QED BY <1>1 DEF BuildInv, Building

LEMMA NowOver ==
    ASSUME HandleOK', BoundAsImported', pc' \in {"cleanup", "done", "thrown"},
           (Tame' /\ initialized' = {}) \/ Over'
    PROVE  BuildInv'
<1>1. Over'
  BY DEF Over, ImportsInitialisedFirst
<1>2. pc' \notin Before /\ pc' \notin Running /\ pc' \notin Preparing /\ pc' \notin Resolving
      /\ pc' # "fail"
  BY DEF Before, Running, Preparing, Resolving
<1> QED BY <1>1, <1>2 DEF BuildInv

LEMMA StillBuilt ==
    ASSUME HandleOK', BoundAsImported', pc' \in Running, Built'
    PROVE  BuildInv'
<1>1. pc' \notin Before /\ pc' \notin Preparing /\ pc' \notin Resolving
      /\ pc' # "fail" /\ pc' \notin {"cleanup", "done", "thrown"}
  BY DEF Before, Running, Preparing, Resolving
<1> QED BY <1>1 DEF BuildInv

LEMMA Started ==
    ASSUME BuildInv, pc \in Before
    PROVE  /\ HandleOK /\ BoundAsImported /\ Tame /\ initialized = {}
           /\ frames = << >> /\ modules = << >> /\ (\A d \in Dll : iat[d] = << >>)
           /\ Listed /\ BoundToThere
BY DEF BuildInv, Building, Before

LEMMA Constructing ==
    ASSUME BuildInv, pc \in Preparing \cup Resolving
    PROVE  /\ HandleOK /\ BoundAsImported /\ Tame /\ initialized = {}
           /\ Nested /\ Resolved /\ Innermost /\ Listed /\ BoundToThere
BY DEF BuildInv, Building, Preparing, Resolving

\* Until an image is mapped.
LEMMA SetUpBuilds == ASSUME BuildInv, SetUp PROVE BuildInv'
<1>1. pc \in Before /\ pc' \in {"map", "cleanup", "thrown"} /\ worker' \in {None, Fresh}
      /\ UNCHANGED << imports, flags, loaded, frames, modules, mapped, iat, local, initialized,
                    ptr, code, threads >>
  BY DEF SetUp, Before
<1>2. Buffered' \subseteq Buffered \cup {None, Fresh}
  BY <1>1 DEF Buffered, Executing
<1>3. HandleOK' /\ Tame' /\ BoundAsImported'
  BY <1>1, <1>2, Started, QuietStep, SameBindings
<1>4. CASE pc' = "map"
  <2>1. Listed' /\ BoundToThere'
    BY <1>1, Started DEF Listed, BoundToThere
  <2>2. pc' \in Before /\ pc' \notin Running /\ pc' \notin Preparing \cup Resolving
        /\ pc' \notin {"cleanup", "done", "thrown"}
    BY <1>4 DEF Before, Running, Preparing, Resolving
  <2> QED BY <1>1, <1>3, <2>1, <2>2, Started DEF BuildInv, Building
<1>5. CASE pc' \in {"cleanup", "thrown"}
  BY <1>1, <1>3, <1>5, Started, NowOver
<1> QED BY <1>1, <1>4, <1>5

\* What LoadImage does to the stack and to the rest.
LEMMA LoadPhases ==
    ASSUME NEW d \in Dll, LoadImage(d)
    PROVE  \/ pc' \in Preparing
           \/ pc' = "fail" /\ frames # << >>
           \/ pc' = "cleanup" /\ frames = << >>
BY DEF LoadImage, LoadFails, Fail, Preparing

LEMMA MapRootBuilds == ASSUME MInv, BuildInv, MapRoot PROVE BuildInv'
<1>1. /\ pc \in Before /\ LoadImage(Root)
      /\ UNCHANGED << imports, flags, loaded, modules, mapped, iat, initialized, ptr,
                      code, worker, threads >>
  BY DEF MapRoot, Before
<1>2. HandleOK' /\ Tame' /\ BoundAsImported'
  BY <1>1, SameBuffer, Started, QuietStep, SameBindings
<1>3. CASE pc' \in Preparing
  <2>1. Resolved /\ Root \notin Range(modules) /\ Root \in Dll
    <3>1. Len(frames) = 0 /\ Range(modules) = {}
      BY <1>1, Started, EmptySeq DEF Range
    <3> QED BY <1>1, <3>1, Started, RootAssumption DEF Resolved
  <2>2. Nested' /\ Resolved' /\ Innermost'
    BY <1>1, <1>3, <2>1, Started, GrowBuilds
  <2>3. Listed' /\ BoundToThere'
    BY <1>1, Started DEF Listed, BoundToThere
  <2> QED BY <1>1, <1>2, <1>3, <2>2, <2>3, Started, StillBuilding
<1>4. CASE pc' = "fail" \/ pc' = "cleanup"
  BY <1>1, <1>2, <1>4, Started, StillBuilding, NowOver
<1> QED BY <1>1, <1>3, <1>4, LoadPhases, RootAssumption

\* The same images, in another phase.
LEMMA SameShape ==
    ASSUME UNCHANGED << imports, flags, loaded, frames, modules, mapped, iat >>
    PROVE  /\ Nested => Nested'
           /\ Resolved => Resolved'
           /\ Listed => Listed'
           /\ BoundToThere => BoundToThere'
           /\ Top' = Top /\ Image' = Image /\ Manual' = Manual
           /\ AllResolved => AllResolved'
BY DEF Nested, Resolved, Listed, BoundToThere, Top, Image, Manual, AllResolved

\* The contexts, and the memory of the image.
LEMMA PrepareBuilds ==
    ASSUME MInv, BuildInv, CreateActCtx \/ ActivateActCtx \/ Place
    PROVE  BuildInv'
<1>0. pc \in Preparing /\ frames # << >>
  BY DEF CreateActCtx, ActivateActCtx, Place, AtCall, Preparing, MInv, StackOK, Mapping
<1>1. CASE CreateActCtx \/ ActivateActCtx
  <2>1. /\ pc' \in Preparing
        /\ UNCHANGED << imports, flags, loaded, frames, modules, mapped, iat, initialized, ptr >>
        /\ \E r \in Helpers \X Dll : /\ BBCallRoutine(r, FALSE) \/ UNCHANGED callVars
                                     /\ \A d \in Dll : r # << "load", d >>
    <3>1. /\ << "createActCtx", Image >> \in Helpers \X Dll
          /\ << "activateActCtx", Image >> \in Helpers \X Dll
      BY <1>0, ImageIsDll DEF Helpers
    <3> QED BY <1>1, <3>1 DEF CreateActCtx, ActivateActCtx, Preparing
  <2>2. HandleOK' /\ Tame' /\ BoundAsImported'
    BY <1>0, <2>1, Constructing, CallStep, SameBindings
  <2>3. Innermost'
    BY <1>0, <2>1, Constructing, SameShape DEF Innermost, Preparing
  <2> QED BY <1>0, <2>1, <2>2, <2>3, Constructing, SameShape, StillBuilding
<1>2. CASE Place
  <2>1. /\ pc = "place"
        /\ \/ mapped' = mapped \cup {Image} /\ Placed /\ pc' = "imports"
           \/ pc' = "fail"
        /\ UNCHANGED << imports, flags, loaded, frames, iat, initialized, ptr,
                        code, worker, threads >>
    BY <1>2 DEF Place, AtCall
  <2>2. HandleOK' /\ Tame' /\ BoundAsImported'
    BY <1>0, <2>1, Constructing, SameBuffer, QuietStep, SameBindings
  <2>3. CASE pc' = "fail"
    BY <1>0, <2>1, <2>2, <2>3, Constructing, StillBuilding
  <2>4. CASE mapped' = mapped \cup {Image} /\ Placed /\ pc' = "imports"
    <3>1. Nested' /\ Resolved' /\ Innermost' /\ Listed' /\ BoundToThere'
      BY <1>0, <2>1, <2>4, Constructing, PlaceBuilds
    <3>2. pc' \in Resolving
      BY <2>4 DEF Resolving
    <3> QED BY <1>0, <2>1, <2>2, <3>1, <3>2, Constructing, StillBuilding
  <2> QED BY <2>1, <2>3, <2>4
<1> QED BY <1>1, <1>2

\* What is known of the innermost image while its imports are resolved.
LEMMA AtImport ==
    ASSUME MInv, BuildInv, pc \in Resolving, frames # << >>
    PROVE  /\ Image \in Range(modules) /\ Image \in Dll /\ Range(modules) = mapped
           /\ Image = frames[Len(frames)].dll /\ Top = frames[Len(frames)]
           /\ Import = imports[Image][Top.next]
           /\ Len(frames) \in Nat \ {0} /\ frames \in Seq(Frame)
           /\ Len(iat[Image]) = Top.next - 1
           /\ Top.next \in Nat \ {0} /\ Top.next <= Len(imports[Image]) + 1
           /\ Top.next <= Len(imports[Image]) =>
                 Import \in Dll /\ Import \in Range(imports[Image])
           /\ ~Manual => Image = Root
<1>1. /\ Image = frames[Len(frames)].dll /\ Top = frames[Len(frames)]
      /\ Import = imports[Image][Top.next] /\ frames \in Seq(Frame)
      /\ Len(frames) \in Nat \ {0} /\ Image \in Dll /\ Top.next \in Nat \ {0}
  <2>1. frames \in Seq(Frame)
    BY DEF MInv, MapTypeOK
  <2>2. Len(frames) \in 1 .. Len(frames)
    BY <2>1, TopIsAt
  <2> QED BY <2>1, <2>2, TopIsAt
<1>2. Len(frames) \in 1 .. Len(frames)
  BY <1>1
<1>3. Len(iat[Image]) = Top.next - 1 /\ Top.next <= Len(imports[Image]) + 1
  BY <1>1, <1>2, Constructing DEF Resolved
<1>4. ASSUME Top.next <= Len(imports[Image])
      PROVE  Import \in Dll /\ Import \in Range(imports[Image])
  <2>1. /\ Top.next \in 1 .. Len(imports[Image]) /\ imports[Image] \in Seq(Dll)
        /\ Top.next \in DOMAIN imports[Image]
    BY <1>1, <1>4, Lengths
  <2> QED BY <1>1, <2>1, ElementOfSeq DEF Range
<1>5. Image \in Range(modules)
  BY Constructing DEF Innermost, Preparing, Resolving
<1>6. ~Manual => Image = Root
  BY <1>1, Constructing DEF Nested
<1>7. Range(modules) = mapped
  BY Constructing DEF Listed
<1> QED BY <1>1, <1>3, <1>4, <1>5, <1>6, <1>7

\* A routine is called, and no image added or bound.
LEMMA CallBuilds ==
    ASSUME MInv, BuildInv, pc \in Resolving, ResolvePath \/ LoadImport \/ Protect
    PROVE  BuildInv'
<1>0. frames # << >>
  BY DEF MInv, Resolving, StackOK, Mapping
<1>1. PICK r \in Helpers \X Dll, newThread \in BOOLEAN :
         /\ \A d \in Dll : r = << "load", d >> => d \in Range(imports[Root])
         /\ BBCallRoutine(r, newThread) \/ UNCHANGED << code, worker, threads >>
  <2>1. CASE ResolvePath
    <3>1. Import \in Dll
      BY <1>0, <2>1, AtImport DEF ResolvePath
    <3>2. << "redirect", Import >> \in Helpers \X Dll
      BY <3>1 DEF Helpers
    <3> QED BY <2>1, <3>2 DEF ResolvePath, callVars
  <2>2. CASE LoadImport
    <3>1. pc = "find" /\ ~Manual
      BY <2>2 DEF LoadImport, AtCall
    <3>2. Top.next <= Len(imports[Image])
      BY <3>1, Constructing DEF Innermost
    <3>3. Import \in Dll /\ Import \in Range(imports[Root])
      BY <1>0, <3>1, <3>2, AtImport
    <3>4. << "load", Import >> \in Helpers \X Dll
      BY <3>3 DEF Helpers
    <3> QED BY <2>2, <3>3, <3>4 DEF LoadImport
  <2>3. CASE Protect
    <3>1. << "functionTable", Image >> \in Helpers \X Dll
      BY <1>0, AtImport DEF Helpers
    <3> QED BY <2>3, <3>1 DEF Protect, callVars
  <2> QED BY <2>1, <2>2, <2>3
<1>2. /\ UNCHANGED << imports, flags, loaded, frames, modules, mapped, iat, initialized, ptr >>
      /\ pc' \in {"find", "loaded", "return", "fail"}
      /\ pc' = "find" => Top.next <= Len(imports[Image])
      /\ pc' = "loaded" => ~Manual /\ pc = "find"
      /\ pc' = "return" => Top.next > Len(imports[Image])
  BY DEF ResolvePath, LoadImport, Protect, AtCall
<1>3. HandleOK' /\ Tame' /\ BoundAsImported'
  BY <1>1, <1>2, Constructing, CallStep, SameBuffer, QuietStep, SameBindings
<1>4. CASE pc' = "fail"
  BY <1>2, <1>3, <1>4, Constructing, StillBuilding
<1>5. CASE pc' \in {"find", "loaded", "return"}
  <2>1. pc' = "loaded" => Top.next <= Len(imports[Image])
    BY <1>2, Constructing DEF Innermost
  <2>2. Innermost'
    BY <1>0, <1>2, <1>5, <2>1, AtImport, SameShape DEF Innermost, Preparing
  <2>3. pc' \in Resolving
    BY <1>5 DEF Resolving
  <2> QED BY <1>2, <1>3, <2>2, <2>3, Constructing, SameShape, StillBuilding
<1> QED BY <1>2, <1>4, <1>5

\* A binding that is what the frame asks for.
LEMMA BindingBuilds ==
    ASSUME MInv, BuildInv, pc \in Resolving, frames # << >>,
           NEW n \in 1 .. Len(frames),
           NEW fs \in Seq(Frame), Len(fs) = n, \A i \in 1 .. n : fs[i] = frames[i],
           NEW d \in mapped \cup loaded, Bind(fs, d),
           frames[n].dll \in Range(modules), frames[n].next <= Len(imports[frames[n].dll]),
           \A i \in n + 1 .. Len(frames) : Len(iat[frames[i].dll]) = Len(imports[frames[i].dll]),
           Manual \/ Len(imports[frames[n].dll]) <= 1 => d = imports[frames[n].dll][frames[n].next],
           UNCHANGED << imports, flags, loaded, modules, mapped, initialized, ptr,
                        code, worker, threads >>
    PROVE  BuildInv'
<1>1. HandleOK' /\ Tame'
  BY Constructing, SameBuffer, QuietStep
<1>2. /\ Nested /\ Resolved /\ Listed /\ BoundToThere /\ BoundAsImported /\ initialized = {}
      /\ Listed'
  BY Constructing DEF Listed
<1>3. n \in Nat \ {0} /\ fs # << >> /\ d \in Dll /\ fs[n] = frames[n]
  <2>1. frames \in Seq(Frame) /\ mapped \subseteq Dll /\ loaded \subseteq Dll
    BY DEF MInv, MapTypeOK
  <2>2. n \in Nat \ {0}
    BY <2>1, TopIsAt
  <2> QED BY <2>1, <2>2
<1>4. Len(iat[frames[n].dll]) = frames[n].next - 1
  BY <1>2 DEF Resolved
<1>5. BoundAsImported'
  <2>1. PICK f : f = fs[Len(fs)]
    OBVIOUS
  <2>2. f = frames[n]
    BY <1>3, <2>1
  <2> QED BY <1>2, <1>3, <1>4, <2>1, <2>2, BindKeepsImported
<1>6. pc' = "imports" \/ pc' = "fail"
  BY DEF Bind
<1>7. CASE pc' = "imports"
  <2>1. Nested' /\ Resolved' /\ Innermost' /\ BoundToThere'
    BY <1>2, <1>7, BindBuilds
  <2>2. pc' \in Resolving
    BY <1>7 DEF Resolving
  <2> QED BY <1>1, <1>2, <1>5, <2>1, <2>2, StillBuilding
<1>8. CASE pc' = "fail"
  BY <1>1, <1>2, <1>5, <1>8, StillBuilding
<1> QED BY <1>6, <1>7, <1>8

LEMMA BindTop ==
    ASSUME MInv, BuildInv, pc \in {"find", "loaded"}, frames # << >>,
           NEW d \in mapped \cup loaded, Bind(frames, d),
           Manual \/ Len(imports[Image]) <= 1 => d = Import,
           UNCHANGED << imports, flags, loaded, modules, mapped, initialized, ptr,
                        code, worker, threads >>
    PROVE  BuildInv'
<1>1. pc \in Resolving
  BY DEF Resolving
<1>2. Top.next <= Len(imports[Image])
  BY <1>1, Constructing DEF Innermost
<1>3. PICK n : n = Len(frames)
  OBVIOUS
<1>4. /\ n \in 1 .. Len(frames) /\ frames \in Seq(Frame)
      /\ Image = frames[n].dll /\ Top = frames[n] /\ Image \in Range(modules)
      /\ Import = imports[Image][Top.next]
  BY <1>1, <1>3, AtImport
<1>5. \A i \in n + 1 .. Len(frames) : FALSE
  BY <1>3, <1>4
<1> QED BY <1>1, <1>2, <1>3, <1>4, <1>5, BindingBuilds

LEMMA FindBuilds == ASSUME MInv, BuildInv, FindModule PROVE BuildInv'
<1>1. /\ pc = "find" /\ Bind(frames, Import)
      /\ Import \in loaded \cup Range(modules)
      /\ UNCHANGED << imports, flags, loaded, modules, mapped, initialized, ptr,
                      code, worker, threads >>
  BY DEF FindModule, AtCall
<1>2. frames # << >> /\ Range(modules) = mapped
  BY <1>1, Constructing DEF MInv, Resolving, Listed, StackOK, Mapping
<1> QED BY <1>1, <1>2, BindTop

LEMMA BindLoadedBuilds == ASSUME MInv, BuildInv, BindLoaded PROVE BuildInv'
<1>1. /\ pc = "loaded"
      /\ UNCHANGED << imports, flags, loaded, modules, mapped, initialized, ptr,
                      code, worker, threads >>
      /\ IF ptr = None THEN pc' = "fail" /\ UNCHANGED iat ELSE Bind(frames, ptr)
  BY DEF BindLoaded, AtCall
<1>2. frames # << >> /\ pc \in Resolving
  BY <1>1 DEF MInv, Resolving, StackOK, Mapping
<1>3. CASE ptr = None
  <2>1. HandleOK' /\ Tame' /\ BoundAsImported'
    BY <1>1, <1>2, <1>3, Constructing, SameBuffer, QuietStep, SameBindings
  <2> QED BY <1>1, <1>2, <1>3, <2>1, Constructing, StillBuilding
<1>4. CASE ptr # None
  <2>1. ~Manual /\ Top.next <= Len(imports[Image])
    BY <1>1, <1>2, Constructing DEF Innermost
  <2>2. Image = Root /\ Top.next \in Nat \ {0} /\ Import = imports[Image][Top.next]
    BY <1>2, <2>1, AtImport
  <2>3. ptr \in loaded /\ ptr \in Range(imports[Root])
    BY <1>2, <1>4, Constructing DEF HandleOK
  <2>4. ASSUME Len(imports[Image]) <= 1 PROVE ptr = Import
    <3>1. Len(imports[Root]) \in Nat /\ DOMAIN imports[Root] = 1 .. Len(imports[Root])
      BY Lengths, RootAssumption
    <3>2. Top.next = 1 /\ \A i \in 1 .. Len(imports[Root]) : i = 1
      BY <2>1, <2>2, <2>4, <3>1
    <3>3. ptr = imports[Root][1]
      BY <2>3, <3>1, <3>2 DEF Range
    <3> QED BY <2>2, <3>2, <3>3
  <2> QED BY <1>1, <1>2, <1>4, <2>1, <2>3, <2>4, BindTop
<1> QED BY <1>3, <1>4

LEMMA MapImportBuilds == ASSUME MInv, BuildInv, MapImport PROVE BuildInv'
<1>1. /\ pc = "find" /\ LoadImage(Import) /\ Manual /\ Import \notin Range(modules)
      /\ UNCHANGED << imports, flags, loaded, modules, mapped, iat, initialized, ptr,
                      code, worker, threads >>
  BY DEF MapImport, AtCall
<1>2. frames # << >> /\ pc \in Resolving
  BY <1>1 DEF MInv, Resolving, StackOK, Mapping
<1>3. HandleOK' /\ Tame' /\ BoundAsImported'
  BY <1>1, <1>2, Constructing, SameBuffer, QuietStep, SameBindings
<1>4. Top.next <= Len(imports[Image])
  BY <1>1, <1>2, Constructing DEF Innermost
<1>5. Import \in Dll /\ Image \in Range(modules)
  BY <1>2, <1>4, AtImport
<1>6. CASE pc' \in Preparing
  <2>1. PICK d \in Dll : d = Import
    BY <1>5
  <2>2. Nested' /\ Resolved' /\ Innermost'
    BY <1>1, <1>2, <1>4, <1>5, <1>6, <2>1, Constructing, GrowBuilds
  <2>3. Listed' /\ BoundToThere'
    BY <1>1, <1>2, Constructing DEF Listed, BoundToThere
  <2> QED BY <1>1, <1>2, <1>3, <1>6, <2>2, <2>3, Constructing, StillBuilding
<1>7. CASE pc' = "fail"
  BY <1>1, <1>2, <1>3, <1>7, Constructing, StillBuilding
<1> QED BY <1>1, <1>2, <1>5, <1>6, <1>7, LoadPhases

LEMMA FrontIsAt ==
    ASSUME frames \in Seq(Frame), NEW n, n = Len(frames), n # 1, frames # << >>
    PROVE  /\ n \in Nat /\ n - 1 \in 1 .. Len(frames) /\ n - 1 \in 1 .. n - 1
           /\ Front(frames) \in Seq(Frame) /\ Len(Front(frames)) = n - 1
           /\ \A i \in 1 .. n - 1 : Front(frames)[i] = frames[i]
           /\ \A i \in (n - 1) + 1 .. Len(frames) : i = n
<1>1. n \in Nat \ {0}
  BY TopIsAt
<1>2. n - 1 \in 1 .. n - 1 /\ n - 1 \in 1 .. n /\ \A i \in (n - 1) + 1 .. n : i = n
  BY <1>1
<1> QED BY <1>1, <1>2, LastIsAt

\* An image is mapped: its importer goes on, or all are.
LEMMA ReturnBuilds == ASSUME MInv, BuildInv, Return PROVE BuildInv'
<1>1. /\ pc = "return"
      /\ UNCHANGED << imports, flags, loaded, modules, mapped, initialized, ptr,
                      code, worker, threads >>
      /\ IF Len(frames) = 1 THEN frames' = << >> /\ pc' = "init" /\ UNCHANGED iat
                            ELSE Bind(Front(frames), Image)
  BY DEF Return, AtCall
<1>2. frames # << >> /\ pc \in Resolving
  BY <1>1 DEF MInv, Resolving, StackOK, Mapping
<1>3. PICK n : n = Len(frames)
  OBVIOUS
<1>4. /\ Top.next > Len(imports[Image]) /\ Top.next <= Len(imports[Image]) + 1
      /\ Len(iat[Image]) = Top.next - 1 /\ Top.next \in Nat \ {0}
      /\ Image = frames[n].dll /\ Image \in mapped /\ Image \in Dll /\ frames \in Seq(Frame)
  BY <1>1, <1>2, <1>3, AtImport, Constructing DEF Innermost
<1>5. Len(iat[Image]) = Len(imports[Image])
  <2>1. Len(imports[Image]) \in Nat
    BY <1>4, Lengths
  <2> QED BY <1>4, <2>1
<1>6. CASE n = 1
  <2>1. HandleOK' /\ BoundAsImported'
    BY <1>1, <1>2, <1>3, <1>6, Constructing, SameBuffer, QuietStep, SameBindings
  <2>2. AllResolved
    <3>1. \A i \in 1 .. n : i = 1
      BY <1>6
    <3> QED BY <1>2, <1>3, <1>4, <1>5, <1>6, <3>1, Constructing DEF Resolved, AllResolved
  <2>3. UNCHANGED << iat, imports, loaded, modules, mapped, initialized >> /\ pc' \in Running
    BY <1>1, <1>3, <1>6 DEF Running
  <2>4. Listed' /\ BoundToThere' /\ AllResolved' /\ InOrder'
    BY <1>2, <2>2, <2>3, Constructing DEF Listed, BoundToThere, AllResolved, InOrder
  <2> QED BY <2>1, <2>3, <2>4, StillBuilt DEF Built
<1>7. CASE n # 1
  <2>1. /\ n \in Nat /\ n - 1 \in 1 .. Len(frames) /\ n - 1 \in 1 .. n - 1
        /\ Front(frames) \in Seq(Frame) /\ Len(Front(frames)) = n - 1
        /\ \A i \in 1 .. n - 1 : Front(frames)[i] = frames[i]
        /\ \A i \in (n - 1) + 1 .. Len(frames) : i = n
    <3>1. frames \in Seq(Frame) /\ frames # << >> /\ n = Len(frames) /\ n # 1
      BY <1>2, <1>3, <1>4, <1>7
    <3> QED BY <3>1, FrontIsAt
  <2>2. /\ frames[n - 1].dll \in Range(modules)
        /\ frames[n - 1].next <= Len(imports[frames[n - 1].dll])
        /\ Image = imports[frames[n - 1].dll][frames[n - 1].next]
    <3>1. (n - 1) + 1 = n
      BY <2>1
    <3>2. n - 1 \in 1 .. Len(frames) - 1
      BY <1>3, <2>1
    <3> QED BY <1>2, <1>4, <3>1, <3>2, Constructing DEF Nested
  <2>3. \A i \in (n - 1) + 1 .. Len(frames) : Len(iat[frames[i].dll]) = Len(imports[frames[i].dll])
    BY <1>4, <1>5, <2>1
  <2>4. PICK fs \in Seq(Frame) : fs = Front(frames)
    BY <2>1
  <2>5. PICK m \in 1 .. Len(frames) : m = n - 1
    BY <2>1
  <2>6. /\ Bind(fs, Image) /\ Len(fs) = m /\ \A i \in 1 .. m : fs[i] = frames[i]
    BY <1>1, <1>3, <1>7, <2>1, <2>4, <2>5
  <2>7. /\ frames[m].dll \in Range(modules)
        /\ frames[m].next <= Len(imports[frames[m].dll])
        /\ Image = imports[frames[m].dll][frames[m].next]
        /\ \A i \in m + 1 .. Len(frames) : Len(iat[frames[i].dll]) = Len(imports[frames[i].dll])
    BY <2>2, <2>3, <2>5
  <2> QED BY <1>1, <1>2, <1>4, <2>6, <2>7, BindingBuilds
<1> QED BY <1>6, <1>7

LEMMA AbandonBuilds == ASSUME MInv, BuildInv, Abandon PROVE BuildInv'
<1>1. /\ pc = "fail" /\ pc' \in {"fail", "cleanup"}
      /\ UNCHANGED << imports, flags, loaded, iat, initialized, ptr, code, worker, threads >>
  BY DEF Abandon, AtCall, callVars
<1>2. HandleOK /\ BoundAsImported /\ Tame /\ initialized = {}
  BY <1>1 DEF BuildInv, Building
<1>3. HandleOK' /\ Tame' /\ BoundAsImported'
  BY <1>1, <1>2, SameBuffer, QuietStep, SameBindings
<1> QED BY <1>1, <1>2, <1>3, StillBuilding, NowOver

-----------------------------------------------------------------------------
(* The initialisers.                                                        *)

LEMMA HasBuilt ==
    ASSUME BuildInv, pc \in Running
    PROVE  HandleOK /\ BoundAsImported /\ Built
BY DEF BuildInv

\* The list has every image after those that import it, and is initialised in its order.
LEMMA BuiltIsInitialised == ASSUME MInv, Built PROVE ImportsInitialisedFirst
<1> SUFFICES ASSUME NEW d \in Dll \ {Root}, NEW p \in Dll,
                    Importers(d) = {p}, p \in initialized, d \in mapped
             PROVE  d \in initialized
  BY DEF ImportsInitialisedFirst
<1>1. PICK k \in 1 .. Len(modules) : modules[k] = d
  BY Lengths DEF Built, Listed, Range
<1>2. PICK l \in k + 1 .. Len(modules) : d \in Range(imports[modules[l]])
  BY <1>1 DEF Built, Listed
<1>3. l \in 1 .. Len(modules) /\ k < l /\ modules[l] \in Dll
  <2>1. Len(modules) \in Nat
    BY Lengths
  <2>2. l \in 1 .. Len(modules) /\ k < l
    BY <1>1, <1>2, <2>1
  <2> QED BY <2>2, Lengths
<1>4. modules[l] = p
  BY <1>2, <1>3 DEF Importers
<1> QED BY <1>1, <1>3, <1>4 DEF Built, InOrder

LEMMA OrderKeeps ==
    ASSUME MInv, Built, UNCHANGED modules, initialized' = initialized \cup Waiting
    PROVE  InOrder'
<1> SUFFICES ASSUME NEW j \in 1 .. Len(modules), NEW i \in 1 .. Len(modules), i < j,
                    modules[j] \in initialized \cup Waiting
             PROVE  modules[i] \in initialized
  BY DEF InOrder
<1>1. CASE modules[j] \in initialized
  BY <1>1 DEF Built, InOrder
<1>2. CASE modules[j] \in Waiting
  <2>1. DOMAIN modules = 1 .. Len(modules)
    BY Lengths
  <2>2. PICK k \in 1 .. Len(modules) : /\ modules[k] = modules[j]
                                       /\ \A m \in 1 .. k - 1 : modules[m] \in initialized
    BY <1>2, <2>1 DEF Waiting
  <2>3. k = j
    BY <2>2 DEF Built, Listed
  <2>4. i \in 1 .. k - 1
    BY <2>3
  <2> QED BY <2>2, <2>4
<1> QED BY <1>1, <1>2

\* Nothing more is mapped or bound.
LEMMA BuiltKeeps ==
    ASSUME Built, UNCHANGED << imports, loaded, modules, mapped, iat >>, InOrder'
    PROVE  Built'
BY DEF Built, Listed, BoundToThere, AllResolved

\* The calls of initialisers write what is not loaded.
LEMMA InitialiserCalls ==
    ASSUME HandleOK, UNCHANGED << imports, loaded, ptr >>, NEW k \in {"tls", "entry", "init"},
           NEW d, BBCallRoutine(<< k, d >>, FALSE)
    PROVE  HandleOK'
<1>1. Buffered' \subseteq Buffered \cup {<< k, d >>, Fresh}
  BY CallWrites
<1>2. \A e \in Dll : << k, d >> # << "load", e >>
  OBVIOUS
<1> QED BY <1>1, <1>2, HandleKeeps

LEMMA InitialiseBuilds ==
    ASSUME MInv, BuildInv, CallTls \/ CallEntry \/ Entered \/ InitRoutine
    PROVE  BuildInv'
<1>1. /\ pc \in Running
      /\ \/ pc' \in Running
         \/ pc' = "cleanup" /\ initialized' = initialized
      /\ initialized' = initialized \/ initialized' = initialized \cup Waiting
      /\ UNCHANGED << imports, flags, loaded, modules, mapped, iat, ptr >>
      /\ \/ \E k \in {"tls", "entry", "init"} : \E d \in Dll : BBCallRoutine(<< k, d >>, FALSE)
         \/ UNCHANGED callVars
  <2>1. Waiting \subseteq Dll /\ Root \in Dll
    BY WaitingIsDll, RootAssumption
  <2>2. CASE CallTls
    BY <2>1, <2>2 DEF CallTls, AtCall, Running
  <2>3. CASE CallEntry
    BY <2>1, <2>3 DEF CallEntry, AtCall, Running
  <2>4. CASE Entered
    BY <2>4 DEF Entered, AtCall, Running
  <2>5. CASE InitRoutine
    BY <2>1, <2>5 DEF InitRoutine, AtCall, Running
  <2> QED BY <2>2, <2>3, <2>4, <2>5
<1>2. HandleOK'
  <2>1. CASE UNCHANGED callVars
    BY <1>1, <2>1, HasBuilt, SameBuffer, QuietStep DEF callVars
  <2> QED BY <1>1, <2>1, HasBuilt, InitialiserCalls
<1>3. BoundAsImported'
  BY <1>1, HasBuilt, SameBindings
<1>4. Built'
  <2>1. InOrder'
    <3>1. CASE initialized' = initialized
      BY <1>1, <3>1, HasBuilt DEF Built, InOrder
    <3> QED BY <1>1, <3>1, HasBuilt, OrderKeeps
  <2> QED BY <1>1, <2>1, HasBuilt, BuiltKeeps
<1>5. CASE pc' = "cleanup" /\ initialized' = initialized
  <2>1. ImportsInitialisedFirst'
    BY <1>1, <1>5, HasBuilt, BuiltIsInitialised DEF ImportsInitialisedFirst, Importers
  <2> QED BY <1>2, <1>3, <1>4, <1>5, <2>1, NowOver DEF Over, Built
<1> QED BY <1>1, <1>2, <1>3, <1>4, <1>5, StillBuilt

\* An exception ends the mapping, or the initialisers, or becomes an import that is
\* not found.
LEMMA ThrowBuilds == ASSUME MInv, BuildInv, Throw PROVE BuildInv'
<1>1. UNCHANGED << imports, flags, loaded, modules, mapped, iat, initialized, ptr,
                   code, worker, threads >>
  BY DEF Throw, Raises, callVars
<1>2. CASE pc \in Preparing \cup Resolving
  <2>1. pc' \in {"thrown", "fail"}
    BY <1>2 DEF Throw, Preparing, Resolving
  <2>2. HandleOK' /\ Tame' /\ BoundAsImported' /\ initialized' = {}
    BY <1>1, <1>2, Constructing, SameBuffer, QuietStep, SameBindings
  <2> QED BY <2>1, <2>2, StillBuilding, NowOver
<1>3. CASE pc \in Running
  <2>1. pc' \in {"thrown", "cleanup"}
    BY <1>3 DEF Throw, Running
  <2>2. HandleOK' /\ BoundAsImported'
    BY <1>1, <1>3, HasBuilt, SameBuffer, QuietStep, SameBindings
  <2>3. InOrder'
    BY <1>1, <1>3, HasBuilt DEF Built, InOrder
  <2>4. Built'
    BY <1>1, <1>3, <2>3, HasBuilt, BuiltKeeps
  <2>5. ImportsInitialisedFirst'
    BY <1>1, <1>3, HasBuilt, BuiltIsInitialised DEF ImportsInitialisedFirst, Importers
  <2> QED BY <2>1, <2>2, <2>4, <2>5, NowOver DEF Over, Built
<1> QED BY <1>2, <1>3 DEF Throw, Unguarded, Preparing, Resolving, Running

LEMMA CleanUpBuilds == ASSUME MInv, BuildInv, CleanUp PROVE BuildInv'
<1>1. /\ pc = "cleanup" /\ pc' = "done" /\ code' = Freed /\ modules' = << >>
      /\ worker' = worker \/ worker' = None
      /\ UNCHANGED << imports, flags, loaded, mapped, iat, initialized, ptr, threads >>
  BY DEF CleanUp, AtCall
<1>2. HandleOK /\ BoundAsImported /\ Over
  BY <1>1 DEF BuildInv
<1>3. \A r \in Buffered' : r \in Buffered \/ r \in {None, Freed}
  BY <1>1 DEF Buffered, Executing
<1>4. \A k \in Kind, d \in Dll : << k, d >> \notin {None, Freed}
  BY NamesAssumption, CallIsRoutine
<1>5. HandleOK'
  BY <1>1, <1>2, <1>3, <1>4 DEF HandleOK, Kind
<1>6. Tame => Tame'
  BY <1>3, <1>4 DEF Tame, Kind
<1>7. BoundToThere => BoundToThere' /\ AllResolved'
  BY <1>1 DEF BoundToThere, AllResolved, Range
<1>8. ImportsInitialisedFirst'
  BY <1>1, <1>2 DEF Over, ImportsInitialisedFirst, Importers
<1>9. Over'
  BY <1>2, <1>6, <1>7, <1>8 DEF Over
<1>10. BoundAsImported'
  BY <1>1, <1>2, SameBindings
<1> QED BY <1>1, <1>5, <1>9, <1>10, NowOver

-----------------------------------------------------------------------------
(* The other steps.                                                         *)

\* Nothing of the mapping changes but what the loader knows.
LEMMA ElsewhereBuilds ==
    ASSUME BuildInv, HandleOK', Buffered' \subseteq Buffered \cup {None, Fresh},
           loaded \subseteq loaded',
           UNCHANGED << imports, flags, pc, frames, modules, mapped, iat, initialized >>
    PROVE  BuildInv'
<1>1. BoundAsImported'
  BY SameBindings DEF BuildInv
<1>2. Tame => Tame'
  <2>1. \A k \in Kind, d \in Dll : << k, d >> \notin {None, Fresh}
    BY NamesAssumption, CallIsRoutine
  <2> QED BY <2>1 DEF Tame, Kind
<1>3. BoundToThere => BoundToThere'
  BY DEF BoundToThere
<1>4. /\ Listed => Listed'
      /\ AllResolved => AllResolved'
      /\ InOrder => InOrder'
      /\ ImportsInitialisedFirst => ImportsInitialisedFirst'
  BY DEF Listed, AllResolved, InOrder, ImportsInitialisedFirst, Importers
<1>5. /\ Nested => Nested'
      /\ Resolved => Resolved'
      /\ Innermost => Innermost'
  BY DEF Nested, Resolved, Innermost, Manual, Image, Top
<1>6. Building => Building'
  BY <1>2, <1>3, <1>4, <1>5 DEF Building
<1>7. Built => Built'
  BY <1>3, <1>4 DEF Built
<1>8. Over => Over'
  BY <1>2, <1>3, <1>4 DEF Over
<1> QED BY <1>1, <1>6, <1>7, <1>8 DEF BuildInv

\* A step beside the mapping: nothing runs in the buffer that did not.
LEMMA AsideBuilds ==
    ASSUME BuildInv, UNCHANGED << mapVars, code, worker, threads >>
    PROVE  BuildInv'
<1>1. Buffered' \subseteq Buffered \cup {None, Fresh}
  BY SameBuffer
<1>2. HandleOK'
  BY <1>1, QuietStep DEF BuildInv, mapVars
<1> QED BY <1>1, <1>2, ElsewhereBuilds DEF mapVars

LEMMA ProcessBuilds == ASSUME CInv, MInv, BuildInv, Process PROVE BuildInv'
<1>1. Buffered' \subseteq Buffered \cup {None, Fresh}
  BY ProcessReads
<1>2. CASE UNCHANGED mapVars
  <2>1. HandleOK'
    BY <1>1, <1>2, QuietStep DEF BuildInv, mapVars
  <2> QED BY <1>1, <1>2, <2>1, ElsewhereBuilds DEF mapVars
<1>3. ASSUME NEW r \in Buffered, r \in Routine, Executed(r)
      PROVE  BuildInv'
  <2>1. HandleOK'
    BY <1>1, <1>3, EffectKeepsHandle DEF BuildInv
  <2>2. loaded \subseteq loaded'
    BY <1>3 DEF Executed, Effect
  <2> QED BY <1>1, <1>3, <2>1, <2>2, ElsewhereBuilds DEF Executed
<1>4. CASE EndApc /\ Executed(worker)
  <2>1. worker \in Buffered /\ worker \in Routine
    BY <1>4 DEF EndApc, Buffered, Executing
  <2> QED BY <1>3, <1>4, <2>1
<1>5. ASSUME NEW t \in threads, EndThread(t), Executed(t.runs)
      PROVE  BuildInv'
  <2>1. t.runs \in Buffered /\ t.runs \in Routine
    BY <1>5 DEF EndThread, Buffered, Executing
  <2> QED BY <1>3, <1>5, <2>1
<1> QED BY <1>2, <1>4, <1>5 DEF Process

LEMMA InitBuilds == Init => BuildInv
<1> SUFFICES ASSUME Init PROVE BuildInv
  OBVIOUS
<1>1. /\ pc = "start" /\ frames = << >> /\ modules = << >> /\ mapped = {}
      /\ (\A d \in Dll : iat[d] = << >>) /\ initialized = {} /\ ptr = None
      /\ code = None /\ worker = None /\ threads = {}
  BY DEF Init, CallInit
<1>2. Buffered = {None} /\ \A k \in Kind, d \in Dll : << k, d >> # None
  BY <1>1, NamesAssumption, CallIsRoutine DEF Buffered, Executing
<1>3. Tame /\ HandleOK
  BY <1>1, <1>2 DEF Tame, HandleOK, Kind
<1>4. Len(modules) = 0 /\ DOMAIN modules = {} /\ \A d \in Dll : DOMAIN iat[d] = {}
  BY <1>1, EmptySeq
<1>5. BoundAsImported /\ BoundToThere
  BY <1>4 DEF BoundAsImported, BoundToThere, Range
<1>6. Listed
  BY <1>1, <1>4 DEF Listed, Range
<1>7. pc \in Before /\ pc \notin Preparing \cup Resolving /\ pc \notin Running
      /\ pc \notin {"cleanup", "done", "thrown"}
  BY <1>1 DEF Before, Running, Preparing, Resolving
<1> QED BY <1>1, <1>3, <1>5, <1>6, <1>7 DEF BuildInv, Building

LEMMA StepBuilds == ASSUME IInv, BuildInv, [Next]_vars PROVE BuildInv'
<1> USE DEF IInv
<1>1. CASE (WaitEnds \/ WaitTimesOut) /\ UNCHANGED mapVars
  BY <1>1, AsideBuilds DEF WaitEnds, WaitTimesOut
<1>2. CASE UNCHANGED vars
  BY <1>2, AsideBuilds DEF vars, callVars
<1>3. CASE FindModule \/ MapImport \/ BindLoaded \/ Return \/ Abandon
  BY <1>3, FindBuilds, MapImportBuilds, BindLoadedBuilds, ReturnBuilds, AbandonBuilds
<1>4. CASE ResolvePath \/ LoadImport \/ Protect
  BY <1>4, CallBuilds DEF ResolvePath, LoadImport, Protect, AtCall, Resolving
<1>5. CASE SetUp \/ MapRoot \/ CreateActCtx \/ ActivateActCtx \/ Place
  BY <1>5, SetUpBuilds, MapRootBuilds, PrepareBuilds
<1>6. CASE CallTls \/ CallEntry \/ Entered \/ InitRoutine \/ CleanUp \/ Throw
  BY <1>6, InitialiseBuilds, CleanUpBuilds, ThrowBuilds
<1>7. CASE Process
  BY <1>7, ProcessBuilds
<1> QED BY <1>1, <1>2, <1>3, <1>4, <1>5, <1>6, <1>7 DEF Next, Driver

-----------------------------------------------------------------------------

LEMMA BuildingIsComplete == ASSUME MInv, BuildInv PROVE CompleteBeforeRun
<1>1. Tame => CompleteBeforeRun
  BY DEF Tame, CompleteBeforeRun, Buffered
<1>2. BoundToThere /\ AllResolved => CompleteBeforeRun
  BY Lengths DEF BoundToThere, AllResolved, CompleteBeforeRun
<1>3. pc \in Before \cup Preparing \cup Resolving \cup {"fail"} \cup Running
             \cup {"cleanup", "done", "thrown"}
  BY DEF MInv, MapTypeOK, Before, Preparing, Resolving, Running
<1> QED BY <1>1, <1>2, <1>3 DEF BuildInv, Building, Built, Over

LEMMA BuildingIsInOrder == ASSUME MInv, BuildInv PROVE ImportsInitialisedFirst
<1>1. initialized = {} => ImportsInitialisedFirst
  BY DEF ImportsInitialisedFirst
<1>2. pc \in Before \cup Preparing \cup Resolving \cup {"fail"} \cup Running
             \cup {"cleanup", "done", "thrown"}
  BY DEF MInv, MapTypeOK, Before, Preparing, Resolving, Running
<1> QED BY <1>1, <1>2, BuiltIsInitialised DEF BuildInv, Building, Over

-----------------------------------------------------------------------------
(* The files.                                                               *)

LEMMA MetOnlyGrows ==
    /\ \A h : Meets(h) => met \subseteq met'
    /\ \A r, newThread : BBCallRoutine(r, newThread) => met \subseteq met'
    /\ Process => met \subseteq met'
<1>1. \A h : Meets(h) => met \subseteq met'
  BY DEF Meets
<1>2. \A r, newThread : BBCallRoutine(r, newThread) => met \subseteq met'
  BY DEF BBCallRoutine
<1>3. Process => met \subseteq met'
  BY <1>1 DEF Process, StartApc, EndApc, StartThread, EndThread, Exit
<1> QED BY <1>1, <1>2, <1>3

\* No file is touched, and what is being mapped stays so.
LEMMA FilesKept ==
    ASSUME Files, UNCHANGED local, met \subseteq met',
           \A i \in 1 .. Len(frames) : \E j \in 1 .. Len(frames') : frames'[j].dll = frames[i].dll,
           pc \in Before => pc' \in Before \/ "setupFails" \in met',
           pc' \notin Preparing \cup Resolving \cup {"fail", "thrown"} => frames' = << >>
    PROVE  Files'
BY DEF Files

\* The steps of the driver that touch no file.
LEMMA SparesFiles ==
    ASSUME MInv, Files,
           SetUp \/ CreateActCtx \/ ActivateActCtx \/ Place \/ ResolvePath \/ LoadImport \/ Protect
           \/ CallTls \/ CallEntry \/ Entered \/ InitRoutine \/ CleanUp \/ Throw
    PROVE  Files'
<1>1. UNCHANGED << local, frames >> /\ met \subseteq met'
  BY MetOnlyGrows DEF SetUp, CreateActCtx, ActivateActCtx, Place, ResolvePath, LoadImport, Protect,
     CallTls, CallEntry, Entered, InitRoutine, CleanUp, Throw, Raises, callVars
<1>2. pc \in Before => pc' \in Before \/ "setupFails" \in met'
  BY DEF SetUp, CreateActCtx, ActivateActCtx, Place, ResolvePath, LoadImport, Protect,
     CallTls, CallEntry, Entered, InitRoutine, CleanUp, Throw, Unguarded, AtCall, Before, Meets
<1>3. pc' \notin Preparing \cup Resolving \cup {"fail", "thrown"}
         => pc \notin Preparing \cup Resolving \cup {"fail", "thrown"}
  BY DEF SetUp, CreateActCtx, ActivateActCtx, Place, ResolvePath, LoadImport, Protect,
     CallTls, CallEntry, Entered, InitRoutine, CleanUp, Throw, AtCall, Preparing, Resolving
<1>4. \A i \in 1 .. Len(frames) : frames'[i].dll = frames[i].dll /\ i \in 1 .. Len(frames')
  BY <1>1
<1>5. pc' \notin Preparing \cup Resolving \cup {"fail", "thrown"} => frames' = << >>
  BY <1>1, <1>3 DEF Files
<1> QED BY <1>1, <1>2, <1>4, <1>5, FilesKept

\* A file is read, or is not.
LEMMA LoadKeepsFiles ==
    ASSUME MInv, Files, NEW d \in Dll, LoadImage(d),
           \/ pc \in Before /\ d = Root
           \/ frames # << >> /\ pc \notin Before
    PROVE  Files'
<1>1. local \in [Dll -> {"none", "held", "freed", "freedTwice"}] /\ frames \in Seq(Frame)
  BY DEF MInv, MapTypeOK
<1>2. met \subseteq met'
  BY MetOnlyGrows DEF LoadImage, LoadFails
<1>3. CASE /\ local' = [local EXCEPT ![d] = "held"]
           /\ frames' = Append(frames, [dll |-> d, next |-> 1])
           /\ pc' \in Preparing
  <2>0. [dll |-> d, next |-> 1] \in Frame
    BY DEF Frame
  <2>1. PICK g \in Frame : g = [dll |-> d, next |-> 1]
    BY <2>0
  <2>2. /\ Len(frames') = Len(frames) + 1 /\ Len(frames) \in Nat /\ g.dll = d
        /\ \A i \in 1 .. Len(frames) : frames'[i] = frames[i]
        /\ frames'[Len(frames) + 1] = g
    BY <1>1, <1>3, <2>1, AppendProperties, LenProperties
  <2>3. \A i \in 1 .. Len(frames) : frames'[i].dll = frames[i].dll /\ i \in 1 .. Len(frames')
    BY <2>2
  <2>4. frames'[Len(frames')].dll = d /\ Len(frames') \in 1 .. Len(frames')
    BY <2>2
  <2> QED BY <1>1, <1>2, <1>3, <2>3, <2>4 DEF Files
<1>4. CASE LoadFails(d)
  <2>1. frames' = frames /\ local'[d] # "held"
        /\ (local'[d] = "freedTwice" => local[d] = "freedTwice" \/ "readFails" \in met')
        /\ \A e \in Dll \ {d} : local'[e] = local[e]
    BY <1>1, <1>4 DEF LoadFails, Meets
  <2>2. pc' = "fail" \/ (frames = << >> /\ pc' = "cleanup")
    BY <1>4 DEF LoadFails, Fail
  <2> QED BY <1>2, <2>1, <2>2 DEF Files
<1> QED BY <1>3, <1>4 DEF LoadImage, Preparing

\* An image that is bound stays in the stack.
LEMMA BindKeepsFiles ==
    ASSUME MInv, Files, NEW fs \in Seq(Frame), fs # << >>, NEW d \in Dll, Bind(fs, d),
           pc \notin Before, \A e \in Dll : local'[e] = "freedTwice" => local[e] = "freedTwice",
           \A e \in Dll : local'[e] = "held" =>
               /\ local[e] = "held"
               /\ (\E i \in 1 .. Len(frames) : frames[i].dll = e)
                     => \E i \in 1 .. Len(fs) : fs[i].dll = e
    PROVE  Files'
<1>1. \A i \in 1 .. Len(fs) : i \in 1 .. Len(frames') /\ frames'[i].dll = fs[i].dll
  <2>1. CASE pc' = "imports"
    <3>1. /\ Len(frames') = Len(fs) /\ Len(fs) \in Nat
          /\ \A i \in 1 .. Len(fs) - 1 : frames'[i] = fs[i]
          /\ frames'[Len(fs)].dll = fs[Len(fs)].dll
      BY <2>1, BindShape
    <3>2. \A i \in 1 .. Len(fs) : i \in 1 .. Len(fs) - 1 \/ i = Len(fs)
      BY <3>1
    <3> QED BY <3>1, <3>2
  <2>2. CASE pc' # "imports"
    BY <2>2, BindShape
  <2> QED BY <2>1, <2>2
<1>2. met \subseteq met' /\ pc' \in {"imports", "fail"}
  BY MetOnlyGrows DEF Bind
<1>3. pc' \in Preparing \cup Resolving \cup {"fail"}
  BY <1>2 DEF Resolving
<1>4. ASSUME NEW e \in Dll
      PROVE  /\ local'[e] = "held" => \/ \E i \in 1 .. Len(frames') : frames'[i].dll = e
                                      \/ "setupFails" \in met'
             /\ local'[e] = "freedTwice" => "readFails" \in met'
  <2>1. /\ local[e] = "held" => \/ \E i \in 1 .. Len(frames) : frames[i].dll = e
                                \/ "setupFails" \in met
        /\ local[e] = "freedTwice" => "readFails" \in met
    BY DEF Files
  <2>2. (\E i \in 1 .. Len(fs) : fs[i].dll = e) => \E i \in 1 .. Len(frames') : frames'[i].dll = e
    BY <1>1
  <2>3. local'[e] = "held" => \/ \E i \in 1 .. Len(frames') : frames'[i].dll = e
                              \/ "setupFails" \in met'
    BY <1>2, <2>1, <2>2
  <2> QED BY <1>2, <2>1, <2>3
<1> QED BY <1>3, <1>4 DEF Files

LEMMA MappingKeepsFiles ==
    ASSUME MInv, Files, MapRoot \/ MapImport \/ FindModule \/ BindLoaded
    PROVE  Files'
<1>0. frames \in Seq(Frame)
  BY DEF MInv, MapTypeOK
<1>1. CASE MapRoot
  BY <1>1, LoadKeepsFiles, RootAssumption DEF MapRoot, Before
<1>2. ASSUME pc \in {"find", "loaded"}
      PROVE  frames # << >> /\ pc \notin Before
  BY <1>2 DEF MInv, StackOK, Mapping, Before
<1>3. ASSUME pc = "find" PROVE Import \in Dll
  <2>1. /\ frames # << >> /\ Top.next <= Len(imports[Image])
    BY <1>3 DEF MInv, StackOK, Mapping
  <2>2. /\ Len(frames) \in 1 .. Len(frames) /\ Top = frames[Len(frames)]
        /\ Image \in Dll /\ Top.next \in Nat \ {0}
    BY <1>0, <2>1, TopIsAt
  <2>3. Top.next \in 1 .. Len(imports[Image]) /\ imports[Image] \in Seq(Dll)
    BY <2>1, <2>2, Lengths
  <2> QED BY <2>3, ElementOfSeq DEF Import
<1>4. CASE MapImport
  BY <1>2, <1>3, <1>4, LoadKeepsFiles DEF MapImport, AtCall
<1>5. CASE FindModule
  BY <1>0, <1>2, <1>3, <1>5, BindKeepsFiles DEF FindModule, AtCall
<1>6. CASE BindLoaded
  <2>1. CASE ptr = None
    <3>1. /\ pc = "loaded" /\ pc' = "fail" /\ UNCHANGED << frames, local, met >>
      BY <1>6, <2>1 DEF BindLoaded, AtCall
    <3>2. \A i \in 1 .. Len(frames) : frames'[i].dll = frames[i].dll /\ i \in 1 .. Len(frames')
      BY <3>1
    <3> QED BY <1>2, <3>1, <3>2, FilesKept
  <2>2. CASE ptr # None
    <3>1. pc = "loaded" /\ Bind(frames, ptr) /\ local' = local /\ ptr \in Dll
      BY <1>6, <2>2 DEF BindLoaded, AtCall, MInv, MapTypeOK
    <3> QED BY <1>0, <1>2, <3>1, BindKeepsFiles
  <2> QED BY <2>1, <2>2
<1> QED BY <1>1, <1>4, <1>5, <1>6

\* The innermost image goes, and its file.
LEMMA EndKeepsFiles ==
    ASSUME MInv, Files, Return \/ Abandon
    PROVE  Files'
<1>1. /\ pc \in {"return", "fail"} /\ local' = [local EXCEPT ![Image] = "freed"]
      /\ pc \notin Before
  BY DEF Return, Abandon, AtCall, Before
<1>2. /\ frames # << >> /\ frames \in Seq(Frame)
      /\ local \in [Dll -> {"none", "held", "freed", "freedTwice"}]
  BY <1>1 DEF MInv, MapTypeOK, StackOK, Mapping
<1>3. PICK n \in Nat \ {0} : n = Len(frames)
  BY <1>2, TopIsAt
<1>4. /\ Front(frames) \in Seq(Frame) /\ Len(Front(frames)) = n - 1
      /\ \A i \in 1 .. n - 1 : Front(frames)[i] = frames[i]
      /\ Image = frames[n].dll /\ Image \in Dll
  BY <1>2, <1>3, LastIsAt, TopIsAt
<1>5. ASSUME NEW e \in Dll
      PROVE  /\ local'[e] = "freedTwice" => local[e] = "freedTwice"
             /\ local'[e] = "held" =>
                  /\ local[e] = "held"
                  /\ (\E i \in 1 .. Len(frames) : frames[i].dll = e)
                        => \E i \in 1 .. n - 1 : Front(frames)[i].dll = e
  <2>1. local'[e] = IF e = Image THEN "freed" ELSE local[e]
    BY <1>1, <1>2, <1>4
  <2>2. \A i \in 1 .. n : i = n \/ i \in 1 .. n - 1
    BY <1>3
  <2> QED BY <1>3, <1>4, <2>1, <2>2
<1>6. n - 1 \in Nat /\ (n # 1 => n - 1 # 0) /\ (n = 1 => n - 1 = 0)
  BY <1>3
<1>7. CASE n = 1
  <2>1. frames' = << >> /\ met' = met
    <3>1. Front(frames) = << >>
      BY <1>4, <1>6, <1>7, EmptySeq
    <3> QED BY <1>3, <1>7, <3>1 DEF Return, Abandon, callVars
  <2>2. \A i \in 1 .. n - 1 : FALSE
    BY <1>6, <1>7
  <2> QED BY <1>1, <1>3, <1>5, <2>1, <2>2 DEF Files
<1>8. CASE n # 1 /\ Return
  <2>1. Bind(Front(frames), Image)
    BY <1>3, <1>8 DEF Return
  <2>2. PICK fs \in Seq(Frame) : fs = Front(frames)
    BY <1>4
  <2>3. fs # << >>
    BY <1>4, <1>6, <1>8, <2>2, EmptySeq
  <2> QED BY <1>1, <1>4, <1>5, <2>1, <2>2, <2>3, BindKeepsFiles
<1>9. CASE n # 1 /\ Abandon
  <2>1. frames' = Front(frames) /\ pc' = "fail" /\ met' = met
    BY <1>3, <1>9 DEF Abandon, callVars
  <2> QED BY <1>1, <1>4, <1>5, <2>1 DEF Files
<1> QED BY <1>7, <1>8, <1>9

\* The rest does not know of files.
LEMMA AsideKeepsFiles ==
    ASSUME Files, UNCHANGED << pc, frames, local >>, met \subseteq met'
    PROVE  Files'
BY DEF Files

LEMMA InitFiles == Init => Files
BY EmptySeq DEF Init, Files, Before, Preparing, Resolving

LEMMA StepKeepsFiles == ASSUME MInv, Files, [Next]_vars PROVE Files'
<1>1. CASE (WaitEnds \/ WaitTimesOut) /\ UNCHANGED mapVars
  BY <1>1, AsideKeepsFiles DEF WaitEnds, WaitTimesOut, mapVars, Meets
<1>2. CASE UNCHANGED vars
  BY <1>2, AsideKeepsFiles DEF vars, mapVars, callVars
<1>3. CASE Process
  <2>1. UNCHANGED << pc, frames, local >>
    BY <1>3 DEF Process, Executed, mapVars
  <2> QED BY <1>3, <2>1, AsideKeepsFiles, MetOnlyGrows
<1> QED BY <1>1, <1>2, <1>3, SparesFiles, MappingKeepsFiles, EndKeepsFiles DEF Next, Driver

\* The same images are being mapped before a binding and after it.
LEMMA BindKeepsDlls ==
    ASSUME MInv, NEW fs \in Seq(Frame), fs # << >>, NEW d \in Dll, Bind(fs, d)
    PROVE  Len(frames') = Len(fs) /\ \A i \in 1 .. Len(fs) : frames'[i].dll = fs[i].dll
<1>1. CASE pc' = "imports"
  <2>1. /\ Len(frames') = Len(fs) /\ Len(fs) \in Nat
        /\ \A i \in 1 .. Len(fs) - 1 : frames'[i] = fs[i]
        /\ frames'[Len(fs)].dll = fs[Len(fs)].dll
    BY <1>1, BindShape
  <2>2. \A i \in 1 .. Len(fs) : i \in 1 .. Len(fs) - 1 \/ i = Len(fs)
    BY <2>1
  <2> QED BY <2>1, <2>2
<1>2. CASE pc' # "imports"
  BY <1>2, BindShape
<1> QED BY <1>1, <1>2

LEMMA SparesLeft ==
    ASSUME Left, UNCHANGED << local, frames >>, alive' => alive,
           pc # "fail" \/ pc' = "fail", pc' = "thrown" => pc = "thrown" \/ ~alive
    PROVE  Left'
BY DEF Left

LEMMA DriverLeaves ==
    ASSUME MInv, Left,
           SetUp \/ CreateActCtx \/ ActivateActCtx \/ Place \/ ResolvePath \/ LoadImport \/ Protect
           \/ CallTls \/ CallEntry \/ Entered \/ InitRoutine \/ CleanUp \/ Throw
    PROVE  Left'
<1>1. UNCHANGED << local, frames, alive >>
  BY DEF SetUp, CreateActCtx, ActivateActCtx, Place, ResolvePath, LoadImport, Protect,
     CallTls, CallEntry, Entered, InitRoutine, CleanUp, Throw, Raises, BBCallRoutine, callVars
<1>2. pc # "fail"
  BY DEF SetUp, CreateActCtx, ActivateActCtx, Place, ResolvePath, LoadImport, Protect,
     CallTls, CallEntry, Entered, InitRoutine, CleanUp, Throw, Unguarded, AtCall
<1>3. pc' = "thrown" => ~alive
  BY DEF SetUp, CreateActCtx, ActivateActCtx, Place, ResolvePath, LoadImport, Protect,
     CallTls, CallEntry, Entered, InitRoutine, CleanUp, Throw, Raises
<1> QED BY <1>1, <1>2, <1>3, SparesLeft

LEMMA LoadLeaves ==
    ASSUME MInv, Left, NEW d \in Dll, LoadImage(d), pc \notin {"fail", "thrown"}
    PROVE  Left'
<1>1. local \in [Dll -> {"none", "held", "freed", "freedTwice"}] /\ frames \in Seq(Frame)
  BY DEF MInv, MapTypeOK
<1>2. CASE /\ local' = [local EXCEPT ![d] = "held"]
           /\ frames' = Append(frames, [dll |-> d, next |-> 1])
           /\ pc' \in Preparing
  <2>0. [dll |-> d, next |-> 1] \in Frame
    BY DEF Frame
  <2>1. PICK g \in Frame : g = [dll |-> d, next |-> 1]
    BY <2>0
  <2>2. /\ Len(frames') = Len(frames) + 1 /\ Len(frames) \in Nat /\ g.dll = d
        /\ \A i \in 1 .. Len(frames) : frames'[i] = frames[i]
        /\ frames'[Len(frames) + 1] = g
    BY <1>1, <1>2, <2>1, AppendProperties, LenProperties
  <2>3. \A i \in 1 .. Len(frames') : i \in 1 .. Len(frames) \/ i = Len(frames) + 1
    BY <2>2
  <2>4. local'[d] = "held" /\ \A e \in Dll : local[e] = "held" => local'[e] = "held"
    BY <1>1, <1>2
  <2>5. \A i \in 1 .. Len(frames) : frames[i].dll \in Dll
    <3>1. \A i \in 1 .. Len(frames) : frames[i] \in Frame
      BY <1>1, ElementOfSeq
    <3> QED BY <3>1 DEF Frame
  <2>6. \A i \in 1 .. Len(frames') : local'[frames'[i].dll] = "held"
    <3>1. \A i \in 1 .. Len(frames) : local[frames[i].dll] = "held"
      BY DEF Left
    <3>2. \A i \in 1 .. Len(frames) : local'[frames'[i].dll] = "held"
      BY <2>2, <2>4, <2>5, <3>1
    <3>3. local'[frames'[Len(frames) + 1].dll] = "held"
      BY <2>2, <2>4
    <3> QED BY <2>3, <3>2, <3>3
  <2>7. pc' # "thrown"
    BY <1>2 DEF Preparing
  <2> QED BY <2>6, <2>7 DEF Left
<1>3. CASE LoadFails(d)
  <2>1. pc' = "fail" \/ (frames' = << >> /\ pc' = "cleanup")
    BY <1>3 DEF LoadFails, Fail
  <2> QED BY <2>1, EmptySeq DEF Left
<1> QED BY <1>2, <1>3 DEF LoadImage, Preparing

LEMMA BindLeaves ==
    ASSUME MInv, NEW fs \in Seq(Frame), fs # << >>, NEW d \in Dll, Bind(fs, d),
           \A i \in 1 .. Len(fs) : local'[fs[i].dll] = "held"
    PROVE  Left'
<1>1. \A i \in 1 .. Len(frames') : local'[frames'[i].dll] = "held"
  BY BindKeepsDlls
<1>2. pc' # "thrown"
  BY DEF Bind
<1> QED BY <1>1, <1>2 DEF Left

LEMMA MappingLeaves ==
    ASSUME MInv, Left, MapRoot \/ MapImport \/ FindModule \/ BindLoaded
    PROVE  Left'
<1>0. frames \in Seq(Frame)
  BY DEF MInv, MapTypeOK
<1>1. CASE MapRoot
  BY <1>1, LoadLeaves, RootAssumption DEF MapRoot
<1>2. ASSUME pc \in {"find", "loaded"}
      PROVE  frames # << >> /\ \A i \in 1 .. Len(frames) : local[frames[i].dll] = "held"
  BY <1>2 DEF MInv, StackOK, Mapping, Left
<1>3. ASSUME pc = "find" PROVE Import \in Dll
  BY <1>2, <1>3, ImageIsDll DEF MInv, StackOK
<1>4. CASE MapImport
  BY <1>3, <1>4, LoadLeaves DEF MapImport, AtCall
<1>5. CASE FindModule
  <2>1. pc = "find" /\ Bind(frames, Import) /\ local' = local
    BY <1>5 DEF FindModule, AtCall
  <2> QED BY <1>0, <1>2, <1>3, <2>1, BindLeaves
<1>6. CASE BindLoaded
  <2>1. CASE ptr = None
    BY <1>6, <2>1 DEF BindLoaded, Left
  <2>2. CASE ptr # None
    <3>1. pc = "loaded" /\ Bind(frames, ptr) /\ local' = local /\ ptr \in Dll
      BY <1>6, <2>2 DEF BindLoaded, AtCall, MInv, MapTypeOK
    <3> QED BY <1>0, <1>2, <3>1, BindLeaves
  <2> QED BY <2>1, <2>2
<1> QED BY <1>1, <1>4, <1>5, <1>6

\* The innermost image goes, which is none of the others being mapped.
LEMMA EndLeaves ==
    ASSUME MInv, BuildInv, Left, Return \/ Abandon
    PROVE  Left'
<1>1. pc \in {"return", "fail"}
  BY DEF Return, Abandon, AtCall
<1>2. frames # << >> /\ frames \in Seq(Frame)
  BY <1>1 DEF MInv, MapTypeOK, StackOK, Mapping
<1>3. PICK n \in Nat \ {0} : n = Len(frames)
  BY <1>2, TopIsAt
<1>4. /\ Front(frames) \in Seq(Frame) /\ Len(Front(frames)) = n - 1
      /\ \A i \in 1 .. n - 1 : Front(frames)[i] = frames[i]
      /\ Image = frames[n].dll /\ Image \in Dll
      /\ \A i \in 1 .. n : frames[i].dll \in Dll
  BY <1>2, <1>3, LastIsAt, TopIsAt
<1>5. CASE n = 1
  <2>1. n - 1 = 0
    BY <1>5
  <2>2. Front(frames) = << >>
    BY <1>4, <2>1, EmptySeq
  <2>3. frames' = << >> /\ pc' # "thrown"
    BY <1>3, <1>5, <2>2 DEF Return, Abandon
  <2> QED BY <2>3, EmptySeq DEF Left
<1>6. CASE n # 1 /\ Abandon
  <2>1. pc' = "fail"
    BY <1>3, <1>6 DEF Abandon
  <2> QED BY <2>1 DEF Left
<1>7. CASE n # 1 /\ Return
  <2>1. /\ Bind(Front(frames), Image) /\ local' = [local EXCEPT ![Image] = "freed"]
        /\ pc = "return" /\ local \in [Dll -> {"none", "held", "freed", "freedTwice"}]
    BY <1>3, <1>7 DEF Return, AtCall, MInv, MapTypeOK
  <2>2. \A i \in 1 .. n - 1 : i \in 1 .. n /\ i # n /\ n \in 1 .. n
    BY <1>3
  <2>3. Nested
    BY <2>1, Constructing DEF Resolving
  <2>4. \A i \in 1 .. n - 1 : frames[i].dll # Image /\ local[frames[i].dll] = "held"
    BY <1>3, <1>4, <2>1, <2>2, <2>3 DEF Nested, Left
  <2>5. \A i \in 1 .. n - 1 : local'[Front(frames)[i].dll] = "held"
    BY <1>4, <2>1, <2>2, <2>4
  <2>6. Front(frames) # << >>
    BY <1>2, <1>3, <1>7, LastIsIn
  <2> QED BY <1>4, <2>1, <2>5, <2>6, BindLeaves
<1> QED BY <1>5, <1>6, <1>7

LEMMA InitLeft == Init => Left
BY EmptySeq DEF Init, Left

LEMMA StepLeaves == ASSUME MInv, BuildInv, Left, [Next]_vars PROVE Left'
<1>1. CASE (WaitEnds \/ WaitTimesOut) /\ UNCHANGED mapVars
  BY <1>1, SparesLeft DEF WaitEnds, WaitTimesOut, mapVars
<1>2. CASE UNCHANGED vars
  BY <1>2, SparesLeft DEF vars, mapVars, callVars
<1>3. CASE Process
  <2>1. UNCHANGED << pc, frames, local >>
    BY <1>3 DEF Process, Executed, mapVars
  <2>2. alive' => alive
    BY <1>3 DEF Process, StartApc, EndApc, StartThread, EndThread, Exit
  <2> QED BY <2>1, <2>2, SparesLeft
<1> QED BY <1>1, <1>2, <1>3, DriverLeaves, MappingLeaves, EndLeaves DEF Next, Driver

LEMMA FilesAreReleased == ASSUME MInv, Files, Left PROVE PoolIsReleased
<1> SUFFICES ASSUME pc \in {"done", "thrown"}, "setupFails" \notin met, "readFails" \notin met
             PROVE  /\ \A d \in Dll : local[d] \in IF d \in Abandoned THEN {"held"}
                                                                    ELSE {"none", "freed"}
                    /\ pc = "thrown" => ~alive
  BY DEF PoolIsReleased
<1>1. pc \notin Before /\ pc # "fail"
      /\ (pc = "done" => pc \notin Preparing \cup Resolving \cup {"fail", "thrown"})
  BY DEF Before, Preparing, Resolving
<1>2. frames = << >> => \A i \in 1 .. Len(frames) : FALSE
  BY EmptySeq
<1>3. DOMAIN frames = 1 .. Len(frames)
  BY LenProperties DEF MInv, MapTypeOK
<1>4. \A d \in Dll : d \in Abandoned <=> \E i \in 1 .. Len(frames) : frames[i].dll = d
  BY <1>1, <1>2, <1>3 DEF Abandoned, Files
<1>5. ASSUME NEW d \in Dll
      PROVE  local[d] \in IF d \in Abandoned THEN {"held"} ELSE {"none", "freed"}
  <2>1. local[d] \in {"none", "held", "freed", "freedTwice"} /\ local[d] # "freedTwice"
    BY DEF MInv, MapTypeOK, Files
  <2>2. CASE d \in Abandoned
    BY <1>1, <1>4, <2>2 DEF Left
  <2>3. CASE d \notin Abandoned
    BY <1>1, <1>4, <2>1, <2>3 DEF Files
  <2> QED BY <2>2, <2>3
<1> QED BY <1>5 DEF Left

-----------------------------------------------------------------------------
(* The theorems.                                                            *)

LEMMA InitInv == Init => IInv
<1> SUFFICES ASSUME Init PROVE IInv
  OBVIOUS
<1>1. CInv
  BY NamesAssumption DEF Init, CallInit, CInv, CallTypeOK, HasCode, OnTime, Quiet, Resting
<1>2. /\ << >> \in Seq(Frame) /\ << >> \in Seq(Dll)
      /\ imports \in [Dll -> Seq(Dll)]
  BY GraphsAssumption DEF Init
<1>3. MInv
  BY <1>2 DEF Init, CallInit, MInv, MapTypeOK, StackOK, Mapping
<1> QED BY <1>1, <1>3 DEF IInv

LEMMA StepInv == IInv /\ [Next]_vars => IInv'
<1> SUFFICES ASSUME IInv, [Next]_vars PROVE IInv'
  OBVIOUS
<1>1. CASE UNCHANGED vars
  BY <1>1, IdleKeeps, MapIdleKeeps DEF vars, IInv, callVars
<1>2. CASE (WaitEnds \/ WaitTimesOut) /\ UNCHANGED mapVars
  BY <1>2, WaitKeeps, MapIdleKeeps DEF IInv
<1>3. CASE Process
  BY <1>3, ProcessKeepsInv
<1>4. CASE Driver
  BY <1>2, <1>4, StartKeepsInv, ResolveKeepsInv, EndKeepsInv, InitialiseKeepsInv DEF Driver
<1> QED BY <1>1, <1>3, <1>4 DEF Next

LEMMA Invariance == Spec => []IInv
<1>1. Init => IInv
  BY InitInv
<1>2. IInv /\ [Next]_vars => IInv'
  BY StepInv
<1> QED BY <1>1, <1>2, PTL DEF Spec

LEMMA InvLeavesNothing == IInv => NothingLeftOver
BY DEF IInv, CInv, OnTime, Quiet, Resting, NothingLeftOver, Executing

LEMMA InvKeepsCode == IInv => NoFreedCode
<1> SUFFICES ASSUME IInv, "late" \notin met PROVE Freed \notin Executing
  BY DEF NoFreedCode
<1>1. CASE ~alive
  BY <1>1, NamesAssumption DEF IInv, CInv, Executing
<1>2. CASE alive /\ call = None
  BY <1>2, NamesAssumption DEF IInv, CInv, OnTime, Quiet, Resting, Executing
<1>3. CASE alive /\ call # None
  <2>1. call # Freed
    BY <1>3, NamesAssumption DEF IInv, CInv, CallTypeOK
  <2> QED BY <1>3, <2>1, NamesAssumption
          DEF IInv, CInv, OnTime, ThreadCall, ApcCall, Resting, Executing
<1> QED BY <1>1, <1>2, <1>3 DEF IInv, CInv, CallTypeOK

LEMMA Construction == Spec => [](BuildInv /\ Files /\ Left)
<1>1. Init => BuildInv /\ Files /\ Left
  BY InitBuilds, InitFiles, InitLeft
<1>2. IInv /\ (BuildInv /\ Files /\ Left) /\ [Next]_vars => (BuildInv /\ Files /\ Left)'
  BY StepBuilds, StepKeepsFiles, StepLeaves DEF IInv
<1> QED BY <1>1, <1>2, Invariance, PTL DEF Spec

LEMMA InvIsSound ==
    IInv /\ BuildInv /\ Files /\ Left =>
        CompleteBeforeRun /\ BoundAsImported /\ ImportsInitialisedFirst /\ PoolIsReleased
BY BuildingIsComplete, BuildingIsInOrder, FilesAreReleased DEF IInv, BuildInv

\* The variables keep their types, whatever images import each other and whatever goes
\* wrong: only routines of images that are known are ever called.
THEOREM TypeCorrect == Spec => []TypeOK
<1>1. IInv => TypeOK
  <2>1. Frame \subseteq [dll : Dll, next : Nat]
    BY DEF Frame
  <2>2. \A s \in Seq(Frame) : s \in Seq([dll : Dll, next : Nat])
    BY <2>1, SeqMonotonic
  <2> QED BY <2>2 DEF IInv, CInv, MInv, MapTypeOK, TypeOK
<1> QED BY <1>1, Invariance, PTL

\* BBCallRoutine never returns with somebody still in the shared buffer or about to
\* enter it, unless its wait has timed out once; and when it returns success the code
\* has been executed.
THEOREM CallsLeaveNothing == Spec => []NothingLeftOver
<1> QED BY InvLeavesNothing, Invariance, PTL

\* BBMapUserImage does not free the shared buffer under anybody, unless a wait has
\* timed out.
THEOREM BufferOutlivesCalls == Spec => []NoFreedCode
<1> QED BY InvKeepsCode, Invariance, PTL

\* However images import each other and whatever fails, the TLS callbacks and entry
\* points that BBCallInitializers calls are only called when each image of the list
\* has all its imports, bound to images that are there.
THEOREM NoHolesWhenRun == Spec => []CompleteBeforeRun
<1> QED BY InvIsSound, Invariance, Construction, PTL

\* BBResolveImageRefs binds imports to what is imported, if they are mapped manually
\* or there is one: the handle of LdrLoadDll that is left of another call does no harm
\* then.
THEOREM BoundRightly == Spec => []BoundAsImported
<1> QED BY InvIsSound, Invariance, Construction, PTL

\* The order in which BBFindOrMapModule puts images in the list is one in which an
\* image with a single importer is initialised before that one.
THEOREM InitialisedInOrder == Spec => []ImportsInitialisedFirst
<1> QED BY InvIsSound, Invariance, Construction, PTL

\* When BBMapUserImage returns, every file in system memory has been freed, and once,
\* but for the two failures that the property names.  When it is left by an exception,
\* then for a process that has exited, and exactly the files of the image being mapped
\* and of those whose imports led to it stay behind.
THEOREM FilesReleased == Spec => []PoolIsReleased
<1> QED BY InvIsSound, Invariance, Construction, PTL

-----------------------------------------------------------------------------
(* The mapping inside an injection.                                         *)

\* A step of BBInjectDll of its own at most meets a hazard.
Aside ==
    /\ UNCHANGED mapVars /\ met \subseteq met' /\ \A h \in met' \ met : Meets(h)
    /\ UNCHANGED << code, call, inThread, ok, event, apcs, worker, threads, alive, unread >>

LEMMA MeetingIsAside ==
    ASSUME (\E h : Meets(h)) \/ UNCHANGED met, UNCHANGED mapVars,
           UNCHANGED << code, call, inThread, ok, event, apcs, worker, threads, alive, unread >>
    PROVE  Aside
BY DEF Aside, Meets

\* Each step is one of a mapping, or aside.
LEMMA InjectSteps ==
    ASSUME [InjectNext]_allVars
    PROVE  [Next]_vars \/ Aside
<1>1. CASE UNCHANGED vars
  BY <1>1
<1>2. CASE BBMapUserImage \/ (Process /\ UNCHANGED injectVars)
  BY <1>2 DEF BBMapUserImage, Next
<1>3. CASE CopyImage \/ FindLdrLoadDll \/ GetCode
  BY <1>3, MeetingIsAside DEF CopyImage, FindLdrLoadDll, GetCode, mapVars
<1>4. CASE ExecuteStub \/ QueueStub
  BY <1>4, MeetingIsAside DEF ExecuteStub, QueueStub, Executes, Refused, mapVars
<1>5. CASE EndWait \/ EndInit
  BY <1>5, MeetingIsAside DEF EndWait, EndInit, mapVars
<1>6. CASE Poll
  BY <1>6, MeetingIsAside DEF Poll, mapVars
<1>7. CASE ReadModule
  BY <1>7, MeetingIsAside DEF ReadModule, mapVars
<1>8. CASE EndMapping \/ ReadStatus \/ FreeBuffer \/ RestoreProtection
  BY <1>1, <1>8 DEF EndMapping, ReadStatus, FreeBuffer, RestoreProtection
<1>9. CASE Stub \/ ThreadEnds \/ InitGoes
  BY <1>1, <1>9 DEF Stub, Load, ThreadEnds, StubGoes, InitGoes
<1> QED
  BY <1>1, <1>2, <1>3, <1>4, <1>5, <1>6, <1>7, <1>8, <1>9
  DEF InjectNext, BBInjectDll, BBApcInject, allVars

LEMMA AsideKeeps == ASSUME IInv, Aside PROVE IInv'
<1>1. CASE UNCHANGED met
  BY <1>1, StepAside, MapIdleKeeps DEF IInv, Aside
<1>2. CASE \E h \in met' \ met : Meets(h)
  BY <1>2, StepAside, MapIdleKeeps DEF IInv, Aside
<1> QED BY <1>1, <1>2 DEF Aside

LEMMA InjectStepInv == IInv /\ [InjectNext]_allVars => IInv'
BY InjectSteps, StepInv, AsideKeeps

LEMMA InjectMapping == InjectSpec => []IInv
<1>1. InjectInit => IInv
  BY InitInv DEF InjectInit
<1> QED BY <1>1, InjectStepInv, PTL DEF InjectSpec

LEMMA InjectBuilds == InjectSpec => [](BuildInv /\ Files /\ Left)
<1>1. InjectInit => BuildInv /\ Files /\ Left
  BY InitBuilds, InitFiles, InitLeft DEF InjectInit
<1>2. ASSUME Aside, BuildInv, Files, Left PROVE BuildInv' /\ Files' /\ Left'
  <2>1. UNCHANGED << mapVars, code, worker, threads >> /\ met \subseteq met'
    BY <1>2 DEF Aside
  <2>2. BuildInv'
    BY <1>2, <2>1, AsideBuilds
  <2>3. Files'
    BY <1>2, <2>1, AsideKeepsFiles DEF mapVars
  <2>4. Left'
    BY <1>2, <2>1, SparesLeft DEF Aside, mapVars
  <2> QED BY <2>2, <2>3, <2>4
<1>3. ASSUME [Next]_vars, IInv, BuildInv, Files, Left PROVE BuildInv' /\ Files' /\ Left'
  BY <1>3, StepBuilds, StepKeepsFiles, StepLeaves DEF IInv
<1>4. IInv /\ (BuildInv /\ Files /\ Left) /\ [InjectNext]_allVars
         => (BuildInv /\ Files /\ Left)'
  BY <1>2, <1>3, InjectSteps
<1> QED BY <1>1, <1>4, InjectMapping, PTL DEF InjectSpec

\* The variables of the mapping keep their types when BBInjectDll calls it, also
\* when the copy of the image, or the whole mapping, fails.
THEOREM InjectionTypeCorrect == InjectSpec => []TypeOK
<1>1. IInv => TypeOK
  <2>1. Frame \subseteq [dll : Dll, next : Nat]
    BY DEF Frame
  <2>2. \A s \in Seq(Frame) : s \in Seq([dll : Dll, next : Nat])
    BY <2>1, SeqMonotonic
  <2> QED BY <2>2 DEF IInv, CInv, MInv, MapTypeOK, TypeOK
<1> QED BY <1>1, InjectMapping, PTL

\* What an injection's mapping calls in the process leaves nobody in the shared buffer,
\* unless a wait has timed out, ...
THEOREM InjectionLeavesNothing == InjectSpec => []NothingLeftOver
<1> QED BY InvLeavesNothing, InjectMapping, PTL

\* ... and that buffer is not freed under anybody.
THEOREM InjectionKeepsCode == InjectSpec => []NoFreedCode
<1> QED BY InvKeepsCode, InjectMapping, PTL

\* Inside an injection, too, no initialiser of an image runs while an image has an
\* import that is not bound, ...
THEOREM InjectionLeavesNoHoles == InjectSpec => []CompleteBeforeRun
<1> QED BY InvIsSound, InjectMapping, InjectBuilds, PTL

\* ... what is bound is what is imported, ...
THEOREM InjectionBindsRightly == InjectSpec => []BoundAsImported
<1> QED BY InvIsSound, InjectMapping, InjectBuilds, PTL

\* ... images are initialised before the one that imports them ...
THEOREM InjectionKeepsOrder == InjectSpec => []ImportsInitialisedFirst
<1> QED BY InvIsSound, InjectMapping, InjectBuilds, PTL

\* ... and when BBInjectDll has returned, having swallowed an exception or not, the
\* files in system memory are freed once, but for those that the exception left behind.
THEOREM InjectionReleasesFiles == InjectSpec => []PoolIsReleased
<1> QED BY InvIsSound, InjectMapping, InjectBuilds, PTL

-----------------------------------------------------------------------------
(* Injection by thread and by APC.                                          *)

\* Which steps each way of injecting takes, and what it has touched by then.
Ways ==
    /\ data.type = "mmap" => /\ step \in {"copy", "map", "done"}
                             /\ prot = "none" /\ buffer = "none" /\ status # "success"
    /\ step \in {"thread", "wait"} => data.type = "thread"
    /\ step \in {"apc", "poll", "status"} => data.type = "apc"
    /\ step \in {"copy", "map"} => data.type = "mmap"

\* Who can be in the buffer, and from when on.
Users ==
    /\ step \in {"copy", "map", "find", "code", "thread", "apc"} => stub = "none"
    /\ step \in {"copy", "map", "find", "code"} => buffer = "none"
    /\ buffer = "none" => stub = "none"
    /\ ended => data.type = "apc" /\ stub # "none"
    /\ buffer = "freed" => step \in {"restore", "done"}
    /\ init # "none" => step \in {"init", "free", "restore", "done"}
    /\ dll => stub \in {"loaded", "completed", "stored", "gone"}

\* Once the driver has done with its wait, the users are as good as done.
Settled ==
    data.type # "mmap" /\ alive /\ data.wait /\ "late" \notin met /\ ~ended =>
        /\ step \in {"status", "module", "init", "free", "restore", "done"} =>
              stub \in IF data.type = "apc" THEN {"none", "completed", "stored", "gone"}
                                            ELSE {"none", "gone"}
        /\ step \in {"free", "restore", "done"} => init \notin {"queued", "running"}

\* What the status says, and when there is none.
Reported ==
    /\ status = "success" /\ alive => dll
    /\ status = "failed" /\ alive => ended \/ (~dll /\ stub \notin {"queued", "loading"})
    /\ step \in {"find", "code", "thread", "wait", "apc", "poll", "status"} => status = "unset"
    /\ step = "status" => Complete \/ "late" \in met
    /\ data.type # "mmap" /\ step \in {"module", "init", "free", "restore", "done"} /\ status = "unset" =>
          ~data.wait \/ "late" \in met \/ (data.type = "apc" /\ Complete)

JInv == InjectTypeOK /\ Ways /\ Users /\ Settled /\ Reported
        /\ (step = "done" => prot # "taken") /\ BugchecksHaveReasons

LEMMA JInvIsSound == JInv => InjectionIsSound
BY DEF JInv, InjectionIsSound, UsersAreDone, StatusIsTrue, ProtectionIsBack,
       Ways, Users, Settled, Reported

LEMMA JInitInv == InjectInit => JInv
<1> SUFFICES ASSUME InjectInit PROVE JInv
  OBVIOUS
<1>1. data \in Requests
  BY DEF InjectInit
<1>2. data.type \in {"mmap", "thread", "apc"}
  BY <1>1 DEF Requests
<1>3. step = (IF data.type = "mmap" THEN "copy" ELSE "find")
  BY DEF InjectInit
<1>4. prot \in IF data.type = "mmap" THEN {"none"} ELSE {"none", "full"}
  BY DEF InjectInit
<1>5. status = "unset" /\ buffer = "none" /\ stub = "none" /\ dll = FALSE /\ init = "none" /\ polls = 0
      /\ ended = FALSE
  BY DEF InjectInit
<1>6. 0 \in 0 .. MaxPolls
  BY MaxPollsAssumption
<1>7. InjectTypeOK
  BY <1>1, <1>2, <1>3, <1>4, <1>5, <1>6 DEF InjectTypeOK
<1> QED
  BY <1>2, <1>3, <1>4, <1>5, <1>7 DEF JInv, Ways, Users, Settled, Reported, BugchecksHaveReasons

\* The process only dies, and hazards are only met.
LEMMA ProcessOnlyDies == Process => (alive' => alive) /\ met \subseteq met'
BY DEF Process, StartApc, EndApc, StartThread, EndThread, Exit, Meets

LEMMA ElsewhereKeeps ==
    ASSUME JInv, UNCHANGED injectVars, (alive' => alive) /\ met \subseteq met'
    PROVE  JInv'
BY DEF JInv, InjectTypeOK, Ways, Users, Settled, Reported, BugchecksHaveReasons, injectVars, Complete

LEMMA MappingKeeps ==
    ASSUME JInv, CopyImage \/ BBMapUserImage \/ EndMapping
    PROVE  JInv'
BY DEF CopyImage, BBMapUserImage, EndMapping, Goto, injectVars, vars, callVars,
       JInv, InjectTypeOK, Ways, Users, Settled, Reported, BugchecksHaveReasons, Complete

LEMMA FindKeeps == ASSUME JInv, FindLdrLoadDll PROVE JInv'
BY DEF FindLdrLoadDll, Faults, Goto,
       JInv, InjectTypeOK, Ways, Users, Settled, Reported, BugchecksHaveReasons, Complete

LEMMA CodeKeeps == ASSUME JInv, GetCode PROVE JInv'
BY DEF GetCode, Faults, Goto, Requests,
       JInv, InjectTypeOK, Ways, Users, Settled, Reported, BugchecksHaveReasons, Complete

LEMMA ExecuteKeeps == ASSUME JInv, ExecuteStub \/ QueueStub PROVE JInv'
BY DEF ExecuteStub, QueueStub, Executes, Refused, Goto, Meets,
       JInv, InjectTypeOK, Ways, Users, Settled, Reported, BugchecksHaveReasons, Complete

LEMMA WaitKeepsSound == ASSUME JInv, EndWait PROVE JInv'
BY DEF EndWait, Goto, Meets, Stored,
       JInv, InjectTypeOK, Ways, Users, Settled, Reported, BugchecksHaveReasons, Complete

LEMMA PollKeeps == ASSUME JInv, Poll PROVE JInv'
BY MaxPollsAssumption
DEF Poll, Bugcheck, Unreadable, Goto, Meets,
    JInv, InjectTypeOK, Ways, Users, Settled, Reported, BugchecksHaveReasons, Complete

LEMMA StatusKeeps == ASSUME JInv, ReadStatus PROVE JInv'
BY DEF ReadStatus, Bugcheck, Unreadable, Goto, Stored, vars, callVars,
       JInv, InjectTypeOK, Ways, Users, Settled, Reported, BugchecksHaveReasons, Complete

LEMMA ModuleKeeps == ASSUME JInv, ReadModule \/ EndInit PROVE JInv'
BY DEF ReadModule, EndInit, Bugcheck, Unreadable, Goto, Meets,
       JInv, InjectTypeOK, Ways, Users, Settled, Reported, BugchecksHaveReasons, Complete

LEMMA ReleaseKeeps == ASSUME JInv, FreeBuffer \/ RestoreProtection PROVE JInv'
BY DEF FreeBuffer, RestoreProtection, Goto, vars, callVars,
       JInv, InjectTypeOK, Ways, Users, Settled, Reported, BugchecksHaveReasons, Complete

LEMMA StubKeeps == ASSUME JInv, Stub \/ ThreadEnds \/ InitGoes PROVE JInv'
<1> USE DEF JInv, InjectTypeOK, Ways, Users, Settled, Reported, BugchecksHaveReasons, Complete,
            vars, callVars
<1>1. CASE InitGoes
  BY <1>1 DEF InitGoes
<1>2. CASE ThreadEnds
  BY <1>2 DEF ThreadEnds
<1>3. CASE Load
  <2>1. /\ stub = "loading" /\ stub' = "loaded" /\ dll' \in BOOLEAN /\ alive
        /\ UNCHANGED << data, step, status, prot, buffer, ended, init, polls, alive, met >> /\ ~ended
    BY <1>3 DEF Load, StubGoes
  <2> QED BY <2>1
<1>4. ASSUME NEW from \in {"queued", "loaded", "completed", "stored"},
             NEW to \in {"loading", "completed", "stored", "gone"},
             from = "queued" <=> to = "loading", StubGoes(from, to), UNCHANGED dll
      PROVE  JInv'
  BY <1>4 DEF StubGoes
<1> QED BY <1>1, <1>2, <1>3, <1>4 DEF Stub

LEMMA JStepInv == JInv /\ [InjectNext]_allVars => JInv'
<1> SUFFICES ASSUME JInv, [InjectNext]_allVars PROVE JInv'
  OBVIOUS
<1>1. CASE UNCHANGED allVars
  BY <1>1, ElsewhereKeeps DEF allVars, vars, callVars
<1>2. CASE Process /\ UNCHANGED injectVars
  BY <1>2, ProcessOnlyDies, ElsewhereKeeps
<1>3. CASE BBInjectDll
  BY <1>3, MappingKeeps, FindKeeps, CodeKeeps, ExecuteKeeps, WaitKeepsSound, PollKeeps,
     StatusKeeps, ModuleKeeps, ReleaseKeeps DEF BBInjectDll, BBApcInject
<1>4. CASE Stub \/ ThreadEnds \/ InitGoes
  BY <1>4, StubKeeps
<1> QED BY <1>1, <1>2, <1>3, <1>4 DEF InjectNext

\* An injection by thread or by APC does not free its buffer under anybody unless a
\* wait ran out or was not wanted, reports a success only when it is one and a failure
\* only when it is one or the thread with the APC has ended, gives the process its
\* protection back, and touches the buffer only where it is unless the process exits.
THEOREM InjectionSound == InjectSpec => []InjectionIsSound
<1> QED BY JInitInv, JStepInv, JInvIsSound, PTL DEF InjectSpec
=============================================================================
