------------------------------ MODULE ManualMap ------------------------------
(***************************************************************************)
(* Manual mapping of an image into a process: one call of BBMapUserImage    *)
(* (BlackBone/MMap.c), which maps the image it is given, with KManualImports*)
(* everything it imports, and then runs their initialisers.                 *)
(*                                                                         *)
(* BBFindOrMapModule and BBResolveImageRefs call each other; `frames' is    *)
(* the stack of images whose imports are being resolved.  Whatever they     *)
(* need done in the process goes through UserCall.                          *)
(***************************************************************************)
EXTENDS UserCall, SequencesExt

CONSTANTS
    Dll,       \* names of images
    Root,      \* the image BBMapUserImage is called for
    Graphs,    \* import tables: functions from Dll to sequences of Dll
    FlagSets   \* the flags a caller may give

Flags == {"manualImports", "noThreads", "manifest", "tls", "initRoutine"}

ASSUME RootAssumption == Root \in Dll
ASSUME GraphsAssumption == Graphs \subseteq [Dll -> Seq(Dll)]
ASSUME FlagsAssumption == FlagSets \subseteq SUBSET Flags

Kind == {"createActCtx", "activateActCtx", "redirect", "load", "functionTable",
         "tls", "entry", "init"}

ASSUME RoutineAssumption == Routine = Kind \X Dll

VARIABLES
    imports,   \* the import table of each image
    flags,     \* KMmapFlags, and which optional parts the image has
    loaded,    \* the images the loader of the process knows
    pc,        \* how far BBMapUserImage is
    frames,    \* images being mapped, innermost last: name and next import
    modules,   \* context.modules, head first
    mapped,    \* images with memory in the process
    iat,       \* per image: whose exports its resolved imports are bound to
    local,     \* per image: the file in system memory, pLocalImage->localBase
    initialized,
    ptr        \* userMem->ptr, the handle LdrLoadDll stored

mapVars == << imports, flags, loaded, pc, frames, modules, mapped, iat, local,
              initialized, ptr >>
vars == << mapVars, callVars >>

Top   == Last(frames)
Image == Top.dll                       \* whose imports are being resolved
Import == imports[Image][Top.next]
AtCall(where) == pc = where /\ call = None

Manual == "manualImports" \in flags

-----------------------------------------------------------------------------
(* BBMapUserImage before it maps.                                           *)

\* The worker thread, the code buffer and the event.
SetUp ==
    /\ pc = "start"
    /\ \/ alive /\ pc' = "map" /\ worker' = Fresh /\ UNCHANGED met
       \/ alive /\ pc' = "cleanup" /\ worker' \in {None, Fresh} /\ Meets("setupFails")
       \/ ~alive /\ pc' \in {"cleanup", "thrown"} /\ worker' = None
                 /\ met' = met \cup {"setupFails"}
    /\ UNCHANGED << imports, flags, loaded, frames, modules, mapped, iat, local, initialized,
                    ptr, code, call, inThread, ok, event, apcs, threads, alive, unread >>

-----------------------------------------------------------------------------
(* BBFindOrMapModule.                                                       *)

Fail == pc' = IF frames = << >> THEN "cleanup" ELSE "fail"

\* No file or no memory for it, or a buffer (of Root) that is no image.  The memory
\* of a file that cannot be read, or is no image, is freed by BBLoadLocalImage and
\* by its caller.
LoadFails(d) ==
    /\ \/ /\ Meets("loadFails")
          /\ local' = [local EXCEPT ![d] = IF @ = "held" THEN "freed" ELSE @]
       \/ d # Root /\ Meets("readFails") /\ local' = [local EXCEPT ![d] = "freedTwice"]
    /\ Fail /\ UNCHANGED frames

LoadImage(d) ==
    \/ /\ local' = [local EXCEPT ![d] = "held"]
       /\ frames' = Append(frames, [dll |-> d, next |-> 1])
       /\ pc' = IF d = Root /\ "manifest" \in flags THEN "createActCtx" ELSE "place"
       /\ UNCHANGED met
    \/ LoadFails(d)

MapRoot ==
    /\ pc = "map" /\ LoadImage(Root)
    /\ UNCHANGED << imports, flags, loaded, modules, mapped, iat, initialized, ptr,
                    code, call, inThread, ok, event, apcs, worker, threads, alive, unread >>

\* BBPrepareACTX, whose failures nobody minds.
CreateActCtx ==
    /\ AtCall("createActCtx")
    /\ \/ BBCallRoutine(<< "createActCtx", Image >>, FALSE) /\ pc' = "activateActCtx"
       \/ UNCHANGED callVars /\ pc' = "place"
    /\ UNCHANGED << imports, flags, loaded, frames, modules, mapped, iat, local, initialized, ptr >>

ActivateActCtx ==
    /\ AtCall("activateActCtx") /\ pc' = "place"
    /\ \/ BBCallRoutine(<< "activateActCtx", Image >>, FALSE)
       \/ UNCHANGED callVars
    /\ UNCHANGED << imports, flags, loaded, frames, modules, mapped, iat, local, initialized, ptr >>

\* Mutant: the initialisers will run in the order of mapping.
MutPlaced == modules' = Append(modules, Image)

Placed == modules' = << Image >> \o modules

\* Memory in the process, the sections, the relocations; then the image is in
\* the list, before its imports are looked at.
Place ==
    /\ AtCall("place")
    /\ \/ /\ mapped' = mapped \cup {Image} /\ Placed /\ pc' = "imports"
          /\ UNCHANGED met
       \/ pc' = "fail" /\ Meets("loadFails") /\ UNCHANGED << mapped, modules >>
    /\ UNCHANGED << imports, flags, loaded, frames, iat, local, initialized, ptr,
                    code, call, inThread, ok, event, apcs, worker, threads, alive, unread >>

-----------------------------------------------------------------------------
(* BBResolveImageRefs.                                                      *)

\* BBResolveImagePath: the name is found in the API set, or the process is asked
\* for a redirection, whose outcome only changes the path.
ResolvePath ==
    /\ AtCall("imports") /\ Top.next <= Len(imports[Image])
    /\ pc' = "find"
    /\ \/ UNCHANGED callVars
       \/ BBCallRoutine(<< "redirect", Import >>, FALSE)
    /\ UNCHANGED << imports, flags, loaded, frames, modules, mapped, iat, local, initialized, ptr >>

\* The thunks of the current import of frame f are bound to the exports of d,
\* unless one is missing.
Bind(fs, d) ==
    LET f == Last(fs)
    IN  \/ /\ iat' = [iat EXCEPT ![f.dll] = Append(@, d)]
           /\ frames' = Front(fs) \o << [f EXCEPT !.next = @ + 1] >>
           /\ pc' = "imports" /\ UNCHANGED met
        \/ /\ Meets("loadFails") /\ pc' = "fail" /\ frames' = fs /\ UNCHANGED iat

\* The loader or an earlier mapping knows the import.
FindModule ==
    /\ AtCall("find")
    /\ Import \in loaded \/ (Manual /\ Import \in Range(modules))
    /\ Bind(frames, Import)
    /\ UNCHANGED << imports, flags, loaded, modules, mapped, local, initialized, ptr,
                    code, call, inThread, ok, event, apcs, worker, threads, alive, unread >>

MapImport ==
    /\ AtCall("find") /\ Manual
    /\ Import \notin loaded /\ Import \notin Range(modules)
    /\ LoadImage(Import)
    /\ UNCHANGED << imports, flags, loaded, modules, mapped, iat, initialized, ptr,
                    code, call, inThread, ok, event, apcs, worker, threads, alive, unread >>

\* LdrLoadDll, in a thread of its own unless no threads may be made.
LoadImport ==
    /\ AtCall("find") /\ ~Manual /\ Import \notin loaded
    /\ pc' = "loaded"
    /\ BBCallRoutine(<< "load", Import >>, "noThreads" \notin flags)
    /\ UNCHANGED << imports, flags, loaded, frames, modules, mapped, iat, local, initialized, ptr >>

\* Mutant: binds without a look at the handle.
MutBindLoaded ==
    /\ AtCall("loaded")
    /\ Bind(frames, ptr)
    /\ UNCHANGED << imports, flags, loaded, modules, mapped, local, initialized, ptr,
                    code, call, inThread, ok, event, apcs, worker, threads, alive, unread >>

\* The handle is what userMem->ptr holds now; nobody cleared it before.
BindLoaded ==
    /\ AtCall("loaded")
    /\ IF ptr = None THEN pc' = "fail" /\ UNCHANGED << frames, iat, met >>
                     ELSE Bind(frames, ptr)
    /\ UNCHANGED << imports, flags, loaded, modules, mapped, local, initialized, ptr,
                    code, call, inThread, ok, event, apcs, worker, threads, alive, unread >>

-----------------------------------------------------------------------------
(* The end of BBFindOrMapModule.                                            *)

\* Protection, cookie, and the exception table if there is one.
Protect ==
    /\ AtCall("imports") /\ Top.next > Len(imports[Image])
    /\ \/ pc' = "return" /\ UNCHANGED callVars
       \/ pc' = "return" /\ BBCallRoutine(<< "functionTable", Image >>, FALSE)
       \/ /\ pc' = "fail" /\ Meets("loadFails")
          /\ UNCHANGED << code, call, inThread, ok, event, apcs, worker, threads, alive, unread >>
    /\ UNCHANGED << imports, flags, loaded, frames, modules, mapped, iat, local, initialized, ptr >>

\* Mutant: keeps the file in system memory.
MutReturn ==
    /\ AtCall("return")
    /\ IF Len(frames) = 1
       THEN frames' = << >> /\ pc' = "init" /\ UNCHANGED << iat, met >>
       ELSE Bind(Front(frames), Image)
    /\ UNCHANGED << imports, flags, loaded, modules, mapped, local, initialized, ptr,
                    code, call, inThread, ok, event, apcs, worker, threads, alive, unread >>

\* Success: the importer goes on with the address of the image.
Return ==
    /\ AtCall("return")
    /\ local' = [local EXCEPT ![Image] = "freed"]
    /\ IF Len(frames) = 1
       THEN frames' = << >> /\ pc' = "init" /\ UNCHANGED << iat, met >>
       ELSE Bind(Front(frames), Image)
    /\ UNCHANGED << imports, flags, loaded, modules, mapped, initialized, ptr,
                    code, call, inThread, ok, event, apcs, worker, threads, alive, unread >>

\* RemoveEntryList.
Unlisted ==
    IF Image \in Range(modules)
    THEN RemoveAt(modules, CHOOSE i \in DOMAIN modules : modules[i] = Image)
    ELSE modules

\* Mutant: the importer goes on without the image.
MutAbandon ==
    /\ AtCall("fail")
    /\ modules' = Unlisted
    /\ mapped' = mapped \ {Image}
    /\ local' = [local EXCEPT ![Image] = "freed"]
    /\ IF Len(frames) = 1 THEN frames' = << >> /\ pc' = "cleanup"
       ELSE /\ frames' = [Front(frames) EXCEPT ![Len(frames) - 1].next = @ + 1]
            /\ pc' = "imports"
    /\ UNCHANGED << imports, flags, loaded, iat, initialized, ptr, callVars >>

\* Failure: the image goes, what was mapped for it stays, and the importer fails.
Abandon ==
    /\ AtCall("fail")
    /\ modules' = Unlisted
    /\ mapped' = mapped \ {Image}
    /\ local' = [local EXCEPT ![Image] = "freed"]
    /\ frames' = Front(frames)
    /\ pc' = IF Len(frames) = 1 THEN "cleanup" ELSE "fail"
    /\ UNCHANGED << imports, flags, loaded, iat, initialized, ptr, callVars >>

-----------------------------------------------------------------------------
(* BBMapUserImage after it has mapped.                                      *)

\* The next image of the list, if one is left.
Waiting ==
    {modules[i] : i \in {k \in DOMAIN modules : /\ modules[k] \notin initialized
                                              /\ \A j \in 1 .. k - 1 : modules[j] \in initialized}}

\* BBCallInitializers: its TLS callbacks ...
CallTls ==
    /\ AtCall("init") /\ Waiting # {}
    /\ pc' = "entry"
    /\ IF "tls" \in flags THEN \E d \in Waiting : BBCallRoutine(<< "tls", d >>, FALSE)
                          ELSE UNCHANGED callVars
    /\ UNCHANGED << imports, flags, loaded, frames, modules, mapped, iat, local, initialized, ptr >>

\* ... its entry point, if it has one ...
CallEntry ==
    /\ AtCall("entry")
    /\ \/ /\ \E d \in Waiting : BBCallRoutine(<< "entry", d >>, FALSE)
          /\ pc' = "entered" /\ UNCHANGED initialized
       \/ /\ initialized' = initialized \cup Waiting
          /\ pc' = "init" /\ UNCHANGED callVars
    /\ UNCHANGED << imports, flags, loaded, frames, modules, mapped, iat, local, ptr >>

\* ... whose failure matters only when the process is gone.
Entered ==
    /\ AtCall("entered")
    /\ IF ~ok /\ ~alive THEN pc' = "cleanup" /\ UNCHANGED initialized
       ELSE pc' = "init" /\ initialized' = initialized \cup Waiting
    /\ UNCHANGED << imports, flags, loaded, frames, modules, mapped, iat, local, ptr, callVars >>

InitRoutine ==
    /\ AtCall("init") /\ Waiting = {}
    /\ pc' = "cleanup"
    /\ IF "initRoutine" \in flags THEN BBCallRoutine(<< "init", Root >>, FALSE)
                                  ELSE UNCHANGED callVars
    /\ UNCHANGED << imports, flags, loaded, frames, modules, mapped, iat, local, initialized, ptr >>

\* The memory of the process is touched where nothing in MMap.c catches an
\* exception: in generating the code of a call, in filling its arguments and in
\* reading its result, in copying an image, in walking its import table ...
Unguarded ==
    \/ pc \in {"createActCtx", "activateActCtx", "place", "imports", "find", "loaded", "return"}
    \/ pc = "init" /\ Waiting = {} /\ "initRoutine" \in flags

\* ... The exception unwinds to BBInjectDll, past the end of BBFindOrMapModule and
\* the clean-up of BBMapUserImage.  Where it is caught on the way, the initialisers
\* are given up, and a name without a redirection is not found.
Throw ==
    /\ Raises
    /\ \/ Unguarded /\ pc' = "thrown"
       \/ pc \in {"init", "entry", "entered"} /\ Waiting # {} /\ pc' = "cleanup"
       \/ pc = "imports" /\ Top.next <= Len(imports[Image]) /\ pc' = "fail"
    /\ UNCHANGED << imports, flags, loaded, frames, modules, mapped, iat, local, initialized, ptr >>

\* A worker that was created is terminated; the code buffer and the list go.
CleanUp ==
    /\ AtCall("cleanup")
    /\ pc' = "done"
    /\ code' = Freed /\ modules' = << >>
    /\ IF "noThreads" \in flags THEN UNCHANGED << worker, apcs >> ELSE worker' = None /\ apcs' = 0
    /\ UNCHANGED << imports, flags, loaded, frames, mapped, iat, local, initialized, ptr,
                    call, inThread, ok, event, threads, alive, unread, met >>

-----------------------------------------------------------------------------
(* The process.                                                             *)

\* What a routine does that has been executed: LdrLoadDll stores a handle if it
\* finds the image, and else nothing.
Effect(r) ==
    IF r[1] = "load"
    THEN \/ loaded' = loaded \cup {r[2]} /\ ptr' = r[2]
         \/ "loadFails" \in Env /\ UNCHANGED << loaded, ptr >>
    ELSE UNCHANGED << loaded, ptr >>

Executed(r) ==
    /\ Effect(r)
    /\ UNCHANGED << imports, flags, pc, frames, modules, mapped, iat, local, initialized >>

Process ==
    \/ StartApc /\ UNCHANGED mapVars
    \/ EndApc /\ Executed(worker)
    \/ \E t \in threads : \/ StartThread(t) /\ UNCHANGED mapVars
                          \/ EndThread(t) /\ Executed(t.runs)
    \/ Exit /\ UNCHANGED mapVars

-----------------------------------------------------------------------------

Init ==
    /\ imports \in Graphs /\ flags \in FlagSets /\ loaded \in SUBSET (Dll \ {Root})
    /\ pc = "start" /\ frames = << >> /\ modules = << >> /\ mapped = {}
    /\ iat = [d \in Dll |-> << >>]
    /\ local = [d \in Dll |-> IF d = Root THEN "held" ELSE "none"]
    /\ initialized = {} /\ ptr = None
    /\ CallInit

Driver ==
    \/ SetUp
    \/ MapRoot \/ CreateActCtx \/ ActivateActCtx \/ Place
    \/ ResolvePath \/ FindModule \/ MapImport \/ LoadImport \/ BindLoaded
    \/ Protect \/ Return \/ Abandon
    \/ CallTls \/ CallEntry \/ Entered \/ InitRoutine \/ CleanUp \/ Throw
    \/ (WaitEnds \/ WaitTimesOut) /\ UNCHANGED mapVars

Next == Driver \/ Process

\* The driver's thread is scheduled and its waits time out.  Nothing is assumed
\* of the threads of the process.
Spec == Init /\ [][Next]_vars /\ WF_vars(Driver)

-----------------------------------------------------------------------------
(* Properties.                                                              *)

TypeOK ==
    /\ CallTypeOK
    /\ imports \in Graphs /\ flags \in FlagSets /\ loaded \subseteq Dll
    /\ pc \in {"start", "map", "createActCtx", "activateActCtx", "place", "imports", "find",
               "loaded", "return", "fail", "init", "entry", "entered", "cleanup", "done",
               "thrown"}
    /\ frames \in Seq([dll : Dll, next : Nat]) /\ modules \in Seq(Dll)
    /\ mapped \subseteq Dll /\ initialized \subseteq Dll
    /\ iat \in [Dll -> Seq(Dll)]
    /\ local \in [Dll -> {"none", "held", "freed", "freedTwice"}]
    /\ ptr \in Dll \cup {None}

Executing == {worker} \cup {t.runs : t \in threads}

\* As long as no wait has timed out nothing is left over from an earlier call: its
\* code has been executed, by now is not executed any more, and nobody is still to
\* execute it, so that the shared buffer may be written again.
NothingLeftOver ==
    call = None /\ "late" \notin met =>
        apcs = 0 /\ Executing \subseteq {None, Fresh} /\ (ok /\ alive => ~unread) /\ threads = {}

\* Nobody executes the code buffer after it was freed, unless a wait timed out.
NoFreedCode == "late" \notin met => Freed \notin Executing

\* Code of the images that were mapped runs only when every one of them has all
\* its imports bound, to images that are there: an import that failed, or a cycle
\* of imports, never leaves a hole.
CompleteBeforeRun ==
    (\E d \in Dll : Executing \cap {<< "tls", d >>, << "entry", d >>} # {}) =>
        \A d \in Range(modules) : /\ Len(iat[d]) = Len(imports[d])
                                  /\ Range(iat[d]) \subseteq mapped \cup loaded

\* With manual imports, or a single one, the exports an image is bound to are
\* those of the image it imports.
BoundAsImported ==
    \A d \in Dll : Manual \/ Len(imports[d]) <= 1 =>
        \A i \in DOMAIN iat[d] : iat[d][i] = imports[d][i]

Importers(d) == {p \in Dll : d \in Range(imports[p])}

\* An image that only one other image imports is initialised before that image.
ImportsInitialisedFirst ==
    \A d \in Dll \ {Root}, p \in Dll :
        Importers(d) = {p} /\ p \in initialized /\ d \in mapped => d \in initialized

\* The images whose mapping an exception has cut short.
Abandoned == IF pc = "thrown" THEN {frames[i].dll : i \in DOMAIN frames} ELSE {}

\* Every file read into system memory is freed once, on every path but one: when
\* the memory of an exited process is gone, an exception leaves behind the files of
\* the images that were being mapped, the image and the chain of imports down to
\* where it was raised, and no other.
PoolIsReleased ==
    pc \in {"done", "thrown"} /\ met \cap {"setupFails", "readFails"} = {} =>
        /\ \A d \in Dll : local[d] \in IF d \in Abandoned THEN {"held"} ELSE {"none", "freed"}
        /\ pc = "thrown" => ~alive
=============================================================================
