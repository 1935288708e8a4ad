------------------------------ MODULE InjectDll ------------------------------
(***************************************************************************)
(* BBInjectDll (BlackBone/Inject.c): a library is brought into a process by *)
(* mapping it (ManualMap), or by code that calls LdrLoadDll there, run by a *)
(* new thread or by an APC of a thread the process has.                     *)
(*                                                                         *)
(* That code and its arguments lie in one buffer of the process.  Its last  *)
(* acts are to note that it is complete, to store the status, and to        *)
(* return; the driver waits for the thread or polls the note, not for ever, *)
(* and frees the buffer.                                                    *)
(***************************************************************************)
EXTENDS ManualMap

CONSTANTS MaxPolls    \* how often the note of an APC is looked at

ASSUME MaxPollsAssumption == MaxPolls \in Nat \ {0}

VARIABLES
    data,      \* INJECT_DLL: the way, whether to wait for a thread, an init routine
    step,      \* how far BBInjectDll is
    status,    \* "unset" is the zero that the buffer holds before a status is stored
    prot,      \* the protection of the process
    buffer,    \* pUserBuf
    stub,      \* how far the code in the buffer has been executed
    ended,     \* the thread that was given the APC has ended
    dll,       \* LdrLoadDll has loaded the library, and stored its base in the buffer
    init,      \* the init routine, whose argument lies in the buffer
    polls

injectVars == << data, step, status, prot, buffer, stub, ended, dll, init, polls >>
allVars == << vars, injectVars >>

Requests == [type : {"mmap"}, wait : {TRUE}, initRVA : {TRUE}]
            \cup [type : {"thread"}, wait : BOOLEAN, initRVA : BOOLEAN]
            \cup [type : {"apc"}, wait : {TRUE}, initRVA : BOOLEAN]

Goto(from, to) == step = from /\ step' = to

\* What the code has left in the buffer so far.
Complete == stub \in {"completed", "stored", "gone"}
Stored == IF stub \notin {"stored", "gone"} THEN "unset" ELSE IF dll THEN "success" ELSE "failed"

\* The driver touches the buffer, or the process, where it is not, and nothing
\* catches that.
Unreadable == buffer # "held" \/ ~alive
Bugcheck(from) == Unreadable /\ Goto(from, "bugcheck")
Faults(from) == ~alive /\ Goto(from, "bugcheck")

-----------------------------------------------------------------------------
(* IT_MMap.                                                                 *)

\* The image is copied to system memory first.
CopyImage ==
    /\ \/ Goto("copy", "map") /\ UNCHANGED << status, met >>
       \/ Goto("copy", "done") /\ status' = "failed" /\ Meets("setupFails")
    /\ UNCHANGED << mapVars, code, call, inThread, ok, event, apcs, worker, threads, alive, unread,
                    data, prot, buffer, stub, ended, dll, init, polls >>

BBMapUserImage == step = "map" /\ Driver /\ UNCHANGED injectVars

\* BBMapUserImage has returned, or was left by an exception, which is swallowed.
EndMapping ==
    /\ pc \in {"done", "thrown"} /\ Goto("map", "done")
    /\ UNCHANGED << vars, data, status, prot, buffer, stub, ended, dll, init, polls >>

-----------------------------------------------------------------------------
(* IT_Thread and IT_Apc.                                                    *)

\* Ntdll and its LdrLoadDll are looked for, and the protection is taken away.
FindLdrLoadDll ==
    /\ \/ alive /\ Goto("find", "code") /\ UNCHANGED << status, met >>
       \/ /\ Goto("find", "restore") /\ status' = "failed"
          /\ IF alive THEN Meets("loadFails") ELSE UNCHANGED met
       \/ Faults("find") /\ UNCHANGED << status, met >>
    /\ prot' = IF prot = "full" /\ step' # "bugcheck" THEN "taken" ELSE prot
    /\ UNCHANGED << mapVars, code, call, inThread, ok, event, apcs, worker, threads, alive, unread,
                    data, buffer, stub, ended, dll, init, polls >>

\* BBGetNativeCode or BBGetWow64Code, whose null nobody looks for.
GetCode ==
    /\ \/ Goto("code", data.type) /\ alive /\ buffer' = "held" /\ UNCHANGED met
       \/ /\ Goto("code", data.type) /\ UNCHANGED buffer
          /\ IF alive THEN Meets("setupFails") ELSE UNCHANGED met
       \/ Faults("code") /\ UNCHANGED << buffer, met >>
    /\ UNCHANGED << mapVars, code, call, inThread, ok, event, apcs, worker, threads, alive, unread,
                    data, status, prot, stub, ended, dll, init, polls >>

\* Something that runs the code is found, or not.
Executes == alive /\ UNCHANGED met /\ stub' = IF buffer = "held" THEN "queued" ELSE stub
Refused == (IF alive THEN Meets("callFails") ELSE UNCHANGED met) /\ UNCHANGED stub

\* BBExecuteInNewThread.  A thread that could not be made leaves its exit status
\* as it was, a success, and so the buffer is read.
ExecuteStub ==
    /\ \/ Executes /\ Goto("thread", IF data.wait THEN "wait" ELSE "module") /\ UNCHANGED status
       \/ Refused /\ Goto("thread", "module") /\ status' = "failed"
    /\ UNCHANGED << mapVars, code, call, inThread, ok, event, apcs, worker, threads, alive, unread,
                    data, prot, buffer, ended, dll, init, polls >>

\* The exit status of the thread is what LdrLoadDll returned; that of a thread
\* that died with its process is anything.  A wait that ran out is a success.
EndWait ==
    /\ \/ /\ stub = "gone" \/ ~alive
          /\ status' \in IF alive THEN {Stored} ELSE {"success", "failed"}
          /\ Goto("wait", IF status' = "failed" THEN "free" ELSE "module")
          /\ UNCHANGED met
       \/ Meets("late") /\ Goto("wait", "module") /\ UNCHANGED status
    /\ UNCHANGED << mapVars, code, call, inThread, ok, event, apcs, worker, threads, alive, unread,
                    data, prot, buffer, stub, ended, dll, init, polls >>

\* BBApcInject.
QueueStub ==
    /\ \/ Executes /\ Goto("apc", "poll") /\ UNCHANGED status
       \/ Refused /\ Goto("apc", "free") /\ status' = "failed"
    /\ UNCHANGED << mapVars, code, call, inThread, ok, event, apcs, worker, threads, alive, unread,
                    data, prot, buffer, ended, dll, init, polls >>

\* Mutant: the first look is the last.
MutPoll ==
    /\ Goto("poll", "status")
    /\ UNCHANGED << vars, data, status, prot, buffer, stub, ended, dll, init, polls >>

\* Whether the process or the thread with the APC is ending is asked first, and only
\* then for the note: a thread that ends after it has loaded the library, before
\* the next look, makes this a failure all the same.
\* When the polls run out the status is still that of the last delay, a success.
Poll ==
    /\ \/ /\ ~alive \/ ended
          /\ Goto("poll", "free") /\ status' = "failed" /\ UNCHANGED << polls, met >>
       \/ ~ended /\ Bugcheck("poll") /\ UNCHANGED << status, polls, met >>
       \/ /\ ~ended /\ ~Unreadable /\ Complete
          /\ Goto("poll", "status") /\ UNCHANGED << status, polls, met >>
       \/ /\ ~ended /\ ~Unreadable /\ ~Complete
          /\ polls' = polls + 1 /\ UNCHANGED status
          /\ \/ polls' < MaxPolls /\ Goto("poll", "poll") /\ UNCHANGED met
             \/ polls' = MaxPolls /\ Goto("poll", "status") /\ Meets("late")
    /\ UNCHANGED << mapVars, code, call, inThread, ok, event, apcs, worker, threads, alive, unread,
                    data, prot, buffer, stub, ended, dll, init >>

\* LdrLoadDll's status, as far as it has been stored.
ReadStatus ==
    /\ \/ Bugcheck("status") /\ UNCHANGED status
       \/ ~Unreadable /\ status' = Stored /\ Goto("status", IF Stored = "failed" THEN "free" ELSE "module")
    /\ UNCHANGED << vars, data, prot, buffer, stub, ended, dll, init, polls >>

\* With a base and an offset the init routine is called; nobody minds its failure.
ReadModule ==
    /\ \/ Bugcheck("module") /\ UNCHANGED << init, met >>
       \/ ~Unreadable /\ ~(dll /\ data.initRVA) /\ Goto("module", "free") /\ UNCHANGED << init, met >>
       \/ /\ ~Unreadable /\ dll /\ data.initRVA
          /\ \/ Goto("module", "init") /\ init' = "queued" /\ UNCHANGED met
             \/ /\ Goto("module", "free") /\ UNCHANGED init
                /\ IF ended THEN UNCHANGED met ELSE Meets("callFails")
    /\ UNCHANGED << mapVars, code, call, inThread, ok, event, apcs, worker, threads, alive, unread,
                    data, status, prot, buffer, stub, ended, dll, polls >>

\* A minute for a thread, a tenth of a second for an APC.
EndInit ==
    /\ Goto("init", "free")
    /\ IF init = "gone" \/ ended \/ ~alive THEN UNCHANGED met ELSE Meets("late")
    /\ UNCHANGED << mapVars, code, call, inThread, ok, event, apcs, worker, threads, alive, unread,
                    data, status, prot, buffer, stub, ended, dll, init, polls >>

FreeBuffer ==
    /\ Goto("free", "restore")
    /\ buffer' = IF buffer = "held" THEN "freed" ELSE buffer
    /\ UNCHANGED << vars, data, status, prot, stub, ended, dll, init, polls >>

RestoreProtection ==
    /\ Goto("restore", "done")
    /\ prot' = IF prot = "taken" THEN "full" ELSE prot
    /\ UNCHANGED << vars, data, status, buffer, stub, ended, dll, init, polls >>

-----------------------------------------------------------------------------
(* The process.                                                             *)

StubGoes(from, to) ==
    /\ alive /\ ~ended /\ stub = from /\ stub' = to
    /\ UNCHANGED << vars, data, step, status, prot, buffer, ended, init, polls >>

\* LdrLoadDll returns.
Load ==
    /\ StubGoes("loading", "loaded")
    /\ dll' = TRUE \/ ("loadFails" \in Env /\ UNCHANGED dll)

Stub ==
    \/ StubGoes("queued", "loading") /\ UNCHANGED dll
    \/ Load
    \/ StubGoes("loaded", "completed") /\ UNCHANGED dll
    \/ StubGoes("completed", "stored") /\ UNCHANGED dll
    \/ StubGoes("stored", "gone") /\ UNCHANGED dll

\* The thread with the APC ends, before the APC runs, in it, or after it.
ThreadEnds ==
    /\ alive /\ data.type = "apc" /\ stub # "none" /\ ended' = TRUE
    /\ UNCHANGED << vars, data, step, status, prot, buffer, stub, dll, init, polls >>

InitGoes ==
    /\ alive /\ ~ended
    /\ \/ init = "queued" /\ init' = "running"
       \/ init = "running" /\ init' = "gone"
    /\ UNCHANGED << vars, data, step, status, prot, buffer, stub, ended, dll, polls >>

-----------------------------------------------------------------------------

InjectInit ==
    /\ Init
    /\ data \in Requests
    /\ data.type # "mmap" => /\ imports = CHOOSE g \in Graphs : TRUE
                             /\ flags = CHOOSE f \in FlagSets : TRUE
                             /\ loaded = {}
    /\ step = IF data.type = "mmap" THEN "copy" ELSE "find"
    /\ prot \in IF data.type = "mmap" THEN {"none"} ELSE {"none", "full"}
    /\ status = "unset" /\ buffer = "none"
    /\ stub = "none" /\ ended = FALSE /\ dll = FALSE /\ init = "none" /\ polls = 0

BBApcInject == QueueStub \/ Poll \/ ReadStatus

BBInjectDll ==
    \/ CopyImage \/ BBMapUserImage \/ EndMapping
    \/ FindLdrLoadDll \/ GetCode \/ ExecuteStub \/ EndWait \/ BBApcInject
    \/ ReadModule \/ EndInit \/ FreeBuffer \/ RestoreProtection

InjectNext == BBInjectDll \/ Stub \/ ThreadEnds \/ InitGoes \/ (Process /\ UNCHANGED injectVars)

\* As in ManualMap, only the driver's thread is fair.
InjectSpec == InjectInit /\ [][InjectNext]_allVars /\ WF_allVars(BBInjectDll)

-----------------------------------------------------------------------------
(* Properties.                                                              *)

InjectTypeOK ==
    /\ data \in Requests
    /\ step \in {"copy", "map", "find", "code", "thread", "wait", "apc", "poll", "status", "module",
                 "init", "free", "restore", "done", "bugcheck"}
    /\ status \in {"unset", "success", "failed"} /\ prot \in {"none", "full", "taken"}
    /\ buffer \in {"none", "held", "freed"}
    /\ stub \in {"none", "queued", "loading", "loaded", "completed", "stored", "gone"}
    /\ ended \in BOOLEAN /\ dll \in BOOLEAN
    /\ init \in {"none", "queued", "running", "gone"} /\ polls \in 0 .. MaxPolls

\* Unless a wait ran out, or the caller did not want to wait, the buffer is freed
\* when nobody is in it or still to come: but for an APC's last instructions, which
\* follow the note.  A thread that has ended is nowhere.
UsersAreDone ==
    buffer = "freed" /\ alive /\ data.wait /\ "late" \notin met /\ ~ended =>
        /\ stub \in IF data.type = "apc" THEN {"none", "completed", "stored", "gone"}
                                         ELSE {"none", "gone"}
        /\ init \notin {"queued", "running"}

\* A success that was stored is one, and a failure means that nothing has been nor
\* will be loaded, also when the process had exited: unless it did so afterwards.
\* The failure that is false is that of an APC whose thread loaded the library and
\* ended before the driver looked at its note.
StatusIsTrue ==
    step = "done" /\ data.type # "mmap" =>
        /\ status = "success" /\ alive => dll
        /\ status = "failed" /\ alive => ended \/ (~dll /\ stub \notin {"queued", "loading"})
        /\ status = "unset" => ~data.wait \/ "late" \in met \/ (data.type = "apc" /\ Complete)

\* The process gets its protection back, whatever fails.
ProtectionIsBack == step = "done" => prot # "taken"

\* The driver reads only what is there, as long as the process lives and the buffer
\* could be had.
BugchecksHaveReasons == step = "bugcheck" => buffer = "none" \/ ~alive

\* An injection by thread or by APC keeps its buffer as long as it is needed,
\* reports what happened, and leaves the process as protected as it was.
InjectionIsSound ==
    InjectTypeOK /\ UsersAreDone /\ StatusIsTrue /\ ProtectionIsBack /\ BugchecksHaveReasons

\* BBInjectDll returns, whatever the process does and however images import each
\* other.
InjectionEnds == <>(step \in {"done", "bugcheck"})
=============================================================================
