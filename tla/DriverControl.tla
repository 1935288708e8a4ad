---------------------------- MODULE DriverControl ----------------------------
(***************************************************************************)
(* The life of the driver (OpenKAC/Driver.cpp), the requests it dispatches  *)
(* (OpenKAC/ioctls.cpp) and the anti-cheat object they work on              *)
(* (OpenKAC/AntiCheat.cpp).                                                 *)
(*                                                                         *)
(* Clients are processes with one handle on the device and one request at a *)
(* time, so that requests of different clients interleave; nothing in the   *)
(* driver serialises them.  A member of Process is a process OBJECT: it     *)
(* lives, exits, and is deleted when nobody references it, which frees its  *)
(* process id for another object.                                          *)
(***************************************************************************)
EXTENDS FiniteSets

CONSTANTS
    Process,    \* process objects
    Pid,        \* process ids
    Nobody,     \* the null PEPROCESS, PETHREAD and AntiCheat pointer
    Setter,     \* the processes that ask for setProcess
    ByName,     \* the processes that may open the device by its native name
    Failures    \* the steps of DriverEntry that may fail

ASSUME NobodyAssumption == Nobody \notin Process /\ Nobody \notin Pid
ASSUME SetterAssumption == Setter \subseteq Process
ASSUME ByNameAssumption == ByName \subseteq Process
ASSUME FailuresAssumption == Failures \subseteq {"ldrData", "notify", "link"}

VARIABLES
    driver,     \* how far DriverEntry or UnloadDriver has come
    device,     \* the device object exists
    link,       \* ... and so does its symbolic link
    notify,     \* BBProcessNotify is registered
    ac,         \* OpenKAC::AntiCheat::ac is not null
    proc,       \* ioctls::proc
    acProc,     \* AntiCheat::proc
    acThread,   \* AntiCheat::acThread, named by the client that started it
    running,    \* the threads that run KstartRoutine
    held,       \* objects the driver holds a reference to and never releases
    life,       \* the state of a process object
    pid,        \* its process id, which a deleted object still shows
    files,      \* the clients with a file object of the device
    native,     \* ... and those of them that opened it by its native name
    pc,         \* where the request of a client stands
    arg,        \* the pid a setProcess request names
    dll,        \* the pid a umACmodule request injects into
    target,     \* the process object a request works on
    reply       \* the last value sent back to a client

driverVars  == << driver, device, link, notify, ac >>
objectVars  == << proc, acProc, acThread, running >>
clientVars  == << files, native, pc, arg, dll, target, reply >>
processVars == << life, pid >>
vars == << driverVars, objectVars, held, processVars, clientVars >>

Loaded  == driver # "absent"            \* the image is in memory
Up      == driver # "bugcheck"          \* the system has not stopped on a bug check
InCall  == {"lookup", "setProc", "thread", "inject", "mapping"}
Replies == {"none", "refused", "granted"}

-----------------------------------------------------------------------------
(* DriverEntry and UnloadDriver.                                            *)

\* The image is mapped, its globals are zero, and the device is created.  The
\* name of a device that was left behind makes the creation fail.
IoCreateDevice ==
    /\ driver = "absent" /\ ~device
    /\ driver' = "ldrData" /\ device' = TRUE
    /\ ac' = FALSE /\ proc' = Nobody /\ acProc' = Nobody /\ acThread' = Nobody
    /\ UNCHANGED << link, notify, running, held, processVars, clientVars >>

\* DriverEntry returns a failure and deletes nothing.  The device object keeps
\* the driver object, and with it the image.
FailAt(step) ==
    /\ driver = step /\ step \in Failures
    /\ driver' = "failed"
    /\ UNCHANGED << device, link, notify, ac, objectVars, held, processVars, clientVars >>

BBInitLdrData ==
    /\ driver = "ldrData" /\ driver' = "notify"
    /\ UNCHANGED << device, link, notify, ac, objectVars, held, processVars, clientVars >>

PsSetCreateProcessNotifyRoutine ==
    /\ driver = "notify"
    /\ driver' = "features" /\ notify' = TRUE
    /\ UNCHANGED << device, link, ac, objectVars, held, processVars, clientVars >>

\* Without AVX the driver stays loaded, with no object and no link.
CheckFeatures ==
    /\ driver = "features"
    /\ \/ driver' = "running" /\ UNCHANGED ac
       \/ driver' = "link" /\ ac' = TRUE
    /\ UNCHANGED << device, link, notify, objectVars, held, processVars, clientVars >>

\* When the link cannot be created the device is deleted, for those who do not
\* have it open, and nothing else: not the notify routine, not the object.
IoCreateSymbolicLink ==
    /\ driver = "link"
    /\ \/ driver' = "running" /\ link' = TRUE /\ UNCHANGED device
       \/ "link" \in Failures /\ driver' = "deleting" /\ device' = FALSE /\ UNCHANGED link
    /\ UNCHANGED << notify, ac, objectVars, held, processVars, clientVars >>

\* The device goes with its last file object, and with it the last reference to
\* the driver object: the image is unmapped.
DeleteDevice ==
    /\ driver = "deleting" /\ files = {}
    /\ driver' = "absent"
    /\ UNCHANGED << device, link, notify, ac, objectVars, held, processVars, clientVars >>

\* The driver is told to stop: nobody can open the device any more.
Stop ==
    /\ driver = "running" /\ driver' = "stopping"
    /\ UNCHANGED << device, link, notify, ac, objectVars, held, processVars, clientVars >>

\* Mutant: runs while the device is still open.
MutUnloadOpen ==
    /\ driver = "stopping"
    /\ driver' = "destroy"
    /\ notify' = FALSE /\ link' = FALSE /\ device' = FALSE
    /\ UNCHANGED << ac, objectVars, held, processVars, clientVars >>

\* Mutant: the notify routine stays registered.
MutUnloadDriver ==
    /\ driver = "stopping" /\ files = {}
    /\ driver' = "destroy" /\ link' = FALSE /\ device' = FALSE
    /\ UNCHANGED << notify, ac, objectVars, held, processVars, clientVars >>

\* The I/O manager calls UnloadDriver once the last file object is gone.
UnloadDriver ==
    /\ driver = "stopping" /\ files = {}
    /\ driver' = "destroy"
    /\ notify' = FALSE /\ link' = FALSE /\ device' = FALSE
    /\ UNCHANGED << ac, objectVars, held, processVars, clientVars >>

\* Mutant: the destructor does not wait for its thread.
MutDestroy ==
    /\ driver = "destroy"
    /\ driver' = "absent" /\ ac' = FALSE
    /\ UNCHANGED << device, link, notify, objectVars, held, processVars, clientVars >>

\* ~AntiCheat waits for its thread; then the image is unmapped.
Destroy ==
    /\ driver = "destroy" /\ (ac => acThread \notin running)
    /\ driver' = "absent" /\ ac' = FALSE
    /\ UNCHANGED << device, link, notify, objectVars, held, processVars, clientVars >>

-----------------------------------------------------------------------------
(* Requests.                                                                *)

\* The device can be opened once DriverEntry has cleared DO_DEVICE_INITIALIZING,
\* which it does before it asks for AVX and before it makes the object.
CanOpen == device /\ driver \in {"features", "link", "running"}

\* A client opens the device, by its symbolic link or by its native name.
\* CreateClose checks nothing.
Open(c) ==
    /\ life[c] = "alive" /\ c \notin files /\ CanOpen
    /\ \/ link /\ UNCHANGED native
       \/ c \in ByName /\ native' = native \cup {c}
    /\ files' = files \cup {c}
    /\ reply' = [reply EXCEPT ![c] = "none"]
    /\ UNCHANGED << driverVars, objectVars, held, processVars, pc, arg, dll, target >>

\* The file object goes with the handle, unless a request still uses it.
Close(c) ==
    /\ c \in files /\ pc[c] = "idle"
    /\ files' = files \ {c} /\ native' = native \ {c}
    /\ UNCHANGED << driverVars, objectVars, held, processVars, pc, arg, dll, target, reply >>

Idle(c) == c \in files /\ pc[c] = "idle" /\ life[c] = "alive"

\* Mutant: returns without completing the request when the copy fails.
MutSendback(c, value) ==
    /\ held' = held \cup {c}
    /\ \/ reply' = [reply EXCEPT ![c] = value] /\ pc' = [pc EXCEPT ![c] = "idle"]
       \/ UNCHANGED << reply, pc >>

\* Sendback looks the caller up, and never dereferences it; it completes the
\* request whether or not the value reaches the client.
Sendback(c, value) ==
    /\ held' = held \cup {c}
    /\ \/ reply' = [reply EXCEPT ![c] = value]
       \/ UNCHANGED reply
    /\ pc' = [pc EXCEPT ![c] = "idle"]

\* Every check that fails before a request has an effect: no receive buffer, a
\* wrong size, no process set, a heartbeat of another process, ...  (A request
\* without a buffer is completed at once and changes nothing.)
Refuse(c) ==
    /\ Idle(c) /\ Sendback(c, "refused")
    /\ UNCHANGED << driverVars, objectVars, processVars, files, native, arg, dll, target >>

\* Mutant: forgets that a process may be set.
MutSetProcess(c, p) ==
    /\ Idle(c) /\ c \in Setter
    /\ pc' = [pc EXCEPT ![c] = "lookup"] /\ arg' = [arg EXCEPT ![c] = p]
    /\ UNCHANGED << driverVars, objectVars, held, processVars, files, native, dll, target, reply >>

\* DeviceControl, setProcess: the check ...
SetProcess(c, p) ==
    /\ Idle(c) /\ c \in Setter
    /\ IF proc # Nobody
       THEN Sendback(c, "refused") /\ UNCHANGED arg
       ELSE /\ pc' = [pc EXCEPT ![c] = "lookup"] /\ arg' = [arg EXCEPT ![c] = p]
            /\ UNCHANGED << held, reply >>
    /\ UNCHANGED << driverVars, objectVars, processVars, files, native, dll, target >>

\* The object a process id stands for, until the object is deleted.
Found(p) == {o \in Process : life[o] # "free" /\ pid[o] = p}

\* Mutant: does not keep the reference that comes with the object.
MutLookupProcess(c) ==
    /\ pc[c] = "lookup"
    /\ IF Found(arg[c]) = {}
       THEN Sendback(c, "refused") /\ UNCHANGED proc
       ELSE /\ proc' \in Found(arg[c])
            /\ pc' = [pc EXCEPT ![c] = "setProc"]
            /\ UNCHANGED << held, reply >>
    /\ UNCHANGED << driverVars, acProc, acThread, running, processVars, files, native, arg, dll, target >>

\* ... PsLookupProcessByProcessId straight into the global ...
LookupProcess(c) ==
    /\ pc[c] = "lookup"
    /\ IF Found(arg[c]) = {}
       THEN Sendback(c, "refused") /\ UNCHANGED proc
       ELSE /\ proc' \in Found(arg[c])
            /\ held' = held \cup {proc'}
            /\ pc' = [pc EXCEPT ![c] = "setProc"]
            /\ UNCHANGED reply
    /\ UNCHANGED << driverVars, acProc, acThread, running, processVars, files, native, arg, dll, target >>

\* ... and CreateDriverCppObject, which reads the global again and takes the
\* object for granted: without it this is a write through a null pointer.
AcSetProcess(c) ==
    /\ pc[c] = "setProc"
    /\ IF ac THEN /\ acProc' = proc
                  /\ pc' = [pc EXCEPT ![c] = "thread"]
                  /\ UNCHANGED driver
             ELSE driver' = "bugcheck" /\ UNCHANGED << acProc, pc >>
    /\ UNCHANGED << device, link, notify, ac, proc, acThread, running, held,
                    processVars, files, native, arg, dll, target, reply >>

\* PsCreateSystemThread may fail, which nobody notices.
AcCreateThread(c) ==
    /\ pc[c] = "thread"
    /\ \/ acThread' = c /\ running' = running \cup {c}
       \/ UNCHANGED << acThread, running >>
    /\ Sendback(c, "granted")
    /\ UNCHANGED << driverVars, proc, acProc, processVars, files, native, arg, dll, target >>

\* Mutant: never terminates.
MutKstartRoutine(c) == c \in running /\ FALSE /\ UNCHANGED vars

\* The thread of the anti-cheat object terminates itself.
KstartRoutine(c) ==
    /\ c \in running /\ running' = running \ {c}
    /\ UNCHANGED << driverVars, proc, acProc, acThread, held, processVars, clientVars >>

\* A heartbeat that comes from the process set, by its id, is accepted: and
\* never completed.
Heartbeat(c) ==
    /\ Idle(c) /\ proc # Nobody /\ pid[c] = pid[proc]
    /\ pc' = [pc EXCEPT ![c] = "beating"]
    /\ UNCHANGED << driverVars, objectVars, held, processVars, files, native, arg, dll, target, reply >>

\* detectstatus, an accepted pdbFiles, and unknown codes are not completed either.
Unanswered(c) ==
    /\ Idle(c)
    /\ pc' = [pc EXCEPT ![c] = "unanswered"]
    /\ UNCHANGED << driverVars, objectVars, held, processVars, files, native, arg, dll, target, reply >>

\* Mutant: passes the process instead of its id.
MutUmACmodule(c) ==
    /\ Idle(c) /\ proc # Nobody
    /\ pc' = [pc EXCEPT ![c] = "inject"] /\ dll' = [dll EXCEPT ![c] = proc]
    /\ UNCHANGED << driverVars, objectVars, held, processVars, files, native, arg, target, reply >>

\* umACmodule takes the pid of the process set ...
UmACmodule(c) ==
    /\ Idle(c) /\ proc # Nobody
    /\ pc' = [pc EXCEPT ![c] = "inject"] /\ dll' = [dll EXCEPT ![c] = pid[proc]]
    /\ UNCHANGED << driverVars, objectVars, held, processVars, files, native, arg, target, reply >>

\* ... for BBInjectDll to look up and reference.  The termination it then asks
\* about is that of the calling process, which runs.
BBInjectDll(c) ==
    /\ pc[c] = "inject"
    /\ IF Found(dll[c]) = {}
       THEN Sendback(c, "refused") /\ UNCHANGED target
       ELSE /\ \E o \in Found(dll[c]) : target' = [target EXCEPT ![c] = o]
            /\ pc' = [pc EXCEPT ![c] = "mapping"]
            /\ UNCHANGED << held, reply >>
    /\ UNCHANGED << driverVars, objectVars, processVars, files, native, arg, dll >>

\* BBMapUserImage returns, the target is dereferenced, and the client hears 0.
EndInjection(c) ==
    /\ pc[c] = "mapping"
    /\ target' = [target EXCEPT ![c] = Nobody]
    /\ Sendback(c, "refused")
    /\ UNCHANGED << driverVars, objectVars, processVars, files, native, arg, dll >>

-----------------------------------------------------------------------------
(* Processes.                                                               *)

Create(o, p) ==
    /\ life[o] = "free" /\ Found(p) = {}
    /\ life' = [life EXCEPT ![o] = "alive"] /\ pid' = [pid EXCEPT ![o] = p]
    /\ UNCHANGED << driverVars, objectVars, held, clientVars >>

\* A thread inside a request returns before its process can end; one whose
\* request was abandoned by the driver does not.
Exit(o) ==
    /\ life[o] = "alive" /\ pc[o] \notin InCall
    /\ life' = [life EXCEPT ![o] = "exited"]
    /\ IF pc[o] = "idle" THEN files' = files \ {o} /\ native' = native \ {o}
                         ELSE UNCHANGED << files, native >>
    /\ UNCHANGED << driverVars, objectVars, held, pid, pc, arg, dll, target, reply >>

\* The object goes with its last reference, and its id becomes free.
Delete(o) ==
    /\ life[o] = "exited" /\ o \notin held /\ o \notin files
    /\ \A c \in Process : target[c] # o
    /\ life' = [life EXCEPT ![o] = "free"]
    /\ UNCHANGED << driverVars, objectVars, held, pid, clientVars >>

-----------------------------------------------------------------------------

Init ==
    /\ driver = "absent"
    /\ device = FALSE /\ link = FALSE /\ notify = FALSE /\ ac = FALSE
    /\ proc = Nobody /\ acProc = Nobody /\ acThread = Nobody /\ running = {}
    /\ held = {}
    /\ life = [o \in Process |-> "free"]
    /\ pid = [o \in Process |-> Nobody]
    /\ files = {} /\ native = {}
    /\ pc = [c \in Process |-> "idle"]
    /\ arg = [c \in Process |-> Nobody] /\ dll = [c \in Process |-> Nobody]
    /\ target = [c \in Process |-> Nobody]
    /\ reply = [c \in Process |-> "none"]

DriverEntry ==
    \/ IoCreateDevice \/ FailAt("ldrData") \/ BBInitLdrData
    \/ FailAt("notify") \/ PsSetCreateProcessNotifyRoutine
    \/ CheckFeatures \/ IoCreateSymbolicLink \/ DeleteDevice

Unload == UnloadDriver \/ Destroy

\* The steps of a request that has passed its checks.
InDriver(c) ==
    \/ LookupProcess(c) \/ AcSetProcess(c) \/ AcCreateThread(c)
    \/ BBInjectDll(c) \/ EndInjection(c)

Client(c) ==
    \/ Open(c) \/ Close(c)
    \/ Refuse(c) \/ Heartbeat(c) \/ Unanswered(c) \/ UmACmodule(c)
    \/ \E p \in Pid : SetProcess(c, p)
    \/ InDriver(c)

Next ==
    /\ Up
    /\ \/ DriverEntry \/ Stop \/ Unload
       \/ \E c \in Process : Client(c) \/ KstartRoutine(c) \/ Exit(c) \/ Delete(c)
       \/ \E o \in Process, p \in Pid : Create(o, p)

\* Threads inside the driver are scheduled: a request in progress, the thread of
\* the anti-cheat object, and the system thread that unloads.  Nobody has to
\* send a request, close a handle, exit or stop the driver.
Fairness ==
    /\ WF_vars(Unload)
    /\ \A c \in Process : WF_vars(Up /\ InDriver(c)) /\ WF_vars(Up /\ KstartRoutine(c))

Spec == Init /\ [][Next]_vars /\ Fairness

-----------------------------------------------------------------------------
(* Properties.                                                              *)

TypeOK ==
    /\ driver \in {"absent", "ldrData", "notify", "features", "link", "running",
                   "stopping", "destroy", "failed", "deleting", "bugcheck"}
    /\ device \in BOOLEAN /\ link \in BOOLEAN /\ notify \in BOOLEAN /\ ac \in BOOLEAN
    /\ proc \in Process \cup {Nobody} /\ acProc \in Process \cup {Nobody}
    /\ acThread \in Process \cup {Nobody}
    /\ running \subseteq Process /\ held \subseteq Process /\ files \subseteq Process
    /\ native \subseteq files
    /\ life \in [Process -> {"free", "alive", "exited"}]
    /\ pid \in [Process -> Pid \cup {Nobody}]
    /\ pc \in [Process -> InCall \cup {"idle", "beating", "unanswered"}]
    /\ arg \in [Process -> Pid \cup {Nobody}] /\ dll \in [Process -> Pid \cup {Nobody}]
    /\ target \in [Process -> Process \cup {Nobody}]
    /\ reply \in [Process -> Replies]

\* Once the image is unmapped nothing can run in it: UnloadDriver unregisters the
\* notify routine, ~AntiCheat waits for the thread, and no request is left.
NothingRunsUnloaded ==
    ~Loaded => /\ ~notify /\ running = {}
               /\ \A c \in Process : pc[c] = "idle"

\* DeviceControl uses AntiCheat::ac unchecked.  Whoever opened the device by its
\* link finds the object, until the request is over and the handle closed.  The
\* native name gives no such promise: before the link is made, and for ever on
\* a processor without AVX, there may be none.
RequestsFindObject ==
    \A c \in Process :
        c \in files \/ pc[c] # "idle" => ac \/ (c \in native /\ ~link)

\* A heartbeat is matched by process id; the id must still be that of the object
\* setProcess found, not of a later process with the same id.
HeartbeatIsFromProc ==
    \A c \in Process : pc[c] = "beating" => c = proc

\* A module is injected by process id, too: into no process but the one set.
InjectsIntoProc ==
    \A c \in Process : target[c] # Nobody => target[c] = proc

\* setProcess answers KAC_PROCCESS_ALREADY_SET ("Process already set") to a
\* second request: while the driver runs, proc is set once.
ProcIsSetOnce ==
    [][proc # Nobody /\ driver' # "ldrData" => proc' = proc]_vars

\* A client that was told 1 has the process it named protected, by the dispatch
\* routine and by the anti-cheat object alike.
GrantedIsProtected ==
    \A c \in files : reply[c] = "granted" /\ pc[c] = "idle" =>
        proc # Nobody /\ pid[proc] = arg[c] /\ acProc = proc

\* A request that has passed its checks is completed, unless the system stops
\* because some client found no object.
RequestsEnd ==
    \A c \in Process : pc[c] \in InCall ~> pc[c] = "idle" \/ ~Up

\* A driver told to stop is gone once its clients have closed their handles.
StopEnds ==
    (driver = "stopping" /\ files = {}) ~> ~Loaded
=============================================================================
