-------------------------- MODULE DriverControl_proofs --------------------------
(***************************************************************************)
(* Proofs about DriverControl, for any set of processes and process ids.    *)
(*                                                                         *)
(* Two layers.  Without any assumption a client that opened the device by   *)
(* its link finds the object that DeviceControl uses unchecked, because the *)
(* link is created after the object, and UnloadDriver runs only when no     *)
(* file object is left; one that used the native name may find none.  What  *)
(* relies on one process being set once needs Careful: at most one process  *)
(* asks for setProcess, and the symbolic link can be created.  Without it   *)
(* the runs show the counterexamples.  In both layers any client may open   *)
(* the device by its native name, at any moment it can be opened.           *)
(***************************************************************************)
EXTENDS DriverControl, TLAPS

\* The device may be open.
Serving == driver \in {"features", "link", "running", "stopping", "deleting", "bugcheck"}

\* The device is open, and a request in progress, only while the image serves it;
\* the link is never there without the object, and stays as long as somebody has
\* the device open by it.
OpenIsServed ==
    /\ driver = "link" => ac
    /\ driver \in {"ldrData", "notify", "features", "bugcheck"} => ~ac
    /\ link => ac /\ driver \in {"running", "stopping"}
    /\ files # {} => Serving
    /\ \A c \in Process :
          /\ pc[c] # "idle" => c \in files
          /\ c \in files /\ c \notin native => link
          /\ pc[c] = "thread" => ac

Base == TypeOK /\ OpenIsServed

Careful ==
    /\ \A s, t \in Setter : s = t
    /\ "link" \notin Failures

\* Who is referenced is not deleted, and process ids are unique.
ReferencedStay ==
    /\ \A o \in held \cup files : life[o] # "free"
    /\ \A o, q \in Process : life[o] # "free" /\ life[q] # "free" /\ pid[o] = pid[q] => o = q
    /\ proc # Nobody => proc \in held

\* One setProcess from its check to its answer.
SetOnce ==
    \A c \in Process :
        /\ pc[c] \in {"lookup", "setProc", "thread"} => c \in Setter
        /\ pc[c] = "lookup" => proc = Nobody
        /\ pc[c] \in {"setProc", "thread"} => proc # Nobody /\ pid[proc] = arg[c]
        /\ pc[c] = "thread" => acProc = proc
        /\ c \in files /\ reply[c] = "granted" =>
              c \in Setter /\ proc # Nobody /\ acProc = proc /\ pid[proc] = arg[c]

\* What later requests take from the process set.
FromProc ==
    \A c \in Process :
        /\ pc[c] = "beating" => c = proc
        /\ pc[c] = "inject" => proc # Nobody /\ dll[c] = pid[proc]
        /\ target[c] # Nobody => target[c] = proc /\ pc[c] = "mapping"

\* What the image must outlive.
Registrations ==
    /\ driver # "deleting"
    /\ notify => driver \in {"features", "link", "running", "stopping", "bugcheck"}
    /\ \A c \in running : c = acThread /\ c \in Setter /\ ac
                          /\ driver \in {"link", "running", "stopping", "destroy"}

CInv == Base /\ ReferencedStay /\ SetOnce /\ FromProc /\ Registrations

-----------------------------------------------------------------------------
(* The unconditional part.                                                  *)

LEMMA InitBase == Init => Base
<1> SUFFICES ASSUME Init PROVE TypeOK /\ OpenIsServed
  BY DEF Base
<1>1. TypeOK
  BY DEF Init, TypeOK, InCall, Replies
<1>2. OpenIsServed
  BY DEF Init, OpenIsServed
<1> QED BY <1>1, <1>2

\* The answer of a request leaves everything well typed.
LEMMA SendbackType ==
    ASSUME TypeOK, NEW c \in Process, NEW value \in Replies, Sendback(c, value)
    PROVE  /\ held' \in SUBSET Process
           /\ reply' \in [Process -> Replies]
           /\ pc' = [pc EXCEPT ![c] = "idle"]
BY DEF Sendback, TypeOK

LEMMA DriverBase ==
    ASSUME Base, DriverEntry \/ Stop \/ Unload
    PROVE  Base'
<1> USE DEF driverVars, objectVars, clientVars, processVars, Serving
<1>0. TypeOK /\ OpenIsServed
  BY DEF Base
<1>1. TypeOK'
  <2>1. CASE DriverEntry
    BY <1>0, <2>1 DEF DriverEntry, IoCreateDevice, FailAt, BBInitLdrData,
       PsSetCreateProcessNotifyRoutine, CheckFeatures, IoCreateSymbolicLink, DeleteDevice, TypeOK
  <2>2. CASE Stop \/ Unload
    BY <1>0, <2>2 DEF Stop, Unload, UnloadDriver, Destroy, TypeOK
  <2> QED BY <2>1, <2>2
<1>2. OpenIsServed'
  <2>1. CASE DriverEntry
    <3>1. ~link /\ UNCHANGED << files, native, pc >>
      BY <1>0, <2>1 DEF DriverEntry, IoCreateDevice, FailAt, BBInitLdrData, DeleteDevice,
         PsSetCreateProcessNotifyRoutine, CheckFeatures, IoCreateSymbolicLink, OpenIsServed
    <3>2. CASE IoCreateDevice \/ FailAt("ldrData") \/ FailAt("notify") \/ BBInitLdrData
      <4>1. files = {}
        BY <1>0, <3>2 DEF IoCreateDevice, FailAt, BBInitLdrData, OpenIsServed
      <4> QED BY <1>0, <3>1, <3>2, <4>1 DEF IoCreateDevice, FailAt, BBInitLdrData, OpenIsServed
    <3>3. CASE PsSetCreateProcessNotifyRoutine \/ CheckFeatures
      BY <1>0, <3>1, <3>3 DEF PsSetCreateProcessNotifyRoutine, CheckFeatures, OpenIsServed
    <3>4. CASE IoCreateSymbolicLink \/ DeleteDevice
      BY <1>0, <3>1, <3>4 DEF IoCreateSymbolicLink, DeleteDevice, OpenIsServed
    <3> QED BY <2>1, <3>2, <3>3, <3>4 DEF DriverEntry
  <2>2. CASE Stop \/ Unload
    BY <1>0, <2>2 DEF Stop, Unload, UnloadDriver, Destroy, TypeOK, OpenIsServed
  <2> QED BY <2>1, <2>2
<1> QED BY <1>1, <1>2 DEF Base

\* The processes a lookup by id can return.
LEMMA FoundIsProcess == \A p : Found(p) \subseteq Process
BY DEF Found

LEMMA ClientBase ==
    ASSUME Base, NEW c \in Process, Client(c)
    PROVE  Base'
<1> USE DEF driverVars, objectVars, clientVars, processVars
<1>0. TypeOK /\ OpenIsServed
  BY DEF Base
<1>1. CASE Open(c) \/ Close(c)
  <2>1. TypeOK'
    BY <1>0, <1>1 DEF Open, Close, TypeOK, Replies
  <2>2. OpenIsServed'
    BY <1>0, <1>1 DEF Open, CanOpen, Close, OpenIsServed, Serving, TypeOK
  <2> QED BY <2>1, <2>2 DEF Base
<1>2. CASE Refuse(c) \/ Heartbeat(c) \/ Unanswered(c) \/ UmACmodule(c)
  <2>1. TypeOK'
    BY <1>0, <1>2 DEF Refuse, Heartbeat, Unanswered, UmACmodule, Sendback, TypeOK, Replies, InCall
  <2>2. OpenIsServed'
    BY <1>0, <1>2 DEF Refuse, Heartbeat, Unanswered, UmACmodule, Sendback, Idle,
       OpenIsServed, Serving, TypeOK
  <2> QED BY <2>1, <2>2 DEF Base
<1>3. CASE \E p \in Pid : SetProcess(c, p)
  <2>1. TypeOK'
    BY <1>0, <1>3 DEF SetProcess, Sendback, TypeOK, Replies, InCall
  <2>2. OpenIsServed'
    BY <1>0, <1>3 DEF SetProcess, Sendback, Idle, OpenIsServed, Serving, TypeOK
  <2> QED BY <2>1, <2>2 DEF Base
<1>4. CASE InDriver(c)
  <2>1. /\ UNCHANGED << link, files, native, ac, life, pid >>
        /\ \A d \in Process : d # c => pc'[d] = pc[d]
        /\ pc[c] # "idle"
        /\ pc'[c] = "thread" => ac
        /\ driver' = driver \/ (~ac /\ driver' = "bugcheck")
    BY <1>0, <1>4 DEF InDriver, LookupProcess, AcSetProcess, AcCreateThread, BBInjectDll,
       EndInjection, Sendback, TypeOK
  <2>2. OpenIsServed'
    BY <1>0, <2>1 DEF OpenIsServed, Serving
  <2>3. CASE LookupProcess(c) \/ AcSetProcess(c) \/ AcCreateThread(c)
    <3>1. TypeOK'
      BY <1>0, <2>3, FoundIsProcess DEF LookupProcess, AcSetProcess, AcCreateThread, Sendback,
         TypeOK, Replies, InCall
    <3> QED BY <2>2, <3>1 DEF Base
  <2>4. CASE BBInjectDll(c) \/ EndInjection(c)
    <3>1. TypeOK'
      BY <1>0, <2>4, FoundIsProcess DEF BBInjectDll, EndInjection, Sendback, TypeOK, Replies, InCall
    <3> QED BY <2>2, <3>1 DEF Base
  <2> QED BY <1>4, <2>3, <2>4 DEF InDriver
<1> QED BY <1>1, <1>2, <1>3, <1>4 DEF Client

ProcessStep(c) ==
    KstartRoutine(c) \/ Exit(c) \/ Delete(c) \/ \E p \in Pid : Create(c, p)

LEMMA ProcessBase ==
    ASSUME Base, NEW c \in Process, ProcessStep(c)
    PROVE  Base'
<1> USE DEF driverVars, objectVars, clientVars, processVars, ProcessStep
<1>0. TypeOK /\ OpenIsServed
  BY DEF Base
<1>1. TypeOK'
  BY <1>0 DEF KstartRoutine, Exit, Delete, Create, TypeOK
<1>2. OpenIsServed'
  BY <1>0 DEF KstartRoutine, Exit, Delete, Create, OpenIsServed, Serving
<1> QED BY <1>1, <1>2 DEF Base

LEMMA NextBase == Base /\ [Next]_vars => Base'
<1> SUFFICES ASSUME Base, [Next]_vars PROVE Base'
  OBVIOUS
<1>1. CASE UNCHANGED vars
  BY <1>1 DEF vars, driverVars, objectVars, clientVars, processVars, Base, TypeOK,
     OpenIsServed, Serving
<1>2. CASE DriverEntry \/ Stop \/ Unload
  BY <1>2, DriverBase
<1>3. CASE \E c \in Process : Client(c)
  BY <1>3, ClientBase
<1>4. CASE \E c \in Process : ProcessStep(c)
  BY <1>4, ProcessBase
<1> QED BY <1>1, <1>2, <1>3, <1>4 DEF Next, ProcessStep

\* The state is well typed, for any number of clients and whatever fails.
THEOREM TypeCorrect == Spec => []TypeOK
<1>1. Base => TypeOK
  BY DEF Base
<1> QED BY <1>1, InitBase, NextBase, PTL DEF Spec

\* DeviceControl runs without the object AntiCheat::ac points to only for a
\* client that opened the device by its native name, and only while there is no
\* link: whoever came by the link finds the object until its handle is closed.
THEOREM ObjectIsThere == Spec => []RequestsFindObject
<1>1. Base => RequestsFindObject
  BY DEF Base, OpenIsServed, RequestsFindObject
<1> QED BY <1>1, InitBase, NextBase, PTL DEF Spec

-----------------------------------------------------------------------------
(* With one client that sets the process and a link that can be created.    *)

LEMMA InitCareful == Init => CInv
<1> SUFFICES ASSUME Init PROVE CInv
  OBVIOUS
<1>1. Base
  BY InitBase
<1>2. ReferencedStay /\ SetOnce
  BY DEF Init, ReferencedStay, SetOnce
<1>3. FromProc /\ Registrations
  BY DEF Init, FromProc, Registrations
<1> QED BY <1>1, <1>2, <1>3 DEF CInv

LEMMA DriverCareful ==
    ASSUME Careful, CInv, DriverEntry \/ Stop \/ Unload
    PROVE  CInv'
<1> USE DEF driverVars, objectVars, clientVars, processVars
<1>0. /\ TypeOK /\ OpenIsServed /\ ReferencedStay /\ SetOnce /\ FromProc /\ Registrations
      /\ Base'
  BY DriverBase DEF CInv, Base
<1>1. CASE IoCreateDevice
  <2>1. files = {} /\ running = {} /\ ~notify /\ \A c \in Process : pc[c] = "idle"
    BY <1>0, <1>1 DEF IoCreateDevice, OpenIsServed, Serving, Registrations, TypeOK
  <2>2. ReferencedStay' /\ SetOnce'
    BY <1>0, <1>1, <2>1 DEF IoCreateDevice, ReferencedStay, SetOnce
  <2>3. FromProc' /\ Registrations'
    BY <1>0, <1>1, <2>1 DEF IoCreateDevice, FromProc, Registrations
  <2> QED BY <1>0, <2>2, <2>3 DEF CInv
<1>2. CASE ~IoCreateDevice
  <2>1. UNCHANGED << objectVars, held, processVars, clientVars >>
    BY <1>2 DEF DriverEntry, FailAt, BBInitLdrData, PsSetCreateProcessNotifyRoutine,
       CheckFeatures, IoCreateSymbolicLink, DeleteDevice, Stop, Unload, UnloadDriver, Destroy
  <2>2. ReferencedStay' /\ SetOnce' /\ FromProc'
    BY <1>0, <2>1 DEF ReferencedStay, SetOnce, FromProc
  <2>3. Registrations'
    <3>1. CASE DriverEntry
      BY <1>0, <1>2, <3>1 DEF Careful, DriverEntry, FailAt, BBInitLdrData,
         PsSetCreateProcessNotifyRoutine, CheckFeatures, IoCreateSymbolicLink, DeleteDevice,
         Registrations
    <3>2. CASE Stop \/ Unload
      BY <1>0, <3>2 DEF Stop, Unload, UnloadDriver, Destroy, Registrations, TypeOK
    <3> QED BY <3>1, <3>2
  <2> QED BY <1>0, <2>2, <2>3 DEF CInv
<1> QED BY <1>1, <1>2

LEMMA ClientCareful ==
    ASSUME Careful, CInv, NEW c \in Process, Client(c)
    PROVE  CInv'
<1> USE DEF driverVars, objectVars, clientVars, processVars
<1>0. /\ TypeOK /\ OpenIsServed /\ ReferencedStay /\ SetOnce /\ FromProc /\ Registrations
      /\ Base'
  BY ClientBase DEF CInv, Base
<1>1. CASE Open(c) \/ Close(c)
  <2>1. ReferencedStay' /\ FromProc' /\ Registrations'
    BY <1>0, <1>1 DEF Open, Close, ReferencedStay, FromProc, Registrations
  <2>2. SetOnce'
    BY <1>0, <1>1 DEF Open, Close, SetOnce, TypeOK
  <2> QED BY <1>0, <2>1, <2>2 DEF CInv
<1>2. CASE Refuse(c)
  <2>1. ReferencedStay' /\ Registrations'
    BY <1>0, <1>2 DEF Refuse, Sendback, Idle, ReferencedStay, Registrations
  <2>2. SetOnce'
    BY <1>0, <1>2 DEF Refuse, Sendback, Idle, SetOnce, TypeOK
  <2>3. FromProc'
    BY <1>0, <1>2 DEF Refuse, Sendback, Idle, FromProc, TypeOK
  <2> QED BY <1>0, <2>1, <2>2, <2>3 DEF CInv
<1>3. CASE Heartbeat(c) \/ Unanswered(c) \/ UmACmodule(c)
  <2>1. ReferencedStay' /\ Registrations'
    BY <1>0, <1>3 DEF Heartbeat, Unanswered, UmACmodule, ReferencedStay, Registrations
  <2>2. SetOnce'
    BY <1>0, <1>3 DEF Heartbeat, Unanswered, UmACmodule, SetOnce, TypeOK
  <2>3. CASE Heartbeat(c)
    <3>1. c = proc
      BY <1>0, <2>3, NobodyAssumption DEF Heartbeat, Idle, ReferencedStay, TypeOK
    <3>2. FromProc'
      BY <1>0, <2>3, <3>1 DEF Heartbeat, Idle, FromProc, TypeOK
    <3> QED BY <1>0, <2>1, <2>2, <3>2 DEF CInv
  <2>4. CASE Unanswered(c) \/ UmACmodule(c)
    <3>1. FromProc'
      BY <1>0, <2>4 DEF Unanswered, UmACmodule, Idle, FromProc, TypeOK
    <3> QED BY <1>0, <2>1, <2>2, <3>1 DEF CInv
  <2> QED BY <1>3, <2>3, <2>4
<1>4. CASE \E p \in Pid : SetProcess(c, p)
  <2>1. ReferencedStay' /\ Registrations'
    BY <1>0, <1>4 DEF SetProcess, Sendback, Idle, ReferencedStay, Registrations
  <2>2. SetOnce'
    BY <1>0, <1>4 DEF SetProcess, Sendback, Idle, SetOnce, TypeOK
  <2>3. FromProc'
    BY <1>0, <1>4 DEF SetProcess, Sendback, Idle, FromProc, TypeOK
  <2> QED BY <1>0, <2>1, <2>2, <2>3 DEF CInv
<1>5. CASE LookupProcess(c)
  <2>1. pc[c] = "lookup" /\ proc = Nobody /\ c \in Setter /\ c \in files
    BY <1>0, <1>5 DEF LookupProcess, SetOnce, OpenIsServed
  <2>2. CASE Found(arg[c]) = {}
    <3>1. ReferencedStay' /\ Registrations'
      BY <1>0, <1>5, <2>1, <2>2 DEF LookupProcess, Sendback, ReferencedStay, Registrations
    <3>2. SetOnce'
      BY <1>0, <1>5, <2>1, <2>2 DEF LookupProcess, Sendback, SetOnce, TypeOK
    <3>3. FromProc'
      BY <1>0, <1>5, <2>1, <2>2 DEF LookupProcess, Sendback, FromProc, TypeOK
    <3> QED BY <1>0, <3>1, <3>2, <3>3 DEF CInv
  <2>3. CASE Found(arg[c]) # {}
    <3>1. proc' \in Process /\ life[proc'] # "free" /\ pid[proc'] = arg[c]
      BY <1>5, <2>3 DEF LookupProcess, Found
    <3>2. ReferencedStay' /\ Registrations'
      BY <1>0, <1>5, <2>3, <3>1 DEF LookupProcess, ReferencedStay, Registrations
    <3>3. SetOnce'
      BY <1>0, <1>5, <2>1, <2>3, <3>1, NobodyAssumption
      DEF LookupProcess, SetOnce, TypeOK, Careful
    <3>4. FromProc'
      BY <1>0, <1>5, <2>1, <2>3, NobodyAssumption DEF LookupProcess, FromProc, TypeOK
    <3> QED BY <1>0, <3>2, <3>3, <3>4 DEF CInv
  <2> QED BY <2>2, <2>3
<1>6. CASE AcSetProcess(c) \/ AcCreateThread(c)
  <2>0. pc[c] \in {"setProc", "thread"} /\ c \in Setter /\ c \in files
    BY <1>0, <1>6 DEF AcSetProcess, AcCreateThread, SetOnce, OpenIsServed
  <2>1. ReferencedStay'
    BY <1>0, <1>6, <2>0 DEF AcSetProcess, AcCreateThread, Sendback, ReferencedStay
  <2>2. Registrations'
    BY <1>0, <1>6, <2>0 DEF AcSetProcess, AcCreateThread, Registrations, OpenIsServed,
       Serving, Careful
  <2>3. SetOnce'
    BY <1>0, <1>6, <2>0 DEF AcSetProcess, AcCreateThread, Sendback, SetOnce, TypeOK, Careful
  <2>4. FromProc'
    BY <1>0, <1>6, <2>0 DEF AcSetProcess, AcCreateThread, Sendback, FromProc, TypeOK
  <2> QED BY <1>0, <2>1, <2>2, <2>3, <2>4 DEF CInv
<1>7. CASE BBInjectDll(c)
  <2>0. pc[c] = "inject" /\ proc # Nobody /\ dll[c] = pid[proc] /\ c \in files
    BY <1>0, <1>7 DEF BBInjectDll, FromProc, OpenIsServed
  <2>1. Found(dll[c]) \subseteq {proc}
    BY <1>0, <2>0, NobodyAssumption DEF Found, ReferencedStay, TypeOK
  <2>2. ReferencedStay' /\ Registrations'
    BY <1>0, <1>7, <2>0 DEF BBInjectDll, Sendback, ReferencedStay, Registrations
  <2>3. SetOnce'
    BY <1>0, <1>7, <2>0 DEF BBInjectDll, Sendback, SetOnce, TypeOK
  <2>4. FromProc'
    BY <1>0, <1>7, <2>0, <2>1 DEF BBInjectDll, Sendback, FromProc, TypeOK
  <2> QED BY <1>0, <2>2, <2>3, <2>4 DEF CInv
<1>8. CASE EndInjection(c)
  <2>0. pc[c] = "mapping" /\ c \in files
    BY <1>0, <1>8 DEF EndInjection, OpenIsServed
  <2>1. ReferencedStay' /\ Registrations'
    BY <1>0, <1>8, <2>0 DEF EndInjection, Sendback, ReferencedStay, Registrations
  <2>2. SetOnce'
    BY <1>0, <1>8, <2>0 DEF EndInjection, Sendback, SetOnce, TypeOK
  <2>3. FromProc'
    BY <1>0, <1>8, <2>0 DEF EndInjection, Sendback, FromProc, TypeOK
  <2> QED BY <1>0, <2>1, <2>2, <2>3 DEF CInv
<1> QED BY <1>1, <1>2, <1>3, <1>4, <1>5, <1>6, <1>7, <1>8 DEF Client, InDriver

LEMMA ProcessCareful ==
    ASSUME Careful, CInv, NEW c \in Process, ProcessStep(c)
    PROVE  CInv'
<1> USE DEF driverVars, objectVars, clientVars, processVars
<1>0. /\ TypeOK /\ OpenIsServed /\ ReferencedStay /\ SetOnce /\ FromProc /\ Registrations
      /\ Base'
  BY ProcessBase DEF CInv, Base
<1>1. CASE KstartRoutine(c) \/ Exit(c) \/ Delete(c)
  <2>1. ReferencedStay' /\ Registrations'
    BY <1>0, <1>1 DEF KstartRoutine, Exit, Delete, ReferencedStay, Registrations, TypeOK
  <2>2. SetOnce' /\ FromProc'
    BY <1>0, <1>1 DEF KstartRoutine, Exit, Delete, SetOnce, FromProc
  <2> QED BY <1>0, <2>1, <2>2 DEF CInv
<1>2. CASE \E p \in Pid : Create(c, p)
  <2> PICK p \in Pid : Create(c, p)
    BY <1>2
  <2>1. life[c] = "free" /\ c \notin held /\ c \notin files /\ c # proc
    BY <1>0, NobodyAssumption DEF Create, ReferencedStay
  <2>2. ReferencedStay'
    BY <1>0, <2>1 DEF Create, Found, ReferencedStay, TypeOK
  <2>3. SetOnce' /\ FromProc' /\ Registrations'
    BY <1>0, <2>1 DEF Create, SetOnce, FromProc, Registrations, TypeOK
  <2> QED BY <1>0, <2>2, <2>3 DEF CInv
<1> QED BY <1>1, <1>2 DEF ProcessStep

LEMMA NextCareful ==
    ASSUME Careful PROVE CInv /\ [Next]_vars => CInv'
<1> SUFFICES ASSUME CInv, [Next]_vars PROVE CInv'
  OBVIOUS
<1>1. CASE UNCHANGED vars
  <2>1. Base'
    BY <1>1, NextBase DEF CInv
  <2> QED BY <1>1, <2>1 DEF vars, driverVars, objectVars, clientVars, processVars, CInv,
     ReferencedStay, SetOnce, FromProc, Registrations
<1>2. CASE DriverEntry \/ Stop \/ Unload
  BY <1>2, DriverCareful
<1>3. CASE \E c \in Process : Client(c)
  BY <1>3, ClientCareful
<1>4. CASE \E c \in Process : ProcessStep(c)
  BY <1>4, ProcessCareful
<1> QED BY <1>1, <1>2, <1>3, <1>4 DEF Next, ProcessStep

\* Nothing of the driver can run once its image is gone: not the notify routine,
\* not the thread of the anti-cheat object, not a request.
THEOREM UnloadIsClean ==
    ASSUME Careful PROVE Spec => []NothingRunsUnloaded
<1>1. CInv => NothingRunsUnloaded
  <2> SUFFICES ASSUME CInv, driver = "absent"
               PROVE  ~notify /\ running = {} /\ \A c \in Process : pc[c] = "idle"
    BY DEF NothingRunsUnloaded, Loaded
  <2>1. ~notify /\ running = {}
    BY DEF CInv, Base, TypeOK, Registrations
  <2>2. \A c \in Process : pc[c] = "idle"
    BY DEF CInv, Base, OpenIsServed, Serving
  <2> QED BY <2>1, <2>2
<1>2. CInv /\ [Next]_vars => CInv'
  BY NextCareful
<1> QED BY <1>1, <1>2, InitCareful, PTL DEF Spec

LEMMA StaysCareful == ASSUME Careful PROVE Spec => []CInv
<1>1. CInv /\ [Next]_vars => CInv'
  BY NextCareful
<1> QED BY <1>1, InitCareful, PTL DEF Spec

\* A heartbeat that is accepted, by process id, comes from the process that
\* setProcess found, ...
THEOREM HeartbeatsAreProcs ==
    ASSUME Careful PROVE Spec => []HeartbeatIsFromProc
<1>1. CInv => HeartbeatIsFromProc
  BY DEF CInv, FromProc, HeartbeatIsFromProc
<1> QED BY <1>1, StaysCareful, PTL

\* ... modules are injected, by process id, into that process only, ...
THEOREM InjectionsAreProcs ==
    ASSUME Careful PROVE Spec => []InjectsIntoProc
<1>1. CInv => InjectsIntoProc
  BY DEF CInv, FromProc, InjectsIntoProc
<1> QED BY <1>1, StaysCareful, PTL

\* ... and it is what the client was told is protected.
THEOREM RequestsConcernProc ==
    ASSUME Careful PROVE Spec => []GrantedIsProtected
<1>1. CInv => GrantedIsProtected
  BY DEF CInv, Base, TypeOK, SetOnce, GrantedIsProtected
<1> QED BY <1>1, StaysCareful, PTL

\* No step but DriverEntry's replaces a process that is set.
THEOREM ProcStays ==
    ASSUME Careful PROVE Spec => ProcIsSetOnce
<1>1. CInv /\ [Next]_vars => [proc # Nobody /\ driver' # "ldrData" => proc' = proc]_vars
  <2> SUFFICES ASSUME CInv, Next, proc # Nobody, driver' # "ldrData" PROVE proc' = proc
    OBVIOUS
  <2> USE DEF driverVars, objectVars, clientVars, processVars
  <2>1. CASE DriverEntry \/ Stop \/ Unload
    BY <2>1 DEF DriverEntry, IoCreateDevice, FailAt, BBInitLdrData,
       PsSetCreateProcessNotifyRoutine, CheckFeatures, IoCreateSymbolicLink, DeleteDevice,
       Stop, Unload, UnloadDriver, Destroy
  <2>2. CASE \E c \in Process : Client(c)
    <3> PICK c \in Process : Client(c)
      BY <2>2
    <3>1. ~LookupProcess(c)
      BY DEF LookupProcess, CInv, SetOnce
    <3> QED BY <3>1 DEF Client, InDriver, Open, Close, Refuse, Heartbeat, Unanswered,
         UmACmodule, SetProcess, AcSetProcess, AcCreateThread, BBInjectDll, EndInjection
  <2>3. CASE \E c \in Process : ProcessStep(c)
    BY <2>3 DEF ProcessStep, KstartRoutine, Exit, Delete, Create
  <2> QED BY <2>1, <2>2, <2>3 DEF Next, ProcessStep
<1>2. CInv /\ [Next]_vars => CInv'
  BY NextCareful
<1> QED BY <1>1, <1>2, InitCareful, PTL DEF Spec, ProcIsSetOnce
=============================================================================
