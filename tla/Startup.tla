------------------------------- MODULE Startup -------------------------------
(***************************************************************************)
(* How a game comes up: the launcher (OpenKAC_Launcher/main.cpp) starts the *)
(* service (OpenKAC_Service/main.cpp), the service starts the driver, and   *)
(* the launcher polls for the driver's device, names itself to the driver,  *)
(* fetches symbols into a cache on disk (EasyPDB.hpp) and has the module    *)
(* injected.  A member of Launchers is one launcher process; it may be      *)
(* killed at any point.  An administrator may stop the service and the      *)
(* driver, which nothing in the code does.                                  *)
(*                                                                         *)
(* The service has two threads, ServiceProc and the one that calls          *)
(* ServiceHandlerProc.  They share svcStatus, which ReportSvcStatus writes  *)
(* and then hands to the service control manager; the manager ends the      *)
(* process once it was told STOPPED and the handler has returned.           *)
(*                                                                         *)
(* mishaps is a history variable: the service has ended ("stopped"), or the *)
(* handler wrote svcStatus in the middle of ServiceProc's report            *)
(* ("overlap").                                                             *)
(***************************************************************************)
EXTENDS Naturals, Sequences, FiniteSets

CONSTANTS Launchers, None,
          DriverLists,   \* the running drivers, in the order of the enumeration: is it blacklisted?
          DriverStarts,  \* how a start of the driver may end
          MaxPolls,      \* bound: polls of the device before the launcher gives up
          MaxStops       \* bound: how often the service is asked to stop

ASSUME NoneAssumption == None \notin Launchers
ASSUME DriverStartsAssumption == DriverStarts \subseteq {"failed", "no link", "running"}
ASSUME MaxPollsAssumption == MaxPolls \in Nat \ {0}

VARIABLES
  installed,  \* the files on disk, of "service" and "driver"
  registered, \* the services in the manager's database
  status,     \* what the manager knows of the service
  told,       \* ... and whether it was told STOPPED by this process
  svc,        \* where ServiceProc stands
  svcStatus, svsEvent,
  handler,    \* where ServiceHandlerProc stands
  argument,   \* the state that it has read for its second report
  stops,
  driver,     \* "stopped", "no link" (loaded, without a name) or "running"
  proc,       \* ioctls::proc in the driver
  injected,   \* the processes the module was injected into
  pc, polls,  \* of a launcher
  pdb, md5,   \* the cached symbols and what the hash beside them is of
  hash,       \* the hash a launcher has computed
  mishaps

service  == <<status, told, svc, svcStatus, svsEvent>>
control  == <<handler, argument, stops>>
kernel   == <<driver, proc, injected>>
cache    == <<pdb, md5, hash>>
launcher == <<pc, polls>>
vars == <<installed, registered, service, control, kernel, launcher, cache, mishaps>>

Init ==
  /\ installed \in SUBSET {"service", "driver"} /\ registered = {}
  /\ status = "stopped" /\ told = FALSE /\ svc = "absent"
  /\ svcStatus = "none" /\ svsEvent = FALSE
  /\ handler = "idle" /\ argument = "none" /\ stops = 0
  /\ driver = "stopped" /\ proc = None /\ injected = {}
  /\ pc = [l \in Launchers |-> "off"] /\ polls = [l \in Launchers |-> 0]
  /\ pdb = "none" /\ md5 = "none" /\ hash = [l \in Launchers |-> "none"]
  /\ mishaps = {}

----------------------------------------------------------------------------
(* ServiceProc.                                                             *)

SvcGoto(from, to) == svc = from /\ svc' = to

\* The handler is registered, START_PENDING reported (the service accepts no
\* stop yet), and the event created.
CreateEvent ==
  /\ \/ SvcGoto("entered", "created")
     \/ SvcGoto("entered", "failed")
  /\ svcStatus' = "start pending" /\ status' = "start pending"
  /\ UNCHANGED <<installed, registered, told, svsEvent, control, kernel, launcher, cache, mishaps>>

ReportRunning ==
  /\ SvcGoto("created", "exists")
  /\ svcStatus' = "running" /\ status' = "running"
  /\ UNCHANGED <<installed, registered, told, svsEvent, control, kernel, launcher, cache, mishaps>>

\* DriverServiceExists answers FALSE only when the service is known not to
\* exist; when the manager cannot be reached the creation is left out.
DriverServiceExists ==
  /\ \/ "driver" \notin registered /\ SvcGoto("exists", "create")
     \/ SvcGoto("exists", "open")
  /\ UNCHANGED <<installed, registered, status, told, svcStatus, svsEvent, control, kernel, launcher, cache, mishaps>>

CreateDriverService ==
  /\ SvcGoto("create", "open")
  /\ \/ "driver" \in installed /\ registered' = registered \cup {"driver"}
     \/ UNCHANGED registered
  /\ UNCHANGED <<installed, status, told, svcStatus, svsEvent, control, kernel, launcher, cache, mishaps>>

\* The driver's service is opened; a failure ends in a message box, and the
\* one where the manager is not reached lacks the return behind its report.
OpenDriverService ==
  /\ \/ "driver" \in registered /\ SvcGoto("open", "start")
     \/ SvcGoto("open", "box")
     \/ SvcGoto("open", "box scm")
  /\ UNCHANGED <<installed, registered, status, told, svcStatus, svsEvent, control, kernel, launcher, cache, mishaps>>

\* A driver that is loaded cannot be started; a new one has its globals at zero.
StartDriver ==
  /\ \/ driver # "stopped" /\ SvcGoto("start", "box") /\ UNCHANGED <<driver, proc>>
     \/ /\ driver = "stopped"
        /\ \E outcome \in DriverStarts :
             IF outcome = "failed" THEN SvcGoto("start", "box") /\ UNCHANGED <<driver, proc>>
             ELSE SvcGoto("start", "wait") /\ driver' = outcome /\ proc' = None
  /\ UNCHANGED <<installed, registered, status, told, svcStatus, svsEvent, control, injected,
                 launcher, cache, mishaps>>

\* Somebody closes the message box, which is on the desktop of the services.
CloseBox ==
  /\ \/ SvcGoto("box", "failed")
     \/ SvcGoto("box scm", "failed scm")
  /\ UNCHANGED <<installed, registered, status, told, svcStatus, svsEvent, control, kernel, launcher, cache, mishaps>>

\* ReportSvcStatus(SERVICE_STOPPED): first the structure ...
WriteStopped ==
  /\ \/ SvcGoto("failed", "reporting")
     \/ SvcGoto("failed scm", "reporting scm")
     \/ svsEvent /\ SvcGoto("wait", "reporting")
  /\ svcStatus' = "stopped"
  /\ UNCHANGED <<installed, registered, status, told, svsEvent, control, kernel, launcher, cache, mishaps>>

\* Mutant: the report is forgotten.
MutReportStopped ==
  /\ \/ SvcGoto("reporting", "returned")
     \/ SvcGoto("reporting scm", "wait")
  /\ UNCHANGED <<installed, registered, status, told, svcStatus, svsEvent, control, kernel, launcher, cache, mishaps>>

\* ... then the call, which takes what the structure holds by then.
ReportStopped ==
  /\ \/ SvcGoto("reporting", "returned")
     \/ SvcGoto("reporting scm", "wait")
  /\ status' = svcStatus /\ told' = (told \/ svcStatus = "stopped")
  /\ UNCHANGED <<installed, registered, svcStatus, svsEvent, control, kernel, launcher, cache, mishaps>>

\* The dispatcher returns from main's call and the process ends.
EndProcess ==
  /\ told /\ handler = "idle"
  /\ status' = "stopped" /\ told' = FALSE /\ svc' = "absent"
  /\ svcStatus' = "none" /\ svsEvent' = FALSE
  /\ mishaps' = mishaps \cup {"stopped"}
  /\ UNCHANGED <<installed, registered, control, kernel, launcher, cache>>

----------------------------------------------------------------------------
(* ServiceHandlerProc, when the service is asked to stop.                   *)

HandlerGoto(from, to) == handler = from /\ handler' = to

StopService ==
  /\ status = "running" /\ stops < MaxStops
  /\ HandlerGoto("idle", "write")
  /\ stops' = stops + 1
  /\ UNCHANGED <<installed, registered, service, argument, kernel, launcher, cache, mishaps>>

\* A write of svcStatus; ServiceProc may be about to hand it over.
WriteStatus(state) ==
  /\ svcStatus' = state
  /\ mishaps' = mishaps \cup
                (IF svc \in {"reporting", "reporting scm"} /\ state # "stopped" THEN {"overlap"} ELSE {})

WritePending ==
  /\ HandlerGoto("write", "report") /\ WriteStatus("stop pending")
  /\ UNCHANGED <<installed, registered, status, told, svc, svsEvent, argument, stops, kernel, launcher, cache>>

HandlerReport ==
  /\ HandlerGoto("report", "signal") \/ HandlerGoto("report again", "idle")
  /\ status' = svcStatus /\ told' = (told \/ svcStatus = "stopped")
  /\ UNCHANGED <<installed, registered, svc, svcStatus, svsEvent, argument, stops, kernel, launcher, cache, mishaps>>

SetEvent ==
  /\ HandlerGoto("signal", "read") /\ svsEvent' = TRUE
  /\ UNCHANGED <<installed, registered, status, told, svc, svcStatus, argument, stops, kernel, launcher, cache, mishaps>>

\* The current state is read, for a second report of it.
ReadState ==
  /\ HandlerGoto("read", "rewrite") /\ argument' = svcStatus
  /\ UNCHANGED <<installed, registered, service, stops, kernel, launcher, cache, mishaps>>

RewriteState ==
  /\ HandlerGoto("rewrite", "report again") /\ WriteStatus(argument) /\ argument' = "none"
  /\ UNCHANGED <<installed, registered, status, told, svc, svsEvent, stops, kernel, launcher, cache>>

----------------------------------------------------------------------------
(* The launcher's main.                                                     *)

Step(l, from, to) == pc[l] = from /\ pc' = [pc EXCEPT ![l] = to]

\* The last driver of the enumeration is not looked at.
BlackListedDriver(drivers) == \E i \in 1..(Len(drivers) - 1) : drivers[i]

\* A failed enumeration does not stop the launcher.
CheckDrivers(l) ==
  /\ \/ Step(l, "off", "exists")
     \/ \E drivers \in DriverLists :
          Step(l, "off", IF BlackListedDriver(drivers) THEN "done" ELSE "exists")
  /\ UNCHANGED <<installed, registered, service, control, kernel, polls, cache, mishaps>>

\* ServiceExists and CreateKACService: as for the driver.
CreateKACService(l) ==
  /\ Step(l, "exists", "start")
  /\ \/ "service" \in installed /\ registered' = registered \cup {"service"}
     \/ UNCHANGED registered
  /\ UNCHANGED <<installed, service, control, kernel, polls, cache, mishaps>>

Started(l) ==
  /\ Step(l, "start", "first")
  /\ svc' = "entered" /\ status' = "start pending"
  /\ UNCHANGED <<installed, registered, told, svcStatus, svsEvent, control, kernel, polls, cache, mishaps>>

NotStarted(l, to) ==
  /\ Step(l, "start", to)
  /\ UNCHANGED <<installed, registered, service, control, kernel, polls, cache, mishaps>>

\* Mutant: goes on when the service is running already.
MutStartService(l) ==
  \/ "service" \in registered /\ status = "stopped" /\ svc = "absent" /\ Started(l)
  \/ status # "stopped" /\ NotStarted(l, "first")
  \/ NotStarted(l, "done")

\* A service that is not stopped is not started again, and the launcher ends.
StartService(l) ==
  \/ "service" \in registered /\ status = "stopped" /\ svc = "absent" /\ Started(l)
  \/ NotStarted(l, "done")

\* A driver that is there at once is another game's, the launcher says; it goes
\* on when the user presses a key.
OpenFirst(l) ==
  /\ Step(l, "first", IF driver = "running" THEN "setProc" ELSE "poll")
  /\ UNCHANGED <<installed, registered, service, control, kernel, polls, cache, mishaps>>

\* 1000 polls, 5 ms apart.
Poll(l) ==
  /\ polls' = [polls EXCEPT ![l] = @ + 1]
  /\ Step(l, "poll", IF driver = "running" THEN "setProc"
                     ELSE IF polls'[l] < MaxPolls THEN "poll" ELSE "gave up")
  /\ UNCHANGED <<installed, registered, service, control, kernel, cache, mishaps>>

\* The driver takes a process once; the answer is not looked at.
SendProcID(l) ==
  /\ Step(l, "setProc", "check")
  /\ proc' = IF proc = None THEN l ELSE proc
  /\ polls' = [polls EXCEPT ![l] = 0]
  /\ UNCHANGED <<installed, registered, service, control, driver, injected, cache, mishaps>>

\* SendPDB sends ci.dll as a module, with the size of a PDB_Info, which the driver
\* refuses; SendACModule's goes into the driver's process, if that still runs and
\* the file of the module is there.
SendACModule(l) ==
  /\ Step(l, "send", "using")
  /\ \/ injected' = injected \cup {p \in {proc} \ {None} : pc[p] # "done"}
     \/ UNCHANGED injected
  /\ UNCHANGED <<installed, registered, service, control, driver, proc, polls, cache, mishaps>>

\* The launcher ends, or is killed at any point.  One that gave up has no handles,
\* and stays as it is.
EndLauncher(l) ==
  /\ pc[l] \notin {"off", "gave up", "done"}
  /\ pc' = [pc EXCEPT ![l] = "done"]
  /\ polls' = [polls EXCEPT ![l] = 0] /\ hash' = [hash EXCEPT ![l] = "none"]
  /\ UNCHANGED <<installed, registered, service, control, kernel, pdb, md5, mishaps>>

\* The driver is stopped by hand, and unloads when nobody has it open.
Holding == {"setProc", "check", "delete", "download", "copy", "hash", "truncate", "write", "send", "using"}
StopDriver ==
  /\ driver # "stopped" /\ \A l \in Launchers : pc[l] \notin Holding
  /\ driver' = "stopped" /\ proc' = None
  /\ UNCHANGED <<installed, registered, service, control, injected, launcher, cache, mishaps>>

----------------------------------------------------------------------------
(* pdb::download.                                                           *)

Believed == pdb # "none" /\ md5 = pdb

\* A file whose hash is the one that was noted is used as it is.
CheckCache(l) ==
  /\ Step(l, "check", IF Believed THEN "send" ELSE "delete")
  /\ UNCHANGED <<installed, registered, service, control, kernel, polls, cache, mishaps>>

\* DeleteFile, which fails while another launcher has the file open.
DeleteFile(l) ==
  /\ Step(l, "delete", "download")
  /\ pdb' = IF \E k \in Launchers : pc[k] \in {"copy", "hash"} THEN pdb ELSE "none"
  /\ UNCHANGED <<installed, registered, service, control, kernel, polls, md5, hash, mishaps>>

\* URLDownloadToFile; when it fails, init returns false, which main ignores.
StartDownload(l) ==
  /\ \/ Step(l, "download", "copy") /\ pdb' = "partial"
     \/ Step(l, "download", "send") /\ UNCHANGED pdb
  /\ UNCHANGED <<installed, registered, service, control, kernel, polls, md5, hash, mishaps>>

\* Mutant: the result of the download is not looked at.
MutEndDownload(l) ==
  /\ \/ Step(l, "copy", "hash") /\ pdb' = "whole"
     \/ Step(l, "copy", "hash") /\ UNCHANGED pdb
  /\ UNCHANGED <<installed, registered, service, control, kernel, polls, md5, hash, mishaps>>

EndDownload(l) ==
  /\ \/ Step(l, "copy", "hash") /\ pdb' = "whole"
     \/ Step(l, "copy", "send") /\ UNCHANGED pdb
  /\ UNCHANGED <<installed, registered, service, control, kernel, polls, md5, hash, mishaps>>

\* A file that is gone by now ends the launcher with an exception.
HashFile(l) ==
  /\ Step(l, "hash", IF pdb = "none" THEN "done" ELSE "truncate")
  /\ hash' = [hash EXCEPT ![l] = pdb]
  /\ UNCHANGED <<installed, registered, service, control, kernel, polls, pdb, md5, mishaps>>

\* The file of the hash is truncated, then written.
TruncateMd5(l) ==
  /\ Step(l, "truncate", "write") /\ md5' = "torn"
  /\ UNCHANGED <<installed, registered, service, control, kernel, polls, pdb, hash, mishaps>>

WriteMd5(l) ==
  /\ Step(l, "write", "send")
  /\ md5' = hash[l] /\ hash' = [hash EXCEPT ![l] = "none"]
  /\ UNCHANGED <<installed, registered, service, control, kernel, polls, pdb, mishaps>>

----------------------------------------------------------------------------
ServiceProc == CreateEvent \/ ReportRunning \/ DriverServiceExists \/ CreateDriverService
               \/ OpenDriverService \/ StartDriver \/ WriteStopped \/ ReportStopped
ServiceHandlerProc == WritePending \/ HandlerReport \/ SetEvent \/ ReadState \/ RewriteState
Main(l) == CheckDrivers(l) \/ CreateKACService(l) \/ StartService(l) \/ OpenFirst(l) \/ Poll(l)
           \/ SendProcID(l) \/ SendACModule(l)
Download(l) == CheckCache(l) \/ DeleteFile(l) \/ StartDownload(l) \/ EndDownload(l) \/ HashFile(l)
               \/ TruncateMd5(l) \/ WriteMd5(l)

Next == \/ ServiceProc \/ ServiceHandlerProc \/ EndProcess \/ CloseBox
        \/ StopService \/ StopDriver
        \/ \E l \in Launchers : Main(l) \/ Download(l) \/ EndLauncher(l)

Spec == Init /\ [][Next]_vars

\* Threads that can run do; nobody has to close a box, stop or kill anything.
FairSpec == /\ Spec
            /\ WF_vars(ServiceProc) /\ WF_vars(ServiceHandlerProc) /\ WF_vars(EndProcess)
            /\ \A l \in Launchers : WF_vars(Main(l) \/ Download(l))

----------------------------------------------------------------------------
Active == {l \in Launchers : pc[l] \in Holding \cup {"first", "poll"}}

\* The state has the shape of the code's.
TypeOK ==
  /\ registered \subseteq {"service", "driver"}
  /\ status \in {"stopped", "start pending", "running", "stop pending"}
  /\ svcStatus \in {"none", "start pending", "running", "stop pending", "stopped"}
  /\ svc \in {"absent", "entered", "created", "exists", "create", "open", "start", "box", "box scm",
              "failed", "failed scm", "reporting", "reporting scm", "wait", "returned"}
  /\ handler \in {"idle", "write", "report", "signal", "read", "rewrite", "report again"}
  /\ driver \in {"stopped", "no link", "running"} /\ proc \in Launchers \cup {None}
  /\ pc \in [Launchers -> Holding \cup {"off", "exists", "start", "first", "poll", "gave up", "done"}]
  /\ polls \in [Launchers -> 0..MaxPolls]
  /\ pdb \in {"none", "partial", "whole"} /\ md5 \in {"none", "partial", "whole", "torn"}
  /\ hash \in [Launchers -> {"none", "partial", "whole"}]

\* As long as the service has not ended, one launcher at most is past its start
\* (the others end); the one that has reached the game is the driver's process,
\* and the only one that the module may be in.
UsingIsServed ==
  "stopped" \notin mishaps =>
    /\ Cardinality(Active) <= 1
    /\ \A l \in Launchers : pc[l] = "using" => proc = l /\ injected \subseteq {l}

\* A launcher that gives up leaves the service running: whether the driver comes
\* late or not, no other launcher gets to use it before the service has ended.
TimeoutShutsOut ==
  "stopped" \notin mishaps /\ (\E l \in Launchers : pc[l] = "gave up") => Active = {}

\* Symbols that the next launcher would believe are whole, whenever launchers were
\* killed or downloads failed, as long as no two launchers can be at the cache.
CacheIsWhole == "stopped" \notin mishaps /\ Believed => pdb = "whole"

\* The launcher's wait for the driver ends.
LauncherSettles ==
  \A l \in Launchers : pc[l] \in {"first", "poll"} ~> pc[l] \notin {"first", "poll"}

\* A service that waits and is told to stop ends, unless the handler's report
\* and ServiceProc's overlap.
StopEnds == (svc = "wait" /\ handler = "signal") ~> (svc = "absent" \/ "overlap" \in mishaps)

\* One game at a time, and the driver is that game's.
OneGame == TypeOK /\ UsingIsServed /\ TimeoutShutsOut

\* Neither a launcher nor a service that is told to stop waits for ever.
WaitsEnd == LauncherSettles /\ StopEnds
=============================================================================
