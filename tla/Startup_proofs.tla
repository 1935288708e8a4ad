---------------------------- MODULE Startup_proofs ----------------------------
(***************************************************************************)
(* Proofs about Startup, for any number of launchers, however a start of    *)
(* the driver ends: as long as the service has not ended, the driver has    *)
(* one game, and symbols on disk that a launcher would believe are whole.   *)
(*                                                                         *)
(* Both rest on the same fact, OneComer: the service can be started only    *)
(* once before it ends, so one launcher at most gets past StartService.     *)
(***************************************************************************)
EXTENDS Startup, FiniteSetTheorems, TLAPS

States == {"start pending", "running", "stop pending", "stopped"}

\* The service: what it has told the manager, and what its handler has read.
ServiceInv ==
    /\ registered \subseteq {"service", "driver"}
    /\ status \in States /\ svcStatus \in States \cup {"none"}
    /\ svc \in {"absent", "entered", "created", "exists", "create", "open", "start", "box", "box scm",
                "failed", "failed scm", "reporting", "reporting scm", "wait", "returned"}
    /\ handler \in {"idle", "write", "report", "signal", "read", "rewrite", "report again"}
    /\ svc = "absent" => status = "stopped" /\ handler = "idle"
    /\ svc = "entered" => status = "start pending" /\ handler = "idle"
    /\ svc \notin {"absent", "entered"} => svcStatus # "none"
    /\ handler = "rewrite" => argument \in States

Places == Holding \cup {"off", "exists", "start", "first", "poll", "gave up", "done"}

Placed(l) ==
    /\ pc[l] \in {"off", "exists", "start", "first"} => polls[l] = 0
    /\ pc[l] = "poll" => polls[l] < MaxPolls
    /\ pc[l] \in Holding => driver = "running"

\* The launchers and what they share.
LauncherInv ==
    /\ driver \in {"stopped", "no link", "running"} /\ proc \in Launchers \cup {None}
    /\ pc \in [Launchers -> Places] /\ polls \in [Launchers -> 0..MaxPolls]
    /\ \A l \in Launchers : Placed(l)
    /\ pdb \in {"none", "partial", "whole"} /\ md5 \in {"none", "partial", "whole", "torn"}
    /\ hash \in [Launchers -> {"none", "partial", "whole"}]

\* l has started the service, and is still there.
Came(l) == pc[l] \notin {"off", "exists", "start", "done"}

OneComer ==
    /\ \A k, l \in Launchers : Came(k) /\ Came(l) => k = l
    /\ svc = "absent" => /\ \A l \in Launchers : ~Came(l)
                         /\ proc = None /\ injected = {} /\ pdb = "none" /\ md5 = "none"

\* The driver's process is the one who came.
Served(l) ==
    /\ Came(l) => injected \subseteq {l}
    /\ pc[l] \in {"first", "poll", "setProc"} => proc = None
    /\ pc[l] \in Holding \ {"setProc"} => proc = l

\* The file of the one who came is whole before its hash is noted.
Fetched(l) ==
    /\ pc[l] \in {"first", "poll", "setProc", "check", "delete", "download"} => pdb = "none" /\ md5 = "none"
    /\ pc[l] = "copy" => md5 = "none"
    /\ pc[l] \in {"hash", "truncate", "write"} => pdb = "whole"
    /\ pc[l] \in {"truncate", "write"} => hash[l] = "whole"

GameInv ==
    "stopped" \notin mishaps =>
        /\ OneComer
        /\ \A l \in Launchers : Served(l) /\ Fetched(l)
        /\ md5 \in {"none", "torn"} \/ pdb = "whole"

IInv == ServiceInv /\ LauncherInv /\ GameInv

-----------------------------------------------------------------------------
(* The service's two threads.                                               *)

LEMMA ServiceIdle ==
    ASSUME ServiceInv, UNCHANGED <<registered, service, control>>
    PROVE  ServiceInv'
BY DEF ServiceInv, service, control

\* A launcher changes nothing of the service but by starting it.
LEMMA LauncherKeepsService ==
    ASSUME ServiceInv, NEW l \in Launchers, Main(l) \/ Download(l) \/ EndLauncher(l)
    PROVE  ServiceInv'
<1>1. CASE StartService(l)
  <2>1. CASE svc = "absent" /\ Started(l)
    BY <2>1 DEF Started, ServiceInv, States, control
  <2>2. CASE \E to : NotStarted(l, to)
    <3>1. UNCHANGED <<registered, service, control>>
      BY <2>2 DEF NotStarted
    <3> QED BY <3>1, ServiceIdle
  <2> QED BY <1>1, <2>1, <2>2 DEF StartService
<1>2. CASE CreateKACService(l)
  <2>1. UNCHANGED <<service, control>> /\ registered' \subseteq registered \cup {"service"}
    BY <1>2 DEF CreateKACService
  <2> QED BY <2>1 DEF ServiceInv, service, control
<1>3. CASE UNCHANGED <<registered, service, control>>
  BY <1>3, ServiceIdle
<1> QED BY <1>1, <1>2, <1>3
    DEF Main, Download, EndLauncher, CheckDrivers, OpenFirst, Poll, SendProcID, SendACModule,
        CheckCache, DeleteFile, StartDownload, EndDownload, HashFile, TruncateMd5, WriteMd5

\* The creation of the driver's service takes ServiceMain from one place to another.
LEMMA CreationKeepsService ==
    ASSUME ServiceInv,
           CreateEvent \/ ReportRunning \/ DriverServiceExists \/ CreateDriverService
           \/ OpenDriverService \/ StartDriver
    PROVE  ServiceInv'
<1> USE DEF SvcGoto, service, control
<1>1. CASE CreateEvent
  BY <1>1 DEF CreateEvent, ServiceInv, States
<1>2. CASE ReportRunning
  BY <1>2 DEF ReportRunning, ServiceInv, States
<1>3. CASE DriverServiceExists \/ CreateDriverService \/ OpenDriverService \/ StartDriver
  <2>1. /\ svc \in {"created", "exists", "create", "open", "start"}
        /\ svc' \in {"exists", "create", "open", "start", "box", "box scm", "failed",
                    "failed scm", "wait"}
        /\ UNCHANGED <<status, svcStatus, handler, argument>>
        /\ registered' \subseteq registered \cup {"driver"}
    BY <1>3 DEF DriverServiceExists, CreateDriverService, OpenDriverService, StartDriver
  <2> QED BY <2>1 DEF ServiceInv
<1> QED BY <1>1, <1>2, <1>3

LEMMA StopDriverKeepsService == ASSUME ServiceInv, StopDriver PROVE ServiceInv'
<1>1. UNCHANGED <<registered, service, control>>
  BY DEF StopDriver
<1> QED BY <1>1, ServiceIdle

LEMMA ServiceKeeps ==
    ASSUME ServiceInv, Next
    PROVE  ServiceInv'
<1> USE DEF ServiceInv, States, SvcGoto, HandlerGoto, service, control, kernel, launcher, cache
<1>1. CASE CreateEvent \/ ReportRunning \/ DriverServiceExists \/ CreateDriverService
           \/ OpenDriverService \/ StartDriver
  BY <1>1, CreationKeepsService
<1>3. CASE WriteStopped \/ ReportStopped
  BY <1>3 DEF WriteStopped, ReportStopped
<1>9. CASE CloseBox \/ EndProcess
  BY <1>9 DEF CloseBox, EndProcess
<1>4. CASE WritePending \/ HandlerReport \/ SetEvent
  BY <1>4 DEF WritePending, HandlerReport, SetEvent, WriteStatus
<1>5. CASE ReadState \/ StopService
  BY <1>5 DEF ReadState, StopService
<1>8. CASE RewriteState
  BY <1>8 DEF RewriteState, WriteStatus
<1>6. CASE StopDriver
  BY <1>6, StopDriverKeepsService
<1>7. ASSUME NEW l \in Launchers, Main(l) \/ Download(l) \/ EndLauncher(l)
      PROVE  ServiceInv'
  BY <1>7, LauncherKeepsService
<1> QED BY <1>1, <1>3, <1>4, <1>5, <1>6, <1>7, <1>8, <1>9 DEF Next, ServiceProc, ServiceHandlerProc

\* Until it ends, the service does nothing to the launchers but start the driver.
ServiceSteps == ServiceProc \/ ServiceHandlerProc \/ EndProcess \/ CloseBox \/ StopService

LEMMA ServiceMoves ==
    ASSUME ServiceInv, ServiceSteps
    PROVE  /\ UNCHANGED <<injected, launcher, cache>>
           /\ mishaps \subseteq mishaps'
           /\ svc' = "absent" => svc = "absent" \/ "stopped" \in mishaps'
           /\ \/ UNCHANGED <<driver, proc>>
              \/ driver = "stopped" /\ driver' \in DriverStarts \ {"failed"} /\ proc' = None
<1> USE DEF SvcGoto, HandlerGoto, service, control, kernel, launcher, cache
<1>1. CASE StartDriver
  BY <1>1 DEF StartDriver
<1>2. CASE CreateEvent \/ ReportRunning \/ DriverServiceExists \/ CreateDriverService \/ OpenDriverService
  BY <1>2 DEF CreateEvent, ReportRunning, DriverServiceExists, CreateDriverService, OpenDriverService
<1>3. CASE WriteStopped \/ ReportStopped \/ CloseBox \/ EndProcess
  BY <1>3 DEF WriteStopped, ReportStopped, CloseBox, EndProcess
<1>4. CASE ServiceHandlerProc \/ StopService
  BY <1>4 DEF ServiceHandlerProc, WritePending, HandlerReport, SetEvent, ReadState, RewriteState,
              WriteStatus, StopService
<1> QED BY <1>1, <1>2, <1>3, <1>4 DEF ServiceSteps, ServiceProc

LEMMA ServiceKeepsGame ==
    ASSUME IInv, ServiceSteps
    PROVE  LauncherInv' /\ GameInv'
<1>1. /\ UNCHANGED <<injected, launcher, cache>>
      /\ mishaps \subseteq mishaps'
      /\ svc' = "absent" => svc = "absent" \/ "stopped" \in mishaps'
      /\ \/ UNCHANGED <<driver, proc>>
         \/ driver = "stopped" /\ driver' \in DriverStarts \ {"failed"} /\ proc' = None
  BY ServiceMoves DEF IInv
<1>2. LauncherInv'
  BY <1>1, DriverStartsAssumption DEF IInv, LauncherInv, Placed, launcher, cache
<1>3. GameInv'
  BY <1>1 DEF IInv, LauncherInv, Placed, GameInv, OneComer, Came, Served, Fetched, launcher, cache, Holding
<1> QED BY <1>2, <1>3

-----------------------------------------------------------------------------
(* The launchers.                                                           *)

LEMMA DriverStopKeeps ==
    ASSUME IInv, StopDriver
    PROVE  LauncherInv' /\ GameInv'
<1>1. LauncherInv'
  BY DEF StopDriver, IInv, LauncherInv, Placed, launcher, cache
<1>2. GameInv'
  BY DEF StopDriver, IInv, LauncherInv, Placed, GameInv, OneComer, Came, Served, Fetched,
         service, launcher, cache, Holding
<1> QED BY <1>1, <1>2

\* A step of one launcher disturbs the types only at itself.
LEMMA StepKeepsTypes ==
    ASSUME LauncherInv, NEW l \in Launchers, NEW to \in Places, pc' = [pc EXCEPT ![l] = to],
           polls' \in [Launchers -> 0..MaxPolls], \A k \in Launchers \ {l} : polls'[k] = polls[k],
           UNCHANGED driver, Placed(l)',
           proc' \in Launchers \cup {None},
           pdb' \in {"none", "partial", "whole"}, md5' \in {"none", "partial", "whole", "torn"},
           hash' \in [Launchers -> {"none", "partial", "whole"}]
    PROVE  LauncherInv'
<1>1. \A k \in Launchers \ {l} : pc'[k] = pc[k] /\ polls'[k] = polls[k]
  BY DEF LauncherInv
<1>2. \A k \in Launchers \ {l} : Placed(k)'
  BY <1>1 DEF LauncherInv, Placed
<1>3. pc' \in [Launchers -> Places]
  BY DEF LauncherInv
<1> QED BY <1>2, <1>3 DEF LauncherInv

\* A step of the one who came concerns nobody else, ...
LEMMA ComerKeeps ==
    ASSUME IInv, NEW l \in Launchers, NEW to, Came(l), pc' = [pc EXCEPT ![l] = to],
           UNCHANGED <<svc, mishaps>>,
           "stopped" \notin mishaps =>
              Served(l)' /\ Fetched(l)' /\ (md5' \in {"none", "torn"} \/ pdb' = "whole")
    PROVE  GameInv'
<1> SUFFICES ASSUME "stopped" \notin mishaps PROVE GameInv'
  BY DEF GameInv
<1>1. \A k \in Launchers \ {l} : ~Came(k) /\ pc'[k] = pc[k]
  BY DEF IInv, LauncherInv, GameInv, OneComer
<1>2. \A k \in Launchers \ {l} : ~Came(k)' /\ Served(k)' /\ Fetched(k)'
  BY <1>1 DEF Came, Served, Fetched, Holding
<1>3. svc' # "absent"
  BY DEF IInv, GameInv, OneComer
<1> QED BY <1>2, <1>3 DEF GameInv, OneComer

\* ... and somebody who has not come, and does not come now, changes nothing.
LEMMA OutsiderKeeps ==
    ASSUME IInv, NEW l \in Launchers, NEW to \in {"off", "exists", "start", "done"},
           ~Came(l), pc' = [pc EXCEPT ![l] = to],
           UNCHANGED <<svc, mishaps, proc, injected, pdb, md5>>,
           \A k \in Launchers \ {l} : hash'[k] = hash[k]
    PROVE  GameInv'
<1>1. \A k \in Launchers \ {l} : pc'[k] = pc[k]
  BY DEF IInv, LauncherInv
<1>2. pc'[l] = to
  BY DEF IInv, LauncherInv
<1>3. ~Came(l)' /\ Served(l)' /\ Fetched(l)'
  BY <1>2 DEF Came, Served, Fetched, Holding
<1>4. ASSUME GameInv, "stopped" \notin mishaps, NEW k \in Launchers \ {l}
      PROVE  Came(k)' = Came(k) /\ Served(k)' /\ Fetched(k)'
  <2>1. Served(k) /\ Fetched(k)
    BY <1>4 DEF GameInv
  <2> QED BY <1>1, <2>1 DEF Came, Served, Fetched
<1> QED BY <1>3, <1>4 DEF IInv, GameInv, OneComer

-----------------------------------------------------------------------------
(* The launchers' actions.                                                  *)

\* What every step of a launcher has in common.
LEMMA StepMoves ==
    ASSUME LauncherInv, NEW l \in Launchers, NEW from, NEW to, Step(l, from, to)
    PROVE  pc[l] = from /\ pc' = [pc EXCEPT ![l] = to] /\ pc'[l] = to
BY DEF Step, LauncherInv

LEMMA OutsiderStep ==
    ASSUME IInv, NEW l \in Launchers, CheckDrivers(l) \/ CreateKACService(l) \/ NotStarted(l, "done")
    PROVE  LauncherInv' /\ GameInv'
<1>1. PICK from \in {"off", "exists", "start"}, to \in {"exists", "start", "done"} : Step(l, from, to)
  BY DEF CheckDrivers, CreateKACService, NotStarted
<1>2. UNCHANGED <<svc, mishaps, driver, proc, injected, pdb, md5, hash, polls>>
  BY DEF CheckDrivers, CreateKACService, NotStarted, service, kernel, cache
<1>3. pc[l] = from /\ pc' = [pc EXCEPT ![l] = to] /\ pc'[l] = to
  BY <1>1, StepMoves DEF IInv
<1>4. LauncherInv'
  <2>1. Placed(l)'
    BY <1>2, <1>3 DEF IInv, LauncherInv, Placed, Holding
  <2> QED BY <1>2, <1>3, <2>1, StepKeepsTypes DEF IInv, LauncherInv, Places
<1>5. GameInv'
  BY <1>2, <1>3, OutsiderKeeps DEF Came
<1> QED BY <1>4, <1>5

\* The first to start the service finds everything as it was.
LEMMA StartedKeeps ==
    ASSUME IInv, NEW l \in Launchers, svc = "absent", Started(l)
    PROVE  LauncherInv' /\ GameInv'
<1>1. /\ svc' = "entered" /\ Step(l, "start", "first")
      /\ UNCHANGED <<mishaps, driver, proc, injected, pdb, md5, hash, polls>>
  BY DEF Started, kernel, cache
<1>2. pc[l] = "start" /\ pc' = [pc EXCEPT ![l] = "first"] /\ pc'[l] = "first"
  BY <1>1, StepMoves DEF IInv
<1>3. LauncherInv'
  <2>1. Placed(l)'
    BY <1>1, <1>2 DEF IInv, LauncherInv, Placed, Holding
  <2> QED BY <1>1, <1>2, <2>1, StepKeepsTypes DEF IInv, LauncherInv, Places
<1>4. GameInv'
  <2> SUFFICES ASSUME "stopped" \notin mishaps PROVE GameInv'
    BY <1>1 DEF GameInv
  <2>1. /\ \A k \in Launchers : ~Came(k)
        /\ proc = None /\ injected = {} /\ pdb = "none" /\ md5 = "none"
    BY DEF IInv, GameInv, OneComer
  <2>2. \A k \in Launchers \ {l} : pc'[k] = pc[k]
    BY <1>2 DEF IInv, LauncherInv
  <2>3. \A k \in Launchers \ {l} : ~Came(k)' /\ Served(k)' /\ Fetched(k)'
    BY <2>1, <2>2 DEF Came, Served, Fetched, Holding
  <2>4. Served(l)' /\ Fetched(l)'
    BY <1>1, <1>2, <2>1 DEF Came, Served, Fetched, Holding
  <2> QED BY <1>1, <2>1, <2>3, <2>4 DEF GameInv, OneComer
<1> QED BY <1>3, <1>4

LEMMA EndKeeps ==
    ASSUME IInv, NEW l \in Launchers, EndLauncher(l)
    PROVE  LauncherInv' /\ GameInv'
<1>1. /\ pc' = [pc EXCEPT ![l] = "done"] /\ pc'[l] = "done"
      /\ polls' = [polls EXCEPT ![l] = 0] /\ hash' = [hash EXCEPT ![l] = "none"]
      /\ UNCHANGED <<svc, mishaps, driver, proc, injected, pdb, md5>>
  BY DEF EndLauncher, service, kernel, IInv, LauncherInv
<1>2. /\ polls' \in [Launchers -> 0..MaxPolls] /\ hash' \in [Launchers -> {"none", "partial", "whole"}]
      /\ \A k \in Launchers \ {l} : polls'[k] = polls[k] /\ hash'[k] = hash[k]
  <2>1. 0 \in 0..MaxPolls
    BY MaxPollsAssumption
  <2> QED BY <1>1, <2>1 DEF IInv, LauncherInv
<1>3. LauncherInv'
  <2>1. Placed(l)'
    BY <1>1 DEF Placed, Holding
  <2> QED BY <1>1, <1>2, <2>1, StepKeepsTypes DEF IInv, LauncherInv, Places
<1>4. CASE ~Came(l)
  <2>1. GameInv'
    BY <1>1, <1>2, <1>4, OutsiderKeeps
  <2> QED BY <1>3, <2>1
<1>5. CASE Came(l)
  <2>1. Served(l)' /\ Fetched(l)'
    BY <1>1 DEF Came, Served, Fetched, Holding
  <2>2. "stopped" \notin mishaps => md5' \in {"none", "torn"} \/ pdb' = "whole"
    BY <1>1 DEF IInv, GameInv
  <2>3. GameInv'
    BY <1>1, <1>5, <2>1, <2>2, ComerKeeps
  <2> QED BY <1>3, <2>3
<1> QED BY <1>4, <1>5

\* For the steps of the one who came there remains what they do to it.
LEMMA ComerStep ==
    ASSUME IInv, NEW l \in Launchers, NEW from, NEW to \in Places \ {"off", "exists", "start"},
           Step(l, from, to), from \notin {"off", "exists", "start", "done"},
           UNCHANGED <<svc, mishaps, driver>>,
           polls' \in [Launchers -> 0..MaxPolls], \A k \in Launchers \ {l} : polls'[k] = polls[k],
           proc' \in Launchers \cup {None},
           pdb' \in {"none", "partial", "whole"}, md5' \in {"none", "partial", "whole", "torn"},
           hash' \in [Launchers -> {"none", "partial", "whole"}],
           pc[l] = from /\ pc'[l] = to /\ Served(l) /\ Fetched(l)
              /\ (md5 \in {"none", "torn"} \/ pdb = "whole") =>
                 Served(l)' /\ Fetched(l)' /\ (md5' \in {"none", "torn"} \/ pdb' = "whole"),
           pc[l] = from /\ pc'[l] = to /\ Placed(l) => Placed(l)'
    PROVE  LauncherInv' /\ GameInv'
<1>1. pc[l] = from /\ pc' = [pc EXCEPT ![l] = to] /\ pc'[l] = to
  BY StepMoves DEF IInv
<1>2. LauncherInv'
  BY <1>1, StepKeepsTypes DEF IInv, LauncherInv
<1>3. "stopped" \notin mishaps =>
         Served(l)' /\ Fetched(l)' /\ (md5' \in {"none", "torn"} \/ pdb' = "whole")
  BY <1>1 DEF IInv, GameInv
<1>4. GameInv'
  BY <1>1, <1>3, ComerKeeps DEF Came
<1> QED BY <1>2, <1>4

LEMMA NextPoll == ASSUME NEW n \in 0..MaxPolls, n < MaxPolls PROVE n + 1 \in 0..MaxPolls
BY MaxPollsAssumption

LEMMA PollKeeps ==
    ASSUME IInv, NEW l \in Launchers, OpenFirst(l) \/ Poll(l)
    PROVE  LauncherInv' /\ GameInv'
<1>1. UNCHANGED <<svc, mishaps, driver, proc, injected, pdb, md5, hash>>
  BY DEF OpenFirst, Poll, service, kernel, cache
<1>2. CASE OpenFirst(l)
  <2>1. PICK to \in {"setProc", "poll"} :
           Step(l, "first", to) /\ (to = "setProc" => driver = "running") /\ polls' = polls
    BY <1>2 DEF OpenFirst
  <2>2. pc[l] = "first" /\ pc'[l] = to /\ Placed(l) => Placed(l)'
    BY <1>1, <2>1, MaxPollsAssumption DEF Placed, Holding
  <2>3. pc[l] = "first" /\ pc'[l] = to /\ Served(l) /\ Fetched(l) => Served(l)' /\ Fetched(l)'
    BY <1>1, <2>1 DEF Came, Served, Fetched, Holding
  <2>4. to \in Places \ {"off", "exists", "start"}
    BY <2>1 DEF Places, Holding
  <2>5. /\ proc' \in Launchers \cup {None}
        /\ pdb' \in {"none", "partial", "whole"} /\ md5' \in {"none", "partial", "whole", "torn"}
        /\ hash' \in [Launchers -> {"none", "partial", "whole"}]
        /\ polls' \in [Launchers -> 0..MaxPolls] /\ \A k \in Launchers \ {l} : polls'[k] = polls[k]
    BY <1>1, <2>1 DEF IInv, LauncherInv
  <2>6. pc[l] = "first" /\ pc'[l] = to /\ Served(l) /\ Fetched(l)
           /\ (md5 \in {"none", "torn"} \/ pdb = "whole") =>
              Served(l)' /\ Fetched(l)' /\ (md5' \in {"none", "torn"} \/ pdb' = "whole")
    BY <1>1, <2>3
  <2> QED BY <1>1, <2>1, <2>2, <2>4, <2>5, <2>6, ComerStep
<1>3. CASE Poll(l)
  <2>1. PICK to \in {"setProc", "poll", "gave up"} :
           /\ Step(l, "poll", to) /\ polls' = [polls EXCEPT ![l] = @ + 1]
           /\ to = "setProc" => driver = "running"
           /\ to = "poll" => polls'[l] < MaxPolls
    BY <1>3 DEF Poll
  <2>2. pc[l] = "poll"
    BY <2>1, StepMoves DEF IInv
  <2>3. polls[l] \in 0..MaxPolls /\ polls[l] < MaxPolls
    BY <2>2 DEF IInv, LauncherInv, Placed
  <2>4. polls[l] + 1 \in 0..MaxPolls
    BY <2>3, NextPoll
  <2>5. polls' \in [Launchers -> 0..MaxPolls] /\ \A k \in Launchers \ {l} : polls'[k] = polls[k]
    BY <2>1, <2>4 DEF IInv, LauncherInv
  <2>6. pc[l] = "poll" /\ pc'[l] = to /\ Placed(l) => Placed(l)'
    BY <1>1, <2>1 DEF Placed, Holding
  <2>7. pc[l] = "poll" /\ pc'[l] = to /\ Served(l) /\ Fetched(l) => Served(l)' /\ Fetched(l)'
    BY <1>1, <2>1 DEF Came, Served, Fetched, Holding
  <2>8. to \in Places \ {"off", "exists", "start"}
    BY <2>1 DEF Places, Holding
  <2>9. /\ proc' \in Launchers \cup {None}
        /\ pdb' \in {"none", "partial", "whole"} /\ md5' \in {"none", "partial", "whole", "torn"}
        /\ hash' \in [Launchers -> {"none", "partial", "whole"}]
    BY <1>1 DEF IInv, LauncherInv
  <2>10. pc[l] = "poll" /\ pc'[l] = to /\ Served(l) /\ Fetched(l)
            /\ (md5 \in {"none", "torn"} \/ pdb = "whole") =>
               Served(l)' /\ Fetched(l)' /\ (md5' \in {"none", "torn"} \/ pdb' = "whole")
    BY <1>1, <2>7
  <2> QED BY <1>1, <2>1, <2>5, <2>6, <2>8, <2>9, <2>10, ComerStep
<1> QED BY <1>2, <1>3

LEMMA SendKeeps ==
    ASSUME IInv, NEW l \in Launchers, SendProcID(l) \/ SendACModule(l)
    PROVE  LauncherInv' /\ GameInv'
<1>1. UNCHANGED <<svc, mishaps, driver, pdb, md5, hash>>
  BY DEF SendProcID, SendACModule, service, kernel, cache
<1>2. CASE SendProcID(l)
  <2>1. /\ Step(l, "setProc", "check") /\ UNCHANGED injected
        /\ proc' = IF proc = None THEN l ELSE proc
        /\ polls' = [polls EXCEPT ![l] = 0]
    BY <1>2 DEF SendProcID
  <2>2. 0 \in 0..MaxPolls
    BY MaxPollsAssumption
  <2>3. polls' \in [Launchers -> 0..MaxPolls] /\ \A k \in Launchers \ {l} : polls'[k] = polls[k]
    BY <2>1, <2>2 DEF IInv, LauncherInv
  <2>4. pc[l] = "setProc" /\ pc'[l] = "check" /\ Placed(l) => Placed(l)'
    BY <1>1 DEF Placed, Holding
  <2>5. pc[l] = "setProc" /\ pc'[l] = "check" /\ Served(l) /\ Fetched(l) => Served(l)' /\ Fetched(l)'
    BY <1>1, <2>1 DEF Came, Served, Fetched, Holding
  <2>6. proc' \in Launchers \cup {None}
    BY <2>1 DEF IInv, LauncherInv
  <2> QED BY <1>1, <2>1, <2>3, <2>4, <2>5, <2>6, ComerStep DEF IInv, LauncherInv, Places, Holding
<1>3. CASE SendACModule(l)
  <2>1. /\ Step(l, "send", "using") /\ UNCHANGED <<proc, polls>>
        /\ injected' \subseteq injected \cup {proc}
    BY <1>3 DEF SendACModule
  <2>2. pc[l] = "send" /\ pc'[l] = "using" /\ Placed(l) => Placed(l)'
    BY <1>1 DEF Placed, Holding
  <2>3. pc[l] = "send" /\ pc'[l] = "using" /\ Served(l) /\ Fetched(l) => Served(l)' /\ Fetched(l)'
    BY <1>1, <2>1 DEF Came, Served, Fetched, Holding
  <2> QED BY <1>1, <2>1, <2>2, <2>3, ComerStep DEF IInv, LauncherInv, Places, Holding
<1> QED BY <1>2, <1>3

LEMMA DownloadKeeps ==
    ASSUME IInv, NEW l \in Launchers, Download(l)
    PROVE  LauncherInv' /\ GameInv'
<1> DEFINE Quiet == UNCHANGED <<svc, mishaps, driver, proc, injected, polls>>
<1>1. Quiet
  BY DEF Download, CheckCache, DeleteFile, StartDownload, EndDownload, HashFile, TruncateMd5, WriteMd5,
         service, kernel
<1>2. ASSUME NEW from \in {"check", "delete", "download", "copy", "hash", "truncate", "write"},
             NEW to \in {"delete", "download", "copy", "hash", "truncate", "write", "send", "done"},
             Step(l, from, to),
             pdb' \in {"none", "partial", "whole"}, md5' \in {"none", "partial", "whole", "torn"},
             hash' \in [Launchers -> {"none", "partial", "whole"}],
             pc[l] = from /\ pc'[l] = to /\ Served(l) /\ Fetched(l)
                /\ (md5 \in {"none", "torn"} \/ pdb = "whole") =>
                   Fetched(l)' /\ (md5' \in {"none", "torn"} \/ pdb' = "whole")
      PROVE  LauncherInv' /\ GameInv'
  <2>1. pc[l] = from /\ pc'[l] = to /\ Placed(l) => Placed(l)'
    BY <1>1, <1>2 DEF Placed, Holding
  <2>2. pc[l] = from /\ pc'[l] = to /\ Served(l) => Served(l)'
    BY <1>1, <1>2 DEF Served, Came, Holding
  <2>3. /\ UNCHANGED <<svc, mishaps, driver>>
        /\ polls' \in [Launchers -> 0..MaxPolls] /\ \A k \in Launchers \ {l} : polls'[k] = polls[k]
        /\ proc' \in Launchers \cup {None}
    BY <1>1 DEF IInv, LauncherInv
  <2>4. to \in Places \ {"off", "exists", "start"} /\ from \notin {"off", "exists", "start", "done"}
    BY <1>2 DEF Places, Holding
  <2> HIDE DEF Quiet
  <2> QED BY <1>2, <2>1, <2>2, <2>3, <2>4, ComerStep
<1> HIDE DEF Quiet
<1> USE DEF Fetched, cache
<1>3. CASE CheckCache(l)
  <2>1. PICK to \in {"send", "delete"} : Step(l, "check", to) /\ UNCHANGED <<pdb, md5, hash>>
    BY <1>3 DEF CheckCache
  <2> QED BY <1>2, <2>1 DEF IInv, LauncherInv
<1>4. CASE DeleteFile(l)
  <2>1. Step(l, "delete", "download") /\ pdb' \in {pdb, "none"} /\ UNCHANGED <<md5, hash>>
    BY <1>4 DEF DeleteFile
  <2> QED BY <1>2, <2>1 DEF IInv, LauncherInv
<1>5. CASE StartDownload(l)
  <2>1. /\ \/ Step(l, "download", "copy") /\ pdb' = "partial"
           \/ Step(l, "download", "send") /\ UNCHANGED pdb
        /\ UNCHANGED <<md5, hash>>
    BY <1>5 DEF StartDownload
  <2> QED BY <1>2, <2>1 DEF IInv, LauncherInv
<1>6. CASE EndDownload(l)
  <2>1. /\ \/ Step(l, "copy", "hash") /\ pdb' = "whole"
           \/ Step(l, "copy", "send") /\ UNCHANGED pdb
        /\ UNCHANGED <<md5, hash>>
    BY <1>6 DEF EndDownload
  <2> QED BY <1>2, <2>1 DEF IInv, LauncherInv
<1>7. CASE HashFile(l)
  <2>1. PICK to \in {"done", "truncate"} :
           Step(l, "hash", to) /\ UNCHANGED <<pdb, md5>> /\ hash' = [hash EXCEPT ![l] = pdb]
    BY <1>7 DEF HashFile
  <2>2. hash' \in [Launchers -> {"none", "partial", "whole"}] /\ hash'[l] = pdb
    BY <2>1 DEF IInv, LauncherInv
  <2> QED BY <1>2, <2>1, <2>2 DEF IInv, LauncherInv
<1>8. CASE TruncateMd5(l)
  <2>1. Step(l, "truncate", "write") /\ md5' = "torn" /\ UNCHANGED <<pdb, hash>>
    BY <1>8 DEF TruncateMd5
  <2> QED BY <1>2, <2>1 DEF IInv, LauncherInv
<1>9. CASE WriteMd5(l)
  <2>1. /\ Step(l, "write", "send") /\ md5' = hash[l] /\ UNCHANGED pdb
        /\ hash' = [hash EXCEPT ![l] = "none"]
    BY <1>9 DEF WriteMd5
  <2>2. hash' \in [Launchers -> {"none", "partial", "whole"}] /\ hash[l] \in {"none", "partial", "whole"}
    BY <2>1 DEF IInv, LauncherInv
  <2> QED BY <1>2, <2>1, <2>2 DEF IInv, LauncherInv
<1> QED BY <1>3, <1>4, <1>5, <1>6, <1>7, <1>8, <1>9 DEF Download

-----------------------------------------------------------------------------
LEMMA InitInv == Init => IInv
<1> SUFFICES ASSUME Init PROVE IInv
  OBVIOUS
<1>1. ServiceInv
  BY DEF Init, ServiceInv, States
<1>2. 0 \in 0..MaxPolls
  BY MaxPollsAssumption
<1>3. LauncherInv
  BY <1>2 DEF Init, LauncherInv, Places, Placed, Holding
<1>4. GameInv
  BY DEF Init, GameInv, OneComer, Came, Served, Fetched, Holding
<1> QED BY <1>1, <1>3, <1>4 DEF IInv

LEMMA StepInv == IInv /\ [Next]_vars => IInv'
<1> SUFFICES ASSUME IInv, [Next]_vars PROVE IInv'
  OBVIOUS
<1>1. CASE UNCHANGED vars
  <2>1. UNCHANGED <<registered, status, svc, svcStatus, handler, argument>> /\ UNCHANGED mishaps
        /\ UNCHANGED <<driver, proc, injected, pc, polls, pdb, md5, hash>>
    BY <1>1 DEF vars, service, control, kernel, launcher, cache
  <2>2. ServiceInv'
    BY <2>1 DEF IInv, ServiceInv
  <2>3. LauncherInv'
    BY <2>1 DEF IInv, LauncherInv, Placed
  <2>4. GameInv'
    BY <2>1 DEF IInv, GameInv, OneComer, Came, Served, Fetched
  <2> QED BY <2>2, <2>3, <2>4 DEF IInv
<1>2. CASE Next
  <2>1. ServiceInv'
    BY <1>2, ServiceKeeps DEF IInv
  <2>2. CASE ServiceSteps
    BY <2>1, <2>2, ServiceKeepsGame DEF IInv
  <2>3. CASE StopDriver
    BY <2>1, <2>3, DriverStopKeeps DEF IInv
  <2>4. ASSUME NEW l \in Launchers, Main(l) \/ Download(l) \/ EndLauncher(l)
        PROVE  LauncherInv' /\ GameInv'
    BY <2>4, OutsiderStep, StartedKeeps, EndKeeps, PollKeeps, SendKeeps, DownloadKeeps DEF Main, StartService
  <2> QED BY <1>2, <2>1, <2>2, <2>3, <2>4 DEF Next, ServiceSteps, IInv
<1> QED BY <1>1, <1>2

LEMMA Invariance == Spec => []IInv
BY InitInv, StepInv, PTL DEF Spec

LEMMA FewActive == IInv /\ "stopped" \notin mishaps => Cardinality(Active) <= 1
<1> SUFFICES ASSUME IInv, "stopped" \notin mishaps PROVE Cardinality(Active) <= 1
  OBVIOUS
<1>1. \A k, l \in Active : k = l
  BY DEF Active, IInv, GameInv, OneComer, Came, Holding
<1>2. CASE Active = {}
  BY <1>2, FS_EmptySet
<1>3. CASE Active # {}
  <2>1. PICK l \in Active : Active = {l}
    BY <1>1, <1>3
  <2> QED BY <2>1, FS_Singleton
<1> QED BY <1>2, <1>3

\* Until the service ends, one launcher at most gets past its start, the driver is
\* that launcher's when its game runs, and one that gives up shuts out the others.
THEOREM GameIsAlone == Spec => []OneGame
<1>1. IInv => TypeOK
  BY DEF IInv, ServiceInv, LauncherInv, Places, States, TypeOK
<1>2. IInv => UsingIsServed
  BY FewActive DEF IInv, LauncherInv, GameInv, OneComer, Came, Served, UsingIsServed, Holding
<1>3. IInv => TimeoutShutsOut
  BY DEF IInv, GameInv, OneComer, Came, TimeoutShutsOut, Active, Holding
<1> QED BY <1>1, <1>2, <1>3, Invariance, PTL DEF OneGame

\* Until the service ends, a file of symbols that fits its hash is whole, wherever
\* launchers were killed and downloads failed.
THEOREM BelievedIsWhole == Spec => []CacheIsWhole
<1>1. IInv => CacheIsWhole
  BY DEF IInv, LauncherInv, GameInv, CacheIsWhole, Believed
<1> QED BY <1>1, Invariance, PTL
=============================================================================
