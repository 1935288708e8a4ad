----------------------------- MODULE SystemJobs -----------------------------
(***************************************************************************)
(* BuildData and ProcessRequests on small inputs.                          *)
(***************************************************************************)
EXTENDS Integers, Sequences, SequencesExt, FiniteSets, Jobs

Builds == INSTANCE BuildData
Requests == INSTANCE ProcessRequests

----------------------------------------------------------------------------
(* A system's version word and build, whether the debugger block could be   *)
(* captured, and where the pattern of ExRemoveTable lies.  From build 14393 *)
(* on a kernel relocates its page tables.                                   *)

CONSTANTS
  Systems,                  \* <<version word, build>>
  FixedBase, RelocatedBase  \* of the page tables
KernelBaseOf(build) == IF build >= 14393 THEN RelocatedBase ELSE FixedBase

\* Only Windows 10 has builds that relocate them.
ASSUME SystemsAssumption ==
  /\ FixedBase # 0 /\ RelocatedBase # 0
  /\ \A s \in Systems : s[1].major \in Nat /\ s[2] \in Nat /\ (s[1].major < 10 => s[2] < 14393)

BuildJobs == [kind : {"build"}, system : Systems, for10 : BOOLEAN, captured : BOOLEAN,
              names : SeqOf({"text", "PAGE"}, 2), hits : SUBSET {1, 2}]

InitBuild ==
  Compute("build", Builds!DriverEntryData(job.system[1], job.system[2], job.for10, job.names, job.hits,
                                          job.captured, KernelBaseOf(job.system[2]), FixedBase))

\* What the routines reach through the data of a version.
Needed(ver) ==
  {"KExecOpt", "Protection", "ObjTable", "VadRoot", "NtCreateThdExIndex", "NtTermThdIndex",
   "PrevMode", "ExitStatus"}
  \cup (IF Builds!AtLeast(ver, "8.1") THEN {"EProcessFlags2"} ELSE {"NtProtectIndex"})

\* Data that is answered as good has every offset the version's routines use,
\* and the page tables of this kernel.
DataIsForThisKernel ==
  Done("build") /\ result.res = "success" =>
    /\ Needed(result.row.ver) \subseteq result.row.fields
    /\ result.base = KernelBaseOf(job.system[2])

----------------------------------------------------------------------------
Protections == [type : {"none", "light", "full"}, signer : {"none", "Antimalware", "WinTcb"}]
Processes ==
  {p \in [found : {TRUE}, protection : Protections, noDynamicCode : BOOLEAN,
          signature : {"unchecked", "microsoft", "antimalware"}] :
     p.protection.type = "none" <=> p.protection.signer = "none"}
SystemData == [ver : {7, 8, 81, 100}, offset : BOOLEAN, flags2 : BOOLEAN]

InjectJobs == [kind : {"inject"}, process : Processes, data : SystemData]

TakeAndRestore ==
  LET during == Requests!TakeProtection(job.data, job.process)
  IN  Compute("inject",
        [during |-> during,
         after |-> Requests!RestoreProtection(job.data, during, Requests!IsProtected(job.process))])

\* An injection runs with the protection off, when it can be taken off, and
\* leaves the process protected if and only if it was; one that was not, or
\* whose protection is out of reach, stays wholly as it was.
InjectionKeepsProtection ==
  Done("inject") =>
    /\ job.data.offset => ~Requests!IsProtected(result.during)
    /\ Requests!IsProtected(result.after) <=> Requests!IsProtected(job.process)
    /\ ~job.data.offset \/ ~Requests!IsProtected(job.process) =>
         result.after = job.process /\ result.during = job.process

----------------------------------------------------------------------------
CONSTANT MaxHandles  \* in a process's table
ASSUME HandlesAssumption == MaxHandles \in Nat
HandleEntries ==
  {[handle |-> h, object |-> o, access |-> 1, locked |-> FALSE, woken |-> FALSE] :
     h \in 1..MaxHandles, o \in {"valid", "invalid", "free"}}
HandleTables == {t \in SeqOf(HandleEntries, MaxHandles) : \A i \in DOMAIN t : t[i].handle = i}

GrantJobs ==
  [kind : {"grant"}, offset : BOOLEAN, process : {"alive", "terminating", "missing"},
   table : HandleTables, request : [handle : 1..MaxHandles, access : {1, 9}]]

GrantAccess ==
  Compute("grant", Requests!BBGrantAccess(job.offset, job.process, job.table, job.request))

\* A grant changes the access of the one handle it names, and it answers
\* success exactly when that is an open handle of a living process; no entry
\* it met stays locked, with its waiters asleep.
GrantChangesOneHandle ==
  Done("grant") =>
    LET named == {i \in DOMAIN job.table :
                    job.table[i].handle = job.request.handle /\ job.table[i].object = "valid"}
        served == job.offset /\ job.process = "alive"
    IN  /\ (result.res = "success") <=> (served /\ named # {})
        /\ \A i \in DOMAIN job.table :
             /\ ~result.table[i].locked
             /\ result.table[i].access = IF served /\ i \in named THEN job.request.access ELSE 1
=============================================================================
