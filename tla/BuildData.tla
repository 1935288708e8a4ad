----------------------------- MODULE BuildData -----------------------------
(***************************************************************************)
(* What the driver knows of the running system's private structures        *)
(* (Driver.cpp, BBInitDynamicData): which offsets are known, not their     *)
(* values, and where ExRemoveTable came from.  Versions are in the order   *)
(* of WinVer; a version word is [major, minor, pack].                      *)
(***************************************************************************)
EXTENDS Integers, Sequences, FiniteSets, FiniteSetsExt

WinVer == <<"7", "7SP1", "8", "8.1", "10", "RS1", "RS2", "RS3", "RS4", "RS5",
            "19H1", "19H2", "20H1", "20H2", "21H1", "21H2">>
AtLeast(ver, least) ==
  \E i, j \in DOMAIN WinVer : WinVer[i] = ver /\ WinVer[j] = least /\ i >= j

Basic == {"KExecOpt", "Protection", "ObjTable", "VadRoot", "NtCreateThdExIndex",
          "NtTermThdIndex", "PrevMode", "ExitStatus"}
Modern == Basic \cup {"EProcessFlags2"}

\* The pattern is looked for in the first section of the name only.
BBScanSection(names, hits, name) ==
  LET named == {i \in DOMAIN names : names[i] = name}
  IN  named # {} /\ Min(named) \in hits

Row(ver, fields, remove) == [ver |-> ver, fields |-> fields, remove |-> remove]
NoRow == Row("none", {}, "none")

\* Windows 7 to 8.1.  Only the scan of 7 SP1 answers into ExRemoveTable; the
\* others answer into a local pointer and then move what the field held.
EarlyRow(ver, found) ==
  CASE ver = "7" -> Row(ver, Basic \cup {"NtProtectIndex"}, "fixed")
    [] ver = "7SP1" -> Row(ver, Basic \cup {"NtProtectIndex"}, IF found THEN "found" ELSE "none")
    [] ver = "8" -> Row(ver, Basic \cup {"NtProtectIndex", "MiAllocPage"}, "fixed")
    [] ver = "8.1" -> Row(ver, Modern, IF found THEN "wild" ELSE "fixed")

KnownBuilds ==
  [n \in {10586, 14393, 15063, 16299, 17134, 17763, 18362, 18363} |->
     CASE n = 10586 -> "10" [] n = 14393 -> "RS1" [] n = 15063 -> "RS2" [] n = 16299 -> "RS3"
       [] n = 17134 -> "RS4" [] n = 17763 -> "RS5" [] n = 18362 -> "19H1" [] n = 18363 -> "19H2"]

\* Windows 10 by build: one without a row of its own takes that of 20H1 up to
\* it, and that of 21H2 from it on; between them there is none.
RowOf10(build, found) ==
  LET ver == CASE build \in DOMAIN KnownBuilds -> KnownBuilds[build]
               [] build \notin DOMAIN KnownBuilds /\ build <= 19041 -> "20H1"
               [] build >= 19044 -> "21H2"
               [] OTHER -> "none"
  IN  IF ver = "none" THEN NoRow ELSE Row(ver, Modern, IF found THEN "wild" ELSE "none")

\* A driver that is built for Windows 10 accepts its version words only, up to
\* that of 20H1; of those only the plain one has a row.
Accepted(word, for10) == for10 => word.major = 10 /\ word.minor = 0 /\ word.pack <= 8

RowOf(word, build, found) ==
  CASE word.major = 6 /\ word.minor = 1 /\ word.pack = 0 -> EarlyRow("7", found)
    [] word.major = 6 /\ word.minor = 1 /\ word.pack = 1 -> EarlyRow("7SP1", found)
    [] word.major = 6 /\ word.minor = 2 /\ word.pack = 0 -> EarlyRow("8", found)
    [] word.major = 6 /\ word.minor = 3 /\ word.pack = 0 -> EarlyRow("8.1", found)
    [] word.major = 10 /\ word.minor = 0 /\ word.pack = 0 -> RowOf10(build, found)
    [] OTHER -> Row("other", {}, "none")

\* The base of the page tables in the captured debugger block; 0 without one.
InitializeDebuggerBlock(captured, kernelBase) == IF captured THEN kernelBase ELSE 0

\* Only bases in the system's range are taken.
RefusesBase(base) == base = 0

\* The answer and what it leaves in the data.  A version word without a row is
\* kept as the version; correctBuild is set before anything is known.
BBInitDynamicData(word, build, for10, found, block, fixedBase) ==
  LET row == RowOf(word, build, found)
      relocated == AtLeast(row.ver, "RS1") \/ (row.ver = "other" /\ word.major >= 10)
      base == IF relocated THEN block ELSE fixedBase
      Leaves(res, r, b) == [res |-> res, row |-> r, base |-> b, correctBuild |-> TRUE]
  IN  IF ~Accepted(word, for10) \/ row = NoRow THEN Leaves("notsupported", NoRow, fixedBase)
      ELSE Leaves(CASE RefusesBase(base) -> "unsuccessful"
                    [] ~RefusesBase(base) /\ "VadRoot" \notin row.fields -> "invalidversion"
                    [] OTHER -> "success", row, base)

\* DriverEntry captures the block, fills the data, and goes on with what it is.
DriverEntryData(word, build, for10, names, hits, captured, kernelBase, fixedBase) ==
  BBInitDynamicData(word, build, for10, BBScanSection(names, hits, "PAGE"),
                    InitializeDebuggerBlock(captured, kernelBase), fixedBase)
=============================================================================
