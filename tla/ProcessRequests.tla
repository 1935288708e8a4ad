-------------------------- MODULE ProcessRequests --------------------------
(***************************************************************************)
(* The requests of Routines.c that change a process object: its protection *)
(* and the access its handles grant; and the use the injector makes of the *)
(* first (Inject.c).  A policy is "disable", "enable" or "keep".           *)
(***************************************************************************)
EXTENDS Integers, Sequences, FiniteSets, FiniteSetsExt

Unprotected == [type |-> "none", signer |-> "none"]

\* PsIsProtectedProcess, external.
IsProtected(process) == process.protection # Unprotected

Policy(value, policy, disabled, enabled) ==
  CASE policy = "keep" -> value [] policy = "disable" -> disabled [] policy = "enable" -> enabled

\* Windows 7 has a flag and Windows 8 a byte that is not zero.
SetFlag(process, request, signer) ==
  [process EXCEPT !.protection = Policy(@, request.protection, Unprotected, [type |-> "full", signer |-> signer])]

\* From Windows 8.1 on there are the kind of protection, the signature levels
\* of the process and its sections, and the dynamic code mitigation.
SetLevels(process, request, flags2) ==
  [process EXCEPT
     !.protection = Policy(@, request.protection, Unprotected, [type |-> "full", signer |-> "WinTcb"]),
     !.noDynamicCode = IF flags2 THEN Policy(@, request.dynamicCode, FALSE, TRUE) ELSE @,
     !.signature = Policy(@, request.signature, "unchecked", "microsoft")]

BBSetProtection(data, process, request) ==
  CASE ~process.found -> [res |-> "notfound", process |-> process]
    [] process.found /\ ~data.offset -> [res |-> "invalidaddress", process |-> process]
    [] process.found /\ data.offset ->
         [res |-> "success",
          process |-> IF data.ver < 81 THEN SetFlag(process, request, "none")
                      ELSE SetLevels(process, request, data.flags2)]

All(policy) == [protection |-> policy, dynamicCode |-> policy, signature |-> policy]

\* The injector takes the protection away before its call and puts it back
\* after it, both only when the process was protected.
TakeProtection(data, process) ==
  IF IsProtected(process) THEN BBSetProtection(data, process, All("disable")).process ELSE process
RestoreProtection(data, process, wasProtected) ==
  IF wasProtected THEN BBSetProtection(data, process, All("enable")).process ELSE process

----------------------------------------------------------------------------
(* A handle table is a sequence of [handle, object, access, locked, woken]. *)

ExpIsValidObjectEntry(entry) == entry.object = "valid"

\* The entry comes locked; whatever it is, it is unlocked and its waiters woken.
BBHandleCallback(entry, request) ==
  [entry EXCEPT !.locked = FALSE, !.woken = TRUE,
     !.access = IF entry.handle = request.handle /\ ExpIsValidObjectEntry(entry)
                THEN request.access ELSE @]

Found(entry, request) == entry.handle = request.handle /\ ExpIsValidObjectEntry(entry)

\* ExEnumHandleTable, external: it locks each entry with an object in turn,
\* and goes on until the callback answers TRUE.
ExEnumHandleTable(table, request) ==
  LET hits == {i \in DOMAIN table : table[i].object # "free" /\ Found(table[i], request)}
      last == IF hits = {} THEN Len(table) ELSE Min(hits)
  IN  [found |-> hits # {},
       table |-> [i \in DOMAIN table |->
                    IF i <= last /\ table[i].object # "free"
                    THEN BBHandleCallback([table[i] EXCEPT !.locked = TRUE, !.woken = FALSE], request)
                    ELSE table[i]]]

\* A process that terminates, or that is not found, is refused.
BBGrantAccess(offset, process, table, request) ==
  LET r == ExEnumHandleTable(table, request)
      Refuses(res) == [res |-> res, table |-> table]
  IN  CASE ~offset -> Refuses("invalidaddress")
        [] offset /\ process = "missing" -> Refuses("lookupfailed")
        [] offset /\ process = "terminating" -> Refuses("terminating")
        [] OTHER -> [res |-> IF r.found THEN "success" ELSE "notfound", table |-> r.table]
=============================================================================
