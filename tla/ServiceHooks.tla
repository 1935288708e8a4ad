---------------------------- MODULE ServiceHooks ----------------------------
(***************************************************************************)
(* The system's service table, found in a kernel's code and then hooked    *)
(* and unhooked through KernelImage's operators: any services, to any      *)
(* addresses, the last hook undone first, in any order otherwise.          *)
(*                                                                         *)
(* For the jobs of kind "hook", result is a record of what was found, the  *)
(* kernel's memory, the table, and the hooks that are set, each with the   *)
(* address it answered as the old one.                                     *)
(***************************************************************************)
EXTENDS KernelImage, Jobs

CONSTANTS
  KernelModules, SystemRoutine,   \* the loaded modules, and a routine of the kernel
  Sections, Memories,             \* the kernel's sections, and what its memory may hold
  LoaderCode, Descriptor,         \* code that loads the address of the descriptor
  ServiceTables, TableIndexes,
  Services, HookAddresses,        \* what is hooked, and where to
  MaxHooks

Kernel == GetKernelBase(KernelModules, SystemRoutine)
CellsOf(k) == Kernel + Sections[k].va..Kernel + Sections[k].va + Sections[k].size - 1
Padding == {Int3, Nop}
Tables == [base : Nat, count : Nat, params : [TableIndexes -> Nat], entries : [TableIndexes -> 0..WordSpan - 1]]

\* Code that stays, and of that the code the system's dispatcher may be in.
StayingCode ==
  {k \in DOMAIN Sections : "execute" \in Sections[k].flags /\ "discardable" \notin Sections[k].flags
                           /\ Sections[k].name # "INIT"}
DispatcherCode == {k \in StayingCode : "nonpaged" \in Sections[k].flags /\ Sections[k].name # "PAGE"}

\* Where code like the loader's lies in a section; its last position is not tried.
Loaders(memory, k) ==
  {at \in Kernel + Sections[k].va..Kernel + Sections[k].va + Sections[k].size - Len(LoaderCode) - 1 :
     \A j \in DOMAIN LoaderCode : LoaderCode[j] \in {AnyCell, memory[at + j - 1]}}

\* An address leads on through a jump.
Follow(memory, at) == IF at \in DOMAIN memory /\ memory[at] = Jmp THEN memory[at + 1] ELSE at

ASSUME ImageAssumption ==
  /\ PageSize \in Nat \ {0} /\ Kernel \in Nat \ {NullPtr}
  /\ {Int3, Nop, Jmp, HighByte} \subseteq Int /\ {Jmp, HighByte} \cap Padding = {} /\ Jmp # HighByte
  /\ Sections \in Seq([name : STRING, va : Nat, size : Nat, flags : SUBSET STRING])
  /\ \A m \in Memories : /\ \A k \in DOMAIN Sections : CellsOf(k) \subseteq DOMAIN m
                         /\ \A at \in DOMAIN m : m[at] # Jmp

\* The search for padding in code that stays subtracts a trampoline's size from
\* the section's, unsigned: in a shorter section it would go on past its end.
ASSUME SectionAssumption == \A k \in StayingCode : Sections[k].size >= TrampolineSize

\* The loader's code is there, and what looks like it loads the same address.
ASSUME LoaderAssumption ==
  /\ LoaderCode \in Seq(Int)
  /\ \A m \in Memories :
       /\ \E k \in DispatcherCode : Loaders(m, k) # {}
       /\ \A k \in DispatcherCode : \A at \in Loaders(m, k) : at + m[at + 1] + 2 = Descriptor

\* The services' entries are whole; code that stays is in the table's reach.
ASSUME TableAssumption ==
  /\ ArgSpan \in Nat \ {0} /\ WordSpan \in Nat \ {0} /\ WordSpan % (2 * ArgSpan) = 0
  /\ Services \subseteq Nat \cap TableIndexes /\ ServiceTables \subseteq Tables
  /\ \A t \in ServiceTables :
       /\ \A i \in Services : i <= t.count /\ t.entries[i] % ArgSpan = t.params[i] \div 4
       /\ \A k \in StayingCode : \A at \in CellsOf(k) : at < t.base + (WordSpan \div (2 * ArgSpan))

\* Neither services nor what they are hooked to are in padding.
ASSUME AddressAssumption ==
  /\ HookAddresses \subseteq Nat \ ({NullPtr} \cup Padding \cup {Jmp})
  /\ \A m \in Memories :
       /\ \A a \in HookAddresses \cap DOMAIN m : m[a] \notin Padding
       /\ \A t \in ServiceTables, i \in Services :
            /\ Target(t, t.entries[i]) # NullPtr
            /\ Target(t, t.entries[i]) \in DOMAIN m => m[Target(t, t.entries[i])] \notin Padding

----------------------------------------------------------------------------
HookJobs == [kind : {"hook"}, memory : Memories, table : ServiceTables]

FindServices ==
  Compute("hook", [ssdt |-> GetSSDTBase(job.memory, Kernel, Sections, LoaderCode),
                   memory |-> job.memory, table |-> job.table, hooks |-> <<>>])

\* A hook that is refused changes nothing.
HookService(index, addr) ==
  LET r == BBHookSSDT(result.memory, Kernel, Sections, result.table, index, addr)
  IN  /\ Done("hook") /\ Len(result.hooks) < MaxHooks
      /\ r.res = "success"
      /\ result' = [result EXCEPT !.memory = r.memory, !.table = r.table,
                      !.hooks = Append(@, [index |-> index, addr |-> addr, old |-> r.old])]
      /\ UNCHANGED job

\* The last hook is undone with what it answered.
UnhookService ==
  /\ Done("hook") /\ result.hooks # <<>>
  /\ LET last == result.hooks[Len(result.hooks)]
     IN  result' = [result EXCEPT !.table = BBRestoreSSDT(@, last.index, last.old),
                      !.hooks = SubSeq(@, 1, Len(@) - 1)]
  /\ UNCHANGED job

HookServices ==
  \/ FindServices
  \/ \E index \in Services, addr \in HookAddresses : HookService(index, addr)
  \/ UnhookService

----------------------------------------------------------------------------
\* GetSSDTBase finds the descriptor, not what looks like its loader elsewhere.
ServicesAreFound == Done("hook") => result.ssdt = Descriptor

\* A call of a service arrives where the last hook of that service sends it,
\* or at the service, through a trampoline or not; it runs as a call of the
\* kernel, with the stack arguments the service takes, and leaves the
\* caller's mode as it was.
CallsReachTheLastHook ==
  Done("hook") =>
    \A i \in Services :
      LET hooks == {k \in DOMAIN result.hooks : result.hooks[k].index = i}
          call == CallService(result.table, i, "user")
      IN  /\ Follow(result.memory, call.service) =
               IF hooks = {} THEN Target(job.table, job.table.entries[i])
               ELSE result.hooks[Max(hooks)].addr
          /\ call.seen = "kernel" /\ call.mode = "user"
          /\ result.table.entries[i] % ArgSpan = job.table.entries[i] % ArgSpan

\* What changed in memory is whole trampolines, each of its own cells, which
\* were padding of code that stays.
TrampolinesFillPadding ==
  Done("hook") =>
    LET places == {at \in DOMAIN job.memory : result.memory[at] = Jmp}
        CellsAt(place) == place..place + TrampolineSize - 1
    IN  /\ {at \in DOMAIN job.memory : result.memory[at] # job.memory[at]} = UNION {CellsAt(p) : p \in places}
        /\ \A p \in places :
             /\ \E k \in StayingCode : CellsAt(p) \subseteq CellsOf(k)
             /\ \A at \in CellsAt(p) : job.memory[at] \in Padding
             /\ result.memory[p + 1] \in HookAddresses /\ result.memory[p + 2] = HighByte

\* Hooks undone in the reverse order leave the table as it was.
HooksUnwind == Done("hook") /\ result.hooks = <<>> => result.table = job.table
=============================================================================
