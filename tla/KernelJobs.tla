----------------------------- MODULE KernelJobs -----------------------------
(***************************************************************************)
(* The driver's routines that look at and change the kernel itself: its    *)
(* page tables, its services, its discarded memory, what it knows of the   *)
(* build, and the requests on one process.                                 *)
(***************************************************************************)
EXTENDS ServiceHooks, ImageJobs, SystemJobs

KernelInit ==
  /\ result = Pending
  /\ job \in PageJobs \cup HookJobs \cup DiscardJobs \cup BuildJobs \cup InjectJobs \cup GrantJobs

KernelNext == FindEntry \/ HookServices \/ AllocateDiscarded \/ InitBuild \/ TakeAndRestore \/ GrantAccess

KernelSpec == KernelInit /\ [][KernelNext]_vars

----------------------------------------------------------------------------
\* The kernel itself: its tables are found where the processor has them, what
\* is hooked can be unhooked, and what is changed for a request is put back.
KernelIsPutBack ==
  /\ EntryIsTheProcessors /\ DataIsForThisKernel
  /\ ServicesAreFound /\ CallsReachTheLastHook /\ TrampolinesFillPadding /\ HooksUnwind
  /\ DiscardedMemoryIsBacked
  /\ InjectionKeepsProtection /\ GrantChangesOneHandle
=============================================================================
