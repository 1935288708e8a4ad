-------------------------- MODULE KernelAlgorithms --------------------------
(***************************************************************************)
(* The driver's sequential routines, each applied to every input of a      *)
(* small set.  The invariants compare a result with a definition of what   *)
(* the routine promises that does not look at how it is computed.          *)
(***************************************************************************)
EXTENDS VadJobs, PdbJobs, PdbFileJobs, CodeJobs, KernelJobs

Init ==
  \/ /\ result = Pending
     /\ job \in RemovalJobs \cup LookupJobs \cup HideJobs \cup ProtectJobs
               \cup RecordJobs \cup StreamJobs \cup MemberJobs
               \cup FileJobs \cup SymbolJobs
  \/ CodeInit
  \/ KernelInit

Next == RemoveVad \/ LookupVad \/ HideVad \/ ProtectVad
        \/ ParseRecord \/ ParseStream \/ FindMember
        \/ ReadStreams \/ FindSymbols
        \/ CodeNext
        \/ KernelNext

Spec == Init /\ [][Next]_vars

----------------------------------------------------------------------------
\* The regions of a process: a removal keeps the tree that a lookup relies on,
\* and what is hidden or protected is the region that was asked for.
VadsAreKept ==
  /\ RemovalLosesOnlyTheNode /\ RemovalBalances
  /\ LookupFindsRegionOrItsPlace
  /\ HidesThatRegionOnly /\ ProtectionFollowsRequests

=============================================================================
