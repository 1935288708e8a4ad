------------------------------- MODULE HostLease -------------------------------
(***************************************************************************)
(* What the remapping table promises about ownership, whatever callers and  *)
(* processes do: each target is leased to at most one host process; a lease *)
(* is granted to a running process and only when nobody holds it; a holder  *)
(* never loses its lease to another process directly: the lease lapses when *)
(* the holder exits, or ends for everybody when the mapping is dropped.     *)
(***************************************************************************)
CONSTANTS
    Processes,   \* possible holders
    Subjects,    \* processes that can be leased
    Absent,      \* no mapping exists
    Vacant       \* a mapping exists and nobody holds it

VARIABLES
    lease,       \* per subject: its holder, Vacant or Absent
    running      \* the processes that have not exited

Init ==
    /\ lease = [t \in Subjects |-> Absent]
    /\ running \in SUBSET Processes

Grant(c, t) ==
    /\ c \in running
    /\ lease[t] \in {Absent, Vacant}
    /\ lease' = [lease EXCEPT ![t] = c]
    /\ UNCHANGED running

Drop(t) ==
    /\ lease[t] # Absent
    /\ lease' = [lease EXCEPT ![t] = Absent]
    /\ UNCHANGED running

\* The mapping of p itself ends; if there is none, some leases p holds lapse.
Exit(p) ==
    /\ p \in running
    /\ running' = running \ {p}
    /\ \/ /\ p \in Subjects
          /\ lease' = [lease EXCEPT ![p] = Absent]
       \/ \E S \in SUBSET {t \in Subjects : lease[t] = p} :
            lease' = [t \in Subjects |-> IF t \in S THEN Vacant ELSE lease[t]]

Start(p) ==
    /\ p \notin running
    /\ running' = running \cup {p}
    /\ UNCHANGED lease

DropAll ==
    /\ lease' = [t \in Subjects |-> Absent]
    /\ UNCHANGED running

Next ==
    \/ \E c \in Processes, t \in Subjects : Grant(c, t)
    \/ \E t \in Subjects : Drop(t)
    \/ \E p \in Processes : Exit(p) \/ Start(p)
    \/ DropAll

Spec == Init /\ [][Next]_<< lease, running >>
=============================================================================
