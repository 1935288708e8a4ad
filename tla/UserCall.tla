------------------------------- MODULE UserCall -------------------------------
(***************************************************************************)
(* How the driver runs code in a user process while it maps an image there  *)
(* (BBCallRoutine and its helpers in BlackBone/MMap.c and Loader.c).        *)
(*                                                                         *)
(* The code of a call is generated into ONE shared buffer of the process,   *)
(* and run by an APC of a worker thread or by a new thread; its last act is *)
(* to set an event.  The driver waits for the event or for the new thread,  *)
(* but not for ever, and then generates the code of the next call into the  *)
(* same buffer.  Nobody takes an APC or a thread back that is late.         *)
(***************************************************************************)
EXTENDS Integers

CONSTANTS
    Routine,   \* what may be called: functions of the process and of its images
    None,      \* no routine
    Fresh,     \* a new thread that has not looked at the code buffer yet
    Freed,     \* the code buffer once it is gone
    MaxApcs,   \* how many APCs there is memory for at a time
    Env        \* the hazards this instance allows

Hazards == {"late",        \* a routine outlasts the wait for it
            "callFails",   \* no memory for an APC, no new thread
            "exits",       \* the process exits
            "setupFails",  \* no worker thread, no buffer or no event
            "loadFails",   \* an image or an export is missing, or no memory for it
            "readFails"}   \* the file of an image is there but cannot be read or is none

ASSUME EnvAssumption == Env \subseteq Hazards
ASSUME NamesAssumption == /\ {None, Fresh, Freed} \cap Routine = {}
                          /\ None # Fresh /\ None # Freed /\ Fresh # Freed
ASSUME MaxApcsAssumption == MaxApcs \in Nat \ {0}

VARIABLES
    code,      \* the routine whose code is in userMem->code
    call,      \* the routine BBCallRoutine waits for
    inThread,  \* ... in a new thread, not in the worker
    ok,        \* BBCallRoutine returned STATUS_SUCCESS
    event,     \* pSync is set
    apcs,      \* APCs queued to the worker
    worker,    \* None: not there, Fresh: in its own loop, else what it executes
    threads,   \* the other threads: whom each was made for, and what it executes
    alive,     \* the process has not exited
    unread,    \* history: nobody has executed the code yet
    met        \* history: the hazards met so far

callVars == << code, call, inThread, ok, event, apcs, worker, threads, alive, unread, met >>

Meets(hazard) == hazard \in Env /\ met' = met \cup {hazard}

Thread == [made : Routine, runs : Routine \cup {Fresh, Freed}]

-----------------------------------------------------------------------------
(* The driver.                                                              *)

\* Mutant: does not reset the event.
MutQueueApc(r) ==
    /\ apcs' = apcs + 1 /\ inThread' = FALSE
    /\ UNCHANGED << event, threads >>

\* KeResetEvent and BBQueueUserApc.
QueueApc(r) ==
    /\ event' = FALSE /\ apcs' = apcs + 1 /\ inThread' = FALSE
    /\ UNCHANGED threads

ExecuteInNewThread(r) ==
    /\ threads' = threads \cup {[made |-> r, runs |-> Fresh]} /\ inThread' = TRUE
    /\ UNCHANGED << event, apcs >>

\* Once the process has exited its memory may be gone at any moment.  The driver
\* then raises an exception where it touches it, in BBCallRoutine where it
\* generates the code, and nothing of what should follow happens.
Raises == ~alive /\ call = None /\ UNCHANGED callVars

\* BBCallRoutine up to its wait, if the buffer is there.  Its code is generated even
\* if nobody can be found to run it, as in a process that is exiting.
BBCallRoutine(r, newThread) ==
    /\ call = None
    /\ code' = r /\ unread' = TRUE
    /\ \/ /\ alive /\ (apcs < MaxApcs \/ newThread)
          /\ call' = r
          /\ IF newThread THEN ExecuteInNewThread(r) ELSE QueueApc(r)
          /\ UNCHANGED << ok, met >>
       \/ /\ ok' = FALSE
          /\ alive => "callFails" \in Env \/ (apcs = MaxApcs /\ ~newThread)
          /\ met' = IF alive THEN met \cup {"callFails"} ELSE met
          /\ event' = (event /\ newThread)
          /\ UNCHANGED << call, inThread, apcs, threads >>
    /\ UNCHANGED << worker, alive >>

\* Mutant: does not wait for a new thread.
MutWaitEnds ==
    /\ call # None
    /\ inThread \/ event
    /\ call' = None /\ ok' = TRUE
    /\ UNCHANGED << code, inThread, event, apcs, worker, threads, alive, unread, met >>

\* The wait is over ...
WaitEnds ==
    /\ call # None
    /\ IF inThread THEN \A t \in threads : t.made # call ELSE event
    /\ call' = None /\ ok' = TRUE
    /\ UNCHANGED << code, inThread, event, apcs, worker, threads, alive, unread, met >>

\* Mutant: waits without a timeout.
MutWaitTimesOut == call # None /\ FALSE /\ UNCHANGED callVars

\* ... or has lasted too long.
WaitTimesOut ==
    /\ call # None
    /\ call' = None /\ ok' = FALSE
    /\ IF alive THEN Meets("late") ELSE UNCHANGED met
    /\ UNCHANGED << code, inThread, event, apcs, worker, threads, alive, unread >>

-----------------------------------------------------------------------------
(* The process.  Its threads execute what they find in the buffer.          *)

\* Mutant: an APC that was never queued.
MutStartApc ==
    /\ worker = Fresh
    /\ apcs' = apcs - 1
    /\ worker' = code /\ unread' = FALSE
    /\ UNCHANGED << code, call, inThread, ok, event, threads, alive, met >>

\* KernelApcInjectCallback lets the APC of the worker run.
StartApc ==
    /\ worker = Fresh /\ apcs > 0
    /\ apcs' = apcs - 1
    /\ worker' = code /\ unread' = FALSE
    /\ UNCHANGED << code, call, inThread, ok, event, threads, alive, met >>

StartThread(t) ==
    /\ t \in threads /\ t.runs = Fresh
    /\ threads' = (threads \ {t}) \cup {[t EXCEPT !.runs = code]}
    /\ unread' = FALSE
    /\ UNCHANGED << code, call, inThread, ok, event, apcs, worker, alive, met >>

\* The call returns, the event is set, and the thread leaves the buffer.
EndApc ==
    /\ worker \in Routine
    /\ worker' = Fresh /\ event' = TRUE
    /\ UNCHANGED << code, call, inThread, ok, apcs, threads, alive, unread, met >>

EndThread(t) ==
    /\ t \in threads /\ t.runs \in Routine
    /\ threads' = threads \ {t} /\ event' = TRUE
    /\ UNCHANGED << code, call, inThread, ok, apcs, worker, alive, unread, met >>

Exit ==
    /\ alive /\ Meets("exits")
    /\ alive' = FALSE /\ worker' = None /\ threads' = {} /\ apcs' = 0
    /\ UNCHANGED << code, call, inThread, ok, event, unread >>

-----------------------------------------------------------------------------

CallInit ==
    /\ code = None /\ call = None /\ inThread = FALSE /\ ok = TRUE
    /\ event = FALSE /\ apcs = 0 /\ worker = None /\ threads = {}
    /\ alive = TRUE /\ unread = FALSE /\ met = {}

CallTypeOK ==
    /\ code \in Routine \cup {None, Freed} /\ call \in Routine \cup {None}
    /\ inThread \in BOOLEAN /\ ok \in BOOLEAN /\ event \in BOOLEAN /\ apcs \in Nat
    /\ worker \in Routine \cup {None, Fresh, Freed}
    /\ threads \subseteq Thread
    /\ alive \in BOOLEAN /\ unread \in BOOLEAN /\ met \subseteq Hazards
=============================================================================
