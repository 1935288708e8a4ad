------------------------------ MODULE CodeJobs ------------------------------
(***************************************************************************)
(* What is made to run in a process: call stubs (CodeGen), executed one    *)
(* instruction after the other, relocated images (RelocationJobs), and the *)
(* strings by which files and code are found.                              *)
(***************************************************************************)
EXTENDS SequencesExt, RelocationJobs

CONSTANTS
  Routine, SetEvent, Event,       \* what a stub calls, and the event it sets
  ReturnAddress, Answer, Junk,    \* of the stub, of the routine, and what is left in registers
  ArgLists,
  Letters, Separators, Wildcard, MaxText, MaxTarget

Code == INSTANCE CodeGen
Text == INSTANCE Strings

ASSUME StubAssumption ==
  /\ {Routine, SetEvent, Event, ReturnAddress, Answer, Junk} \subseteq Int /\ Routine # SetEvent
  /\ ArgLists \subseteq Seq(Int)
ASSUME TextAssumption == MaxText \in Nat /\ MaxTarget \in Nat

----------------------------------------------------------------------------
\* The byte that holds the frame of a native call turns negative with the 15th
\* argument, and the buffer of the code ends with the 812th push of a wow64
\* call.  The last argument of a wow64 call is lost, so it has one.
MostArgs(wow64) == IF wow64 THEN 812 ELSE 14
CallJobs ==
  {j \in [kind : {"call"}, wow64 : BOOLEAN, args : ArgLists] :
     Len(j.args) <= MostArgs(j.wow64) /\ (j.wow64 => j.args # <<>>)}

Executing == Done("call") /\ result.next <= Len(Code!CallCode(job.wow64, job.args))

CallRoutine == Compute("call", Code!Entered(Len(job.args)))
ExecuteStub == Executing /\ result' = Code!RunOne(result, job.wow64, job.args) /\ UNCHANGED job

\* In a native process the routine gets its arguments, at most 14, on an
\* aligned stack, and whatever it leaves in its registers and its home area,
\* the stub goes on.
NativeRoutineGetsItsArguments ==
  Done("call") /\ ~job.wow64 /\ result.calls # <<>> =>
    result.calls[1].fn = Routine /\ result.calls[1].args = job.args /\ result.calls[1].aligned

\* The event is set once, when the routine's answer is stored, and the thread
\* then returns where it came from, with its stack as the convention has it.
StubSignalsAndReturns ==
  Done("call") /\ ~Executing =>
    /\ Len(result.calls) = 2
    /\ result.calls[2].fn = SetEvent /\ result.calls[2].args = <<Event, 0>>
    /\ result.calls[2].status = Answer
    /\ result.at = ReturnAddress
    /\ result.sp = 1 + (IF job.wow64 THEN Len(job.args) ELSE 0)

----------------------------------------------------------------------------
TextJobs ==
  [kind : {"path"}, source : SeqOf(Letters, MaxText), target : {<<>>}]
  \cup [kind : {"search"}, source : SeqOf(Letters, MaxText), target : SeqOf(Letters, MaxTarget)]
  \cup {j \in [kind : {"pattern"}, source : SeqOf(Letters, MaxText), target : SeqOf(Letters \cup {Wildcard}, MaxTarget)] :
          Len(j.target) <= Len(j.source)}

SearchText ==
  \/ Compute("path", [name |-> Text!BBStripPath(job.source), dir |-> Text!BBStripFilename(job.source)])
  \/ Compute("search", [at |-> Text!BBSafeSearchString(job.source, job.target)])
  \/ Compute("pattern", [at |-> Text!BBSearchPattern(job.target, job.source)])

\* A path is its directory, a separator and its name, and the name has no
\* separator; only a path without one after its first character is not split.
NamesSplitPaths ==
  Done("path") =>
    IF result.name.found
    THEN /\ \E s \in Separators : job.source = result.dir.dir \o <<s>> \o result.name.name
         /\ ToSet(result.name.name) \cap Separators = {} /\ result.dir.dir # <<>>
    ELSE /\ \A i \in 2..Len(job.source) : job.source[i] \notin Separators
         /\ result.name.name = job.source /\ result.dir.dir = job.source

\* A search answers the first place where the target lies; the pattern search
\* does not try the last place.
SearchesFindTheFirst ==
  Done("search") \/ Done("pattern") =>
    LET room == Len(job.source) - Len(job.target) - (IF job.kind = "pattern" THEN 1 ELSE 0)
        Same(x, y) == x = y \/ (job.kind = "pattern" /\ x = Wildcard)
        Lies(i) == \A j \in DOMAIN job.target : Same(job.target[j], job.source[i + j])
    IN  IF result.at = -1 THEN \A i \in 0..room : ~Lies(i)
        ELSE result.at \in 0..room /\ Lies(result.at) /\ \A i \in 0..result.at - 1 : ~Lies(i)

----------------------------------------------------------------------------
CodeInit ==
  /\ result = Pending
  /\ job \in CallJobs \cup TextJobs \cup RelocationJobs

CodeNext == CallRoutine \/ ExecuteStub \/ SearchText \/ RelocateImage

CodeSpec == CodeInit /\ [][CodeNext]_vars

\* What is run in a process: a stub for as many arguments as its code can hold
\* calls with them and comes back, a relocated image is the image that was linked at its new base, and names and
\* patterns are found where they are.
CodeIsExact ==
  /\ NativeRoutineGetsItsArguments /\ StubSignalsAndReturns
  /\ RelocationIsExact
  /\ NamesSplitPaths /\ SearchesFindTheFirst
=============================================================================
