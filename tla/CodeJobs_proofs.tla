--------------------------- MODULE CodeJobs_proofs ---------------------------
(***************************************************************************)
(* Proofs about CodeJobs: what is made to run in a process is what         *)
(* CodeIsExact says, for any arguments, files, bases and texts.            *)
(*                                                                         *)
(* A stub is executed one instruction after the other.  Native and         *)
(* WowParts say, for each next instruction, where the stack pointer is,    *)
(* which arguments are in place, and which calls were made; every kind of  *)
(* instruction has a lemma.  A relocation goes from entry to entry.        *)
(* RelocationInv says that it has passed nothing that stops it, and that   *)
(* each address of the file is as it was linked, or moved, or has its high *)
(* half moved when the next entry is the low one; what the halves of an    *)
(* address carry is arithmetic of rests, proved first.                     *)
(***************************************************************************)
EXTENDS CodeJobs, SequenceTheorems, WellFoundedInduction, NaturalsInduction, TLAPS

-----------------------------------------------------------------------------
(* Extremes of sets.                                                       *)

\* The order of the naturals is well-founded.
LEMMA NatWellFounded == IsWellFoundedOn({ss \in Nat \X Nat : ss[1] < ss[2]}, Nat)
BY NatLessThanWellFounded DEF OpToRel

\* A set of naturals has a least element.
LEMMA LeastOfSet ==
    ASSUME NEW T \in SUBSET Nat, T # {}
    PROVE  \E x \in T : \A y \in T : x <= y
<1> DEFINE R == {ss \in Nat \X Nat : ss[1] < ss[2]}
<1>1. IsWellFoundedOn(R, Nat)
  BY NatWellFounded
<1> HIDE DEF R
<1>2. \E x \in T : \A y \in T : <<y, x>> \notin R
  BY <1>1, WFMin
<1>3. \A x, y \in T : <<y, x>> \notin R => x <= y
  BY DEF R
<1> QED BY <1>2, <1>3

\* A bounded set of naturals has a greatest element.
LEMMA GreatestOfSet ==
    ASSUME NEW b \in Nat, NEW T \in SUBSET (0..b), T # {}
    PROVE  \E x \in T : \A y \in T : y <= x
<1> DEFINE U == {b - x : x \in T}
<1>1. U \in SUBSET Nat /\ U # {}
  <2>1. \A x \in T : x \in 0..b
    OBVIOUS
  <2>2. \A x \in T : b - x \in Nat
    BY <2>1
  <2> QED BY <2>2
<1>2. \E u \in U : \A v \in U : u <= v
  BY <1>1, LeastOfSet
<1>3. PICK x \in T : \A v \in U : b - x <= v
  BY <1>2
<1>4. \A y \in T : b - x <= b - y
  BY <1>3
<1>5. \A y \in T : y <= x
  BY <1>4
<1> QED BY <1>5

\* Max of a set is that element.
LEMMA MaxIs ==
    ASSUME NEW b \in Nat, NEW T \in SUBSET (0..b), T # {}
    PROVE  Max(T) \in T /\ \A y \in T : y <= Max(T)
BY GreatestOfSet DEF Max

\* Min of a set is its least element.
LEMMA MinIs ==
    ASSUME NEW T \in SUBSET Nat, T # {}
    PROVE  Min(T) \in T /\ \A y \in T : Min(T) <= y
BY LeastOfSet DEF Min

-----------------------------------------------------------------------------
(* Texts.                                                                  *)

\* Texts as types.
LEMMA TextsAre ==
    ASSUME NEW S, NEW n \in Nat, NEW s \in SeqOf(S, n)
    PROVE  s \in Seq(S) /\ Len(s) \in 0..n /\ DOMAIN s = 1..Len(s) /\ \A k \in 1..Len(s) : s[k] \in S
<1>1. PICK m \in 0..n : s \in [1..m -> S]
  BY DEF SeqOf
<1>2. m \in Nat
  OBVIOUS
<1>3. s \in Seq(S) /\ Len(s) = m
  BY <1>1, <1>2
<1> QED BY <1>1, <1>3

\* The last separator that is not in front of everything.
LEMMA LastSeparatorIs ==
    ASSUME NEW path \in Seq(Letters), NEW i, i = Text!LastSeparator(path)
    PROVE  \/ i = -1 /\ \A k \in 2..Len(path) : path[k] \notin Separators
           \/ /\ i \in 1..Len(path) - 1 /\ path[i + 1] \in Separators
              /\ \A k \in i + 2..Len(path) : path[k] \notin Separators
<1> DEFINE cuts == {k \in 1..Len(path) - 1 : path[k + 1] \in Separators}
<1>1. i = IF cuts = {} THEN -1 ELSE Max(cuts)
  BY DEF Text!LastSeparator, Text!Max, Max
<1>2. Len(path) \in Nat
  OBVIOUS
<1>3. cuts # {} => Max(cuts) \in cuts /\ \A y \in cuts : y <= Max(cuts)
  <2>1. cuts \in SUBSET (0..Len(path))
    BY <1>2
  <2> HIDE DEF cuts
  <2> QED BY <1>2, <2>1, MaxIs
<1>4. \A k \in 2..Len(path) : path[k] \in Separators => k - 1 \in cuts
  <2> TAKE k \in 2..Len(path)
  <2>1. (k - 1) + 1 = k /\ k - 1 \in 1..Len(path) - 1
    BY <1>2
  <2> QED BY <2>1
<1>5. \A k \in cuts : k \in 1..Len(path) - 1 /\ path[k + 1] \in Separators
  OBVIOUS
<1> HIDE DEF cuts
<1>6. CASE cuts = {}
  BY <1>1, <1>4, <1>6
<1>7. CASE cuts # {}
  <2>1. i \in 1..Len(path) - 1 /\ path[i + 1] \in Separators
    BY <1>1, <1>3, <1>5, <1>7
  <2>2. \A k \in i + 2..Len(path) : path[k] \notin Separators
    <3> SUFFICES ASSUME NEW k \in i + 2..Len(path), path[k] \in Separators PROVE FALSE
      OBVIOUS
    <3>1. k \in 2..Len(path) /\ k - 1 > i
      BY <2>1, <1>2
    <3>2. k - 1 <= i
      BY <1>1, <1>3, <1>4, <1>7, <3>1
    <3> QED BY <1>2, <2>1, <3>1, <3>2
  <2> QED BY <2>1, <2>2
<1> QED BY <1>6, <1>7

\* A sequence is what is up to a place, the place, and what is after it.
LEMMA SplitAt ==
    ASSUME NEW S, NEW s \in Seq(S), NEW i \in 1..Len(s) - 1
    PROVE  s = SubSeq(s, 1, i) \o <<s[i + 1]>> \o SubSeq(s, i + 2, Len(s))
<1> DEFINE n == Len(s)
           a == SubSeq(s, 1, i)
           b == <<s[i + 1]>>
           c == SubSeq(s, i + 2, n)
           d == a \o b
           e == d \o c
<1>1. n \in Nat /\ i \in Nat /\ i < n /\ s[i + 1] \in S /\ n - i - 1 \in Nat /\ s \in Seq(S)
  OBVIOUS
<1>2. a \in Seq(S) /\ Len(a) = i /\ \A k \in 1..i : a[k] = s[k]
  BY <1>1
<1>3. b \in Seq(S) /\ Len(b) = 1 /\ b[1] = s[i + 1]
  BY <1>1
<1>4. c \in Seq(S) /\ Len(c) = n - i - 1 /\ \A k \in 1..n - i - 1 : c[k] = s[i + 1 + k]
  BY <1>1
<1>0. d = a \o b /\ e = d \o c /\ 1 \in Nat
  OBVIOUS
<1> HIDE DEF a, b, c, d, e
<1>5. d \in Seq(S) /\ Len(d) = i + 1 /\ \A k \in 1..i + 1 : d[k] = IF k <= i THEN a[k] ELSE b[k - i]
  <2>1. /\ a \o b \in Seq(S) /\ Len(a \o b) = Len(a) + Len(b)
        /\ \A k \in 1..Len(a) + Len(b) : (a \o b)[k] = IF k <= Len(a) THEN a[k] ELSE b[k - Len(a)]
    BY <1>2, <1>3, ConcatProperties
  <2> QED BY <1>0, <1>2, <1>3, <2>1
<1>6. \A k \in 1..i + 1 : d[k] = s[k]
  BY <1>1, <1>2, <1>3, <1>5
<1> DEFINE p == i + 1
           q == n - i - 1
<1>12. p \in Nat /\ q \in Nat /\ Len(d) = p /\ Len(c) = q
  BY <1>1, <1>4, <1>5
<1> HIDE DEF p, q
<1>7. e \in Seq(S) /\ Len(e) = p + q /\ \A k \in 1..p + q : e[k] = IF k <= p THEN d[k] ELSE c[k - p]
  <2>1. /\ d \o c \in Seq(S) /\ Len(d \o c) = Len(d) + Len(c)
        /\ \A k \in 1..Len(d) + Len(c) : (d \o c)[k] = IF k <= Len(d) THEN d[k] ELSE c[k - Len(d)]
    BY <1>4, <1>5, ConcatProperties
  <2> QED BY <1>0, <1>12, <2>1
<1>8. n = Len(s)
  OBVIOUS
<1> HIDE DEF n
<1>9. \A k \in 1..n : s[k] = e[k]
  <2> SUFFICES ASSUME NEW k \in 1..n PROVE s[k] = e[k]
    OBVIOUS
  <2>1. p + q = n
    BY <1>1 DEF p, q
  <2>2. e[k] = IF k <= p THEN d[k] ELSE c[k - p]
    BY <1>7, <2>1
  <2>3. CASE k <= p
    <3>1. k \in 1..i + 1
      BY <1>1, <2>3 DEF p
    <3> QED BY <1>6, <2>2, <2>3, <3>1
  <2>4. CASE k > p
    <3>1. k - p \in 1..n - i - 1 /\ i + 1 + (k - p) = k /\ ~(k <= p)
      BY <1>1, <2>4 DEF p
    <3> QED BY <1>4, <2>2, <3>1
  <2> QED BY <1>1, <1>12, <2>3, <2>4
<1>10. Len(e) = Len(s)
  BY <1>1, <1>7, <1>8 DEF p, q
<1>11. s = e
  BY <1>1, <1>7, <1>8, <1>9, <1>10, SeqEqual
<1> QED BY <1>11 DEF a, b, c, d, e, n

\* BBStripPath and BBStripFilename split a path.
LEMMA PathStep ==
    ASSUME job \in TextJobs, job.kind = "path",
           Compute("path", [name |-> Text!BBStripPath(job.source), dir |-> Text!BBStripFilename(job.source)])
    PROVE  NamesSplitPaths'
<1> DEFINE path == job.source
           i == Text!LastSeparator(path)
<1>1. path \in Seq(Letters) /\ job' = job
  BY TextsAre, TextAssumption DEF TextJobs, Compute
<1>2. result'.name = Text!BBStripPath(path) /\ result'.dir = Text!BBStripFilename(path)
  BY DEF Compute
<1>3. /\ Text!BBStripPath(path) = IF i = -1 THEN [found |-> FALSE, name |-> path]
                                  ELSE [found |-> TRUE, name |-> SubSeq(path, i + 2, Len(path))]
      /\ Text!BBStripFilename(path) = IF i = -1 THEN [found |-> FALSE, dir |-> path]
                                      ELSE [found |-> TRUE, dir |-> SubSeq(path, 1, i)]
  BY DEF Text!BBStripPath, Text!BBStripFilename
<1>4. \/ i = -1 /\ \A k \in 2..Len(path) : path[k] \notin Separators
      \/ /\ i \in 1..Len(path) - 1 /\ path[i + 1] \in Separators
         /\ \A k \in i + 2..Len(path) : path[k] \notin Separators
  BY <1>1, LastSeparatorIs
<1> HIDE DEF i, path
<1>5. path = job.source
  BY DEF path
<1>6. CASE i = -1
  <2>1. ~result'.name.found /\ result'.name.name = path /\ result'.dir.dir = path
    BY <1>2, <1>3, <1>6
  <2>2. \A k \in 2..Len(path) : path[k] \notin Separators
    BY <1>4, <1>6
  <2> QED BY <1>1, <1>5, <2>1, <2>2 DEF NamesSplitPaths, Done
<1>7. CASE i # -1
  <2>1. i \in 1..Len(path) - 1 /\ path[i + 1] \in Separators /\ \A k \in i + 2..Len(path) : path[k] \notin Separators
    BY <1>4, <1>7
  <2>2. result'.name.found /\ result'.name.name = SubSeq(path, i + 2, Len(path)) /\ result'.dir.dir = SubSeq(path, 1, i)
    <3> DEFINE named == result'.name
               placed == result'.dir
    <3>1. /\ named = [found |-> TRUE, name |-> SubSeq(path, i + 2, Len(path))]
          /\ placed = [found |-> TRUE, dir |-> SubSeq(path, 1, i)]
      BY <1>2, <1>3, <1>7
    <3> HIDE DEF named, placed
    <3>2. named.found /\ named.name = SubSeq(path, i + 2, Len(path)) /\ placed.dir = SubSeq(path, 1, i)
      BY <3>1
    <3> QED BY <3>2 DEF named, placed
  <2>3. path = result'.dir.dir \o <<path[i + 1]>> \o result'.name.name
    BY <1>1, <2>1, <2>2, SplitAt
  <2>4. result'.dir.dir # <<>>
    <3> DEFINE dir == SubSeq(path, 1, i)
    <3>1. Len(dir) = i /\ i # 0
      BY <1>1, <2>1
    <3> HIDE DEF dir
    <3>2. dir # <<>>
      BY <3>1
    <3> QED BY <2>2, <3>2 DEF dir
  <2>5. ToSet(result'.name.name) \cap Separators = {}
    <3> DEFINE name == result'.name.name
    <3>1. Len(path) \in Nat /\ Len(name) = Len(path) - i - 1 /\ DOMAIN name = 1..Len(path) - i - 1
      BY <1>1, <2>1, <2>2
    <3>2. \A k \in DOMAIN name : name[k] = path[i + 1 + k]
      BY <1>1, <2>1, <2>2, <3>1
    <3> HIDE DEF name
    <3>3. \A k \in DOMAIN name : name[k] \notin Separators
      BY <2>1, <3>1, <3>2
    <3> QED BY <3>3 DEF ToSet, name
  <2>6. \E s \in Separators : path = result'.dir.dir \o <<s>> \o result'.name.name
    BY <2>1, <2>3
  <2> QED BY <1>1, <1>5, <2>2, <2>4, <2>5, <2>6 DEF NamesSplitPaths, Done
<1> QED BY <1>6, <1>7

\* The first place of some, or none.
LEMMA FirstPlace ==
    ASSUME NEW m \in Int, NEW hits, NEW at, hits \subseteq 0..m,
           at = IF hits = {} THEN -1 ELSE Min(hits)
    PROVE  IF at = -1 THEN hits = {} ELSE at \in hits /\ \A k \in 0..at - 1 : k \notin hits
<1>1. CASE hits = {}
  BY <1>1
<1>2. CASE hits # {}
  <2>1. hits \in SUBSET Nat
    OBVIOUS
  <2>2. Min(hits) \in hits /\ \A y \in hits : Min(hits) <= y
    BY <1>2, <2>1, MinIs
  <2>3. at \in hits /\ at \in Nat /\ \A y \in hits : at <= y
    BY <1>2, <2>1, <2>2
  <2>4. \A k \in 0..at - 1 : k \notin hits
    BY <2>3
  <2> QED BY <1>2, <2>3, <2>4
<1> QED BY <1>1, <1>2

\* Where the target lies its cells are the source's.
LEMMA OccursWhere ==
    ASSUME NEW S, NEW source \in Seq(S), NEW target \in Seq(S), NEW i \in 0..Len(source) - Len(target)
    PROVE  Text!Occurs(target, source, i) <=> \A j \in DOMAIN target : target[j] = source[i + j]
<1> DEFINE n == Len(source)
           m == Len(target)
           part == SubSeq(source, i + 1, i + m)
<1>1. n \in Nat /\ m \in Nat /\ i \in Nat /\ i + m <= n /\ DOMAIN target = 1..m
  OBVIOUS
<1>2. part \in Seq(S) /\ Len(part) = m /\ \A j \in 1..m : part[j] = source[i + j]
  BY <1>1
<1>3. Text!Occurs(target, source, i) <=> part = target
  BY DEF Text!Occurs
<1> HIDE DEF part, n
<1>4. part = target <=> \A j \in 1..m : part[j] = target[j]
  <2>1. (\A j \in 1..m : part[j] = target[j]) => part = target
    BY <1>1, <1>2, SeqEqual
  <2> QED BY <2>1
<1> HIDE DEF m
<1>5. (\A j \in 1..m : part[j] = target[j]) <=> \A j \in 1..m : target[j] = source[i + j]
  BY <1>2
<1> QED BY <1>1, <1>3, <1>4, <1>5

\* BBSafeSearchString finds the first place.
LEMMA SearchStep ==
    ASSUME job \in TextJobs, job.kind = "search",
           Compute("search", [at |-> Text!BBSafeSearchString(job.source, job.target)])
    PROVE  SearchesFindTheFirst'
<1> DEFINE source == job.source
           target == job.target
           room == Len(source) - Len(target) - 0
           hits == {i \in 0..room : Text!Occurs(target, source, i)}
           Lies(i) == \A j \in DOMAIN target : target[j] = source[i + j]
<1>1. source \in Seq(Letters) /\ target \in Seq(Letters) /\ job' = job /\ job'.kind = "search"
  BY TextsAre, TextAssumption DEF TextJobs, Compute
<1>2. Len(source) - Len(target) \in Int /\ Len(source) - Len(target) = room
  BY <1>1
<1>3. result'.at = IF hits = {} THEN -1 ELSE Min(hits)
  <2>1. result' = [at |-> Text!BBSafeSearchString(source, target)]
    BY DEF Compute
  <2>2. Text!BBSafeSearchString(source, target) = IF hits = {} THEN -1 ELSE Min(hits)
    BY <1>2 DEF Text!BBSafeSearchString, Text!Min, Min
  <2> QED BY <2>1, <2>2
<1>4. \A i \in 0..room : i \in hits <=> Lies(i)
  <2> TAKE i \in 0..room
  <2>1. i \in 0..Len(source) - Len(target)
    BY <1>2
  <2>2. Text!Occurs(target, source, i) <=> Lies(i)
    <3> HIDE DEF source, target, room, hits
    <3>1. Text!Occurs(target, source, i) <=> \A j \in DOMAIN target : target[j] = source[i + j]
      BY <1>1, <2>1, OccursWhere
    <3> QED BY <3>1
  <2> QED BY <2>2
<1>5. hits \subseteq 0..room
  OBVIOUS
<1> DEFINE at == result'.at
<1>6. IF at = -1 THEN hits = {} ELSE at \in hits /\ \A k \in 0..at - 1 : k \notin hits
  <2> HIDE DEF hits, room
  <2> QED BY <1>2, <1>3, <1>5, FirstPlace
<1> HIDE DEF hits, Lies, room, at
<1>7. IF at = -1 THEN \A i \in 0..room : ~Lies(i)
      ELSE at \in 0..room /\ Lies(at) /\ \A i \in 0..at - 1 : ~Lies(i)
  <2>1. CASE at = -1
    BY <1>4, <1>6, <2>1
  <2>2. CASE at # -1
    <3>1. at \in 0..room /\ Lies(at)
      BY <1>4, <1>5, <1>6, <2>2
    <3>2. room \in Int
      BY <1>2
    <3>3. \A i \in 0..at - 1 : i \in 0..room /\ i \notin hits
      BY <1>6, <2>2, <3>1, <3>2
    <3> QED BY <1>4, <2>2, <3>1, <3>3
  <2> QED BY <2>1, <2>2
<1>8. \A i : Lies(i) <=> \A j \in DOMAIN job'.target :
           job'.target[j] = job'.source[i + j] \/ (job'.kind = "pattern" /\ job'.target[j] = Wildcard)
  BY <1>1 DEF Lies
<1>9. room = Len(job'.source) - Len(job'.target) - (IF job'.kind = "pattern" THEN 1 ELSE 0)
  BY <1>1 DEF room
<1> QED BY <1>7, <1>8, <1>9 DEF SearchesFindTheFirst, at

\* BBSearchPattern finds the first place but the last.
LEMMA PatternStep ==
    ASSUME job \in TextJobs, job.kind = "pattern",
           Compute("pattern", [at |-> Text!BBSearchPattern(job.target, job.source)])
    PROVE  SearchesFindTheFirst'
<1> DEFINE source == job.source
           target == job.target
           room == Len(source) - Len(target) - 1
           Lies(i) == \A j \in DOMAIN target : target[j] \in {Wildcard, source[i + j]}
           hits == {i \in 0..room : Lies(i)}
<1>1. source \in Seq(Letters) /\ target \in Seq(Letters \cup {Wildcard}) /\ job' = job /\ job'.kind = "pattern"
  BY TextsAre, TextAssumption DEF TextJobs, Compute
<1>2. room \in Int
  BY <1>1
<1>3. result'.at = IF hits = {} THEN -1 ELSE Min(hits)
  <2>1. result' = [at |-> Text!BBSearchPattern(target, source)]
    BY DEF Compute
  <2>2. Text!BBSearchPattern(target, source) = IF hits = {} THEN -1 ELSE Min(hits)
    BY DEF Text!BBSearchPattern, Text!Min, Min
  <2> QED BY <2>1, <2>2
<1>4. \A i \in 0..room : i \in hits <=> Lies(i)
  OBVIOUS
<1>5. hits \subseteq 0..room
  OBVIOUS
<1> DEFINE at == result'.at
<1>6. IF at = -1 THEN hits = {} ELSE at \in hits /\ \A k \in 0..at - 1 : k \notin hits
  <2> HIDE DEF hits, room
  <2> QED BY <1>2, <1>3, <1>5, FirstPlace
<1> HIDE DEF hits, Lies, room, at
<1>7. IF at = -1 THEN \A i \in 0..room : ~Lies(i)
      ELSE at \in 0..room /\ Lies(at) /\ \A i \in 0..at - 1 : ~Lies(i)
  <2>1. CASE at = -1
    BY <1>4, <1>6, <2>1
  <2>2. CASE at # -1
    <3>1. at \in 0..room /\ Lies(at)
      BY <1>4, <1>5, <1>6, <2>2
    <3>2. room \in Int
      BY <1>2
    <3>3. \A i \in 0..at - 1 : i \in 0..room /\ i \notin hits
      BY <1>6, <2>2, <3>1, <3>2
    <3> QED BY <1>4, <2>2, <3>1, <3>3
  <2> QED BY <2>1, <2>2
<1>8. \A i : Lies(i) <=> \A j \in DOMAIN job'.target :
           job'.target[j] = job'.source[i + j] \/ (job'.kind = "pattern" /\ job'.target[j] = Wildcard)
  BY <1>1 DEF Lies
<1>9. room = Len(job'.source) - Len(job'.target) - (IF job'.kind = "pattern" THEN 1 ELSE 0)
  BY <1>1 DEF room
<1> QED BY <1>7, <1>8, <1>9 DEF SearchesFindTheFirst, at

-----------------------------------------------------------------------------
(* The code of a stub in a native process.                                 *)

\* The instructions of a stub.
Registers == {"ax", "bp", "cx", "dx", "8", "9"}
Operations == {"mov", "store", "load", "add sp", "push", "status", "enter", "leave", "ret", "call"}
Instructions == [op : Operations, r : Registers \cup {""}, n : Int]

\* A sequence of instructions stands in the code after so many others.
Stands(code, o, part) == o + Len(part) <= Len(code) /\ \A j \in 1..Len(part) : code[o + j] = part[j]

\* A part stands where it was written.
LEMMA WrittenAfter ==
    ASSUME NEW a \in Seq(Instructions), NEW b \in Seq(Instructions)
    PROVE  /\ a \o b \in Seq(Instructions) /\ Len(a \o b) = Len(a) + Len(b)
           /\ Stands(a \o b, 0, a) /\ Stands(a \o b, Len(a), b)
<1> DEFINE c == a \o b
           m == Len(a)
           n == Len(b)
<1>1. /\ c \in Seq(Instructions) /\ Len(c) = m + n
      /\ \A k \in 1..m + n : c[k] = IF k <= m THEN a[k] ELSE b[k - m]
  BY ConcatProperties
<1>2. m \in Nat /\ n \in Nat
  OBVIOUS
<1> HIDE DEF c, m, n
<1>4. \A j \in 1..m : c[0 + j] = a[j]
  BY <1>2, <1>1
<1>5. \A j \in 1..n : c[m + j] = b[j]
  <2> TAKE j \in 1..n
  <2>1. m + j \in 1..m + n /\ ~(m + j <= m) /\ (m + j) - m = j
    BY <1>2
  <2> QED BY <1>1, <2>1
<1>6. 0 + m <= Len(c) /\ m + n <= Len(c)
  BY <1>2, <1>1
<1> QED BY <1>1, <1>4, <1>5, <1>6 DEF Stands, m, n, c

\* A part of a part stands in the whole.
LEMMA WithinPart ==
    ASSUME NEW c, Len(c) \in Nat, NEW b, NEW part, NEW o \in Nat, NEW q \in Nat,
           Len(b) \in Nat, Len(part) \in Nat, Stands(c, o, b), Stands(b, q, part)
    PROVE  Stands(c, o + q, part)
<1> DEFINE l == Len(part)
           u == Len(b)
           v == Len(c)
<1>1. l \in Nat /\ u \in Nat /\ v \in Nat
  OBVIOUS
<1>2. q + l <= u /\ o + u <= v
  BY DEF Stands
<1>3. (\A j \in 1..u : c[o + j] = b[j]) /\ \A j \in 1..l : b[q + j] = part[j]
  BY DEF Stands
<1> HIDE DEF l, u, v
<1>4. ASSUME NEW j \in 1..l PROVE c[(o + q) + j] = part[j]
  <2>1. q + j \in 1..u /\ o + (q + j) = (o + q) + j
    BY <1>1, <1>2
  <2> QED BY <1>3, <2>1
<1>5. (o + q) + l <= v
  BY <1>1, <1>2
<1> QED BY <1>4, <1>5 DEF Stands, l, u, v

\* The parts of a stub, one after the other.
Stub(p, f, r, s, t, y, e) == ((p \o (((f \o r) \o s) \o t)) \o y) \o e

AreParts(p, f, r, s, t, y, e) ==
  /\ p \in Seq(Instructions) /\ f \in Seq(Instructions) /\ r \in Seq(Instructions) /\ s \in Seq(Instructions)
  /\ t \in Seq(Instructions) /\ y \in Seq(Instructions) /\ e \in Seq(Instructions)
  /\ Len(p) = 4 /\ Len(f) = 1 /\ Len(t) = 3 /\ Len(y) = 5 /\ Len(e) = 5

\* Where they stand.
LEMMA Layout ==
    ASSUME NEW p, NEW f, NEW r, NEW s, NEW t, NEW y, NEW e, AreParts(p, f, r, s, t, y, e)
    PROVE  LET code == Stub(p, f, r, s, t, y, e)
               a == 5 + Len(r) + Len(s)
           IN  /\ Len(code) = a + 13 /\ Stands(code, 0, p) /\ Stands(code, 4, f) /\ Stands(code, 5, r)
               /\ Stands(code, 5 + Len(r), s) /\ Stands(code, a, t) /\ Stands(code, a + 3, y) /\ Stands(code, a + 8, e)
<1> DEFINE code == Stub(p, f, r, s, t, y, e)
           m == Len(r)
           l == Len(s)
           a == 5 + m + l
           fr == f \o r
           fs == fr \o s
           ft == fs \o t
           pt == p \o ft
           py == pt \o y
<1>1. /\ p \in Seq(Instructions) /\ f \in Seq(Instructions) /\ r \in Seq(Instructions) /\ s \in Seq(Instructions)
      /\ t \in Seq(Instructions) /\ y \in Seq(Instructions) /\ e \in Seq(Instructions)
      /\ Len(p) = 4 /\ Len(f) = 1 /\ Len(t) = 3 /\ Len(y) = 5 /\ Len(e) = 5
  BY DEF AreParts
<1>2. fr \in Seq(Instructions) /\ Len(fr) = Len(f) + Len(r) /\ Stands(fr, 0, f) /\ Stands(fr, Len(f), r)
  BY <1>1, WrittenAfter
<1> HIDE DEF fr
<1>3. fs \in Seq(Instructions) /\ Len(fs) = Len(fr) + Len(s) /\ Stands(fs, 0, fr) /\ Stands(fs, Len(fr), s)
  BY <1>2, <1>1, WrittenAfter
<1> HIDE DEF fs
<1>4. ft \in Seq(Instructions) /\ Len(ft) = Len(fs) + Len(t) /\ Stands(ft, 0, fs) /\ Stands(ft, Len(fs), t)
  BY <1>3, <1>1, WrittenAfter
<1> HIDE DEF ft
<1>5. pt \in Seq(Instructions) /\ Len(pt) = Len(p) + Len(ft) /\ Stands(pt, 0, p) /\ Stands(pt, Len(p), ft)
  BY <1>4, <1>1, WrittenAfter
<1> HIDE DEF pt
<1>6. py \in Seq(Instructions) /\ Len(py) = Len(pt) + Len(y) /\ Stands(py, 0, pt) /\ Stands(py, Len(pt), y)
  BY <1>5, <1>1, WrittenAfter
<1> HIDE DEF py
<1>7. code \in Seq(Instructions) /\ Len(code) = Len(py) + Len(e) /\ Stands(code, 0, py) /\ Stands(code, Len(py), e)
  BY <1>6, <1>1, WrittenAfter DEF fr, fs, ft, pt, py, Stub
<1> HIDE DEF code
<1>8. Len(fr) = 1 + m /\ Len(fs) = 1 + m + l /\ Len(ft) = 4 + m + l /\ Len(pt) = a + 3 /\ Len(py) = a + 8 /\ Len(code) = a + 13
  BY <1>1, <1>2, <1>3, <1>4, <1>5, <1>6, <1>7
<1>9. /\ Len(fr) \in Nat /\ Len(fs) \in Nat /\ Len(ft) \in Nat /\ Len(pt) \in Nat /\ Len(py) \in Nat /\ Len(code) \in Nat
      /\ Len(p) \in Nat /\ Len(f) \in Nat /\ Len(r) \in Nat /\ Len(s) \in Nat /\ Len(t) \in Nat /\ Len(y) \in Nat
  BY <1>1, <1>8
<1>10. Stands(code, 0 + 0, pt)
  BY <1>6, <1>7, <1>9, WithinPart
<1>11. Stands(code, 0, pt)
  BY <1>10
<1>12. Stands(code, 0, p) /\ Stands(code, 4, ft)
  <2>1. Stands(code, 0 + 0, p) /\ Stands(code, 0 + Len(p), ft)
    BY <1>5, <1>9, <1>11, WithinPart
  <2>2. 0 + 0 = 0 /\ 0 + Len(p) = 4
    BY <1>1
  <2> QED BY <2>1, <2>2
<1>13. Stands(code, 4 + 0, fs) /\ Stands(code, 4 + Len(fs), t)
  BY <1>4, <1>9, <1>12, WithinPart
<1>14. Stands(code, 4, fs) /\ Stands(code, a, t)
  <2>1. 4 + 0 = 4 /\ 4 + Len(fs) = a
    BY <1>8
  <2> QED BY <1>13, <2>1
<1>15. Stands(code, 4 + 0, fr) /\ Stands(code, 4 + Len(fr), s)
  BY <1>3, <1>9, <1>14, WithinPart
<1>16. Stands(code, 4, fr) /\ Stands(code, 5 + m, s)
  <2>1. 4 + 0 = 4 /\ 4 + Len(fr) = 5 + m
    BY <1>8
  <2> QED BY <1>15, <2>1
<1>17. Stands(code, 4 + 0, f) /\ Stands(code, 4 + 1, r)
  BY <1>1, <1>2, <1>9, <1>16, WithinPart
<1>18. Stands(code, 0 + Len(pt), y)
  BY <1>6, <1>7, <1>9, WithinPart
<1>19. Stands(code, a + 3, y) /\ Stands(code, a + 8, e)
  <2>1. 0 + Len(pt) = a + 3 /\ Len(py) = a + 8
    BY <1>8
  <2> QED BY <1>7, <1>18, <2>1
<1> QED BY <1>8, <1>12, <1>14, <1>16, <1>17, <1>19 DEF code

\* What is written in a stub are instructions.
LEMMA InstructionsAre ==
    /\ \A r \in Registers, v \in Int : Code!Mov(r, v) \in Instructions /\ Code!Store(v, r) \in Instructions
                                       /\ Code!Load(r, v) \in Instructions
    /\ \A v \in Int : Code!AddSp(v) \in Instructions /\ Code!Push(v) \in Instructions
    /\ Code!Op("call") \in Instructions /\ Code!Op("status") \in Instructions /\ Code!Op("ret") \in Instructions
    /\ Code!Op("enter") \in Instructions /\ Code!Op("leave") \in Instructions
<1>1. /\ \A r \in Registers, v \in Int : Code!Mov(r, v) \in Instructions /\ Code!Store(v, r) \in Instructions
                                         /\ Code!Load(r, v) \in Instructions
  BY DEF Instructions, Operations, Code!Mov, Code!Store, Code!Load
<1>2. \A v \in Int : Code!AddSp(v) \in Instructions /\ Code!Push(v) \in Instructions
  BY DEF Instructions, Operations, Code!AddSp, Code!Push
<1>3. /\ Code!Op("call") \in Instructions /\ Code!Op("status") \in Instructions /\ Code!Op("ret") \in Instructions
      /\ Code!Op("enter") \in Instructions /\ Code!Op("leave") \in Instructions
  BY DEF Instructions, Operations, Code!Op
<1> QED BY <1>1, <1>2, <1>3

\* The constants of a stub are numbers, and the registers of arguments are four.
LEMMA StubIs ==
    /\ Routine \in Int /\ SetEvent \in Int /\ Event \in Int /\ ReturnAddress \in Int /\ Answer \in Int /\ Junk \in Int
    /\ Routine # SetEvent
    /\ Code!ArgRegisters[1] = "cx" /\ Code!ArgRegisters[2] = "dx"
    /\ Code!ArgRegisters[3] = "8" /\ Code!ArgRegisters[4] = "9"
    /\ \A j \in 1..4 : Code!ArgRegisters[j] \in Registers \ {"ax", "bp"}
<1>1. /\ Code!ArgRegisters[1] = "cx" /\ Code!ArgRegisters[2] = "dx"
      /\ Code!ArgRegisters[3] = "8" /\ Code!ArgRegisters[4] = "9"
  BY DEF Code!ArgRegisters
<1>2. \A j \in 1..4 : j = 1 \/ j = 2 \/ j = 3 \/ j = 4
  OBVIOUS
<1>3. \A j \in 1..4 : Code!ArgRegisters[j] \in Registers \ {"ax", "bp"}
  BY <1>1, <1>2 DEF Registers
<1> QED BY <1>1, <1>3, StubAssumption

\* How many arguments are in registers, and how many on the stack.
InRegisters(args) == IF Len(args) < 4 THEN Len(args) ELSE 4
OnStack(args) == IF Len(args) > 4 THEN Len(args) - 4 ELSE 0
\* The last instruction that passes an argument.
Edge(args) == 5 + InRegisters(args) + 2 * OnStack(args)

\* They are numbers.
LEMMA SizesOf ==
    ASSUME NEW argc \in Nat, NEW m, NEW k, m = IF argc < 4 THEN argc ELSE 4, k = IF argc > 4 THEN argc - 4 ELSE 0
    PROVE  /\ m \in 0..4 /\ k \in Nat /\ m + k = argc /\ 5 + m + 2 * k \in Nat
           /\ k = 0 \/ (m = 4 /\ k = argc - 4)
OBVIOUS

\* The numbers of arguments of a stub, and of instructions that pass them.
LEMMA SizesOfStub ==
    ASSUME NEW args \in Seq(Int)
    PROVE  /\ Len(args) \in Nat /\ InRegisters(args) \in 0..4 /\ OnStack(args) \in Nat /\ Edge(args) \in Nat
           /\ Edge(args) = 5 + InRegisters(args) + 2 * OnStack(args)
           /\ OnStack(args) = 0 \/ (InRegisters(args) = 4 /\ OnStack(args) = Len(args) - 4)
           /\ InRegisters(args) + OnStack(args) = Len(args)
<1>1. Len(args) \in Nat
  OBVIOUS
<1> QED BY <1>1, SizesOf DEF InRegisters, OnStack, Edge

\* A native stub has no more arguments than its frame's byte can count.
Fits(args) == Len(args) <= 14

\* The byte of a small number is the number.
LEMMA ByteIs ==
    ASSUME NEW n \in 0..15
    PROVE  Code!Imm8(n) = n
BY DEF Code!Imm8

\* So it is with the frame of such a stub, and with the places in it.
LEMMA ByteOfFrame ==
    ASSUME NEW args \in Seq(Int), Fits(args)
    PROVE  /\ Code!Imm8(Code!Frame64(Len(args))) = Code!Frame64(Len(args))
           /\ \A g \in 0..OnStack(args) : Code!Imm8(3 + g) = 3 + g
<1> DEFINE n == Len(args)
           h == (n + 1) \div 2
<1>1. n \in 0..14 /\ OnStack(args) \in 0..10
  <2> DEFINE k == OnStack(args)
  <2>1. n \in Nat
    OBVIOUS
  <2>2. n <= 14
    BY DEF Fits
  <2>3. k = IF n > 4 THEN n - 4 ELSE 0
    BY DEF OnStack
  <2> HIDE DEF n, h, k
  <2>4. n \in 0..14 /\ k \in 0..10
    BY <2>1, <2>2, <2>3
  <2> QED BY <2>4 DEF k
<1> HIDE DEF n
<1>2. h \in 0..7
  BY <1>1
<1>3. Code!Frame64(n) \in 0..15
  BY <1>1, <1>2 DEF Code!Frame64
<1>4. \A g \in 0..OnStack(args) : 3 + g \in 0..15
  BY <1>1
<1> QED BY <1>3, <1>4, ByteIs DEF n

\* A table is a sequence.
LEMMA TableIs ==
    ASSUME NEW n \in Nat, NEW S, NEW g \in [1..n -> S]
    PROVE  g \in Seq(S) /\ Len(g) = n
OBVIOUS

\* The instructions that pass arguments.
PassInRegisters(args) ==
  [i \in 1..(IF Len(args) < 4 THEN Len(args) ELSE 4) |-> Code!Mov(Code!ArgRegisters[i], args[i])]
ToStack(args, k) ==
  IF k % 2 = 1 THEN Code!Mov("ax", args[4 + ((k + 1) \div 2)]) ELSE Code!Store(3 + (k \div 2), "ax")
PassOnStack(args) == [k \in 1..(IF Len(args) > 4 THEN 2 * (Len(args) - 4) ELSE 0) |-> ToStack(args, k)]

\* GenPrologue64 stores the registers of arguments in the home area.
LEMMA PrologueIs ==
    /\ Code!GenPrologue64 \in Seq(Instructions) /\ Len(Code!GenPrologue64) = 4
    /\ \A j \in 1..4 : Code!GenPrologue64[j] = Code!Store(j, Code!ArgRegisters[j])
<1>1. \A j \in 1..4 : Code!Store(j, Code!ArgRegisters[j]) \in Instructions
  BY StubIs, InstructionsAre
<1> QED BY <1>1 DEF Code!GenPrologue64

\* Room for the arguments is an odd number of words, so that the stack is aligned.
LEMMA FrameIs ==
    ASSUME NEW argc \in Nat
    PROVE  /\ Code!Frame64(argc) \in Nat /\ Code!Frame64(argc) >= 5 /\ Code!Frame64(argc) % 2 = 1
           /\ Code!Frame64(argc) > argc /\ Code!Frame64(argc) <= argc + 5
           /\ <<Code!AddSp(-Code!Frame64(argc))>> \in Seq(Instructions)
           /\ Len(<<Code!AddSp(-Code!Frame64(argc))>>) = 1
<1>1. /\ Code!Frame64(argc) \in Nat /\ Code!Frame64(argc) >= 5 /\ Code!Frame64(argc) % 2 = 1
      /\ Code!Frame64(argc) > argc /\ Code!Frame64(argc) <= argc + 5
  <2>1. CASE argc > 4
    <3> DEFINE h == (argc + 1) \div 2
    <3>1. h \in Nat /\ 2 * h >= argc /\ 2 * h <= argc + 1
      OBVIOUS
    <3>2. Code!Frame64(argc) = 2 * h + 1
      BY <2>1 DEF Code!Frame64
    <3> HIDE DEF h
    <3> QED BY <2>1, <3>1, <3>2
  <2>2. CASE ~(argc > 4)
    BY <2>2 DEF Code!Frame64
  <2> QED BY <2>1, <2>2
<1>2. -Code!Frame64(argc) \in Int
  BY <1>1
<1>3. Code!AddSp(-Code!Frame64(argc)) \in Instructions
  BY <1>2, InstructionsAre
<1> QED BY <1>1, <1>3

\* The instructions that put arguments in registers.
LEMMA RegistersPassed ==
    ASSUME NEW args \in Seq(Int)
    PROVE  /\ PassInRegisters(args) \in Seq(Instructions) /\ Len(PassInRegisters(args)) = InRegisters(args)
           /\ \A j \in 1..InRegisters(args) : PassInRegisters(args)[j] = Code!Mov(Code!ArgRegisters[j], args[j])
<1> DEFINE m == InRegisters(args)
           r == PassInRegisters(args)
<1>1. m \in Nat /\ \A j \in 1..m : j \in 1..4 /\ j \in 1..Len(args)
  BY SizesOfStub DEF InRegisters
<1>2. \A j \in 1..m : Code!Mov(Code!ArgRegisters[j], args[j]) \in Instructions
  BY <1>1, StubIs, InstructionsAre, ElementOfSeq
<1>3. r = [i \in 1..m |-> Code!Mov(Code!ArgRegisters[i], args[i])]
  BY DEF InRegisters, PassInRegisters
<1> HIDE DEF r, m
<1>4. r \in [1..m -> Instructions]
  BY <1>2, <1>3
<1>5. r \in Seq(Instructions) /\ Len(r) = m
  BY <1>1, <1>4, TableIs
<1> QED BY <1>3, <1>5 DEF r, m

\* Which argument goes to the stack by the j-th instruction, and where.
LEMMA HalfOf ==
    ASSUME NEW k \in Nat, NEW j \in 1..2 * k
    PROVE  (j + 1) \div 2 \in 1..k /\ j \div 2 \in 0..k
OBVIOUS

\* The instructions that put arguments on the stack.
LEMMA StackPassed ==
    ASSUME NEW args \in Seq(Int)
    PROVE  /\ PassOnStack(args) \in Seq(Instructions) /\ Len(PassOnStack(args)) = 2 * OnStack(args)
           /\ \A j \in 1..2 * OnStack(args) : PassOnStack(args)[j] = ToStack(args, j)
<1> DEFINE k == OnStack(args)
           s == PassOnStack(args)
<1>1. k \in Nat /\ Len(args) \in Nat /\ 2 * k \in Nat /\ (k = 0 \/ Len(args) = 4 + k)
  BY SizesOfStub
<1>2. ASSUME NEW j \in 1..2 * k PROVE ToStack(args, j) \in Instructions
  <2>1. (j + 1) \div 2 \in 1..k /\ j \div 2 \in 0..k
    BY <1>1, HalfOf
  <2> DEFINE h == (j + 1) \div 2
             g == j \div 2
  <2>2. h \in 1..k /\ g \in 0..k
    BY <2>1
  <2> HIDE DEF h, g
  <2>3. 4 + h \in 1..Len(args) /\ 3 + g \in Int
    BY <1>1, <2>2
  <2>4. args[4 + h] \in Int /\ "ax" \in Registers
    BY <2>3, ElementOfSeq DEF Registers
  <2>5. Code!Mov("ax", args[4 + h]) \in Instructions /\ Code!Store(3 + g, "ax") \in Instructions
    BY <2>3, <2>4, InstructionsAre
  <2> QED BY <2>5 DEF ToStack, h, g
<1>3. s = [i \in 1..2 * k |-> ToStack(args, i)]
  BY DEF OnStack, PassOnStack
<1> HIDE DEF s, k
<1>4. s \in [1..2 * k -> Instructions]
  BY <1>2, <1>3
<1>5. s \in Seq(Instructions) /\ Len(s) = 2 * k
  BY <1>1, <1>4, TableIs
<1> QED BY <1>3, <1>5 DEF s, k

\* GenSync64 stores the answer and calls SetEvent.
LEMMA SyncIs ==
    LET y == Code!GenSync64
    IN  /\ y \in Seq(Instructions) /\ Len(y) = 5
        /\ y[1] = Code!Op("status") /\ y[2] = Code!Mov("cx", Event) /\ y[3] = Code!Mov("dx", 0)
        /\ y[4] = Code!Mov("ax", SetEvent) /\ y[5] = Code!Op("call")
<1>1. /\ Code!Op("status") \in Instructions /\ Code!Mov("cx", Event) \in Instructions
      /\ Code!Mov("dx", 0) \in Instructions /\ Code!Mov("ax", SetEvent) \in Instructions
      /\ Code!Op("call") \in Instructions
  BY StubIs, InstructionsAre DEF Registers
<1> QED BY <1>1 DEF Code!GenSync64

\* What Append does.
LEMMA Appended ==
    ASSUME NEW S, NEW q \in Seq(S), NEW x \in S
    PROVE  /\ Append(q, x) \in Seq(S) /\ Len(Append(q, x)) = Len(q) + 1
           /\ (\A j \in 1..Len(q) : Append(q, x)[j] = q[j]) /\ Append(q, x)[Len(q) + 1] = x
BY AppendProperties

\* GenEpilogue64 reads the registers back and returns.
LEMMA EpilogueIs ==
    LET e == Code!GenEpilogue64
    IN  /\ e \in Seq(Instructions) /\ Len(e) = 5
        /\ (\A j \in 1..4 : e[j] = Code!Load(Code!ArgRegisters[j], j)) /\ e[5] = Code!Op("ret")
<1> DEFINE l == [i \in 1..4 |-> Code!Load(Code!ArgRegisters[i], i)]
           ret == Code!Op("ret")
<1>1. \A j \in 1..4 : Code!Load(Code!ArgRegisters[j], j) \in Instructions
  BY StubIs, InstructionsAre
<1>2. l \in [1..4 -> Instructions] /\ \A j \in 1..4 : l[j] = Code!Load(Code!ArgRegisters[j], j)
  BY <1>1
<1>3. ret \in Instructions
  BY InstructionsAre
<1>4. Code!GenEpilogue64 = Append(l, ret)
  BY DEF Code!GenEpilogue64
<1> HIDE DEF l, ret
<1>5. l \in Seq(Instructions) /\ Len(l) = 4
  BY <1>2, TableIs
<1>6. /\ Append(l, ret) \in Seq(Instructions) /\ Len(Append(l, ret)) = 5
      /\ (\A j \in 1..4 : Append(l, ret)[j] = l[j]) /\ Append(l, ret)[5] = ret
  <2>1. Len(l) + 1 = 5 /\ \A j \in 1..4 : j \in 1..Len(l)
    BY <1>5
  <2>2. /\ Append(l, ret) \in Seq(Instructions) /\ Len(Append(l, ret)) = Len(l) + 1
        /\ (\A j \in 1..Len(l) : Append(l, ret)[j] = l[j]) /\ Append(l, ret)[Len(l) + 1] = ret
    BY <1>3, <1>5, Appended
  <2> QED BY <2>1, <2>2
<1> QED BY <1>2, <1>4, <1>6 DEF ret

\* The instructions that call the routine.
LEMMA CallIs ==
    ASSUME NEW frame \in Int
    PROVE  LET t == <<Code!Mov("ax", Routine), Code!Op("call"), Code!AddSp(frame)>>
           IN  /\ t \in Seq(Instructions) /\ Len(t) = 3
               /\ t[1] = Code!Mov("ax", Routine) /\ t[2] = Code!Op("call") /\ t[3] = Code!AddSp(frame)
<1>1. /\ Code!Mov("ax", Routine) \in Instructions /\ Code!Op("call") \in Instructions
      /\ Code!AddSp(frame) \in Instructions
  BY StubIs, InstructionsAre DEF Registers
<1> QED BY <1>1

IsNative(w) == w = FALSE

\* The instructions of a stub in a native process.
LEMMA Code64Is ==
    ASSUME NEW w, IsNative(w), NEW args \in Seq(Int), Fits(args)
    PROVE  LET code == Code!CallCode(w, args)
               m == InRegisters(args)
               a == Edge(args)
               frame == Code!Frame64(Len(args))
           IN  /\ Len(code) = a + 13
               /\ \A j \in 1..4 : code[0 + j] = Code!Store(j, Code!ArgRegisters[j])
               /\ code[4 + 1] = Code!AddSp(-frame)
               /\ \A j \in 1..m : code[5 + j] = Code!Mov(Code!ArgRegisters[j], args[j])
               /\ \A j \in 1..2 * OnStack(args) : code[5 + m + j] = ToStack(args, j)
               /\ code[a + 1] = Code!Mov("ax", Routine) /\ code[a + 2] = Code!Op("call")
               /\ code[a + 3] = Code!AddSp(frame)
               /\ code[a + 3 + 1] = Code!Op("status") /\ code[a + 3 + 2] = Code!Mov("cx", Event)
               /\ code[a + 3 + 3] = Code!Mov("dx", 0) /\ code[a + 3 + 4] = Code!Mov("ax", SetEvent)
               /\ code[a + 3 + 5] = Code!Op("call")
               /\ \A j \in 1..4 : code[a + 8 + j] = Code!Load(Code!ArgRegisters[j], j)
               /\ code[a + 8 + 5] = Code!Op("ret")
<1> DEFINE code == Code!CallCode(w, args)
           m == InRegisters(args)
           l == 2 * OnStack(args)
           a == Edge(args)
           frame == Code!Frame64(Len(args))
           p == Code!GenPrologue64
           f == <<Code!AddSp(-frame)>>
           r == PassInRegisters(args)
           s == PassOnStack(args)
           t == <<Code!Mov("ax", Routine), Code!Op("call"), Code!AddSp(frame)>>
           y == Code!GenSync64
           e == Code!GenEpilogue64
<1>1. m \in Nat /\ l \in Nat /\ a \in Nat /\ a = 5 + m + l
  BY SizesOfStub
<1>2. code = Stub(p, f, r, s, t, y, e)
  <2> DEFINE byte == Code!Imm8(frame)
             fb == <<Code!AddSp(-byte)>>
             tb == <<Code!Mov("ax", Routine), Code!Op("call"), Code!AddSp(byte)>>
             ToByte(k) == IF k % 2 = 1 THEN Code!Mov("ax", args[4 + ((k + 1) \div 2)])
                          ELSE Code!Store(Code!Imm8(3 + (k \div 2)), "ax")
             sb == [k \in 1..(IF Len(args) > 4 THEN 2 * (Len(args) - 4) ELSE 0) |-> ToByte(k)]
  <2>1. code = Stub(p, fb, r, sb, tb, y, e)
    BY DEF IsNative, Stub, Code!CallCode, Code!GenPrologueT, Code!GenCallTV, Code!GenSyncT, Code!GenEpilogueT, Code!GenCall64V,
           PassInRegisters
  <2>2. byte = frame
    BY ByteOfFrame
  <2>3. fb = f /\ tb = t
    BY <2>2
  <2>4. ASSUME NEW i \in 1..2 * OnStack(args) PROVE ToByte(i) = ToStack(args, i)
    <3>1. i \div 2 \in 0..OnStack(args)
      <4>1. OnStack(args) \in Nat
        BY SizesOfStub
      <4> QED BY <4>1, HalfOf
    <3>2. Code!Imm8(3 + (i \div 2)) = 3 + (i \div 2)
      BY <3>1, ByteOfFrame
    <3> QED BY <3>2 DEF ToStack
  <2>5. (IF Len(args) > 4 THEN 2 * (Len(args) - 4) ELSE 0) = 2 * OnStack(args)
    BY SizesOfStub DEF OnStack
  <2> HIDE DEF ToByte
  <2>6. sb = s
    BY <2>4, <2>5 DEF PassOnStack
  <2> HIDE DEF code, p, fb, f, r, sb, s, tb, t, y, e
  <2> QED BY <2>1, <2>3, <2>6
<1>3. p \in Seq(Instructions) /\ Len(p) = 4 /\ \A j \in 1..4 : p[j] = Code!Store(j, Code!ArgRegisters[j])
  BY PrologueIs
<1>4. f \in Seq(Instructions) /\ Len(f) = 1 /\ f[1] = Code!AddSp(-frame) /\ frame \in Int
  BY FrameIs, SizesOfStub
<1>5. r \in Seq(Instructions) /\ Len(r) = m /\ \A j \in 1..m : r[j] = Code!Mov(Code!ArgRegisters[j], args[j])
  BY RegistersPassed
<1>6. s \in Seq(Instructions) /\ Len(s) = l /\ \A j \in 1..l : s[j] = ToStack(args, j)
  BY StackPassed
<1>7. /\ t \in Seq(Instructions) /\ Len(t) = 3
      /\ t[1] = Code!Mov("ax", Routine) /\ t[2] = Code!Op("call") /\ t[3] = Code!AddSp(frame)
  BY <1>4, CallIs
<1>8. /\ y \in Seq(Instructions) /\ Len(y) = 5
      /\ y[1] = Code!Op("status") /\ y[2] = Code!Mov("cx", Event) /\ y[3] = Code!Mov("dx", 0)
      /\ y[4] = Code!Mov("ax", SetEvent) /\ y[5] = Code!Op("call")
  BY SyncIs
<1>9. /\ e \in Seq(Instructions) /\ Len(e) = 5
      /\ (\A j \in 1..4 : e[j] = Code!Load(Code!ArgRegisters[j], j)) /\ e[5] = Code!Op("ret")
  BY EpilogueIs
<1> HIDE DEF code, m, l, a, frame, p, f, r, s, t, y, e
<1>10. /\ Len(code) = a + 13 /\ Stands(code, 0, p) /\ Stands(code, 4, f) /\ Stands(code, 5, r)
       /\ Stands(code, 5 + m, s) /\ Stands(code, a, t) /\ Stands(code, a + 3, y) /\ Stands(code, a + 8, e)
  <2>1. /\ Len(code) = 5 + Len(r) + Len(s) + 13 /\ Stands(code, 0, p) /\ Stands(code, 4, f) /\ Stands(code, 5, r)
        /\ Stands(code, 5 + Len(r), s) /\ Stands(code, 5 + Len(r) + Len(s), t)
        /\ Stands(code, 5 + Len(r) + Len(s) + 3, y) /\ Stands(code, 5 + Len(r) + Len(s) + 8, e)
    <3>1. AreParts(p, f, r, s, t, y, e)
      BY <1>3, <1>4, <1>5, <1>6, <1>7, <1>8, <1>9 DEF AreParts
    <3> QED BY <1>2, <3>1, Layout
  <2> QED BY <1>1, <1>5, <1>6, <2>1
<1>11. \A j \in 1..4 : code[0 + j] = p[j]
  BY <1>3, <1>10 DEF Stands
<1>12. code[4 + 1] = f[1]
  <2>1. Stands(code, 4, f) /\ Len(f) = 1 /\ 1 \in 1..1
    BY <1>4, <1>10
  <2> QED BY <2>1 DEF Stands
<1>13. \A j \in 1..m : code[5 + j] = r[j]
  BY <1>5, <1>10 DEF Stands
<1>14. \A j \in 1..l : code[5 + m + j] = s[j]
  BY <1>6, <1>10 DEF Stands
<1>15. \A j \in 1..3 : code[a + j] = t[j]
  BY <1>7, <1>10 DEF Stands
<1>16. \A j \in 1..5 : code[a + 3 + j] = y[j]
  BY <1>8, <1>10 DEF Stands
<1>17. \A j \in 1..5 : code[a + 8 + j] = e[j]
  BY <1>9, <1>10 DEF Stands
<1>18. \A j \in 1..5 : j \in 1..5 /\ (j <= 4 => j \in 1..4)
  OBVIOUS
<1>19. code[a + 1] = t[1] /\ code[a + 2] = t[2] /\ code[a + 3] = t[3]
  BY <1>15
<1>20. /\ code[a + 3 + 1] = y[1] /\ code[a + 3 + 2] = y[2] /\ code[a + 3 + 3] = y[3] /\ code[a + 3 + 4] = y[4]
       /\ code[a + 3 + 5] = y[5]
  BY <1>16
<1>21. code[a + 8 + 5] = e[5] /\ \A j \in 1..4 : code[a + 8 + j] = e[j]
  <2>1. \A j \in 1..4 : j \in 1..5
    OBVIOUS
  <2> QED BY <1>17, <2>1
<1> QED BY <1>3, <1>4, <1>5, <1>6, <1>7, <1>8, <1>9, <1>10, <1>11, <1>12, <1>13, <1>14, <1>19, <1>20, <1>21
        DEF code, m, l, a, frame

-----------------------------------------------------------------------------
(* What a processor does with an instruction.                              *)

\* What a processor is while it executes a stub with so many arguments.
Slots(argc) == -(argc + 8)..4
IsCpu(c, argc) ==
  /\ c = [reg |-> c.reg, sp |-> c.sp, at |-> c.at, status |-> c.status, stack |-> c.stack,
          calls |-> c.calls, next |-> c.next]
  /\ c.reg \in [Registers -> Int] /\ c.stack \in [Slots(argc) -> Int]
  /\ c.sp \in Int /\ c.at \in Int /\ c.status \in Int /\ c.next \in Nat

\* What an instruction leaves alone.
KeepsAll(c, d) ==
  /\ d.at = c.at /\ d.calls = c.calls /\ d.next = c.next + 1

\* The instruction that is next.
Instruction(c, w, args) == Code!CallCode(w, args)[c.next]

MovIsNext(c, w, args, r, v) ==
  /\ IsCpu(c, Len(args))
  /\ r \in Registers /\ v \in Int /\ Instruction(c, w, args) = Code!Mov(r, v)

\* A value is put in a register.
LEMMA MovRuns ==
    ASSUME NEW c, NEW w, NEW args, NEW r, NEW v, MovIsNext(c, w, args, r, v)
    PROVE  LET d == Code!RunOne(c, w, args)
           IN  /\ IsCpu(d, Len(args)) /\ KeepsAll(c, d) /\ d.sp = c.sp /\ d.status = c.status
               /\ d.stack = c.stack
               /\ d.reg[r] = v /\ \A q \in Registers \ {r} : d.reg[q] = c.reg[q]
<1> DEFINE argc == Len(args)
           i == Code!Mov(r, v)
           x == [c.reg EXCEPT ![r] = v]
           d == Code!RunOne(c, w, args)
<1>0. IsCpu(c, Len(args)) /\ r \in Registers /\ v \in Int /\ Instruction(c, w, args) = Code!Mov(r, v)
  BY DEF MovIsNext
<1>1. i.op = "mov" /\ i.r = r /\ i.n = v
  BY DEF Code!Mov
<1>2. Code!Execute(c, w, argc, i) = [c EXCEPT !.reg[i.r] = i.n]
  BY <1>1 DEF Code!Execute
<1>3. d = [[c EXCEPT !.reg[i.r] = i.n] EXCEPT !.next = @ + 1]
  BY <1>0, <1>2 DEF Code!RunOne, Instruction
<1>4. d = [reg |-> x, sp |-> c.sp, at |-> c.at, status |-> c.status, stack |-> c.stack,
           calls |-> c.calls, next |-> c.next + 1]
  BY <1>0, <1>1, <1>3 DEF IsCpu
<1>5. x \in [Registers -> Int]
  BY <1>0 DEF IsCpu
<1>7. x[r] = v /\ \A q \in Registers \ {r} : x[q] = c.reg[q]
  BY <1>0 DEF IsCpu
<1> HIDE DEF x, d
<1>6. IsCpu(d, argc)
  BY <1>0, <1>4, <1>5 DEF IsCpu
<1> QED BY <1>4, <1>6, <1>7 DEF KeepsAll, d

StoreIsNext(c, w, args, v, r) ==
  /\ IsCpu(c, Len(args))
  /\ r \in Registers /\ v \in Int /\ Instruction(c, w, args) = Code!Store(v, r)

\* A register is put in a word above the stack pointer.
LEMMA StoreRuns ==
    ASSUME NEW c, NEW w, NEW args, NEW v, NEW r, StoreIsNext(c, w, args, v, r)
    PROVE  LET d == Code!RunOne(c, w, args)
           IN  /\ IsCpu(d, Len(args)) /\ KeepsAll(c, d) /\ d.sp = c.sp /\ d.status = c.status
               /\ d.reg = c.reg
               /\ \A z \in Slots(Len(args)) : d.stack[z] = IF z = c.sp + v THEN c.reg[r] ELSE c.stack[z]
<1> DEFINE argc == Len(args)
           i == Code!Store(v, r)
           x == [c.stack EXCEPT ![c.sp + v] = c.reg[r]]
           d == Code!RunOne(c, w, args)
<1>0. IsCpu(c, Len(args)) /\ r \in Registers /\ v \in Int /\ Instruction(c, w, args) = Code!Store(v, r)
  BY DEF StoreIsNext
<1>1. i.op = "store" /\ i.r = r /\ i.n = v
  BY DEF Code!Store
<1>2. Code!Execute(c, w, argc, i) = [c EXCEPT !.stack[c.sp + i.n] = c.reg[i.r]]
  BY <1>1 DEF Code!Execute
<1>3. d = [[c EXCEPT !.stack[c.sp + i.n] = c.reg[i.r]] EXCEPT !.next = @ + 1]
  BY <1>0, <1>2 DEF Code!RunOne, Instruction
<1>4. d = [reg |-> c.reg, sp |-> c.sp, at |-> c.at, status |-> c.status, stack |-> x,
           calls |-> c.calls, next |-> c.next + 1]
  BY <1>0, <1>1, <1>3 DEF IsCpu
<1>5. x \in [Slots(argc) -> Int]
  BY <1>0 DEF IsCpu
<1>7. \A z \in Slots(argc) : x[z] = IF z = c.sp + v THEN c.reg[r] ELSE c.stack[z]
  BY <1>0 DEF IsCpu
<1> HIDE DEF x, d
<1>6. IsCpu(d, argc)
  BY <1>0, <1>4, <1>5 DEF IsCpu
<1> QED BY <1>4, <1>6, <1>7 DEF KeepsAll, d

LoadIsNext(c, w, args, r, v) ==
  /\ IsCpu(c, Len(args))
  /\ r \in Registers /\ v \in Int /\ Instruction(c, w, args) = Code!Load(r, v) /\ c.sp + v \in Slots(Len(args))

\* A register is read from there.
LEMMA LoadRuns ==
    ASSUME NEW c, NEW w, NEW args, NEW r, NEW v, LoadIsNext(c, w, args, r, v)
    PROVE  LET d == Code!RunOne(c, w, args)
           IN  /\ IsCpu(d, Len(args)) /\ KeepsAll(c, d) /\ d.sp = c.sp /\ d.status = c.status
               /\ d.stack = c.stack
<1> DEFINE argc == Len(args)
           i == Code!Load(r, v)
           x == [c.reg EXCEPT ![r] = c.stack[c.sp + v]]
           d == Code!RunOne(c, w, args)
<1>0. IsCpu(c, Len(args)) /\ r \in Registers /\ v \in Int /\ Instruction(c, w, args) = Code!Load(r, v) /\ c.sp + v \in Slots(Len(args))
  BY DEF LoadIsNext
<1>1. i.op = "load" /\ i.r = r /\ i.n = v
  BY DEF Code!Load
<1>2. Code!Execute(c, w, argc, i) = [c EXCEPT !.reg[i.r] = c.stack[c.sp + i.n]]
  BY <1>1 DEF Code!Execute
<1>3. d = [[c EXCEPT !.reg[i.r] = c.stack[c.sp + i.n]] EXCEPT !.next = @ + 1]
  BY <1>0, <1>2 DEF Code!RunOne, Instruction
<1>4. d = [reg |-> x, sp |-> c.sp, at |-> c.at, status |-> c.status, stack |-> c.stack,
           calls |-> c.calls, next |-> c.next + 1]
  BY <1>0, <1>1, <1>3 DEF IsCpu
<1>5. x \in [Registers -> Int]
  BY <1>0 DEF IsCpu
<1> HIDE DEF x, d
<1>6. IsCpu(d, argc)
  BY <1>0, <1>4, <1>5 DEF IsCpu
<1> QED BY <1>4, <1>6 DEF KeepsAll, x, d

AddSpIsNext(c, w, args, v) ==
  /\ IsCpu(c, Len(args))
  /\ v \in Int /\ Instruction(c, w, args) = Code!AddSp(v)

\* The stack pointer moves.
LEMMA AddSpRuns ==
    ASSUME NEW c, NEW w, NEW args, NEW v, AddSpIsNext(c, w, args, v)
    PROVE  LET d == Code!RunOne(c, w, args)
           IN  /\ IsCpu(d, Len(args)) /\ KeepsAll(c, d) /\ d.sp = c.sp + v /\ d.status = c.status
               /\ d.stack = c.stack /\ d.reg = c.reg
<1> DEFINE argc == Len(args)
           i == Code!AddSp(v)
           d == Code!RunOne(c, w, args)
<1>0. IsCpu(c, Len(args)) /\ v \in Int /\ Instruction(c, w, args) = Code!AddSp(v)
  BY DEF AddSpIsNext
<1>1. i.op = "add sp" /\ i.n = v
  BY DEF Code!AddSp
<1>2. Code!Execute(c, w, argc, i) = [c EXCEPT !.sp = @ + i.n]
  BY <1>1 DEF Code!Execute
<1>3. d = [[c EXCEPT !.sp = @ + i.n] EXCEPT !.next = @ + 1]
  BY <1>0, <1>2 DEF Code!RunOne, Instruction
<1>4. d = [reg |-> c.reg, sp |-> c.sp + v, at |-> c.at, status |-> c.status, stack |-> c.stack,
           calls |-> c.calls, next |-> c.next + 1]
  BY <1>0, <1>1, <1>3 DEF IsCpu
<1> HIDE DEF d
<1>6. IsCpu(d, argc)
  BY <1>0, <1>4 DEF IsCpu
<1> QED BY <1>4, <1>6 DEF KeepsAll, d

StatusIsNext(c, w, args) == IsCpu(c, Len(args)) /\ Instruction(c, w, args) = Code!Op("status")

\* The answer is stored.
LEMMA StatusRuns ==
    ASSUME NEW c, NEW w, NEW args, StatusIsNext(c, w, args)
    PROVE  LET d == Code!RunOne(c, w, args)
           IN  /\ IsCpu(d, Len(args)) /\ KeepsAll(c, d) /\ d.sp = c.sp /\ d.status = c.reg["ax"]
               /\ d.stack = c.stack /\ d.reg = c.reg
<1> DEFINE argc == Len(args)
           i == Code!Op("status")
           d == Code!RunOne(c, w, args)
<1>0. IsCpu(c, Len(args)) /\ Instruction(c, w, args) = Code!Op("status")
  BY DEF StatusIsNext
<1>1. i.op = "status"
  BY DEF Code!Op
<1>2. Code!Execute(c, w, argc, i) = [c EXCEPT !.status = c.reg["ax"]]
  BY <1>1 DEF Code!Execute
<1>3. d = [[c EXCEPT !.status = c.reg["ax"]] EXCEPT !.next = @ + 1]
  BY <1>0, <1>2 DEF Code!RunOne, Instruction
<1>4. d = [reg |-> c.reg, sp |-> c.sp, at |-> c.at, status |-> c.reg["ax"], stack |-> c.stack,
           calls |-> c.calls, next |-> c.next + 1]
  BY <1>0, <1>3 DEF IsCpu
<1>5. c.reg["ax"] \in Int
  BY <1>0 DEF IsCpu, Registers
<1> HIDE DEF d
<1>6. IsCpu(d, argc)
  BY <1>0, <1>4, <1>5 DEF IsCpu
<1> QED BY <1>4, <1>6 DEF KeepsAll, d

RetIsNext(c, w, args, v) ==
  /\ IsCpu(c, Len(args))
  /\ v \in Int /\ Instruction(c, w, args).op = "ret" /\ Instruction(c, w, args).n = v /\ c.sp \in Slots(Len(args))

\* The thread returns to the address at the stack pointer.
LEMMA RetRuns ==
    ASSUME NEW c, NEW w, NEW args, NEW v, RetIsNext(c, w, args, v)
    PROVE  LET d == Code!RunOne(c, w, args)
           IN  /\ IsCpu(d, Len(args)) /\ d.calls = c.calls /\ d.next = c.next + 1
               /\ d.at = c.stack[c.sp] /\ d.sp = c.sp + 1 + v
               /\ d.status = c.status /\ d.stack = c.stack
<1> DEFINE argc == Len(args)
           i == Instruction(c, w, args)
           d == Code!RunOne(c, w, args)
<1>0. IsCpu(c, Len(args)) /\ v \in Int /\ Instruction(c, w, args).op = "ret" /\ Instruction(c, w, args).n = v /\ c.sp \in Slots(Len(args))
  BY DEF RetIsNext
<1>1. i.op = "ret" /\ i.n = v
  BY <1>0
<1>2. Code!Execute(c, w, argc, i) = [c EXCEPT !.at = c.stack[c.sp], !.sp = @ + 1 + i.n]
  BY <1>1 DEF Code!Execute
<1>3. d = [[c EXCEPT !.at = c.stack[c.sp], !.sp = @ + 1 + i.n] EXCEPT !.next = @ + 1]
  BY <1>0, <1>2 DEF Code!RunOne, Instruction
<1>4. d = [reg |-> c.reg, sp |-> c.sp + 1 + v, at |-> c.stack[c.sp], status |-> c.status, stack |-> c.stack,
           calls |-> c.calls, next |-> c.next + 1]
  BY <1>0, <1>1, <1>3 DEF IsCpu
<1>5. c.stack[c.sp] \in Int
  BY <1>0 DEF IsCpu
<1> HIDE DEF d
<1>6. IsCpu(d, argc)
  BY <1>0, <1>4, <1>5 DEF IsCpu
<1> QED BY <1>4, <1>6 DEF d

\* What a routine finds where its convention puts arguments.
Count(c, args) == IF c.reg["ax"] = SetEvent THEN 2 ELSE Len(args)
Seen(c, w, count) ==
  [i \in 1..count |-> IF ~w /\ i <= 4 THEN c.reg[Code!ArgRegisters[i]] ELSE c.stack[c.sp + i - 1]]
CallOf(c, w, args) ==
  [fn |-> c.reg["ax"], args |-> Seen(c, w, Count(c, args)), aligned |-> c.sp % 2 = 1, status |-> c.status]

CallIsNext(c, w, args) ==
  /\ IsCpu(c, Len(args)) /\ w \in BOOLEAN /\ Len(args) \in Nat
  /\ Instruction(c, w, args) = Code!Op("call")

\* A routine is called: it leaves its answer, and what is not its home area.
LEMMA CallRuns ==
    ASSUME NEW c, NEW w, NEW args, CallIsNext(c, w, args)
    PROVE  LET d == Code!RunOne(c, w, args)
           IN  /\ IsCpu(d, Len(args)) /\ d.at = c.at /\ d.next = c.next + 1 /\ d.status = c.status
               /\ d.calls = Append(c.calls, CallOf(c, w, args))
               /\ d.sp = IF w THEN c.sp + Count(c, args) ELSE c.sp
               /\ d.reg["ax"] = Answer /\ d.reg["bp"] = c.reg["bp"]
               /\ \A x \in Slots(Len(args)) :
                    w \/ c.reg["ax"] = SetEvent \/ x \notin c.sp..c.sp + 3 => d.stack[x] = c.stack[x]
<1> DEFINE argc == Len(args)
           i == Code!Op("call")
           fn == c.reg["ax"]
           count == Count(c, args)
           homed == IF w \/ fn = SetEvent THEN {} ELSE c.sp..c.sp + 3
           calls == Append(c.calls, CallOf(c, w, args))
           stack == [x \in DOMAIN c.stack |-> IF x \in homed THEN Junk ELSE c.stack[x]]
           reg == [r \in DOMAIN c.reg |-> IF r = "ax" THEN Answer ELSE IF r = "bp" THEN c.reg[r] ELSE Junk]
           sp == IF w THEN c.sp + count ELSE c.sp
           d == Code!RunOne(c, w, args)
<1>0. IsCpu(c, argc) /\ w \in BOOLEAN /\ argc \in Nat /\ Instruction(c, w, args) = Code!Op("call")
  BY DEF CallIsNext
<1>1. i.op = "call"
  BY DEF Code!Op
<1>2. Code!Execute(c, w, argc, i) = Code!Called(c, w, argc)
  BY <1>1 DEF Code!Execute
<1>3. Code!Called(c, w, argc) = [c EXCEPT !.calls = calls, !.stack = stack, !.reg = reg, !.sp = sp]
  BY DEF Code!Called, Count, CallOf, Seen
<1>4. d = [Code!Called(c, w, argc) EXCEPT !.next = @ + 1]
  BY <1>0, <1>2 DEF Code!RunOne, Instruction
<1> HIDE DEF calls, stack, reg, sp, d
<1>5. d = [reg |-> reg, sp |-> sp, at |-> c.at, status |-> c.status, stack |-> stack,
           calls |-> calls, next |-> c.next + 1]
  BY <1>0, <1>3, <1>4 DEF IsCpu
<1>6. Junk \in Int /\ Answer \in Int /\ DOMAIN c.stack = Slots(argc) /\ DOMAIN c.reg = Registers
  BY <1>0, StubIs DEF IsCpu
<1>7. stack \in [Slots(argc) -> Int]
  BY <1>0, <1>6 DEF IsCpu, stack
<1>8. reg \in [Registers -> Int] /\ reg["ax"] = Answer /\ reg["bp"] = c.reg["bp"]
  BY <1>0, <1>6 DEF IsCpu, reg, Registers
<1>9. sp \in Int
  BY <1>0 DEF IsCpu, sp, Count
<1>10. IsCpu(d, argc)
  BY <1>0, <1>5, <1>7, <1>8, <1>9 DEF IsCpu
<1>11. \A x \in Slots(argc) : w \/ fn = SetEvent \/ x \notin c.sp..c.sp + 3 => stack[x] = c.stack[x]
  BY <1>0, <1>6 DEF stack
<1> QED BY <1>5, <1>8, <1>10, <1>11 DEF d, calls, sp
-----------------------------------------------------------------------------
(* Stubs in a native process.                                              *)

\* What a stub in a native process has done when an instruction is next: where
\* its stack pointer is, which arguments are in place, and which calls it made.
NativeStack(c, a, frame) ==
  /\ c.stack[0] = ReturnAddress
  /\ c.sp = IF c.next <= 5 THEN 0 ELSE IF c.next <= a + 3 THEN -frame ELSE IF c.next <= a + 13 THEN 0 ELSE 1
  /\ c.next > a + 13 => c.at = ReturnAddress

\* Where the arguments on the stack go.
Above(frame, i) == (3 + i) - frame

NativeArguments(c, args, m, k, a, frame) ==
  /\ c.next >= 6 /\ c.next <= a + 2 =>
       \A j \in 1..m : j < c.next - 5 => c.reg[Code!ArgRegisters[j]] = args[j]
  /\ c.next >= 6 + m /\ c.next <= a + 2 =>
       \A i \in 1..k : /\ i + i < c.next - (5 + m) => c.stack[Above(frame, i)] = args[4 + i]
                       /\ i + i = c.next - (5 + m) => c.reg["ax"] = args[4 + i]
  /\ c.next = a + 2 => c.reg["ax"] = Routine

\* The first call is the routine's, the second sets the event.
RoutineCalled(call, args) == call.fn = Routine /\ call.args = args /\ call.aligned
EventSet(call) == call.fn = SetEvent /\ call.args = <<Event, 0>> /\ call.status = Answer

NativeCalls(c, args, a) ==
  /\ c.next <= a + 2 => c.calls = <<>>
  /\ c.next > a + 2 => RoutineCalled(c.calls[1], args)
  /\ c.next > a + 2 /\ c.next <= a + 8 => c.calls = <<c.calls[1]>>
  /\ c.next \in {a + 3, a + 4} => c.reg["ax"] = Answer
  /\ c.next > a + 4 => c.status = Answer
  /\ c.next > a + 5 /\ c.next <= a + 8 => c.reg["cx"] = Event
  /\ c.next > a + 6 /\ c.next <= a + 8 => c.reg["dx"] = 0
  /\ c.next = a + 8 => c.reg["ax"] = SetEvent
  /\ c.next > a + 8 => c.calls = <<c.calls[1], c.calls[2]>> /\ EventSet(c.calls[2])

NativeParts(c, args, m, k, a, frame) ==
  /\ IsCpu(c, Len(args)) /\ c.next \in 1..a + 14
  /\ NativeStack(c, a, frame) /\ NativeArguments(c, args, m, k, a, frame) /\ NativeCalls(c, args, a)

Native(c, args) ==
  NativeParts(c, args, InRegisters(args), OnStack(args), Edge(args), Code!Frame64(Len(args)))

\* The sizes of such a stub.
NativeSizes(args, m, k, a, frame) ==
  /\ args \in Seq(Int) /\ Fits(args) /\ Len(args) \in Nat /\ m = InRegisters(args) /\ k = OnStack(args)
  /\ m \in 0..4 /\ k \in Nat /\ a \in Nat /\ a = 5 + m + k + k
  /\ (k = 0 \/ m = 4) /\ m + k = Len(args)
  /\ frame = Code!Frame64(Len(args)) /\ a = Edge(args)
  /\ frame \in Nat /\ frame >= 5 /\ frame % 2 = 1 /\ frame > Len(args) /\ frame <= Len(args) + 5

\* A stub in a native process has those sizes.
LEMMA NativeSizesAre ==
    ASSUME NEW args \in Seq(Int), Fits(args)
    PROVE  NativeSizes(args, InRegisters(args), OnStack(args), Edge(args), Code!Frame64(Len(args)))
<1> DEFINE m == InRegisters(args)
           k == OnStack(args)
           a == Edge(args)
           argc == Len(args)
           frame == Code!Frame64(argc)
<1>1. /\ argc \in Nat /\ m \in 0..4 /\ k \in Nat /\ a \in Nat /\ a = 5 + m + 2 * k
      /\ k = 0 \/ (m = 4 /\ k = argc - 4)
      /\ m + k = argc
  BY SizesOfStub
<1>2. frame \in Nat /\ frame >= 5 /\ frame % 2 = 1 /\ frame > argc /\ frame <= argc + 5
  BY <1>1, FrameIs
<1> HIDE DEF m, k, a, argc, frame
<1>3. a = 5 + m + k + k /\ (k = 0 \/ m = 4)
  BY <1>1
<1> QED BY <1>1, <1>2, <1>3 DEF NativeSizes, m, k, a, argc, frame

\* The word of the return address is on the stack.
LEMMA HomeIs ==
    ASSUME NEW c, NEW argc \in Nat, IsCpu(c, argc)
    PROVE  0 \in Slots(argc) /\ c.stack \in [Slots(argc) -> Int]
<1>1. c.stack \in [Slots(argc) -> Int]
  BY DEF IsCpu
<1>2. 0 \in Slots(argc)
  BY DEF Slots
<1> QED BY <1>1, <1>2

\* The first four instructions store registers above the return address.
LEMMA NativeHomes ==
    ASSUME NEW args, NEW m, NEW k, NEW a, NEW frame, NativeSizes(args, m, k, a, frame),
           NEW w, IsNative(w), NEW c, NativeParts(c, args, m, k, a, frame), c.next \in 1..4
    PROVE  NativeParts(Code!RunOne(c, w, args), args, m, k, a, frame)
<1> DEFINE j == c.next
           d == Code!RunOne(c, w, args)
<1>1. m \in 0..4 /\ k \in Nat /\ j \in 1..4 /\ args \in Seq(Int) /\ a >= 5 /\ a \in Nat /\ Len(args) \in Nat
  BY DEF NativeSizes
<1>2. IsCpu(c, Len(args)) /\ NativeStack(c, a, frame) /\ NativeCalls(c, args, a)
  BY DEF NativeParts
<1>3. Instruction(c, w, args) = Code!Store(j, Code!ArgRegisters[j])
  <2>1. \A i \in 1..4 : Code!CallCode(w, args)[0 + i] = Code!Store(i, Code!ArgRegisters[i])
    BY <1>1, Code64Is DEF NativeSizes
  <2>2. 0 + j = j
    BY <1>1
  <2> QED BY <1>1, <2>1, <2>2 DEF Instruction
<1>4. Code!ArgRegisters[j] \in Registers /\ j \in Int
  BY <1>1, StubIs
<1> HIDE DEF j
<1>5. /\ IsCpu(d, Len(args)) /\ KeepsAll(c, d) /\ d.sp = c.sp /\ d.status = c.status
      /\ d.reg = c.reg
      /\ \A z \in Slots(Len(args)) : d.stack[z] = IF z = c.sp + j THEN c.reg[Code!ArgRegisters[j]] ELSE c.stack[z]
  <2>1. StoreIsNext(c, w, args, j, Code!ArgRegisters[j])
    BY <1>2, <1>3, <1>4 DEF StoreIsNext
  <2> QED BY <2>1, StoreRuns
<1>6. d.next = j + 1 /\ d.calls = c.calls /\ d.at = c.at
  BY <1>5 DEF KeepsAll, j
<1> HIDE DEF d, j
<1>7. c.sp = 0 /\ c.stack[0] = ReturnAddress /\ c.calls = <<>>
  BY <1>1, <1>2 DEF NativeStack, NativeCalls, j
<1>8. 0 \in Slots(Len(args)) /\ 0 + j # 0
  BY <1>1, <1>2, HomeIs
<1>9. d.stack[0] = ReturnAddress
  BY <1>5, <1>7, <1>8
<1> HIDE DEF d, j
<1>10. NativeStack(d, a, frame)
  BY <1>1, <1>5, <1>6, <1>7, <1>9 DEF NativeStack
<1>11. NativeArguments(d, args, m, k, a, frame)
  <2>1. ~(d.next >= 6) /\ ~(d.next >= 6 + m) /\ d.next # a + 2
    BY <1>1, <1>6
  <2> QED BY <2>1 DEF NativeArguments
<1>12. NativeCalls(d, args, a)
  BY <1>1, <1>6, <1>7 DEF NativeCalls
<1>13. d.next \in 1..a + 14
  BY <1>1, <1>6
<1> QED BY <1>5, <1>10, <1>11, <1>12, <1>13 DEF NativeParts, d

\* What such a stub has, in one place.
LEMMA NativeFacts ==
    ASSUME NEW args, NEW m, NEW k, NEW a, NEW frame, NativeSizes(args, m, k, a, frame),
           NEW c, NativeParts(c, args, m, k, a, frame)
    PROVE  /\ args \in Seq(Int) /\ Len(args) \in Nat /\ m \in 0..4 /\ k \in Nat /\ a \in Nat /\ a = 5 + m + k + k
           /\ frame \in Nat /\ frame >= 5 /\ frame > Len(args) /\ frame <= Len(args) + 5 /\ m + k = Len(args)
           /\ IsCpu(c, Len(args)) /\ c.next \in 1..a + 14 /\ c.next \in Nat
           /\ 0 \in Slots(Len(args))
           /\ NativeStack(c, a, frame) /\ NativeArguments(c, args, m, k, a, frame) /\ NativeCalls(c, args, a)
<1>1. /\ args \in Seq(Int) /\ Len(args) \in Nat /\ m \in 0..4 /\ k \in Nat /\ a \in Nat /\ a = 5 + m + k + k
      /\ frame \in Nat /\ frame >= 5 /\ frame > Len(args) /\ frame <= Len(args) + 5 /\ m + k = Len(args)
  BY DEF NativeSizes
<1>2. /\ IsCpu(c, Len(args)) /\ c.next \in 1..a + 14
      /\ NativeStack(c, a, frame) /\ NativeArguments(c, args, m, k, a, frame) /\ NativeCalls(c, args, a)
  BY DEF NativeParts
<1>3. 0 \in Slots(Len(args))
  BY <1>1, <1>2, HomeIs
<1>4. c.next \in Nat
  BY <1>2 DEF IsCpu
<1> QED BY <1>1, <1>2, <1>3, <1>4

\* Room for the arguments is made.
LEMMA NativeEnters ==
    ASSUME NEW args, NEW m, NEW k, NEW a, NEW frame, NativeSizes(args, m, k, a, frame),
           NEW w, IsNative(w), NEW c, NativeParts(c, args, m, k, a, frame), c.next = 5
    PROVE  NativeParts(Code!RunOne(c, w, args), args, m, k, a, frame)
<1> DEFINE d == Code!RunOne(c, w, args)
<1>1. /\ args \in Seq(Int) /\ Len(args) \in Nat /\ m \in 0..4 /\ k \in Nat /\ a \in Nat /\ a = 5 + m + k + k
      /\ frame \in Nat /\ IsCpu(c, Len(args))
      /\ NativeStack(c, a, frame) /\ NativeCalls(c, args, a)
  BY NativeFacts
<1>2. Instruction(c, w, args) = Code!AddSp(-frame)
  <2>1. Code!CallCode(w, args)[4 + 1] = Code!AddSp(-frame)
    BY <1>1, Code64Is DEF NativeSizes
  <2>2. c.next = 4 + 1
    OBVIOUS
  <2> QED BY <2>1, <2>2 DEF Instruction
<1>3. /\ IsCpu(d, Len(args)) /\ KeepsAll(c, d) /\ d.sp = c.sp + (-frame) /\ d.status = c.status
      /\ d.reg = c.reg /\ d.stack = c.stack
  <2>1. AddSpIsNext(c, w, args, -frame)
    BY <1>1, <1>2 DEF AddSpIsNext
  <2> QED BY <2>1, AddSpRuns
<1> HIDE DEF d
<1>4. d.next = 6 /\ d.calls = c.calls /\ d.at = c.at
  BY <1>3 DEF KeepsAll
<1>5. c.sp = 0 /\ c.stack[0] = ReturnAddress /\ c.calls = <<>>
  BY <1>1 DEF NativeStack, NativeCalls
<1>6. NativeStack(d, a, frame)
  BY <1>1, <1>3, <1>4, <1>5 DEF NativeStack
<1>7. NativeArguments(d, args, m, k, a, frame)
  BY <1>1, <1>4 DEF NativeArguments
<1>8. NativeCalls(d, args, a)
  BY <1>1, <1>4, <1>5 DEF NativeCalls
<1> QED BY <1>1, <1>3, <1>4, <1>6, <1>7, <1>8 DEF NativeParts, d

\* An argument is put in its register.
LEMMA NativeRegister ==
    ASSUME NEW args, NEW m, NEW k, NEW a, NEW frame, NativeSizes(args, m, k, a, frame),
           NEW w, IsNative(w), NEW c, NativeParts(c, args, m, k, a, frame), NEW j \in 1..m, c.next = 5 + j
    PROVE  NativeParts(Code!RunOne(c, w, args), args, m, k, a, frame)
<1> DEFINE d == Code!RunOne(c, w, args)
           r == Code!ArgRegisters[j]
<1>1. /\ args \in Seq(Int) /\ Len(args) \in Nat /\ m \in 0..4 /\ k \in Nat /\ a \in Nat /\ a = 5 + m + k + k
      /\ frame \in Nat /\ IsCpu(c, Len(args)) /\ m + k = Len(args)
      /\ NativeStack(c, a, frame) /\ NativeCalls(c, args, a) /\ NativeArguments(c, args, m, k, a, frame)
  BY NativeFacts
<1>0. m \in 0..4 /\ k \in Nat /\ a = 5 + m + k + k /\ j \in 1..m
  BY <1>1
<1>2. j \in 1..4 /\ j \in 1..Len(args) /\ j <= m
  BY <1>1
<1>3. Instruction(c, w, args) = Code!Mov(r, args[j])
  <2>1. \A i \in 1..m : Code!CallCode(w, args)[5 + i] = Code!Mov(Code!ArgRegisters[i], args[i])
    BY <1>1, Code64Is DEF NativeSizes
  <2> QED BY <2>1 DEF Instruction
<1>4. r \in Registers /\ args[j] \in Int /\ \A i \in 1..4 : Code!ArgRegisters[i] \in Registers
  BY <1>1, <1>2, StubIs, ElementOfSeq
<1>5. \A i \in 1..4 : i # j => Code!ArgRegisters[i] # r
  <2>1. \A i \in 1..4 : i = 1 \/ i = 2 \/ i = 3 \/ i = 4
    OBVIOUS
  <2> QED BY <1>2, <2>1, StubIs
<1>6. /\ IsCpu(d, Len(args)) /\ KeepsAll(c, d) /\ d.sp = c.sp /\ d.status = c.status /\ d.stack = c.stack
      /\ d.reg[r] = args[j] /\ \A q \in Registers \ {r} : d.reg[q] = c.reg[q]
  <2>1. MovIsNext(c, w, args, r, args[j])
    BY <1>1, <1>3, <1>4 DEF MovIsNext
  <2> QED BY <2>1, MovRuns
<1> HIDE DEF d, r
<1>7. d.next = 6 + j /\ d.calls = c.calls /\ d.at = c.at
  BY <1>1, <1>6 DEF KeepsAll
<1>71. d.next > 6 /\ d.next <= a + 1 /\ d.next - (5 + m) <= 1 /\ d.next \in Nat
  <2>1. j \in Nat /\ j >= 1 /\ j <= m /\ m \in Nat /\ k \in Nat /\ a = 5 + m + k + k /\ d.next = 6 + j
    BY <1>0, <1>7
  <2> QED BY <2>1
<1>8. /\ c.sp = -frame /\ c.stack[0] = ReturnAddress /\ c.calls = <<>>
      /\ \A i \in 1..m : i < j => c.reg[Code!ArgRegisters[i]] = args[i]
  BY <1>1, <1>2 DEF NativeStack, NativeCalls, NativeArguments
<1>9. NativeStack(d, a, frame)
  <2>1. ~(d.next <= 5) /\ d.next <= a + 3 /\ ~(d.next > a + 13)
    BY <1>0, <1>71
  <2> QED BY <1>6, <1>8, <2>1 DEF NativeStack
<1>10. NativeArguments(d, args, m, k, a, frame)
  <2>1. ASSUME NEW i \in 1..m, i < d.next - 5 PROVE d.reg[Code!ArgRegisters[i]] = args[i]
    <3>1. i \in 1..4 /\ (i = j \/ i < j)
      BY <1>1, <1>2, <1>7, <2>1
    <3>2. CASE i = j
      BY <1>6, <3>2 DEF r
    <3>3. CASE i < j
      <4>1. Code!ArgRegisters[i] \in Registers \ {r}
        BY <1>4, <1>5, <3>1, <3>3
      <4> QED BY <1>6, <1>8, <3>3, <4>1
    <3> QED BY <3>1, <3>2, <3>3
  <2>2. ASSUME NEW i \in 1..k, d.next >= 6 + m
        PROVE  ~(i + i < d.next - (5 + m)) /\ ~(i + i = d.next - (5 + m))
    BY <1>0, <1>71, <2>2
  <2>3. d.next # a + 2
    BY <1>1, <1>71
  <2> QED BY <2>1, <2>2, <2>3 DEF NativeArguments
<1>11. NativeCalls(d, args, a)
  BY <1>1, <1>2, <1>7, <1>8 DEF NativeCalls
<1>12. d.next \in 1..a + 14
  BY <1>0, <1>71
<1> QED BY <1>6, <1>9, <1>10, <1>11, <1>12 DEF NativeParts, d

\* Its numbers apart.
LEMMA NativeNumbers ==
    ASSUME NEW args, NEW m, NEW k, NEW a, NEW frame, NativeSizes(args, m, k, a, frame)
    PROVE  /\ m \in 0..4 /\ k \in Nat /\ a \in Nat /\ a = 5 + m + k + k /\ (k = 0 \/ m = 4) /\ m + k = Len(args)
           /\ frame \in Nat /\ frame >= 5 /\ frame > Len(args) /\ frame <= Len(args) + 5 /\ Len(args) \in Nat
BY DEF NativeSizes

\* The two instructions that put an argument on the stack.
LEMMA PairIs ==
    ASSUME NEW args, NEW i \in Nat, i >= 1
    PROVE  ToStack(args, i + i - 1) = Code!Mov("ax", args[4 + i]) /\ ToStack(args, i + i) = Code!Store(3 + i, "ax")
<1>1. (i + i - 1) % 2 = 1 /\ (i + i) % 2 # 1 /\ ((i + i - 1) + 1) \div 2 = i /\ (i + i) \div 2 = i
  OBVIOUS
<1> QED BY <1>1 DEF ToStack

StackCode(w, args, m, k) ==
  \A i \in 1..k : /\ Code!CallCode(w, args)[5 + m + (i + i - 1)] = Code!Mov("ax", args[4 + i])
                  /\ Code!CallCode(w, args)[5 + m + (i + i)] = Code!Store(3 + i, "ax")

\* They stand in the code, two for each such argument.
LEMMA PairOfCode ==
    ASSUME NEW args, NEW m, NEW k, NEW a, NEW frame, NativeSizes(args, m, k, a, frame),
           NEW w, IsNative(w)
    PROVE  StackCode(w, args, m, k)
<1> SUFFICES ASSUME NEW i \in 1..k
             PROVE  /\ Code!CallCode(w, args)[5 + m + (i + i - 1)] = Code!Mov("ax", args[4 + i])
                    /\ Code!CallCode(w, args)[5 + m + (i + i)] = Code!Store(3 + i, "ax")
  BY DEF StackCode
<1>1. args \in Seq(Int) /\ Fits(args) /\ m = InRegisters(args) /\ k = OnStack(args)
  BY DEF NativeSizes
<1>2. k \in Nat
  BY NativeNumbers
<1>3. \A j \in 1..2 * k : Code!CallCode(w, args)[5 + m + j] = ToStack(args, j)
  BY <1>1, Code64Is
<1>4. i + i - 1 \in 1..2 * k /\ i + i \in 1..2 * k /\ i \in Nat /\ i >= 1
  BY <1>2
<1> QED BY <1>3, <1>4, PairIs

\* An argument that goes to the stack passes through a register.
LEMMA NativeFetches ==
    ASSUME NEW args, NEW m, NEW k, NEW a, NEW frame, NativeSizes(args, m, k, a, frame),
           NEW w, IsNative(w), NEW c, NativeParts(c, args, m, k, a, frame), NEW i \in 1..k, c.next = 5 + m + (i + i - 1)
    PROVE  NativeParts(Code!RunOne(c, w, args), args, m, k, a, frame)
<1> DEFINE d == Code!RunOne(c, w, args)
<1>1. /\ args \in Seq(Int) /\ IsCpu(c, Len(args))
      /\ NativeStack(c, a, frame) /\ NativeCalls(c, args, a) /\ NativeArguments(c, args, m, k, a, frame)
  BY NativeFacts
<1>2. m \in 0..4 /\ k \in Nat /\ a = 5 + m + k + k /\ i \in 1..k /\ m = 4 /\ m + k = Len(args)
  BY NativeNumbers
<1>3. Instruction(c, w, args) = Code!Mov("ax", args[4 + i])
  <2>1. StackCode(w, args, m, k)
    BY PairOfCode
  <2> QED BY <2>1 DEF StackCode, Instruction
<1>4. "ax" \in Registers /\ \A j \in 1..4 : Code!ArgRegisters[j] \in Registers \ {"ax"}
  BY StubIs DEF Registers
<1>5. args[4 + i] \in Int
  <2>1. 4 + i \in 1..Len(args)
    BY <1>2
  <2> QED BY <1>1, <2>1, ElementOfSeq
<1>6. /\ IsCpu(d, Len(args)) /\ KeepsAll(c, d) /\ d.sp = c.sp /\ d.status = c.status /\ d.stack = c.stack
      /\ d.reg["ax"] = args[4 + i] /\ \A q \in Registers \ {"ax"} : d.reg[q] = c.reg[q]
  <2>1. MovIsNext(c, w, args, "ax", args[4 + i])
    BY <1>1, <1>3, <1>4, <1>5 DEF MovIsNext
  <2> QED BY <2>1, MovRuns
<1> HIDE DEF d
<1>7. d.next = c.next + 1 /\ d.calls = c.calls /\ d.at = c.at
  BY <1>6 DEF KeepsAll
<1>8. /\ c.next >= 6 + m /\ c.next <= a /\ c.next > 5 /\ c.next <= a + 3 /\ c.next <= a + 2 /\ c.next \in Nat
      /\ d.next \in Nat /\ d.next >= 6 + m /\ d.next > 5 /\ d.next <= a + 1 /\ d.next = 5 + m + (i + i)
  BY <1>2, <1>7
<1>9. /\ c.sp = -frame /\ c.stack[0] = ReturnAddress /\ c.calls = <<>>
      /\ \A j \in 1..m : j < c.next - 5 => c.reg[Code!ArgRegisters[j]] = args[j]
      /\ \A j \in 1..k : j + j < c.next - (5 + m) => c.stack[Above(frame, j)] = args[4 + j]
  <2>1. c.sp = -frame /\ c.stack[0] = ReturnAddress
    BY <1>1, <1>8 DEF NativeStack
  <2>2. c.calls = <<>>
    BY <1>1, <1>8 DEF NativeCalls
  <2> QED BY <1>1, <1>8, <2>1, <2>2 DEF NativeArguments
<1>10. NativeStack(d, a, frame)
  <2>1. ~(d.next <= 5) /\ d.next <= a + 3 /\ ~(d.next > a + 13)
    BY <1>2, <1>8
  <2> QED BY <1>6, <1>9, <2>1 DEF NativeStack
<1>11. NativeArguments(d, args, m, k, a, frame)
  <2>1. ASSUME NEW j \in 1..m PROVE d.reg[Code!ArgRegisters[j]] = args[j]
    <3>1. j \in 1..4 /\ j < c.next - 5
      BY <1>2, <1>8
    <3> QED BY <1>4, <1>6, <1>9, <3>1
  <2>2. ASSUME NEW j \in 1..k, j + j < d.next - (5 + m) PROVE d.stack[Above(frame, j)] = args[4 + j]
    <3>1. j + j < c.next - (5 + m)
      BY <1>2, <1>8, <2>2
    <3>2. c.stack[Above(frame, j)] = args[4 + j]
      BY <1>9, <3>1
    <3> QED BY <1>6, <3>2
  <2>3. ASSUME NEW j \in 1..k, j + j = d.next - (5 + m) PROVE d.reg["ax"] = args[4 + j]
    <3>1. j = i
      BY <1>2, <1>8, <2>3
    <3> QED BY <1>6, <3>1
  <2>4. d.next # a + 2
    BY <1>2, <1>8
  <2> QED BY <2>1, <2>2, <2>3, <2>4 DEF NativeArguments
<1>12. NativeCalls(d, args, a)
  BY <1>2, <1>7, <1>8, <1>9 DEF NativeCalls
<1>13. d.next \in 1..a + 14
  BY <1>2, <1>8
<1> QED BY <1>6, <1>10, <1>11, <1>12, <1>13 DEF NativeParts, d

\* It is stored above the arguments before it.
LEMMA NativeStores ==
    ASSUME NEW args, NEW m, NEW k, NEW a, NEW frame, NativeSizes(args, m, k, a, frame),
           NEW w, IsNative(w), NEW c, NativeParts(c, args, m, k, a, frame), NEW i \in 1..k, c.next = 5 + m + (i + i)
    PROVE  NativeParts(Code!RunOne(c, w, args), args, m, k, a, frame)
<1> DEFINE d == Code!RunOne(c, w, args)
<1>1. /\ args \in Seq(Int) /\ IsCpu(c, Len(args)) /\ 0 \in Slots(Len(args))
      /\ NativeStack(c, a, frame) /\ NativeCalls(c, args, a) /\ NativeArguments(c, args, m, k, a, frame)
  BY NativeFacts
<1>2. /\ m \in 0..4 /\ k \in Nat /\ a = 5 + m + k + k /\ i \in 1..k /\ m = 4 /\ m + k = Len(args)
      /\ frame \in Nat /\ frame > Len(args) /\ frame <= Len(args) + 5 /\ Len(args) \in Nat
  BY NativeNumbers
<1>3. Instruction(c, w, args) = Code!Store(3 + i, "ax")
  <2>1. StackCode(w, args, m, k)
    BY PairOfCode
  <2> QED BY <2>1 DEF StackCode, Instruction
<1>4. "ax" \in Registers /\ 3 + i \in Int
  BY <1>2 DEF Registers
<1>5. /\ IsCpu(d, Len(args)) /\ KeepsAll(c, d) /\ d.sp = c.sp /\ d.status = c.status /\ d.reg = c.reg
      /\ \A z \in Slots(Len(args)) : d.stack[z] = IF z = c.sp + (3 + i) THEN c.reg["ax"] ELSE c.stack[z]
  <2>1. StoreIsNext(c, w, args, 3 + i, "ax")
    BY <1>1, <1>3, <1>4 DEF StoreIsNext
  <2> QED BY <2>1, StoreRuns
<1> HIDE DEF d
<1>6. d.next = c.next + 1 /\ d.calls = c.calls /\ d.at = c.at
  BY <1>5 DEF KeepsAll
<1>7. /\ c.next >= 6 + m /\ c.next <= a /\ c.next > 5 /\ c.next <= a + 3 /\ c.next <= a + 2 /\ c.next \in Nat
      /\ d.next \in Nat /\ d.next >= 6 + m /\ d.next > 5 /\ d.next <= a + 1 /\ d.next = 6 + m + (i + i)
      /\ i + i = c.next - (5 + m)
  BY <1>2, <1>6
<1>8. /\ c.sp = -frame /\ c.stack[0] = ReturnAddress /\ c.calls = <<>> /\ c.reg["ax"] = args[4 + i]
      /\ \A j \in 1..m : j < c.next - 5 => c.reg[Code!ArgRegisters[j]] = args[j]
      /\ \A j \in 1..k : j + j < c.next - (5 + m) => c.stack[Above(frame, j)] = args[4 + j]
  <2>1. c.sp = -frame /\ c.stack[0] = ReturnAddress
    BY <1>1, <1>7 DEF NativeStack
  <2>2. c.calls = <<>>
    BY <1>1, <1>7 DEF NativeCalls
  <2>3. c.reg["ax"] = args[4 + i]
    BY <1>1, <1>7 DEF NativeArguments
  <2>4. \A j \in 1..m : j < c.next - 5 => c.reg[Code!ArgRegisters[j]] = args[j]
    BY <1>1, <1>7 DEF NativeArguments
  <2>5. \A j \in 1..k : j + j < c.next - (5 + m) => c.stack[Above(frame, j)] = args[4 + j]
    BY <1>1, <1>7 DEF NativeArguments
  <2> QED BY <2>1, <2>2, <2>3, <2>4, <2>5
<1>9. \A j \in 1..k : /\ Above(frame, j) \in Slots(Len(args)) /\ Above(frame, j) # 0
                      /\ (Above(frame, j) = -frame + (3 + i) <=> j = i)
  BY <1>2 DEF Slots, Above
<1>10. d.stack[0] = ReturnAddress
  <2>1. 0 # -frame + (3 + i)
    BY <1>2
  <2> QED BY <1>1, <1>5, <1>8, <2>1
<1>11. NativeStack(d, a, frame)
  <2>1. ~(d.next <= 5) /\ d.next <= a + 3 /\ ~(d.next > a + 13)
    BY <1>2, <1>7
  <2>2. d.sp = -frame
    BY <1>5, <1>8
  <2> QED BY <1>10, <2>1, <2>2 DEF NativeStack
<1>12. NativeArguments(d, args, m, k, a, frame)
  <2>1. ASSUME NEW j \in 1..m PROVE d.reg[Code!ArgRegisters[j]] = args[j]
    <3>1. j < c.next - 5
      BY <1>2, <1>7
    <3> QED BY <1>5, <1>8, <3>1
  <2>2. ASSUME NEW j \in 1..k, j + j < d.next - (5 + m) PROVE d.stack[Above(frame, j)] = args[4 + j]
    <3>1. j = i \/ j + j < c.next - (5 + m)
      BY <1>2, <1>7, <2>2
    <3>2. CASE j = i
      BY <1>5, <1>8, <1>9, <3>2
    <3>3. CASE j # i /\ j + j < c.next - (5 + m)
      <4>1. c.stack[Above(frame, j)] = args[4 + j]
        BY <1>8, <3>3
      <4>2. Above(frame, j) \in Slots(Len(args)) /\ Above(frame, j) # -frame + (3 + i)
        BY <1>9, <3>3
      <4> QED BY <1>5, <1>8, <4>1, <4>2
    <3> QED BY <3>1, <3>2, <3>3
  <2>3. \A j \in 1..k : j + j # d.next - (5 + m)
    BY <1>2, <1>7
  <2>4. d.next # a + 2
    BY <1>2, <1>7
  <2> QED BY <2>1, <2>2, <2>3, <2>4 DEF NativeArguments
<1>13. NativeCalls(d, args, a)
  <2>1. d.next <= a + 2 /\ d.next # a + 3 /\ d.next # a + 4 /\ d.next # a + 8
        /\ ~(d.next > a + 2) /\ ~(d.next > a + 4) /\ ~(d.next > a + 5) /\ ~(d.next > a + 6) /\ ~(d.next > a + 8)
    BY <1>2, <1>7
  <2> QED BY <1>6, <1>8, <2>1 DEF NativeCalls
<1>14. d.next \in 1..a + 14
  BY <1>2, <1>7
<1> QED BY <1>5, <1>11, <1>12, <1>13, <1>14 DEF NativeParts, d

\* The instructions once the arguments are in place.
LEMMA NativeTail ==
    ASSUME NEW args, NEW m, NEW k, NEW a, NEW frame, NativeSizes(args, m, k, a, frame), NEW w, IsNative(w)
    PROVE  LET code == Code!CallCode(w, args)
           IN  /\ code[a + 1] = Code!Mov("ax", Routine) /\ code[a + 2] = Code!Op("call")
               /\ code[a + 3] = Code!AddSp(frame) /\ code[a + 4] = Code!Op("status")
               /\ code[a + 5] = Code!Mov("cx", Event) /\ code[a + 6] = Code!Mov("dx", 0)
               /\ code[a + 7] = Code!Mov("ax", SetEvent) /\ code[a + 8] = Code!Op("call")
               /\ \A j \in 1..4 : code[a + 8 + j] = Code!Load(Code!ArgRegisters[j], j)
               /\ code[a + 13] = Code!Op("ret") /\ Len(code) = a + 13
<1> DEFINE code == Code!CallCode(w, args)
<1>1. a \in Nat
  BY NativeNumbers
<1>2. args \in Seq(Int) /\ Fits(args) /\ a = Edge(args) /\ frame = Code!Frame64(Len(args))
  BY DEF NativeSizes
<1>3. /\ code[a + 1] = Code!Mov("ax", Routine) /\ code[a + 2] = Code!Op("call")
      /\ code[a + 3] = Code!AddSp(frame)
      /\ code[a + 3 + 1] = Code!Op("status") /\ code[a + 3 + 2] = Code!Mov("cx", Event)
      /\ code[a + 3 + 3] = Code!Mov("dx", 0) /\ code[a + 3 + 4] = Code!Mov("ax", SetEvent)
      /\ code[a + 3 + 5] = Code!Op("call")
      /\ \A j \in 1..4 : code[a + 8 + j] = Code!Load(Code!ArgRegisters[j], j)
      /\ code[a + 8 + 5] = Code!Op("ret") /\ Len(code) = a + 13
  BY <1>2, Code64Is
<1>4. a + 3 + 1 = a + 4 /\ a + 3 + 2 = a + 5 /\ a + 3 + 3 = a + 6 /\ a + 3 + 4 = a + 7 /\ a + 3 + 5 = a + 8 /\ a + 8 + 5 = a + 13
  BY <1>1
<1> HIDE DEF code
<1> QED BY <1>3, <1>4 DEF code

\* Once the routine is called, no argument is waiting.
LEMMA NothingWaits ==
    ASSUME NEW args, NEW m \in 0..4, NEW k, NEW a \in Nat, NEW frame, NEW c, c.next \in Nat, c.next > a + 2
    PROVE  NativeArguments(c, args, m, k, a, frame)
<1>1. ~(c.next <= a + 2) /\ c.next # a + 2
  OBVIOUS
<1> QED BY <1>1 DEF NativeArguments

\* The routine's address is put in a register.
LEMMA NativeAims ==
    ASSUME NEW args, NEW m, NEW k, NEW a, NEW frame, NativeSizes(args, m, k, a, frame),
           NEW w, IsNative(w), NEW c, NativeParts(c, args, m, k, a, frame), c.next = a + 1
    PROVE  NativeParts(Code!RunOne(c, w, args), args, m, k, a, frame)
<1> DEFINE d == Code!RunOne(c, w, args)
<1>1. /\ IsCpu(c, Len(args))
      /\ NativeStack(c, a, frame) /\ NativeCalls(c, args, a) /\ NativeArguments(c, args, m, k, a, frame)
  BY NativeFacts
<1>2. m \in 0..4 /\ k \in Nat /\ a = 5 + m + k + k
  BY NativeNumbers
<1>3. Instruction(c, w, args) = Code!Mov("ax", Routine)
  <2>1. Code!CallCode(w, args)[a + 1] = Code!Mov("ax", Routine)
    BY NativeTail
  <2> QED BY <2>1 DEF Instruction
<1>4. "ax" \in Registers /\ Routine \in Int /\ \A j \in 1..4 : Code!ArgRegisters[j] \in Registers \ {"ax"}
  BY StubIs DEF Registers
<1>5. /\ IsCpu(d, Len(args)) /\ KeepsAll(c, d) /\ d.sp = c.sp /\ d.status = c.status /\ d.stack = c.stack
      /\ d.reg["ax"] = Routine /\ \A q \in Registers \ {"ax"} : d.reg[q] = c.reg[q]
  <2>1. MovIsNext(c, w, args, "ax", Routine)
    BY <1>1, <1>3, <1>4 DEF MovIsNext
  <2> QED BY <2>1, MovRuns
<1> HIDE DEF d
<1>6. d.next = a + 2 /\ d.calls = c.calls /\ d.at = c.at
  BY <1>2, <1>5 DEF KeepsAll
<1>7. /\ c.next >= 6 /\ c.next >= 6 + m /\ c.next <= a + 2 /\ ~(c.next <= 5) /\ c.next <= a + 3
      /\ d.next >= 6 /\ d.next >= 6 + m /\ d.next <= a + 2 /\ ~(d.next <= 5) /\ d.next <= a + 3
  BY <1>2, <1>6
<1>8. c.sp = -frame /\ c.stack[0] = ReturnAddress
  BY <1>1, <1>7 DEF NativeStack
<1>9. c.calls = <<>>
  BY <1>1, <1>7 DEF NativeCalls
<1>10. \A j \in 1..m : c.reg[Code!ArgRegisters[j]] = args[j]
  <2>1. \A j \in 1..m : j < c.next - 5
    BY <1>2
  <2>2. \A j \in 1..m : j < c.next - 5 => c.reg[Code!ArgRegisters[j]] = args[j]
    BY <1>1, <1>7 DEF NativeArguments
  <2> QED BY <2>1, <2>2
<1>11. \A j \in 1..k : c.stack[Above(frame, j)] = args[4 + j]
  <2>1. \A j \in 1..k : j + j < c.next - (5 + m)
    BY <1>2
  <2>2. \A j \in 1..k : j + j < c.next - (5 + m) => c.stack[Above(frame, j)] = args[4 + j]
    BY <1>1, <1>7 DEF NativeArguments
  <2> QED BY <2>1, <2>2
<1>12. NativeStack(d, a, frame)
  <2>1. ~(d.next > a + 13)
    BY <1>2, <1>6
  <2> QED BY <1>5, <1>7, <1>8, <2>1 DEF NativeStack
<1>13. NativeArguments(d, args, m, k, a, frame)
  <2>1. \A j \in 1..m : d.reg[Code!ArgRegisters[j]] = args[j]
    <3>1. \A j \in 1..m : j \in 1..4
      BY <1>2
    <3> QED BY <1>4, <1>5, <1>10, <3>1
  <2>2. \A j \in 1..k : d.stack[Above(frame, j)] = args[4 + j]
    BY <1>5, <1>11
  <2>3. \A j \in 1..k : j + j # d.next - (5 + m)
    BY <1>2, <1>6
  <2> QED BY <1>5, <2>1, <2>2, <2>3 DEF NativeArguments
<1>14. NativeCalls(d, args, a)
  <2>1. d.next # a + 3 /\ d.next # a + 4 /\ d.next # a + 8
        /\ ~(d.next > a + 2) /\ ~(d.next > a + 4) /\ ~(d.next > a + 5) /\ ~(d.next > a + 6) /\ ~(d.next > a + 8)
    BY <1>2, <1>6
  <2> QED BY <1>6, <1>9, <2>1 DEF NativeCalls
<1>15. d.next \in 1..a + 14
  BY <1>2, <1>6
<1> QED BY <1>5, <1>12, <1>13, <1>14, <1>15 DEF NativeParts, d

\* What the routine finds are its arguments.
LEMMA ArgumentsSeen ==
    ASSUME NEW args, NEW m, NEW k, NEW a, NEW frame, NativeSizes(args, m, k, a, frame),
           NEW w, IsNative(w), NEW c, NativeParts(c, args, m, k, a, frame), c.next = a + 2
    PROVE  Seen(c, w, Len(args)) = args
<1> DEFINE argc == Len(args)
           seen == Seen(c, w, argc)
<1>1. args \in Seq(Int) /\ NativeStack(c, a, frame) /\ NativeArguments(c, args, m, k, a, frame)
  BY NativeFacts
<1>2. m \in 0..4 /\ k \in Nat /\ a = 5 + m + k + k /\ (k = 0 \/ m = 4) /\ m + k = argc /\ argc \in Nat /\ frame \in Nat
  BY NativeNumbers
<1>3. c.next >= 6 /\ c.next >= 6 + m /\ c.next <= a + 2 /\ ~(c.next <= 5) /\ c.next <= a + 3
  BY <1>2
<1>4. c.sp = -frame
  BY <1>1, <1>3 DEF NativeStack
<1>5. \A j \in 1..m : c.reg[Code!ArgRegisters[j]] = args[j]
  <2>1. \A j \in 1..m : j < c.next - 5
    BY <1>2
  <2>2. \A j \in 1..m : j < c.next - 5 => c.reg[Code!ArgRegisters[j]] = args[j]
    BY <1>1, <1>3 DEF NativeArguments
  <2> QED BY <2>1, <2>2
<1>6. \A j \in 1..k : c.stack[Above(frame, j)] = args[4 + j]
  <2>1. \A j \in 1..k : j + j < c.next - (5 + m)
    BY <1>2
  <2>2. \A j \in 1..k : j + j < c.next - (5 + m) => c.stack[Above(frame, j)] = args[4 + j]
    BY <1>1, <1>3 DEF NativeArguments
  <2> QED BY <2>1, <2>2
<1>7. seen = [i \in 1..argc |-> IF i <= 4 THEN c.reg[Code!ArgRegisters[i]] ELSE c.stack[c.sp + i - 1]]
  BY DEF Seen, IsNative
<1>8. ASSUME NEW i \in 1..argc
      PROVE  (IF i <= 4 THEN c.reg[Code!ArgRegisters[i]] ELSE c.stack[c.sp + i - 1]) = args[i]
  <2>1. CASE i <= 4
    <3>1. i \in 1..m
      BY <1>2, <2>1
    <3> QED BY <1>5, <2>1, <3>1
  <2>2. CASE ~(i <= 4)
    <3> DEFINE j == i - 4
    <3>1. j \in 1..k /\ 4 + j = i /\ c.sp + i - 1 = Above(frame, j)
      BY <1>2, <1>4, <2>2 DEF Above
    <3> HIDE DEF j
    <3>2. c.stack[Above(frame, j)] = args[4 + j]
      BY <1>6, <3>1
    <3> QED BY <2>2, <3>1, <3>2
  <2> QED BY <2>1, <2>2
<1> HIDE DEF seen
<1>9. seen = [i \in 1..argc |-> args[i]]
  BY <1>7, <1>8
<1>10. args = [i \in 1..argc |-> args[i]]
  BY <1>1
<1> QED BY <1>9, <1>10 DEF seen

\* The routine is called.
LEMMA NativeCallsRoutine ==
    ASSUME NEW args, NEW m, NEW k, NEW a, NEW frame, NativeSizes(args, m, k, a, frame),
           NEW w, IsNative(w), NEW c, NativeParts(c, args, m, k, a, frame), c.next = a + 2
    PROVE  NativeParts(Code!RunOne(c, w, args), args, m, k, a, frame)
<1> DEFINE d == Code!RunOne(c, w, args)
           call == CallOf(c, w, args)
<1>1. /\ IsCpu(c, Len(args)) /\ 0 \in Slots(Len(args))
      /\ NativeStack(c, a, frame) /\ NativeCalls(c, args, a) /\ NativeArguments(c, args, m, k, a, frame)
  BY NativeFacts
<1>2. /\ m \in 0..4 /\ k \in Nat /\ a \in Nat /\ a = 5 + m + k + k
      /\ frame \in Nat /\ frame >= 5 /\ frame % 2 = 1 /\ Len(args) \in Nat
  BY DEF NativeSizes
<1>3. Instruction(c, w, args) = Code!Op("call")
  <2>1. Code!CallCode(w, args)[a + 2] = Code!Op("call")
    BY NativeTail
  <2> QED BY <2>1 DEF Instruction
<1>4. c.next <= a + 2 /\ ~(c.next <= 5) /\ c.next <= a + 3 /\ c.next = a + 2
  BY <1>2
<1>5. c.sp = -frame /\ c.stack[0] = ReturnAddress /\ c.calls = <<>> /\ c.reg["ax"] = Routine
  <2>1. c.sp = -frame /\ c.stack[0] = ReturnAddress
    BY <1>1, <1>4 DEF NativeStack
  <2>2. c.calls = <<>>
    BY <1>1, <1>4 DEF NativeCalls
  <2>3. c.reg["ax"] = Routine
    BY <1>1, <1>4 DEF NativeArguments
  <2> QED BY <2>1, <2>2, <2>3
<1>6. /\ IsCpu(d, Len(args)) /\ d.at = c.at /\ d.next = c.next + 1 /\ d.status = c.status
      /\ d.calls = Append(c.calls, call) /\ d.reg["ax"] = Answer
      /\ d.sp = IF w THEN c.sp + Count(c, args) ELSE c.sp
      /\ \A x \in Slots(Len(args)) :
           w \/ c.reg["ax"] = SetEvent \/ x \notin c.sp..c.sp + 3 => d.stack[x] = c.stack[x]
  <2>1. CallIsNext(c, w, args)
    BY <1>1, <1>2, <1>3 DEF CallIsNext, IsNative
  <2> QED BY <2>1, CallRuns
<1>7. call.fn = Routine /\ call.args = args /\ call.aligned
  <2>1. Count(c, args) = Len(args)
    BY <1>5, StubIs DEF Count
  <2>2. (-frame) % 2 = 1
    BY <1>2
  <2>3. Seen(c, w, Len(args)) = args
    BY ArgumentsSeen
  <2>4. call.fn = Routine
    BY <1>5 DEF CallOf
  <2>5. call.args = args
    BY <2>1, <2>3 DEF CallOf
  <2>6. call.aligned
    BY <1>5, <2>2 DEF CallOf
  <2> QED BY <2>4, <2>5, <2>6
<1> HIDE DEF d, call
<1>8. d.calls = <<call>> /\ d.sp = -frame /\ d.next = a + 3
  BY <1>2, <1>4, <1>5, <1>6 DEF IsNative
<1>9. d.stack[0] = ReturnAddress
  <2>1. 0 \notin c.sp..c.sp + 3
    BY <1>2, <1>5
  <2> QED BY <1>1, <1>5, <1>6, <2>1
<1>10. /\ ~(d.next <= 5) /\ d.next <= a + 3 /\ ~(d.next > a + 13) /\ d.next > a + 2 /\ d.next \in 1..a + 14 /\ d.next \in Nat
       /\ ~(d.next <= a + 2) /\ d.next <= a + 8 /\ d.next # a + 8
       /\ ~(d.next > a + 4) /\ ~(d.next > a + 5) /\ ~(d.next > a + 6) /\ ~(d.next > a + 8)
  BY <1>2, <1>8
<1>11. NativeStack(d, a, frame)
  BY <1>8, <1>9, <1>10 DEF NativeStack
<1>12. NativeArguments(d, args, m, k, a, frame)
  BY <1>2, <1>10, NothingWaits
<1>13. NativeCalls(d, args, a)
  <2>1. d.calls[1] = call /\ d.calls = <<d.calls[1]>> /\ RoutineCalled(d.calls[1], args)
    BY <1>7, <1>8 DEF RoutineCalled
  <2> QED BY <1>6, <1>8, <1>10, <2>1 DEF NativeCalls
<1> QED BY <1>6, <1>10, <1>11, <1>12, <1>13 DEF NativeParts, d

\* The room for the arguments is given back.
LEMMA NativeLeaves ==
    ASSUME NEW args, NEW m, NEW k, NEW a, NEW frame, NativeSizes(args, m, k, a, frame),
           NEW w, IsNative(w), NEW c, NativeParts(c, args, m, k, a, frame), c.next = a + 3
    PROVE  NativeParts(Code!RunOne(c, w, args), args, m, k, a, frame)
<1> DEFINE d == Code!RunOne(c, w, args)
<1>1. /\ IsCpu(c, Len(args)) /\ 0 \in Slots(Len(args))
      /\ NativeStack(c, a, frame) /\ NativeCalls(c, args, a)
  BY NativeFacts
<1>2. m \in 0..4 /\ a \in Nat /\ frame \in Nat /\ a >= 5 /\ c.next = a + 3
  BY NativeNumbers
<1>3. Instruction(c, w, args) = Code!AddSp(frame)
  <2>1. Code!CallCode(w, args)[a + 3] = Code!AddSp(frame)
    BY NativeTail
  <2> QED BY <2>1 DEF Instruction
<1>4. /\ IsCpu(d, Len(args)) /\ KeepsAll(c, d) /\ d.sp = c.sp + frame /\ d.status = c.status
      /\ d.stack = c.stack /\ d.reg = c.reg
  <2>1. AddSpIsNext(c, w, args, frame)
    BY <1>1, <1>2, <1>3 DEF AddSpIsNext
  <2> QED BY <2>1, AddSpRuns
<1> HIDE DEF d
<1>5. d.next = a + 4 /\ d.calls = c.calls /\ d.at = c.at
  BY <1>2, <1>4 DEF KeepsAll
<1>6. /\ c.next > 5 /\ c.next > a + 2 /\ c.next \in Nat /\ ~(c.next <= 5) /\ ~(c.next <= a + 2)
      /\ d.next > 5 /\ d.next > a + 2 /\ d.next \in Nat /\ ~(d.next <= 5) /\ ~(d.next <= a + 2)
      /\ d.next \in 1..a + 14 /\ ~(d.next > a + 13)
  BY <1>2, <1>5
<1>7. c.sp = -frame /\ c.stack[0] = ReturnAddress
  <2>1. c.next <= a + 3
    BY <1>2
  <2> QED BY <1>1, <1>6, <2>1 DEF NativeStack
<1>8. NativeStack(d, a, frame)
  <2>1. d.sp = 0
    BY <1>2, <1>4, <1>7
  <2>2. ~(d.next <= a + 3) /\ d.next <= a + 13
    BY <1>2, <1>5
  <2> QED BY <1>4, <1>6, <1>7, <2>1, <2>2 DEF NativeStack
<1>9. NativeArguments(d, args, m, k, a, frame)
  BY <1>2, <1>6, NothingWaits
<1>10. NativeCalls(d, args, a)
  <2>1. /\ c.next > a + 2 /\ ~(c.next > a + 4) /\ ~(c.next > a + 5) /\ ~(c.next > a + 6)
        /\ ~(c.next > a + 8) /\ c.next <= a + 8 /\ c.next \in {a + 3, a + 4} /\ c.next # a + 8
    BY <1>2
  <2>2. RoutineCalled(c.calls[1], args) /\ c.calls = <<c.calls[1]>> /\ c.reg["ax"] = Answer
    BY <1>1, <1>2, <1>6, <2>1 DEF NativeCalls
  <2>3. /\ d.next > a + 2 /\ ~(d.next > a + 4) /\ ~(d.next > a + 5) /\ ~(d.next > a + 6)
        /\ ~(d.next > a + 8) /\ d.next <= a + 8 /\ d.next \in {a + 3, a + 4} /\ d.next # a + 8
    BY <1>2, <1>5
  <2>4. RoutineCalled(d.calls[1], args) /\ d.calls = <<d.calls[1]>>
    BY <1>5, <2>2
  <2>5. d.reg["ax"] = Answer
    BY <1>4, <1>5, <2>2
  <2> QED BY <1>6, <2>3, <2>4, <2>5 DEF NativeCalls
<1> QED BY <1>4, <1>6, <1>8, <1>9, <1>10 DEF NativeParts, d

\* The answer is stored.
LEMMA NativeKeepsAnswer ==
    ASSUME NEW args, NEW m, NEW k, NEW a, NEW frame, NativeSizes(args, m, k, a, frame),
           NEW w, IsNative(w), NEW c, NativeParts(c, args, m, k, a, frame), c.next = a + 4
    PROVE  NativeParts(Code!RunOne(c, w, args), args, m, k, a, frame)
<1> DEFINE d == Code!RunOne(c, w, args)
<1>1. /\ IsCpu(c, Len(args)) /\ 0 \in Slots(Len(args))
      /\ NativeStack(c, a, frame) /\ NativeCalls(c, args, a)
  BY NativeFacts
<1>2. m \in 0..4 /\ a \in Nat /\ frame \in Nat /\ a >= 5 /\ c.next = a + 4
  BY NativeNumbers
<1>3. Instruction(c, w, args) = Code!Op("status")
  <2>1. Code!CallCode(w, args)[a + 4] = Code!Op("status")
    BY NativeTail
  <2> QED BY <2>1 DEF Instruction
<1>4. /\ IsCpu(d, Len(args)) /\ KeepsAll(c, d) /\ d.sp = c.sp /\ d.status = c.reg["ax"]
      /\ d.stack = c.stack /\ d.reg = c.reg
  <2>1. StatusIsNext(c, w, args)
    BY <1>1, <1>3 DEF StatusIsNext
  <2> QED BY <2>1, StatusRuns
<1> HIDE DEF d
<1>5. d.next = a + 5 /\ d.calls = c.calls /\ d.at = c.at
  BY <1>2, <1>4 DEF KeepsAll
<1>6. /\ c.next > 5 /\ c.next > a + 2 /\ c.next \in Nat /\ ~(c.next <= 5) /\ ~(c.next <= a + 2)
      /\ d.next > 5 /\ d.next > a + 2 /\ d.next \in Nat /\ ~(d.next <= 5) /\ ~(d.next <= a + 2)
      /\ d.next \in 1..a + 14 /\ ~(d.next > a + 13)
  BY <1>2, <1>5
<1>7. c.sp = 0 /\ c.stack[0] = ReturnAddress
  <2>1. ~(c.next <= a + 3) /\ c.next <= a + 13
    BY <1>2
  <2> QED BY <1>1, <1>6, <2>1 DEF NativeStack
<1>8. NativeStack(d, a, frame)
  <2>1. d.sp = 0
    BY <1>4, <1>7
  <2>2. ~(d.next <= a + 3) /\ d.next <= a + 13
    BY <1>2, <1>5
  <2> QED BY <1>4, <1>6, <1>7, <2>1, <2>2 DEF NativeStack
<1>9. NativeArguments(d, args, m, k, a, frame)
  BY <1>2, <1>6, NothingWaits
<1>10. NativeCalls(d, args, a)
  <2>1. /\ c.next > a + 2 /\ ~(c.next > a + 4) /\ ~(c.next > a + 5) /\ ~(c.next > a + 6)
        /\ ~(c.next > a + 8) /\ c.next <= a + 8 /\ c.next \in {a + 3, a + 4} /\ c.next # a + 8
    BY <1>2
  <2>2. RoutineCalled(c.calls[1], args) /\ c.calls = <<c.calls[1]>> /\ c.reg["ax"] = Answer
    BY <1>1, <1>2, <1>6, <2>1 DEF NativeCalls
  <2>3. /\ d.next > a + 2 /\ d.next > a + 4 /\ ~(d.next > a + 5) /\ ~(d.next > a + 6)
        /\ ~(d.next > a + 8) /\ d.next <= a + 8 /\ d.next \notin {a + 3, a + 4} /\ d.next # a + 8
    BY <1>2, <1>5
  <2>4. RoutineCalled(d.calls[1], args) /\ d.calls = <<d.calls[1]>>
    BY <1>5, <2>2
  <2>5. d.status = Answer
    BY <1>4, <1>5, <2>2
  <2> QED BY <1>6, <2>3, <2>4, <2>5 DEF NativeCalls
<1> QED BY <1>4, <1>6, <1>8, <1>9, <1>10 DEF NativeParts, d

\* The event is put in a register.
LEMMA NativeNamesEvent ==
    ASSUME NEW args, NEW m, NEW k, NEW a, NEW frame, NativeSizes(args, m, k, a, frame),
           NEW w, IsNative(w), NEW c, NativeParts(c, args, m, k, a, frame), c.next = a + 5
    PROVE  NativeParts(Code!RunOne(c, w, args), args, m, k, a, frame)
<1> DEFINE d == Code!RunOne(c, w, args)
<1>1. /\ IsCpu(c, Len(args)) /\ 0 \in Slots(Len(args))
      /\ NativeStack(c, a, frame) /\ NativeCalls(c, args, a)
  BY NativeFacts
<1>2. m \in 0..4 /\ a \in Nat /\ frame \in Nat /\ a >= 5 /\ c.next = a + 5
  BY NativeNumbers
<1>3. Instruction(c, w, args) = Code!Mov("cx", Event)
  <2>1. Code!CallCode(w, args)[a + 5] = Code!Mov("cx", Event)
    BY NativeTail
  <2> QED BY <2>1 DEF Instruction
<1>4. /\ IsCpu(d, Len(args)) /\ KeepsAll(c, d) /\ d.sp = c.sp /\ d.status = c.status /\ d.stack = c.stack
      /\ d.reg["cx"] = Event /\ \A q \in Registers \ {"cx"} : d.reg[q] = c.reg[q]
  <2>1. MovIsNext(c, w, args, "cx", Event)
    <3>1. "cx" \in Registers /\ Event \in Int
      BY StubIs DEF Registers
    <3> QED BY <1>1, <1>3, <3>1 DEF MovIsNext
  <2> QED BY <2>1, MovRuns
<1>41. d.reg["cx"] = Event
  BY <1>4 DEF Registers
<1> HIDE DEF d
<1>5. d.next = a + 6 /\ d.calls = c.calls /\ d.at = c.at
  BY <1>2, <1>4 DEF KeepsAll
<1>6. /\ c.next > 5 /\ c.next > a + 2 /\ c.next \in Nat /\ ~(c.next <= 5) /\ ~(c.next <= a + 2)
      /\ d.next > 5 /\ d.next > a + 2 /\ d.next \in Nat /\ ~(d.next <= 5) /\ ~(d.next <= a + 2)
      /\ d.next \in 1..a + 14 /\ ~(d.next > a + 13)
  BY <1>2, <1>5
<1>7. c.sp = 0 /\ c.stack[0] = ReturnAddress
  <2>1. ~(c.next <= a + 3) /\ c.next <= a + 13
    BY <1>2
  <2> QED BY <1>1, <1>6, <2>1 DEF NativeStack
<1>8. NativeStack(d, a, frame)
  <2>1. d.sp = 0
    BY <1>4, <1>7
  <2>2. ~(d.next <= a + 3) /\ d.next <= a + 13
    BY <1>2, <1>5
  <2> QED BY <1>4, <1>6, <1>7, <2>1, <2>2 DEF NativeStack
<1>9. NativeArguments(d, args, m, k, a, frame)
  BY <1>2, <1>6, NothingWaits
<1>10. NativeCalls(d, args, a)
  <2>1. /\ c.next > a + 2 /\ c.next > a + 4 /\ ~(c.next > a + 5) /\ ~(c.next > a + 6)
        /\ ~(c.next > a + 8) /\ c.next <= a + 8 /\ c.next \notin {a + 3, a + 4} /\ c.next # a + 8
    BY <1>2
  <2>2. RoutineCalled(c.calls[1], args) /\ c.calls = <<c.calls[1]>> /\ c.status = Answer
    BY <1>1, <1>2, <1>6, <2>1 DEF NativeCalls
  <2>3. /\ d.next > a + 2 /\ d.next > a + 4 /\ d.next > a + 5 /\ ~(d.next > a + 6)
        /\ ~(d.next > a + 8) /\ d.next <= a + 8 /\ d.next \notin {a + 3, a + 4} /\ d.next # a + 8
    BY <1>2, <1>5
  <2>4. RoutineCalled(d.calls[1], args) /\ d.calls = <<d.calls[1]>>
    BY <1>5, <2>2
  <2>5. d.status = Answer /\ d.reg["cx"] = Event
    BY <1>4, <1>5, <2>2
  <2> QED BY <1>6, <2>3, <2>4, <2>5 DEF NativeCalls
<1> QED BY <1>4, <1>6, <1>8, <1>9, <1>10 DEF NativeParts, d

\* And no previous count.
LEMMA NativeSetsNoCount ==
    ASSUME NEW args, NEW m, NEW k, NEW a, NEW frame, NativeSizes(args, m, k, a, frame),
           NEW w, IsNative(w), NEW c, NativeParts(c, args, m, k, a, frame), c.next = a + 6
    PROVE  NativeParts(Code!RunOne(c, w, args), args, m, k, a, frame)
<1> DEFINE d == Code!RunOne(c, w, args)
<1>1. /\ IsCpu(c, Len(args)) /\ 0 \in Slots(Len(args))
      /\ NativeStack(c, a, frame) /\ NativeCalls(c, args, a)
  BY NativeFacts
<1>2. m \in 0..4 /\ a \in Nat /\ frame \in Nat /\ a >= 5 /\ c.next = a + 6
  BY NativeNumbers
<1>3. Instruction(c, w, args) = Code!Mov("dx", 0)
  <2>1. Code!CallCode(w, args)[a + 6] = Code!Mov("dx", 0)
    BY NativeTail
  <2> QED BY <2>1 DEF Instruction
<1>4. /\ IsCpu(d, Len(args)) /\ KeepsAll(c, d) /\ d.sp = c.sp /\ d.status = c.status /\ d.stack = c.stack
      /\ d.reg["dx"] = 0 /\ \A q \in Registers \ {"dx"} : d.reg[q] = c.reg[q]
  <2>1. MovIsNext(c, w, args, "dx", 0)
    <3>1. "dx" \in Registers /\ 0 \in Int
      BY StubIs DEF Registers
    <3> QED BY <1>1, <1>3, <3>1 DEF MovIsNext
  <2> QED BY <2>1, MovRuns
<1>41. d.reg["dx"] = 0 /\ d.reg["cx"] = c.reg["cx"]
  BY <1>4 DEF Registers
<1> HIDE DEF d
<1>5. d.next = a + 7 /\ d.calls = c.calls /\ d.at = c.at
  BY <1>2, <1>4 DEF KeepsAll
<1>6. /\ c.next > 5 /\ c.next > a + 2 /\ c.next \in Nat /\ ~(c.next <= 5) /\ ~(c.next <= a + 2)
      /\ d.next > 5 /\ d.next > a + 2 /\ d.next \in Nat /\ ~(d.next <= 5) /\ ~(d.next <= a + 2)
      /\ d.next \in 1..a + 14 /\ ~(d.next > a + 13)
  BY <1>2, <1>5
<1>7. c.sp = 0 /\ c.stack[0] = ReturnAddress
  <2>1. ~(c.next <= a + 3) /\ c.next <= a + 13
    BY <1>2
  <2> QED BY <1>1, <1>6, <2>1 DEF NativeStack
<1>8. NativeStack(d, a, frame)
  <2>1. d.sp = 0
    BY <1>4, <1>7
  <2>2. ~(d.next <= a + 3) /\ d.next <= a + 13
    BY <1>2, <1>5
  <2> QED BY <1>4, <1>6, <1>7, <2>1, <2>2 DEF NativeStack
<1>9. NativeArguments(d, args, m, k, a, frame)
  BY <1>2, <1>6, NothingWaits
<1>10. NativeCalls(d, args, a)
  <2>1. /\ c.next > a + 2 /\ c.next > a + 4 /\ c.next > a + 5 /\ ~(c.next > a + 6)
        /\ ~(c.next > a + 8) /\ c.next <= a + 8 /\ c.next \notin {a + 3, a + 4} /\ c.next # a + 8
    BY <1>2
  <2>2. RoutineCalled(c.calls[1], args) /\ c.calls = <<c.calls[1]>> /\ c.status = Answer /\ c.reg["cx"] = Event
    BY <1>1, <1>2, <1>6, <2>1 DEF NativeCalls
  <2>3. /\ d.next > a + 2 /\ d.next > a + 4 /\ d.next > a + 5 /\ d.next > a + 6
        /\ ~(d.next > a + 8) /\ d.next <= a + 8 /\ d.next \notin {a + 3, a + 4} /\ d.next # a + 8
    BY <1>2, <1>5
  <2>4. RoutineCalled(d.calls[1], args) /\ d.calls = <<d.calls[1]>>
    BY <1>5, <2>2
  <2>5. d.status = Answer /\ d.reg["cx"] = Event /\ d.reg["dx"] = 0
    BY <1>4, <1>41, <1>5, <2>2
  <2> QED BY <1>6, <2>3, <2>4, <2>5 DEF NativeCalls
<1> QED BY <1>4, <1>6, <1>8, <1>9, <1>10 DEF NativeParts, d

\* The address of SetEvent is put in a register.
LEMMA NativeAimsAtEvent ==
    ASSUME NEW args, NEW m, NEW k, NEW a, NEW frame, NativeSizes(args, m, k, a, frame),
           NEW w, IsNative(w), NEW c, NativeParts(c, args, m, k, a, frame), c.next = a + 7
    PROVE  NativeParts(Code!RunOne(c, w, args), args, m, k, a, frame)
<1> DEFINE d == Code!RunOne(c, w, args)
<1>1. /\ IsCpu(c, Len(args)) /\ 0 \in Slots(Len(args))
      /\ NativeStack(c, a, frame) /\ NativeCalls(c, args, a)
  BY NativeFacts
<1>2. m \in 0..4 /\ a \in Nat /\ frame \in Nat /\ a >= 5 /\ c.next = a + 7
  BY NativeNumbers
<1>3. Instruction(c, w, args) = Code!Mov("ax", SetEvent)
  <2>1. Code!CallCode(w, args)[a + 7] = Code!Mov("ax", SetEvent)
    BY NativeTail
  <2> QED BY <2>1 DEF Instruction
<1>4. /\ IsCpu(d, Len(args)) /\ KeepsAll(c, d) /\ d.sp = c.sp /\ d.status = c.status /\ d.stack = c.stack
      /\ d.reg["ax"] = SetEvent /\ \A q \in Registers \ {"ax"} : d.reg[q] = c.reg[q]
  <2>1. MovIsNext(c, w, args, "ax", SetEvent)
    <3>1. "ax" \in Registers /\ SetEvent \in Int
      BY StubIs DEF Registers
    <3> QED BY <1>1, <1>3, <3>1 DEF MovIsNext
  <2> QED BY <2>1, MovRuns
<1>41. d.reg["ax"] = SetEvent /\ d.reg["cx"] = c.reg["cx"] /\ d.reg["dx"] = c.reg["dx"]
  BY <1>4 DEF Registers
<1> HIDE DEF d
<1>5. d.next = a + 8 /\ d.calls = c.calls /\ d.at = c.at
  BY <1>2, <1>4 DEF KeepsAll
<1>6. /\ c.next > 5 /\ c.next > a + 2 /\ c.next \in Nat /\ ~(c.next <= 5) /\ ~(c.next <= a + 2)
      /\ d.next > 5 /\ d.next > a + 2 /\ d.next \in Nat /\ ~(d.next <= 5) /\ ~(d.next <= a + 2)
      /\ d.next \in 1..a + 14 /\ ~(d.next > a + 13)
  BY <1>2, <1>5
<1>7. c.sp = 0 /\ c.stack[0] = ReturnAddress
  <2>1. ~(c.next <= a + 3) /\ c.next <= a + 13
    BY <1>2
  <2> QED BY <1>1, <1>6, <2>1 DEF NativeStack
<1>8. NativeStack(d, a, frame)
  <2>1. d.sp = 0
    BY <1>4, <1>7
  <2>2. ~(d.next <= a + 3) /\ d.next <= a + 13
    BY <1>2, <1>5
  <2> QED BY <1>4, <1>6, <1>7, <2>1, <2>2 DEF NativeStack
<1>9. NativeArguments(d, args, m, k, a, frame)
  BY <1>2, <1>6, NothingWaits
<1>10. NativeCalls(d, args, a)
  <2>1. /\ c.next > a + 2 /\ c.next > a + 4 /\ c.next > a + 5 /\ c.next > a + 6
        /\ ~(c.next > a + 8) /\ c.next <= a + 8 /\ c.next \notin {a + 3, a + 4} /\ c.next # a + 8
    BY <1>2
  <2>2. RoutineCalled(c.calls[1], args) /\ c.calls = <<c.calls[1]>> /\ c.status = Answer /\ c.reg["cx"] = Event /\ c.reg["dx"] = 0
    BY <1>1, <1>2, <1>6, <2>1 DEF NativeCalls
  <2>3. /\ d.next > a + 2 /\ d.next > a + 4 /\ d.next > a + 5 /\ d.next > a + 6
        /\ ~(d.next > a + 8) /\ d.next <= a + 8 /\ d.next \notin {a + 3, a + 4} /\ d.next = a + 8
    BY <1>2, <1>5
  <2>4. RoutineCalled(d.calls[1], args) /\ d.calls = <<d.calls[1]>>
    BY <1>5, <2>2
  <2>5. d.status = Answer /\ d.reg["cx"] = Event /\ d.reg["dx"] = 0 /\ d.reg["ax"] = SetEvent
    BY <1>4, <1>41, <1>5, <2>2
  <2> QED BY <1>6, <2>3, <2>4, <2>5 DEF NativeCalls
<1> QED BY <1>4, <1>6, <1>8, <1>9, <1>10 DEF NativeParts, d

\* The second element of a sequence.
LEMMA SecondAppended ==
    ASSUME NEW x, NEW y
    PROVE  Append(<<x>>, y) = <<x, y>>
<1> DEFINE S == {x, y}
           s == <<x>>
           t == <<x, y>>
<1>1. s \in Seq(S) /\ y \in S /\ Len(s) = 1 /\ s[1] = x
  OBVIOUS
<1>2. t \in Seq(S) /\ Len(t) = 2 /\ t[1] = x /\ t[2] = y
  OBVIOUS
<1> HIDE DEF S, s, t
<1>3. Append(s, y) \in Seq(S) /\ Len(Append(s, y)) = 2 /\ Append(s, y)[1] = x /\ Append(s, y)[2] = y
  <2>1. Append(s, y) \in Seq(S) /\ Len(Append(s, y)) = Len(s) + 1
    BY <1>1, AppendProperties
  <2>2. \A i \in 1..Len(s) : Append(s, y)[i] = s[i]
    BY <1>1, AppendProperties
  <2>3. Append(s, y)[Len(s) + 1] = y
    BY <1>1, AppendProperties
  <2> QED BY <1>1, <2>1, <2>2, <2>3
<1>4. Append(s, y) = t
  BY <1>2, <1>3
<1> QED BY <1>4 DEF s, t

\* The event is set.
LEMMA NativeSetsEvent ==
    ASSUME NEW args, NEW m, NEW k, NEW a, NEW frame, NativeSizes(args, m, k, a, frame),
           NEW w, IsNative(w), NEW c, NativeParts(c, args, m, k, a, frame), c.next = a + 8
    PROVE  NativeParts(Code!RunOne(c, w, args), args, m, k, a, frame)
<1> DEFINE d == Code!RunOne(c, w, args)
<1>1. /\ IsCpu(c, Len(args)) /\ 0 \in Slots(Len(args))
      /\ NativeStack(c, a, frame) /\ NativeCalls(c, args, a)
  BY NativeFacts
<1>2. m \in 0..4 /\ a \in Nat /\ frame \in Nat /\ a >= 5 /\ c.next = a + 8
  BY NativeNumbers
<1>3. Instruction(c, w, args) = Code!Op("call")
  <2>1. Code!CallCode(w, args)[a + 8] = Code!Op("call")
    BY NativeTail
  <2> QED BY <2>1 DEF Instruction
<1>4. /\ c.next > a + 2 /\ c.next > a + 4 /\ c.next > a + 5 /\ c.next > a + 6 /\ c.next <= a + 8 /\ c.next = a + 8
      /\ ~(c.next <= 5) /\ ~(c.next <= a + 3) /\ c.next <= a + 13
  BY <1>2
<1>5. c.sp = 0 /\ c.stack[0] = ReturnAddress
  BY <1>1, <1>4 DEF NativeStack
<1>6. /\ RoutineCalled(c.calls[1], args) /\ c.calls = <<c.calls[1]>> /\ c.status = Answer
      /\ c.reg["cx"] = Event /\ c.reg["dx"] = 0 /\ c.reg["ax"] = SetEvent
  BY <1>1, <1>4 DEF NativeCalls
<1> DEFINE call == CallOf(c, w, args)
<1>7. /\ IsCpu(d, Len(args)) /\ d.at = c.at /\ d.next = c.next + 1 /\ d.status = c.status
      /\ d.calls = Append(c.calls, call)
      /\ d.sp = IF w THEN c.sp + Count(c, args) ELSE c.sp
      /\ \A x \in Slots(Len(args)) :
           w \/ c.reg["ax"] = SetEvent \/ x \notin c.sp..c.sp + 3 => d.stack[x] = c.stack[x]
  <2>1. CallIsNext(c, w, args)
    <3>1. Len(args) \in Nat
      BY NativeNumbers
    <3> QED BY <1>1, <1>3, <3>1 DEF CallIsNext, IsNative
  <2> QED BY <2>1, CallRuns
<1>8. EventSet(call)
  <2>1. Count(c, args) = 2
    BY <1>6 DEF Count
  <2>2. Seen(c, w, 2) = <<c.reg["cx"], c.reg["dx"]>>
    <3>1. Seen(c, w, 2) = [i \in 1..2 |-> IF i <= 4 THEN c.reg[Code!ArgRegisters[i]] ELSE c.stack[c.sp + i - 1]]
      BY DEF Seen, IsNative
    <3> QED BY <3>1, StubIs
  <2>3. call.fn = SetEvent /\ call.status = Answer
    BY <1>6 DEF CallOf
  <2>4. call.args = <<Event, 0>>
    BY <1>6, <2>1, <2>2 DEF CallOf
  <2> QED BY <2>3, <2>4 DEF EventSet
<1> HIDE DEF d, call
<1>9. d.next = a + 9 /\ d.stack[0] = ReturnAddress /\ d.sp = 0
  BY <1>1, <1>2, <1>5, <1>6, <1>7 DEF IsNative
<1>10. d.calls = <<c.calls[1], call>> /\ d.calls[1] = c.calls[1] /\ d.calls[2] = call
  <2> DEFINE first == c.calls[1]
  <2>1. d.calls = Append(<<first>>, call)
    BY <1>6, <1>7
  <2> HIDE DEF first
  <2>2. d.calls = <<first, call>>
    BY <2>1, SecondAppended
  <2>3. d.calls[1] = first /\ d.calls[2] = call
    BY <2>2
  <2> QED BY <2>2, <2>3 DEF first
<1>11. /\ d.next > a + 2 /\ d.next \in Nat /\ ~(d.next <= 5) /\ ~(d.next <= a + 2) /\ ~(d.next <= a + 3)
       /\ d.next <= a + 13 /\ ~(d.next > a + 13) /\ d.next \in 1..a + 14 /\ ~(d.next <= a + 8)
       /\ d.next \notin {a + 3, a + 4} /\ d.next # a + 8 /\ d.next > a + 4 /\ d.next > a + 8
  BY <1>2, <1>9
<1>12. NativeStack(d, a, frame)
  BY <1>9, <1>11 DEF NativeStack
<1>13. NativeArguments(d, args, m, k, a, frame)
  BY <1>2, <1>11, NothingWaits
<1>14. NativeCalls(d, args, a)
  BY <1>6, <1>7, <1>8, <1>10, <1>11 DEF NativeCalls
<1> QED BY <1>7, <1>11, <1>12, <1>13, <1>14 DEF NativeParts, d

\* What the calls made of the stub, it keeps to its end.
LEMMA NativeKeepsCalls ==
    ASSUME NEW args, NEW a \in Nat, NEW c, NativeCalls(c, args, a), c.next \in Nat, c.next > a + 8,
           NEW d, d.calls = c.calls, d.status = c.status, d.next = c.next + 1
    PROVE  NativeCalls(d, args, a)
<1>1. c.next > a + 2 /\ c.next > a + 4
  OBVIOUS
<1>2. /\ ~(d.next <= a + 2) /\ ~(d.next <= a + 8) /\ d.next \notin {a + 3, a + 4} /\ d.next # a + 8
  OBVIOUS
<1>3. /\ RoutineCalled(c.calls[1], args) /\ c.status = Answer
      /\ c.calls = <<c.calls[1], c.calls[2]>> /\ EventSet(c.calls[2])
  BY <1>1 DEF NativeCalls
<1> QED BY <1>2, <1>3 DEF NativeCalls

\* The registers are read back.
LEMMA NativeReloads ==
    ASSUME NEW args, NEW m, NEW k, NEW a, NEW frame, NativeSizes(args, m, k, a, frame),
           NEW w, IsNative(w), NEW c, NativeParts(c, args, m, k, a, frame), NEW j \in 1..4, c.next = a + 8 + j
    PROVE  NativeParts(Code!RunOne(c, w, args), args, m, k, a, frame)
<1> DEFINE d == Code!RunOne(c, w, args)
           r == Code!ArgRegisters[j]
<1>1. /\ IsCpu(c, Len(args)) /\ NativeStack(c, a, frame) /\ NativeCalls(c, args, a)
  BY NativeFacts
<1>2. m \in 0..4 /\ a \in Nat /\ frame \in Nat /\ a >= 5 /\ c.next = a + 8 + j /\ j \in 1..4
  BY NativeNumbers
<1>3. Instruction(c, w, args) = Code!Load(r, j)
  <2>1. \A i \in 1..4 : Code!CallCode(w, args)[a + 8 + i] = Code!Load(Code!ArgRegisters[i], i)
    BY NativeTail
  <2> QED BY <2>1 DEF Instruction
<1>4. /\ c.next \in Nat /\ c.next > a + 8 /\ ~(c.next <= 5) /\ ~(c.next <= a + 3) /\ c.next <= a + 13
      /\ c.next + 1 > a + 2 /\ c.next + 1 \in 1..a + 14
  BY <1>2
<1>5. c.sp = 0 /\ c.stack[0] = ReturnAddress
  BY <1>1, <1>4 DEF NativeStack
<1>6. /\ IsCpu(d, Len(args)) /\ KeepsAll(c, d) /\ d.sp = c.sp /\ d.status = c.status /\ d.stack = c.stack
  <2>1. LoadIsNext(c, w, args, r, j)
    <3>1. r \in Registers /\ j \in Int
      BY StubIs
    <3>2. c.sp + j \in Slots(Len(args))
      <4>1. Len(args) \in Nat
        BY NativeNumbers
      <4> QED BY <1>5, <4>1 DEF Slots
    <3> QED BY <1>1, <1>3, <3>1, <3>2 DEF LoadIsNext
  <2> QED BY <2>1, LoadRuns
<1> HIDE DEF d, r
<1>7. d.next = c.next + 1 /\ d.calls = c.calls /\ d.at = c.at
  BY <1>6 DEF KeepsAll
<1>8. NativeStack(d, a, frame)
  <2>1. ~(d.next <= 5) /\ ~(d.next <= a + 3) /\ d.next <= a + 13 /\ ~(d.next > a + 13)
    BY <1>2, <1>7
  <2> QED BY <1>5, <1>6, <2>1 DEF NativeStack
<1>9. NativeArguments(d, args, m, k, a, frame)
  <2>1. d.next \in Nat /\ d.next > a + 2
    BY <1>4, <1>7
  <2> QED BY <1>2, <2>1, NothingWaits
<1>10. NativeCalls(d, args, a)
  BY <1>1, <1>2, <1>4, <1>6, <1>7, NativeKeepsCalls
<1> QED BY <1>4, <1>6, <1>7, <1>8, <1>9, <1>10 DEF NativeParts, d

\* The thread returns.
LEMMA NativeReturns ==
    ASSUME NEW args, NEW m, NEW k, NEW a, NEW frame, NativeSizes(args, m, k, a, frame),
           NEW w, IsNative(w), NEW c, NativeParts(c, args, m, k, a, frame), c.next = a + 13
    PROVE  NativeParts(Code!RunOne(c, w, args), args, m, k, a, frame)
<1> DEFINE d == Code!RunOne(c, w, args)
<1>1. /\ IsCpu(c, Len(args)) /\ 0 \in Slots(Len(args)) /\ NativeStack(c, a, frame) /\ NativeCalls(c, args, a)
  BY NativeFacts
<1>2. m \in 0..4 /\ a \in Nat /\ frame \in Nat /\ a >= 5 /\ c.next = a + 13
  BY NativeNumbers
<1>3. Instruction(c, w, args).op = "ret" /\ Instruction(c, w, args).n = 0
  <2>1. Code!CallCode(w, args)[a + 13] = Code!Op("ret")
    BY NativeTail
  <2>2. Instruction(c, w, args) = Code!Op("ret")
    BY <2>1, <1>2 DEF Instruction
  <2>3. Code!Op("ret").op = "ret"
    BY DEF Code!Op
  <2>4. Code!Op("ret").n = 0
    BY DEF Code!Op
  <2> QED BY <2>2, <2>3, <2>4
<1>4. /\ c.next \in Nat /\ c.next > a + 8 /\ ~(c.next <= 5) /\ ~(c.next <= a + 3) /\ c.next <= a + 13
      /\ c.next + 1 > a + 2 /\ c.next + 1 \in 1..a + 14
  BY <1>2
<1>5. c.sp = 0 /\ c.stack[0] = ReturnAddress
  BY <1>1, <1>4 DEF NativeStack
<1>6. /\ IsCpu(d, Len(args)) /\ d.calls = c.calls /\ d.next = c.next + 1
      /\ d.at = c.stack[c.sp] /\ d.sp = c.sp + 1 + 0 /\ d.status = c.status /\ d.stack = c.stack
  <2>1. RetIsNext(c, w, args, 0)
    BY <1>1, <1>3, <1>5 DEF RetIsNext
  <2> QED BY <2>1, RetRuns
<1> HIDE DEF d
<1>7. d.sp = 1 /\ d.at = ReturnAddress /\ d.next = a + 14
  BY <1>2, <1>5, <1>6
<1>8. NativeStack(d, a, frame)
  <2>1. ~(d.next <= 5) /\ ~(d.next <= a + 3) /\ ~(d.next <= a + 13)
    BY <1>2, <1>7
  <2> QED BY <1>5, <1>6, <1>7, <2>1 DEF NativeStack
<1>9. NativeArguments(d, args, m, k, a, frame)
  <2>1. d.next \in Nat /\ d.next > a + 2
    BY <1>2, <1>7
  <2> QED BY <1>2, <2>1, NothingWaits
<1>10. NativeCalls(d, args, a)
  BY <1>1, <1>2, <1>4, <1>6, NativeKeepsCalls
<1> QED BY <1>4, <1>6, <1>8, <1>9, <1>10 DEF NativeParts, d

\* The turns of a loop of two instructions, and where a number can be.
LEMMA TurnOf ==
    ASSUME NEW k \in Nat, NEW x \in 1..k + k
    PROVE  \E i \in 1..k : x = i + i - 1 \/ x = i + i
<1> DEFINE i == (x + 1) \div 2
<1>1. i \in 1..k /\ (x = i + i - 1 \/ x = i + i)
  OBVIOUS
<1> QED BY <1>1

\* Where a number can be between two others.
LEMMA OneOfEight ==
    ASSUME NEW a \in Nat, NEW n \in Nat, n > a, n <= a + 8
    PROVE  \/ n = a + 1 \/ n = a + 2 \/ n = a + 3 \/ n = a + 4
           \/ n = a + 5 \/ n = a + 6 \/ n = a + 7 \/ n = a + 8
OBVIOUS

\* The same, for the end of a stub.
LEMMA OneOfFive ==
    ASSUME NEW a \in Nat, NEW n \in Nat, n > a + 8, n <= a + 13
    PROVE  n = a + 13 \/ \E j \in 1..4 : n = a + 8 + j
<1>1. n # a + 13 => n - (a + 8) \in 1..4 /\ n = a + 8 + (n - (a + 8))
  OBVIOUS
<1> QED BY <1>1

\* Every instruction of a stub in a native process keeps it.
LEMMA NativeStep ==
    ASSUME NEW args \in Seq(Int), Fits(args), NEW w, IsNative(w), NEW c, Native(c, args), c.next <= Len(Code!CallCode(w, args))
    PROVE  Native(Code!RunOne(c, w, args), args)
<1> DEFINE m == InRegisters(args)
           k == OnStack(args)
           a == Edge(args)
           frame == Code!Frame64(Len(args))
           d == Code!RunOne(c, w, args)
<1>1. NativeSizes(args, m, k, a, frame) /\ NativeParts(c, args, m, k, a, frame)
  BY NativeSizesAre DEF Native
<1> HIDE DEF m, k, a, frame
<1>2. m \in 0..4 /\ k \in Nat /\ a \in Nat /\ a = 5 + m + k + k
  BY <1>1, NativeNumbers
<1>3. c.next \in Nat /\ c.next >= 1
  BY <1>1, <1>2, NativeFacts
<1>4. c.next <= a + 13
  <2>1. Len(Code!CallCode(w, args)) = a + 13
    BY <1>1, NativeTail
  <2> QED BY <2>1
<1>5. NativeParts(d, args, m, k, a, frame)
  <2>1. CASE c.next <= 5
    <3>1. c.next \in 1..4 \/ c.next = 5
      BY <1>3, <2>1
    <3> QED BY <1>1, <3>1, NativeHomes, NativeEnters
  <2>2. CASE c.next > 5 /\ c.next <= 5 + m
    <3> DEFINE j == c.next - 5
    <3>1. j \in 1..m /\ c.next = 5 + j
      BY <1>2, <1>3, <2>2
    <3> HIDE DEF j
    <3> QED BY <1>1, <3>1, NativeRegister
  <2>3. CASE c.next > 5 + m /\ c.next <= a
    <3>1. \E i \in 1..k : c.next = 5 + m + (i + i - 1) \/ c.next = 5 + m + (i + i)
      <4>1. c.next - (5 + m) \in 1..k + k
        BY <1>2, <1>3, <2>3
      <4>2. PICK i \in 1..k : c.next - (5 + m) = i + i - 1 \/ c.next - (5 + m) = i + i
        BY <1>2, <4>1, TurnOf
      <4>3. c.next = 5 + m + (i + i - 1) \/ c.next = 5 + m + (i + i)
        BY <1>2, <1>3, <4>2
      <4> QED BY <4>3
    <3>2. PICK i \in 1..k : c.next = 5 + m + (i + i - 1) \/ c.next = 5 + m + (i + i)
      BY <3>1
    <3> QED BY <1>1, <3>2, NativeFetches, NativeStores
  <2>4. CASE c.next > a /\ c.next <= a + 8
    <3>1. \/ c.next = a + 1 \/ c.next = a + 2 \/ c.next = a + 3 \/ c.next = a + 4
          \/ c.next = a + 5 \/ c.next = a + 6 \/ c.next = a + 7 \/ c.next = a + 8
      BY <1>2, <1>3, <2>4, OneOfEight
    <3>2. c.next = a + 1 \/ c.next = a + 2 => NativeParts(d, args, m, k, a, frame)
      BY <1>1, NativeAims, NativeCallsRoutine
    <3>3. c.next = a + 3 \/ c.next = a + 4 => NativeParts(d, args, m, k, a, frame)
      BY <1>1, NativeLeaves, NativeKeepsAnswer
    <3>4. c.next = a + 5 \/ c.next = a + 6 => NativeParts(d, args, m, k, a, frame)
      BY <1>1, NativeNamesEvent, NativeSetsNoCount
    <3>5. c.next = a + 7 \/ c.next = a + 8 => NativeParts(d, args, m, k, a, frame)
      BY <1>1, NativeAimsAtEvent, NativeSetsEvent
    <3> QED BY <3>1, <3>2, <3>3, <3>4, <3>5
  <2>5. CASE c.next > a + 8
    <3>1. c.next = a + 13 \/ \E j \in 1..4 : c.next = a + 8 + j
      BY <1>2, <1>3, <1>4, <2>5, OneOfFive
    <3> QED BY <1>1, <3>1, NativeReloads, NativeReturns
  <2>6. c.next <= 5 \/ (c.next > 5 /\ c.next <= 5 + m) \/ (c.next > 5 + m /\ c.next <= a) \/ (c.next > a /\ c.next <= a + 8) \/ c.next > a + 8
    BY <1>2, <1>3
  <2> QED BY <2>1, <2>2, <2>3, <2>4, <2>5, <2>6
<1> QED BY <1>5 DEF Native, m, k, a, frame

\* What a stub is entered with.
LEMMA EnteredIs ==
    ASSUME NEW argc \in Nat
    PROVE  LET c == Code!Entered(argc)
           IN  /\ IsCpu(c, argc) /\ c.next = 1 /\ c.sp = 0 /\ c.calls = <<>> /\ c.stack[0] = ReturnAddress
               /\ c.status = 0 /\ c.reg["bp"] = Junk
<1> DEFINE reg == [r \in {"ax", "bp", "cx", "dx", "8", "9"} |-> Junk]
           stack == [x \in -(argc + 8)..4 |-> IF x = 0 THEN ReturnAddress ELSE Junk]
           c == Code!Entered(argc)
<1>1. reg \in [Registers -> Int] /\ reg["bp"] = Junk
  BY StubIs DEF Registers
<1>2. stack \in [Slots(argc) -> Int] /\ stack[0] = ReturnAddress
  BY StubIs DEF Slots
<1> HIDE DEF reg, stack
<1>3. c = [reg |-> reg, sp |-> 0, at |-> 0, status |-> 0, stack |-> stack, calls |-> <<>>, next |-> 1]
  BY DEF Code!Entered, reg, stack
<1> HIDE DEF c
<1> QED BY <1>1, <1>2, <1>3 DEF IsCpu, c

\* A stub begins with its first instruction.
LEMMA NativeBegins ==
    ASSUME NEW args \in Seq(Int), Fits(args)
    PROVE  Native(Code!Entered(Len(args)), args)
<1> DEFINE m == InRegisters(args)
           k == OnStack(args)
           a == Edge(args)
           frame == Code!Frame64(Len(args))
           c == Code!Entered(Len(args))
<1>1. NativeSizes(args, m, k, a, frame)
  BY NativeSizesAre
<1>2. IsCpu(c, Len(args)) /\ c.next = 1 /\ c.sp = 0 /\ c.calls = <<>> /\ c.stack[0] = ReturnAddress
  BY <1>1, EnteredIs, NativeNumbers
<1> HIDE DEF m, k, a, frame, c
<1>3. m \in 0..4 /\ a \in Nat /\ a >= 5
  BY <1>1, NativeNumbers
<1>4. NativeStack(c, a, frame)
  BY <1>2, <1>3 DEF NativeStack
<1>5. NativeArguments(c, args, m, k, a, frame)
  BY <1>2, <1>3 DEF NativeArguments
<1>6. NativeCalls(c, args, a)
  BY <1>2, <1>3 DEF NativeCalls
<1> QED BY <1>2, <1>3, <1>4, <1>5, <1>6 DEF Native, NativeParts, m, k, a, frame, c

PushIsNext(c, w, args, v) ==
  /\ IsCpu(c, Len(args))
  /\ v \in Int /\ Instruction(c, w, args) = Code!Push(v)

\* A value is put below the stack pointer.
LEMMA PushRuns ==
    ASSUME NEW c, NEW w, NEW args, NEW v, PushIsNext(c, w, args, v)
    PROVE  LET d == Code!RunOne(c, w, args)
           IN  /\ IsCpu(d, Len(args)) /\ KeepsAll(c, d) /\ d.sp = c.sp - 1 /\ d.status = c.status
               /\ d.reg = c.reg
               /\ \A z \in Slots(Len(args)) : d.stack[z] = IF z = c.sp - 1 THEN v ELSE c.stack[z]
<1> DEFINE argc == Len(args)
           i == Code!Push(v)
           x == [c.stack EXCEPT ![c.sp - 1] = v]
           d == Code!RunOne(c, w, args)
<1>0. IsCpu(c, Len(args)) /\ v \in Int /\ Instruction(c, w, args) = Code!Push(v)
  BY DEF PushIsNext
<1>1. i.op = "push" /\ i.n = v
  BY DEF Code!Push
<1>2. Code!Execute(c, w, argc, i) = [c EXCEPT !.sp = @ - 1, !.stack[c.sp - 1] = i.n]
  BY <1>1 DEF Code!Execute
<1>3. d = [[c EXCEPT !.sp = @ - 1, !.stack[c.sp - 1] = i.n] EXCEPT !.next = @ + 1]
  BY <1>0, <1>2 DEF Code!RunOne, Instruction
<1>4. d = [reg |-> c.reg, sp |-> c.sp - 1, at |-> c.at, status |-> c.status, stack |-> x,
           calls |-> c.calls, next |-> c.next + 1]
  BY <1>0, <1>1, <1>3 DEF IsCpu
<1>5. x \in [Slots(argc) -> Int]
  BY <1>0 DEF IsCpu
<1>7. \A z \in Slots(argc) : x[z] = IF z = c.sp - 1 THEN v ELSE c.stack[z]
  BY <1>0 DEF IsCpu
<1> HIDE DEF x, d
<1>6. IsCpu(d, argc)
  BY <1>0, <1>4, <1>5 DEF IsCpu
<1> QED BY <1>4, <1>6, <1>7 DEF KeepsAll, d

EnterIsNext(c, w, args) == IsCpu(c, Len(args)) /\ Instruction(c, w, args) = Code!Op("enter")

\* A frame is opened: the frame register is saved and points to where.
LEMMA EnterRuns ==
    ASSUME NEW c, NEW w, NEW args, EnterIsNext(c, w, args)
    PROVE  LET d == Code!RunOne(c, w, args)
           IN  /\ IsCpu(d, Len(args)) /\ KeepsAll(c, d) /\ d.sp = c.sp - 1 /\ d.status = c.status
               /\ d.reg["bp"] = c.sp - 1
               /\ \A z \in Slots(Len(args)) : z # c.sp - 1 => d.stack[z] = c.stack[z]
<1> DEFINE argc == Len(args)
           i == Code!Op("enter")
           x == [c.stack EXCEPT ![c.sp - 1] = c.reg["bp"]]
           y == [c.reg EXCEPT !["bp"] = c.sp - 1]
           d == Code!RunOne(c, w, args)
<1>0. IsCpu(c, Len(args)) /\ Instruction(c, w, args) = Code!Op("enter")
  BY DEF EnterIsNext
<1>1. i.op = "enter"
  BY DEF Code!Op
<1>2. Code!Execute(c, w, argc, i) = [c EXCEPT !.sp = @ - 1, !.stack[c.sp - 1] = c.reg["bp"], !.reg["bp"] = c.sp - 1]
  BY <1>1 DEF Code!Execute
<1>3. d = [[c EXCEPT !.sp = @ - 1, !.stack[c.sp - 1] = c.reg["bp"], !.reg["bp"] = c.sp - 1] EXCEPT !.next = @ + 1]
  BY <1>0, <1>2 DEF Code!RunOne, Instruction
<1>4. d = [reg |-> y, sp |-> c.sp - 1, at |-> c.at, status |-> c.status, stack |-> x,
           calls |-> c.calls, next |-> c.next + 1]
  BY <1>0, <1>1, <1>3 DEF IsCpu
<1>5. x \in [Slots(argc) -> Int] /\ y \in [Registers -> Int] /\ y["bp"] = c.sp - 1
  <2>1. c.reg \in [Registers -> Int] /\ c.stack \in [Slots(argc) -> Int] /\ c.sp - 1 \in Int /\ "bp" \in Registers
    BY <1>0 DEF IsCpu, Registers
  <2>2. c.reg["bp"] \in Int
    BY <2>1
  <2>3. x \in [Slots(argc) -> Int]
    BY <2>1, <2>2
  <2>4. y \in [Registers -> Int] /\ y["bp"] = c.sp - 1
    BY <2>1
  <2> QED BY <2>3, <2>4
<1>7. \A z \in Slots(argc) : z # c.sp - 1 => x[z] = c.stack[z]
  BY <1>0 DEF IsCpu
<1> HIDE DEF x, y, d
<1>6. IsCpu(d, argc)
  BY <1>0, <1>4, <1>5 DEF IsCpu
<1> QED BY <1>4, <1>5, <1>6, <1>7 DEF KeepsAll, d

LeaveIsNext(c, w, args) ==
  IsCpu(c, Len(args)) /\ Instruction(c, w, args) = Code!Op("leave") /\ c.reg["bp"] \in Slots(Len(args))

\* The frame is closed.
LEMMA LeaveRuns ==
    ASSUME NEW c, NEW w, NEW args, LeaveIsNext(c, w, args)
    PROVE  LET d == Code!RunOne(c, w, args)
           IN  /\ IsCpu(d, Len(args)) /\ KeepsAll(c, d) /\ d.sp = c.reg["bp"] + 1 /\ d.status = c.status
               /\ d.stack = c.stack
<1> DEFINE argc == Len(args)
           i == Code!Op("leave")
           y == [c.reg EXCEPT !["bp"] = c.stack[c.reg["bp"]]]
           d == Code!RunOne(c, w, args)
<1>0. IsCpu(c, Len(args)) /\ Instruction(c, w, args) = Code!Op("leave") /\ c.reg["bp"] \in Slots(Len(args))
  BY DEF LeaveIsNext
<1>1. i.op = "leave"
  BY DEF Code!Op
<1>2. Code!Execute(c, w, argc, i) = [c EXCEPT !.sp = c.reg["bp"] + 1, !.reg["bp"] = c.stack[c.reg["bp"]]]
  BY <1>1 DEF Code!Execute
<1>3. d = [[c EXCEPT !.sp = c.reg["bp"] + 1, !.reg["bp"] = c.stack[c.reg["bp"]]] EXCEPT !.next = @ + 1]
  BY <1>0, <1>2 DEF Code!RunOne, Instruction
<1>4. d = [reg |-> y, sp |-> c.reg["bp"] + 1, at |-> c.at, status |-> c.status, stack |-> c.stack,
           calls |-> c.calls, next |-> c.next + 1]
  BY <1>0, <1>1, <1>3 DEF IsCpu
<1>5. c.stack[c.reg["bp"]] \in Int /\ c.reg["bp"] + 1 \in Int
  <2>1. c.reg["bp"] \in Int /\ c.stack \in [Slots(argc) -> Int]
    BY <1>0 DEF IsCpu, Registers
  <2> QED BY <1>0, <2>1
<1>7. y \in [Registers -> Int]
  BY <1>0, <1>5 DEF IsCpu
<1> HIDE DEF y, d
<1>6. IsCpu(d, argc)
  BY <1>0, <1>4, <1>5, <1>7 DEF IsCpu
<1> QED BY <1>4, <1>6 DEF KeepsAll, d

-----------------------------------------------------------------------------
(* Stubs in a wow64 process.                                               *)

IsWow(w) == w = TRUE

\* What is pushed for the routine, the last argument first.
Cast(args, i) == IF i < Len(args) THEN args[i] ELSE 0
Pushes(args) == [i \in 1..Len(args) |-> Code!Push([j \in 1..Len(args) |-> Cast(args, j)][Len(args) + 1 - i])]

\* The instructions that push arguments.
LEMMA ArgumentsPushed ==
    ASSUME NEW args \in Seq(Int)
    PROVE  /\ Pushes(args) \in Seq(Instructions) /\ Len(Pushes(args)) = Len(args)
           /\ \A j \in 1..Len(args) : \E v \in Int : Pushes(args)[j] = Code!Push(v)
<1> DEFINE n == Len(args)
           cast == [j \in 1..n |-> Cast(args, j)]
<1>1. n \in Nat /\ \A j \in 1..n : args[j] \in Int
  BY ElementOfSeq
<1>2. \A j \in 1..n : cast[j] \in Int
  BY <1>1 DEF Cast
<1>3. \A i \in 1..n : n + 1 - i \in 1..n
  BY <1>1
<1> HIDE DEF cast, n
<1>4. \A i \in 1..n : cast[n + 1 - i] \in Int
  BY <1>2, <1>3
<1>5. Pushes(args) = [i \in 1..n |-> Code!Push(cast[n + 1 - i])]
  BY DEF Pushes, cast, n
<1>6. Pushes(args) \in [1..n -> Instructions]
  BY <1>4, <1>5, InstructionsAre
<1>7. Pushes(args) \in Seq(Instructions) /\ Len(Pushes(args)) = n
  BY <1>1, <1>6, TableIs
<1>8. \A j \in 1..n : \E v \in Int : Pushes(args)[j] = Code!Push(v)
  BY <1>4, <1>5
<1> QED BY <1>7, <1>8 DEF n

\* The parts of such a stub, one after the other.
WowStub(p, r, t, y, e) == ((p \o (r \o t)) \o y) \o e

AreWowParts(p, r, t, y, e) ==
  /\ p \in Seq(Instructions) /\ r \in Seq(Instructions) /\ t \in Seq(Instructions)
  /\ y \in Seq(Instructions) /\ e \in Seq(Instructions)
  /\ Len(p) = 1 /\ Len(t) = 2 /\ Len(y) = 5 /\ Len(e) = 2

\* Where they stand.
LEMMA WowLayout ==
    ASSUME NEW p, NEW r, NEW t, NEW y, NEW e, AreWowParts(p, r, t, y, e)
    PROVE  LET code == WowStub(p, r, t, y, e)
               n == Len(r)
           IN  /\ Len(code) = n + 10 /\ Stands(code, 0, p) /\ Stands(code, 1, r)
               /\ Stands(code, n + 1, t) /\ Stands(code, n + 3, y) /\ Stands(code, n + 8, e)
<1> DEFINE code == WowStub(p, r, t, y, e)
           n == Len(r)
           rt == r \o t
           pt == p \o rt
           py == pt \o y
<1>1. /\ p \in Seq(Instructions) /\ r \in Seq(Instructions) /\ t \in Seq(Instructions)
      /\ y \in Seq(Instructions) /\ e \in Seq(Instructions)
      /\ Len(p) = 1 /\ Len(t) = 2 /\ Len(y) = 5 /\ Len(e) = 2
  BY DEF AreWowParts
<1>2. rt \in Seq(Instructions) /\ Len(rt) = Len(r) + Len(t) /\ Stands(rt, 0, r) /\ Stands(rt, Len(r), t)
  BY <1>1, WrittenAfter
<1> HIDE DEF rt
<1>3. pt \in Seq(Instructions) /\ Len(pt) = Len(p) + Len(rt) /\ Stands(pt, 0, p) /\ Stands(pt, Len(p), rt)
  BY <1>2, <1>1, WrittenAfter
<1> HIDE DEF pt
<1>4. py \in Seq(Instructions) /\ Len(py) = Len(pt) + Len(y) /\ Stands(py, 0, pt) /\ Stands(py, Len(pt), y)
  BY <1>3, <1>1, WrittenAfter
<1> HIDE DEF py
<1>5. code \in Seq(Instructions) /\ Len(code) = Len(py) + Len(e) /\ Stands(code, 0, py) /\ Stands(code, Len(py), e)
  BY <1>4, <1>1, WrittenAfter DEF rt, pt, py, WowStub
<1> HIDE DEF code
<1>6. Len(r) \in Nat
  BY <1>1
<1>7. Len(rt) = n + 2 /\ Len(pt) = n + 3 /\ Len(py) = n + 8 /\ Len(code) = n + 10
  BY <1>1, <1>2, <1>3, <1>4, <1>5
<1>8. /\ Len(rt) \in Nat /\ Len(pt) \in Nat /\ Len(py) \in Nat /\ Len(code) \in Nat
      /\ Len(p) \in Nat /\ Len(r) \in Nat /\ Len(t) \in Nat /\ Len(y) \in Nat
  BY <1>1, <1>6, <1>7
<1>9. Stands(code, 0 + 0, pt) /\ Stands(code, 0 + Len(pt), y)
  BY <1>4, <1>5, <1>8, WithinPart
<1>10. Stands(code, 0, pt) /\ Stands(code, n + 3, y)
  <2>1. 0 + Len(pt) = n + 3 /\ 0 + 0 = 0
    BY <1>6, <1>7
  <2> QED BY <1>9, <2>1
<1>11. Stands(code, 0 + 0, p) /\ Stands(code, 0 + 1, rt)
  BY <1>1, <1>3, <1>8, <1>10, WithinPart
<1>12. Stands(code, 0, p) /\ Stands(code, 1, rt)
  <2>1. 0 + 0 = 0 /\ 0 + 1 = 1
    OBVIOUS
  <2> QED BY <1>11, <2>1
<1>13. Stands(code, 1 + 0, r) /\ Stands(code, 1 + Len(r), t)
  BY <1>2, <1>8, <1>12, WithinPart
<1>14. Stands(code, 1, r) /\ Stands(code, n + 1, t)
  <2>1. 1 + 0 = 1 /\ 1 + Len(r) = n + 1
    BY <1>6
  <2> QED BY <1>13, <2>1
<1>15. Stands(code, n + 8, e)
  BY <1>5, <1>7
<1> QED BY <1>7, <1>10, <1>12, <1>14, <1>15 DEF code

\* A return that pops as well.
LEMMA PopsAlso ==
    ASSUME NEW i \in Instructions, NEW n \in Int
    PROVE  LET ret == [i EXCEPT !.n = n] IN ret \in Instructions /\ ret.op = i.op /\ ret.n = n
BY DEF Instructions

\* The other parts of a stub in a wow64 process are instructions.
LEMMA WowPartsAre ==
    ASSUME NEW n \in Int
    PROVE  LET p == Code!GenPrologue32
               t == <<Code!Mov("ax", Routine), Code!Op("call")>>
               y == Code!GenSync32
               e == Code!GenEpilogue32(n)
           IN  /\ p \in Seq(Instructions) /\ Len(p) = 1 /\ p[1] = Code!Op("enter")
               /\ t \in Seq(Instructions) /\ Len(t) = 2 /\ t[1] = Code!Mov("ax", Routine) /\ t[2] = Code!Op("call")
               /\ y \in Seq(Instructions) /\ Len(y) = 5 /\ y[1] = Code!Op("status") /\ y[2] = Code!Push(0)
               /\ y[3] = Code!Push(Event) /\ y[4] = Code!Mov("ax", SetEvent) /\ y[5] = Code!Op("call")
               /\ e \in Seq(Instructions) /\ Len(e) = 2 /\ e[1] = Code!Op("leave")
               /\ e[2].op = "ret" /\ e[2].n = n
<1> DEFINE ret == [Code!Op("ret") EXCEPT !.n = n]
<1>1. /\ Code!Op("status") \in Instructions /\ Code!Push(0) \in Instructions /\ Code!Push(Event) \in Instructions
      /\ Code!Mov("ax", SetEvent) \in Instructions /\ Code!Mov("ax", Routine) \in Instructions
      /\ Code!Op("call") \in Instructions /\ Code!Op("enter") \in Instructions /\ Code!Op("leave") \in Instructions
  BY StubIs, InstructionsAre DEF Registers
<1>2. Code!Op("ret") \in Instructions /\ Code!Op("ret").op = "ret"
  <2>1. Code!Op("ret").op = "ret"
    BY DEF Code!Op
  <2> QED BY <2>1, InstructionsAre
<1>3. ret \in Instructions /\ ret.op = Code!Op("ret").op /\ ret.n = n
  BY <1>2, PopsAlso
<1>4. ret.op = "ret"
  BY <1>2, <1>3
<1>5. Code!GenEpilogue32(n) = <<Code!Op("leave"), ret>>
  BY DEF Code!GenEpilogue32
<1> HIDE DEF ret
<1>6. LET e == Code!GenEpilogue32(n)
      IN  e \in Seq(Instructions) /\ Len(e) = 2 /\ e[1] = Code!Op("leave") /\ e[2] = ret
  BY <1>1, <1>3, <1>5
<1>7. LET p == Code!GenPrologue32
      IN  p \in Seq(Instructions) /\ Len(p) = 1 /\ p[1] = Code!Op("enter")
  BY <1>1 DEF Code!GenPrologue32
<1>8. LET t == <<Code!Mov("ax", Routine), Code!Op("call")>>
      IN  t \in Seq(Instructions) /\ Len(t) = 2 /\ t[1] = Code!Mov("ax", Routine) /\ t[2] = Code!Op("call")
  BY <1>1
<1>9. LET y == Code!GenSync32
      IN  /\ y \in Seq(Instructions) /\ Len(y) = 5 /\ y[1] = Code!Op("status") /\ y[2] = Code!Push(0)
          /\ y[3] = Code!Push(Event) /\ y[4] = Code!Mov("ax", SetEvent) /\ y[5] = Code!Op("call")
  BY <1>1 DEF Code!GenSync32
<1> QED BY <1>3, <1>4, <1>6, <1>7, <1>8, <1>9

Sizes32(w, args, n) == IsWow(w) /\ args \in Seq(Int) /\ n = Len(args)

\* The instructions of a stub in a wow64 process.
LEMMA Code32Is ==
    ASSUME NEW w, NEW args, NEW n, Sizes32(w, args, n)
    PROVE  LET code == Code!CallCode(w, args)
           IN  /\ Len(code) = n + 10 /\ code[1] = Code!Op("enter")
               /\ \A j \in 1..n : \E v \in Int : code[1 + j] = Code!Push(v)
               /\ code[n + 2] = Code!Mov("ax", Routine) /\ code[n + 3] = Code!Op("call")
               /\ code[n + 4] = Code!Op("status") /\ code[n + 5] = Code!Push(0) /\ code[n + 6] = Code!Push(Event)
               /\ code[n + 7] = Code!Mov("ax", SetEvent) /\ code[n + 8] = Code!Op("call")
               /\ code[n + 9] = Code!Op("leave") /\ code[n + 10].op = "ret" /\ code[n + 10].n = n
<1> DEFINE code == Code!CallCode(w, args)
           p == Code!GenPrologue32
           r == Pushes(args)
           t == <<Code!Mov("ax", Routine), Code!Op("call")>>
           y == Code!GenSync32
           e == Code!GenEpilogue32(Len(args))
<1>1. IsWow(w) /\ args \in Seq(Int) /\ n = Len(args) /\ n \in Nat
  BY DEF Sizes32
<1>2. code = WowStub(p, r, t, y, e)
  BY <1>1 DEF IsWow, WowStub, Code!CallCode, Code!GenPrologueT, Code!GenCallTV, Code!GenSyncT, Code!GenEpilogueT, Code!GenCall32V,
         Pushes, Cast
<1>3. /\ p \in Seq(Instructions) /\ Len(p) = 1 /\ p[1] = Code!Op("enter")
      /\ t \in Seq(Instructions) /\ Len(t) = 2 /\ t[1] = Code!Mov("ax", Routine) /\ t[2] = Code!Op("call")
      /\ y \in Seq(Instructions) /\ Len(y) = 5 /\ y[1] = Code!Op("status") /\ y[2] = Code!Push(0)
      /\ y[3] = Code!Push(Event) /\ y[4] = Code!Mov("ax", SetEvent) /\ y[5] = Code!Op("call")
      /\ e \in Seq(Instructions) /\ Len(e) = 2 /\ e[1] = Code!Op("leave")
      /\ e[2].op = "ret" /\ e[2].n = n
  BY <1>1, WowPartsAre
<1>4. r \in Seq(Instructions) /\ Len(r) = n /\ \A j \in 1..n : \E v \in Int : r[j] = Code!Push(v)
  BY <1>1, ArgumentsPushed
<1> HIDE DEF code, p, r, t, y, e
<1>5. /\ Len(code) = n + 10 /\ Stands(code, 0, p) /\ Stands(code, 1, r)
      /\ Stands(code, n + 1, t) /\ Stands(code, n + 3, y) /\ Stands(code, n + 8, e)
  <2>1. AreWowParts(p, r, t, y, e)
    BY <1>3, <1>4 DEF AreWowParts
  <2>2. /\ Len(code) = Len(r) + 10 /\ Stands(code, 0, p) /\ Stands(code, 1, r)
        /\ Stands(code, Len(r) + 1, t) /\ Stands(code, Len(r) + 3, y) /\ Stands(code, Len(r) + 8, e)
    BY <1>2, <2>1, WowLayout
  <2> QED BY <1>4, <2>2
<1>6. \A j \in 1..1 : code[0 + j] = p[j]
  BY <1>3, <1>5 DEF Stands
<1>7. \A j \in 1..n : code[1 + j] = r[j]
  BY <1>4, <1>5 DEF Stands
<1>8. \A j \in 1..2 : code[n + 1 + j] = t[j]
  BY <1>3, <1>5 DEF Stands
<1>9. \A j \in 1..5 : code[n + 3 + j] = y[j]
  BY <1>3, <1>5 DEF Stands
<1>10. \A j \in 1..2 : code[n + 8 + j] = e[j]
  BY <1>3, <1>5 DEF Stands
<1>11. code[1] = p[1]
  <2>1. 0 + 1 = 1 /\ 1 \in 1..1
    OBVIOUS
  <2> QED BY <1>6, <2>1
<1>12. code[n + 2] = t[1] /\ code[n + 3] = t[2]
  <2>1. n + 1 + 1 = n + 2 /\ n + 1 + 2 = n + 3
    BY <1>1
  <2>2. code[n + 1 + 1] = t[1] /\ code[n + 1 + 2] = t[2]
    BY <1>8
  <2> QED BY <2>1, <2>2
<1>13. code[n + 4] = y[1] /\ code[n + 5] = y[2] /\ code[n + 6] = y[3] /\ code[n + 7] = y[4] /\ code[n + 8] = y[5]
  <2>1. n + 3 + 1 = n + 4 /\ n + 3 + 2 = n + 5 /\ n + 3 + 3 = n + 6 /\ n + 3 + 4 = n + 7 /\ n + 3 + 5 = n + 8
    BY <1>1
  <2>2. code[n + 3 + 1] = y[1] /\ code[n + 3 + 2] = y[2] /\ code[n + 3 + 3] = y[3] /\ code[n + 3 + 4] = y[4] /\ code[n + 3 + 5] = y[5]
    BY <1>9
  <2> QED BY <2>1, <2>2
<1>14. code[n + 9] = e[1] /\ code[n + 10] = e[2]
  <2>1. n + 8 + 1 = n + 9 /\ n + 8 + 2 = n + 10
    BY <1>1
  <2>2. code[n + 8 + 1] = e[1] /\ code[n + 8 + 2] = e[2]
    BY <1>10
  <2> QED BY <2>1, <2>2
<1> QED BY <1>3, <1>4, <1>5, <1>7, <1>11, <1>12, <1>13, <1>14 DEF code

\* Where the stack pointer of such a stub is, and what is on its stack.
WowStack(c, n) ==
  /\ c.next = 1 => c.sp = 0
  /\ c.next > 1 /\ c.next <= n + 9 => c.reg["bp"] = -1
  /\ c.next > 1 /\ c.next <= n + 2 => c.sp = 0 - (c.next - 1)
  /\ c.next = n + 3 => c.sp = 0 - (n + 1)
  /\ c.next \in {n + 4, n + 5, n + 9} => c.sp = -1
  /\ c.next = n + 6 => c.sp = -2
  /\ c.next \in {n + 7, n + 8} => c.sp = -3
  /\ c.next = n + 10 => c.sp = 0
  /\ c.next <= n + 10 => c.stack[0] = ReturnAddress
  /\ c.next > n + 5 /\ c.next <= n + 8 => c.stack[-2] = 0
  /\ c.next > n + 6 /\ c.next <= n + 8 => c.stack[-3] = Event
  /\ c.next > n + 10 => c.at = ReturnAddress /\ c.sp = 1 + n

\* What it has called.
WowCalls(c, n) ==
  /\ c.next = n + 3 => c.reg["ax"] = Routine
  /\ c.next <= n + 3 => c.calls = <<>>
  /\ c.next > n + 3 /\ c.next <= n + 8 => c.calls = <<c.calls[1]>>
  /\ c.next = n + 4 => c.reg["ax"] = Answer
  /\ c.next > n + 4 => c.status = Answer
  /\ c.next = n + 8 => c.reg["ax"] = SetEvent
  /\ c.next > n + 8 => c.calls = <<c.calls[1], c.calls[2]>> /\ EventSet(c.calls[2])

WowParts(c, args, n) ==
  /\ IsCpu(c, n) /\ args \in Seq(Int) /\ n = Len(args) /\ n \in Nat /\ c.next \in 1..n + 11
  /\ WowStack(c, n) /\ WowCalls(c, n)

\* The words such a stub uses are on its stack.
LEMMA WowSlots ==
    ASSUME NEW n \in Nat
    PROVE  0 \in Slots(n) /\ -1 \in Slots(n) /\ -2 \in Slots(n) /\ -3 \in Slots(n)
BY DEF Slots

\* A stub in a wow64 process, and what it has done.
WowRuns(c, w, args, n) == IsWow(w) /\ WowParts(c, args, n)

\* What is known of such a stub, in parts.
LEMMA WowFacts ==
    ASSUME NEW c, NEW w, NEW args, NEW n, WowRuns(c, w, args, n)
    PROVE  /\ n = Len(args) /\ n \in Nat /\ IsCpu(c, Len(args)) /\ IsCpu(c, n) /\ WowStack(c, n) /\ WowCalls(c, n)
           /\ 0 \in Slots(n) /\ -1 \in Slots(n) /\ -2 \in Slots(n) /\ -3 \in Slots(n)
           /\ args \in Seq(Int) /\ IsWow(w)
BY WowSlots DEF WowRuns, WowParts

\* The instructions by their places.
LEMMA WowCode ==
    ASSUME NEW c, NEW w, NEW args, NEW n, WowRuns(c, w, args, n)
    PROVE  LET code == Code!CallCode(w, args)
           IN  /\ Len(code) = n + 10 /\ code[1] = Code!Op("enter")
               /\ \A j \in 1..n : \E v \in Int : code[1 + j] = Code!Push(v)
               /\ code[n + 2] = Code!Mov("ax", Routine) /\ code[n + 3] = Code!Op("call")
               /\ code[n + 4] = Code!Op("status") /\ code[n + 5] = Code!Push(0) /\ code[n + 6] = Code!Push(Event)
               /\ code[n + 7] = Code!Mov("ax", SetEvent) /\ code[n + 8] = Code!Op("call")
               /\ code[n + 9] = Code!Op("leave") /\ code[n + 10].op = "ret" /\ code[n + 10].n = n
<1>1. IsWow(w) /\ args \in Seq(Int) /\ n = Len(args)
  BY WowFacts
<1>2. Sizes32(w, args, n)
  BY <1>1 DEF Sizes32
<1> DEFINE code == Code!CallCode(w, args)
<1>3. /\ Len(code) = n + 10 /\ code[1] = Code!Op("enter")
      /\ \A j \in 1..n : \E v \in Int : code[1 + j] = Code!Push(v)
  BY <1>2, Code32Is
<1>4. /\ code[n + 2] = Code!Mov("ax", Routine) /\ code[n + 3] = Code!Op("call")
      /\ code[n + 4] = Code!Op("status") /\ code[n + 5] = Code!Push(0) /\ code[n + 6] = Code!Push(Event)
  BY <1>2, Code32Is
<1>5. /\ code[n + 7] = Code!Mov("ax", SetEvent) /\ code[n + 8] = Code!Op("call") /\ code[n + 9] = Code!Op("leave")
  BY <1>2, Code32Is
<1>6. code[n + 10].op = "ret" /\ code[n + 10].n = n
  BY <1>2, Code32Is
<1> QED BY <1>3, <1>4, <1>5, <1>6

\* The frame is opened.
LEMMA WowEnters ==
    ASSUME NEW c, NEW w, NEW args, NEW n, WowRuns(c, w, args, n), c.next = 1
    PROVE  WowParts(Code!RunOne(c, w, args), args, n)
<1> DEFINE d == Code!RunOne(c, w, args)
<1>1. /\ n = Len(args) /\ n \in Nat /\ IsCpu(c, Len(args)) /\ WowStack(c, n) /\ WowCalls(c, n) /\ 0 \in Slots(n)
      /\ args \in Seq(Int)
  BY WowFacts
<1>2. Instruction(c, w, args) = Code!Op("enter")
  <2>1. Code!CallCode(w, args)[1] = Code!Op("enter")
    BY WowCode
  <2> QED BY <2>1 DEF Instruction
<1>3. /\ IsCpu(d, Len(args)) /\ KeepsAll(c, d) /\ d.sp = c.sp - 1 /\ d.status = c.status /\ d.reg["bp"] = c.sp - 1
      /\ \A z \in Slots(Len(args)) : z # c.sp - 1 => d.stack[z] = c.stack[z]
  <2>1. EnterIsNext(c, w, args)
    BY <1>1, <1>2 DEF EnterIsNext
  <2> QED BY <2>1, EnterRuns
<1> HIDE DEF d
<1>4. c.next <= n + 3 /\ c.next <= n + 10
  BY <1>1
<1>5. c.sp = 0 /\ c.stack[0] = ReturnAddress /\ c.calls = <<>>
  BY <1>1, <1>4 DEF WowStack, WowCalls
<1>6. d.next = 2 /\ d.calls = <<>> /\ d.sp = -1 /\ d.reg["bp"] = -1 /\ d.stack[0] = ReturnAddress
  BY <1>1, <1>3, <1>5 DEF KeepsAll
<1>7. WowStack(d, n)
  BY <1>1, <1>6 DEF WowStack
<1>8. WowCalls(d, n)
  BY <1>1, <1>6 DEF WowCalls
<1>9. d.next \in 1..n + 11
  BY <1>1, <1>6
<1> QED BY <1>1, <1>3, <1>7, <1>8, <1>9 DEF WowParts, d

\* An argument is pushed.
LEMMA WowPushes ==
    ASSUME NEW c, NEW w, NEW args, NEW n, WowRuns(c, w, args, n), NEW j \in 1..n, c.next = 1 + j
    PROVE  WowParts(Code!RunOne(c, w, args), args, n)
<1> DEFINE d == Code!RunOne(c, w, args)
<1>1. /\ n = Len(args) /\ n \in Nat /\ IsCpu(c, Len(args)) /\ WowStack(c, n) /\ WowCalls(c, n) /\ 0 \in Slots(n)
      /\ args \in Seq(Int)
  BY WowFacts
<1>2. PICK v \in Int : Instruction(c, w, args) = Code!Push(v)
  <2>1. \A i \in 1..n : \E v \in Int : Code!CallCode(w, args)[1 + i] = Code!Push(v)
    BY WowCode
  <2> QED BY <2>1 DEF Instruction
<1>3. /\ IsCpu(d, Len(args)) /\ KeepsAll(c, d) /\ d.sp = c.sp - 1 /\ d.status = c.status /\ d.reg = c.reg
      /\ \A z \in Slots(Len(args)) : d.stack[z] = IF z = c.sp - 1 THEN v ELSE c.stack[z]
  <2>1. PushIsNext(c, w, args, v)
    BY <1>1, <1>2 DEF PushIsNext
  <2> QED BY <2>1, PushRuns
<1> HIDE DEF d
<1>4. c.next > 1 /\ c.next <= n + 9 /\ c.next <= n + 3 /\ c.next <= n + 2 /\ c.next <= n + 10
  BY <1>1
<1>5. /\ c.sp = 0 - (c.next - 1) /\ c.reg["bp"] = -1 /\ c.stack[0] = ReturnAddress /\ c.calls = <<>>
  BY <1>1, <1>4 DEF WowStack, WowCalls
<1>6. d.next = 2 + j /\ d.calls = <<>> /\ d.reg["bp"] = -1
  BY <1>3, <1>5 DEF KeepsAll
<1>7. d.sp = 0 - (1 + j) /\ c.sp - 1 # 0
  BY <1>3, <1>5
<1>8. d.stack[0] = ReturnAddress
  BY <1>1, <1>3, <1>5, <1>7
<1>9. /\ d.next > 1 /\ d.next <= n + 9 /\ d.next <= n + 3 /\ d.next <= n + 10 /\ d.next \in 1..n + 11 /\ d.next <= n + 2
      /\ d.next \notin {n + 4, n + 5, n + 9} /\ d.next # n + 6 /\ d.next \notin {n + 7, n + 8} /\ d.next # n + 10
      /\ ~(d.next > n + 5) /\ ~(d.next > n + 6) /\ ~(d.next > n + 10) /\ d.next # 1 /\ d.next # n + 3
      /\ ~(d.next > n + 3) /\ d.next # n + 4 /\ ~(d.next > n + 4) /\ d.next # n + 8 /\ ~(d.next > n + 8)
      /\ d.sp = 0 - (d.next - 1)
  <2>1. n \in Nat /\ j \in 1..n /\ d.next = 2 + j /\ d.sp = 0 - (1 + j)
    BY <1>1, <1>6, <1>7
  <2> QED BY <2>1
<1>10. WowStack(d, n)
  BY <1>6, <1>8, <1>9 DEF WowStack
<1>11. WowCalls(d, n)
  BY <1>6, <1>9 DEF WowCalls
<1> QED BY <1>1, <1>3, <1>9, <1>10, <1>11 DEF WowParts, d

\* The routine's address is put in a register.
LEMMA WowAims ==
    ASSUME NEW c, NEW w, NEW args, NEW n, WowRuns(c, w, args, n), c.next = n + 2
    PROVE  WowParts(Code!RunOne(c, w, args), args, n)
<1> DEFINE d == Code!RunOne(c, w, args)
<1>1. /\ n = Len(args) /\ n \in Nat /\ IsCpu(c, Len(args)) /\ WowStack(c, n) /\ WowCalls(c, n) /\ args \in Seq(Int)
      /\ 0 \in Slots(n) /\ -1 \in Slots(n) /\ -2 \in Slots(n) /\ -3 \in Slots(n)
  BY WowFacts
<1>2. Instruction(c, w, args) = Code!Mov("ax", Routine)
  <2>1. Code!CallCode(w, args)[n + 2] = Code!Mov("ax", Routine)
    BY WowCode
  <2> QED BY <2>1 DEF Instruction
<1>3. /\ IsCpu(d, Len(args)) /\ KeepsAll(c, d) /\ d.sp = c.sp /\ d.status = c.status /\ d.stack = c.stack
      /\ d.reg["ax"] = Routine /\ \A q \in Registers \ {"ax"} : d.reg[q] = c.reg[q]
  <2>1. MovIsNext(c, w, args, "ax", Routine)
    BY <1>1, <1>2, StubIs DEF MovIsNext, Registers
  <2> QED BY <2>1, MovRuns
<1> HIDE DEF d
<1>4. /\ c.next \in 1..n + 11 /\ c.next # 1 /\ c.next > 1 /\ c.next <= n + 2 /\ c.next <= n + 3 /\ c.next <= n + 8 /\ c.next <= n + 9 /\ c.next <= n + 10
      /\ ~(c.next > n + 3) /\ ~(c.next > n + 4) /\ ~(c.next > n + 5) /\ ~(c.next > n + 6) /\ ~(c.next > n + 8) /\ ~(c.next > n + 10)
      /\ c.next # n + 3 /\ c.next # n + 4 /\ c.next # n + 5 /\ c.next # n + 6 /\ c.next # n + 7 /\ c.next # n + 8 /\ c.next # n + 9 /\ c.next # n + 10 /\ c.next - 1 = n + 1
  BY <1>1
<1>5. c.sp = 0 - (n + 1) /\ c.reg["bp"] = -1 /\ c.stack[0] = ReturnAddress /\ c.calls = <<>>
  BY <1>1, <1>4 DEF WowStack, WowCalls
<1>6. d.next = n + 3 /\ d.calls = c.calls
  BY <1>1, <1>3 DEF KeepsAll
<1>7. d.sp = 0 - (n + 1) /\ d.reg["bp"] = -1 /\ d.stack[0] = ReturnAddress /\ d.reg["ax"] = Routine
  <2>1. "bp" \in Registers \ {"ax"}
    BY DEF Registers
  <2> QED BY <1>1, <1>3, <1>5, <2>1
<1>8. /\ d.next \in 1..n + 11 /\ d.next # 1 /\ d.next > 1 /\ ~(d.next <= n + 2) /\ d.next <= n + 3 /\ d.next <= n + 8 /\ d.next <= n + 9 /\ d.next <= n + 10
      /\ ~(d.next > n + 3) /\ ~(d.next > n + 4) /\ ~(d.next > n + 5) /\ ~(d.next > n + 6) /\ ~(d.next > n + 8) /\ ~(d.next > n + 10)
      /\ d.next # n + 4 /\ d.next # n + 5 /\ d.next # n + 6 /\ d.next # n + 7 /\ d.next # n + 8 /\ d.next # n + 9 /\ d.next # n + 10
  <2>1. n \in Nat /\ d.next = n + 3
    BY <1>1, <1>6
  <2> QED BY <2>1
<1>9. WowStack(d, n)
  BY <1>5, <1>6, <1>7, <1>8 DEF WowStack
<1>10. WowCalls(d, n)
  BY <1>5, <1>6, <1>7, <1>8 DEF WowCalls
<1> QED BY <1>1, <1>3, <1>8, <1>9, <1>10 DEF WowParts, d

\* Its answer is stored.
LEMMA WowKeepsAnswer ==
    ASSUME NEW c, NEW w, NEW args, NEW n, WowRuns(c, w, args, n), c.next = n + 4
    PROVE  WowParts(Code!RunOne(c, w, args), args, n)
<1> DEFINE d == Code!RunOne(c, w, args)
<1>1. /\ n = Len(args) /\ n \in Nat /\ IsCpu(c, Len(args)) /\ WowStack(c, n) /\ WowCalls(c, n) /\ args \in Seq(Int)
      /\ 0 \in Slots(n) /\ -1 \in Slots(n) /\ -2 \in Slots(n) /\ -3 \in Slots(n)
  BY WowFacts
<1>2. Instruction(c, w, args) = Code!Op("status")
  <2>1. Code!CallCode(w, args)[n + 4] = Code!Op("status")
    BY WowCode
  <2> QED BY <2>1 DEF Instruction
<1>3. /\ IsCpu(d, Len(args)) /\ KeepsAll(c, d) /\ d.sp = c.sp /\ d.status = c.reg["ax"] /\ d.stack = c.stack /\ d.reg = c.reg
  <2>1. StatusIsNext(c, w, args)
    BY <1>1, <1>2 DEF StatusIsNext
  <2> QED BY <2>1, StatusRuns
<1> HIDE DEF d
<1>4. /\ c.next \in 1..n + 11 /\ c.next # 1 /\ c.next > 1 /\ ~(c.next <= n + 2) /\ ~(c.next <= n + 3) /\ c.next <= n + 8 /\ c.next <= n + 9 /\ c.next <= n + 10
      /\ c.next > n + 3 /\ ~(c.next > n + 4) /\ ~(c.next > n + 5) /\ ~(c.next > n + 6) /\ ~(c.next > n + 8) /\ ~(c.next > n + 10)
      /\ c.next # n + 3 /\ c.next # n + 5 /\ c.next # n + 6 /\ c.next # n + 7 /\ c.next # n + 8 /\ c.next # n + 9 /\ c.next # n + 10
  BY <1>1
<1>5. c.sp = -1 /\ c.reg["bp"] = -1 /\ c.stack[0] = ReturnAddress /\ c.calls = <<c.calls[1]>> /\ c.reg["ax"] = Answer
  BY <1>1, <1>4 DEF WowStack, WowCalls
<1>6. d.next = n + 5 /\ d.calls = c.calls
  BY <1>1, <1>3 DEF KeepsAll
<1>7. d.sp = -1 /\ d.reg["bp"] = -1 /\ d.stack[0] = ReturnAddress /\ d.status = Answer /\ d.calls[1] = c.calls[1]
  BY <1>3, <1>5, <1>6
<1>8. /\ d.next \in 1..n + 11 /\ d.next # 1 /\ d.next > 1 /\ ~(d.next <= n + 2) /\ ~(d.next <= n + 3) /\ d.next <= n + 8 /\ d.next <= n + 9 /\ d.next <= n + 10
      /\ d.next > n + 3 /\ d.next > n + 4 /\ ~(d.next > n + 5) /\ ~(d.next > n + 6) /\ ~(d.next > n + 8) /\ ~(d.next > n + 10)
      /\ d.next # n + 3 /\ d.next # n + 4 /\ d.next # n + 6 /\ d.next # n + 7 /\ d.next # n + 8 /\ d.next # n + 9 /\ d.next # n + 10
  <2>1. n \in Nat /\ d.next = n + 5
    BY <1>1, <1>6
  <2> QED BY <2>1
<1>9. WowStack(d, n)
  BY <1>5, <1>6, <1>7, <1>8 DEF WowStack
<1>10. WowCalls(d, n)
  BY <1>5, <1>6, <1>7, <1>8 DEF WowCalls
<1> QED BY <1>1, <1>3, <1>8, <1>9, <1>10 DEF WowParts, d

\* The arguments of the call that sets the event are pushed.
LEMMA WowPushesCount ==
    ASSUME NEW c, NEW w, NEW args, NEW n, WowRuns(c, w, args, n), c.next = n + 5
    PROVE  WowParts(Code!RunOne(c, w, args), args, n)
<1> DEFINE d == Code!RunOne(c, w, args)
<1>1. /\ n = Len(args) /\ n \in Nat /\ IsCpu(c, Len(args)) /\ WowStack(c, n) /\ WowCalls(c, n) /\ args \in Seq(Int)
      /\ 0 \in Slots(n) /\ -1 \in Slots(n) /\ -2 \in Slots(n) /\ -3 \in Slots(n)
  BY WowFacts
<1>2. Instruction(c, w, args) = Code!Push(0)
  <2>1. Code!CallCode(w, args)[n + 5] = Code!Push(0)
    BY WowCode
  <2> QED BY <2>1 DEF Instruction
<1>3. /\ IsCpu(d, Len(args)) /\ KeepsAll(c, d) /\ d.sp = c.sp - 1 /\ d.status = c.status /\ d.reg = c.reg
      /\ \A z \in Slots(Len(args)) : d.stack[z] = IF z = c.sp - 1 THEN 0 ELSE c.stack[z]
  <2>1. PushIsNext(c, w, args, 0)
    BY <1>1, <1>2 DEF PushIsNext
  <2> QED BY <2>1, PushRuns
<1> HIDE DEF d
<1>4. /\ c.next \in 1..n + 11 /\ c.next # 1 /\ c.next > 1 /\ ~(c.next <= n + 2) /\ ~(c.next <= n + 3) /\ c.next <= n + 8 /\ c.next <= n + 9 /\ c.next <= n + 10
      /\ c.next > n + 3 /\ c.next > n + 4 /\ ~(c.next > n + 5) /\ ~(c.next > n + 6) /\ ~(c.next > n + 8) /\ ~(c.next > n + 10)
      /\ c.next # n + 3 /\ c.next # n + 4 /\ c.next # n + 6 /\ c.next # n + 7 /\ c.next # n + 8 /\ c.next # n + 9 /\ c.next # n + 10
  BY <1>1
<1>5. c.sp = -1 /\ c.reg["bp"] = -1 /\ c.stack[0] = ReturnAddress /\ c.calls = <<c.calls[1]>> /\ c.status = Answer
  BY <1>1, <1>4 DEF WowStack, WowCalls
<1>6. d.next = n + 6 /\ d.calls = c.calls
  BY <1>1, <1>3 DEF KeepsAll
<1>7. d.sp = -2 /\ d.reg["bp"] = -1 /\ d.stack[0] = ReturnAddress /\ d.status = Answer /\ d.calls[1] = c.calls[1] /\ d.stack[-2] = 0
  <2>1. c.sp - 1 = -2 /\ 0 # -2
    BY <1>5
  <2> QED BY <1>1, <1>3, <1>5, <1>6, <2>1
<1>8. /\ d.next \in 1..n + 11 /\ d.next # 1 /\ d.next > 1 /\ ~(d.next <= n + 2) /\ ~(d.next <= n + 3) /\ d.next <= n + 8 /\ d.next <= n + 9 /\ d.next <= n + 10
      /\ d.next > n + 3 /\ d.next > n + 4 /\ d.next > n + 5 /\ ~(d.next > n + 6) /\ ~(d.next > n + 8) /\ ~(d.next > n + 10)
      /\ d.next # n + 3 /\ d.next # n + 4 /\ d.next # n + 5 /\ d.next # n + 7 /\ d.next # n + 8 /\ d.next # n + 9 /\ d.next # n + 10
  <2>1. n \in Nat /\ d.next = n + 6
    BY <1>1, <1>6
  <2> QED BY <2>1
<1>9. WowStack(d, n)
  BY <1>5, <1>6, <1>7, <1>8 DEF WowStack
<1>10. WowCalls(d, n)
  BY <1>5, <1>6, <1>7, <1>8 DEF WowCalls
<1> QED BY <1>1, <1>3, <1>8, <1>9, <1>10 DEF WowParts, d

\* The event is pushed.
LEMMA WowPushesEvent ==
    ASSUME NEW c, NEW w, NEW args, NEW n, WowRuns(c, w, args, n), c.next = n + 6
    PROVE  WowParts(Code!RunOne(c, w, args), args, n)
<1> DEFINE d == Code!RunOne(c, w, args)
<1>1. /\ n = Len(args) /\ n \in Nat /\ IsCpu(c, Len(args)) /\ WowStack(c, n) /\ WowCalls(c, n) /\ args \in Seq(Int)
      /\ 0 \in Slots(n) /\ -1 \in Slots(n) /\ -2 \in Slots(n) /\ -3 \in Slots(n)
  BY WowFacts
<1>2. Instruction(c, w, args) = Code!Push(Event)
  <2>1. Code!CallCode(w, args)[n + 6] = Code!Push(Event)
    BY WowCode
  <2> QED BY <2>1 DEF Instruction
<1>3. /\ IsCpu(d, Len(args)) /\ KeepsAll(c, d) /\ d.sp = c.sp - 1 /\ d.status = c.status /\ d.reg = c.reg
      /\ \A z \in Slots(Len(args)) : d.stack[z] = IF z = c.sp - 1 THEN Event ELSE c.stack[z]
  <2>1. PushIsNext(c, w, args, Event)
    BY <1>1, <1>2, StubIs DEF PushIsNext
  <2> QED BY <2>1, PushRuns
<1> HIDE DEF d
<1>4. /\ c.next \in 1..n + 11 /\ c.next # 1 /\ c.next > 1 /\ ~(c.next <= n + 2) /\ ~(c.next <= n + 3) /\ c.next <= n + 8 /\ c.next <= n + 9 /\ c.next <= n + 10
      /\ c.next > n + 3 /\ c.next > n + 4 /\ c.next > n + 5 /\ ~(c.next > n + 6) /\ ~(c.next > n + 8) /\ ~(c.next > n + 10)
      /\ c.next # n + 3 /\ c.next # n + 4 /\ c.next # n + 5 /\ c.next # n + 7 /\ c.next # n + 8 /\ c.next # n + 9 /\ c.next # n + 10
  BY <1>1
<1>5. c.sp = -2 /\ c.reg["bp"] = -1 /\ c.stack[0] = ReturnAddress /\ c.calls = <<c.calls[1]>> /\ c.status = Answer /\ c.stack[-2] = 0
  BY <1>1, <1>4 DEF WowStack, WowCalls
<1>6. d.next = n + 7 /\ d.calls = c.calls
  BY <1>1, <1>3 DEF KeepsAll
<1>7. d.sp = -3 /\ d.reg["bp"] = -1 /\ d.stack[0] = ReturnAddress /\ d.status = Answer /\ d.calls[1] = c.calls[1] /\ d.stack[-2] = 0 /\ d.stack[-3] = Event
  <2>1. c.sp - 1 = -3 /\ 0 # -3 /\ -2 # -3
    BY <1>5
  <2> QED BY <1>1, <1>3, <1>5, <1>6, <2>1
<1>8. /\ d.next \in 1..n + 11 /\ d.next # 1 /\ d.next > 1 /\ ~(d.next <= n + 2) /\ ~(d.next <= n + 3) /\ d.next <= n + 8 /\ d.next <= n + 9 /\ d.next <= n + 10
      /\ d.next > n + 3 /\ d.next > n + 4 /\ d.next > n + 5 /\ d.next > n + 6 /\ ~(d.next > n + 8) /\ ~(d.next > n + 10)
      /\ d.next # n + 3 /\ d.next # n + 4 /\ d.next # n + 5 /\ d.next # n + 6 /\ d.next # n + 8 /\ d.next # n + 9 /\ d.next # n + 10
  <2>1. n \in Nat /\ d.next = n + 7
    BY <1>1, <1>6
  <2> QED BY <2>1
<1>9. WowStack(d, n)
  BY <1>5, <1>6, <1>7, <1>8 DEF WowStack
<1>10. WowCalls(d, n)
  BY <1>5, <1>6, <1>7, <1>8 DEF WowCalls
<1> QED BY <1>1, <1>3, <1>8, <1>9, <1>10 DEF WowParts, d

\* The address of what sets it is put in a register.
LEMMA WowAimsAtEvent ==
    ASSUME NEW c, NEW w, NEW args, NEW n, WowRuns(c, w, args, n), c.next = n + 7
    PROVE  WowParts(Code!RunOne(c, w, args), args, n)
<1> DEFINE d == Code!RunOne(c, w, args)
<1>1. /\ n = Len(args) /\ n \in Nat /\ IsCpu(c, Len(args)) /\ WowStack(c, n) /\ WowCalls(c, n) /\ args \in Seq(Int)
      /\ 0 \in Slots(n) /\ -1 \in Slots(n) /\ -2 \in Slots(n) /\ -3 \in Slots(n)
  BY WowFacts
<1>2. Instruction(c, w, args) = Code!Mov("ax", SetEvent)
  <2>1. Code!CallCode(w, args)[n + 7] = Code!Mov("ax", SetEvent)
    BY WowCode
  <2> QED BY <2>1 DEF Instruction
<1>3. /\ IsCpu(d, Len(args)) /\ KeepsAll(c, d) /\ d.sp = c.sp /\ d.status = c.status /\ d.stack = c.stack
      /\ d.reg["ax"] = SetEvent /\ \A q \in Registers \ {"ax"} : d.reg[q] = c.reg[q]
  <2>1. MovIsNext(c, w, args, "ax", SetEvent)
    BY <1>1, <1>2, StubIs DEF MovIsNext, Registers
  <2> QED BY <2>1, MovRuns
<1> HIDE DEF d
<1>4. /\ c.next \in 1..n + 11 /\ c.next # 1 /\ c.next > 1 /\ ~(c.next <= n + 2) /\ ~(c.next <= n + 3) /\ c.next <= n + 8 /\ c.next <= n + 9 /\ c.next <= n + 10
      /\ c.next > n + 3 /\ c.next > n + 4 /\ c.next > n + 5 /\ c.next > n + 6 /\ ~(c.next > n + 8) /\ ~(c.next > n + 10)
      /\ c.next # n + 3 /\ c.next # n + 4 /\ c.next # n + 5 /\ c.next # n + 6 /\ c.next # n + 8 /\ c.next # n + 9 /\ c.next # n + 10
  BY <1>1
<1>5. c.sp = -3 /\ c.reg["bp"] = -1 /\ c.stack[0] = ReturnAddress /\ c.calls = <<c.calls[1]>> /\ c.status = Answer /\ c.stack[-2] = 0 /\ c.stack[-3] = Event
  BY <1>1, <1>4 DEF WowStack, WowCalls
<1>6. d.next = n + 8 /\ d.calls = c.calls
  BY <1>1, <1>3 DEF KeepsAll
<1>7. d.sp = -3 /\ d.reg["bp"] = -1 /\ d.stack[0] = ReturnAddress /\ d.status = Answer /\ d.calls[1] = c.calls[1] /\ d.stack[-2] = 0 /\ d.stack[-3] = Event
      /\ d.reg["ax"] = SetEvent
  <2>1. "bp" \in Registers \ {"ax"}
    BY DEF Registers
  <2> QED BY <1>1, <1>3, <1>5, <1>6, <2>1
<1>8. /\ d.next \in 1..n + 11 /\ d.next # 1 /\ d.next > 1 /\ ~(d.next <= n + 2) /\ ~(d.next <= n + 3) /\ d.next <= n + 8 /\ d.next <= n + 9 /\ d.next <= n + 10
      /\ d.next > n + 3 /\ d.next > n + 4 /\ d.next > n + 5 /\ d.next > n + 6 /\ ~(d.next > n + 8) /\ ~(d.next > n + 10)
      /\ d.next # n + 3 /\ d.next # n + 4 /\ d.next # n + 5 /\ d.next # n + 6 /\ d.next # n + 7 /\ d.next # n + 9 /\ d.next # n + 10
  <2>1. n \in Nat /\ d.next = n + 8
    BY <1>1, <1>6
  <2> QED BY <2>1
<1>9. WowStack(d, n)
  BY <1>5, <1>6, <1>7, <1>8 DEF WowStack
<1>10. WowCalls(d, n)
  BY <1>5, <1>6, <1>7, <1>8 DEF WowCalls
<1> QED BY <1>1, <1>3, <1>8, <1>9, <1>10 DEF WowParts, d

\* The frame is closed.
LEMMA WowLeaves ==
    ASSUME NEW c, NEW w, NEW args, NEW n, WowRuns(c, w, args, n), c.next = n + 9
    PROVE  WowParts(Code!RunOne(c, w, args), args, n)
<1> DEFINE d == Code!RunOne(c, w, args)
<1>1. /\ n = Len(args) /\ n \in Nat /\ IsCpu(c, Len(args)) /\ WowStack(c, n) /\ WowCalls(c, n) /\ args \in Seq(Int)
      /\ 0 \in Slots(n) /\ -1 \in Slots(n) /\ -2 \in Slots(n) /\ -3 \in Slots(n)
  BY WowFacts
<1>2. Instruction(c, w, args) = Code!Op("leave")
  <2>1. Code!CallCode(w, args)[n + 9] = Code!Op("leave")
    BY WowCode
  <2> QED BY <2>1 DEF Instruction
<1>4. /\ c.next \in 1..n + 11 /\ c.next # 1 /\ c.next > 1 /\ ~(c.next <= n + 2) /\ ~(c.next <= n + 3) /\ ~(c.next <= n + 8) /\ c.next <= n + 9 /\ c.next <= n + 10
      /\ c.next > n + 3 /\ c.next > n + 4 /\ c.next > n + 5 /\ c.next > n + 6 /\ c.next > n + 8 /\ ~(c.next > n + 10)
      /\ c.next # n + 3 /\ c.next # n + 4 /\ c.next # n + 5 /\ c.next # n + 6 /\ c.next # n + 7 /\ c.next # n + 8 /\ c.next # n + 10
  BY <1>1
<1>5. c.reg["bp"] = -1 /\ c.stack[0] = ReturnAddress /\ c.calls = <<c.calls[1], c.calls[2]>> /\ EventSet(c.calls[2]) /\ c.status = Answer
  BY <1>1, <1>4 DEF WowStack, WowCalls
<1>3. /\ IsCpu(d, Len(args)) /\ KeepsAll(c, d) /\ d.sp = c.reg["bp"] + 1 /\ d.status = c.status /\ d.stack = c.stack
  <2>1. LeaveIsNext(c, w, args)
    BY <1>1, <1>2, <1>5 DEF LeaveIsNext
  <2> QED BY <2>1, LeaveRuns
<1> HIDE DEF d
<1>6. d.next = n + 10 /\ d.calls = c.calls
  BY <1>1, <1>3 DEF KeepsAll
<1>7. d.sp = 0 /\ d.stack[0] = ReturnAddress /\ d.status = Answer
  BY <1>3, <1>5
<1>8. /\ d.next \in 1..n + 11 /\ d.next # 1 /\ d.next > 1 /\ ~(d.next <= n + 2) /\ ~(d.next <= n + 3) /\ ~(d.next <= n + 8) /\ ~(d.next <= n + 9) /\ d.next <= n + 10
      /\ d.next > n + 3 /\ d.next > n + 4 /\ d.next > n + 5 /\ d.next > n + 6 /\ d.next > n + 8 /\ ~(d.next > n + 10)
      /\ d.next # n + 3 /\ d.next # n + 4 /\ d.next # n + 5 /\ d.next # n + 6 /\ d.next # n + 7 /\ d.next # n + 8 /\ d.next # n + 9
  <2>1. n \in Nat /\ d.next = n + 10
    BY <1>1, <1>6
  <2> QED BY <2>1
<1>9. WowStack(d, n)
  BY <1>5, <1>6, <1>7, <1>8 DEF WowStack
<1>10. WowCalls(d, n)
  BY <1>5, <1>6, <1>7, <1>8 DEF WowCalls
<1> QED BY <1>1, <1>3, <1>8, <1>9, <1>10 DEF WowParts, d

\* The thread returns, and its stack is as the convention has it.
LEMMA WowReturns ==
    ASSUME NEW c, NEW w, NEW args, NEW n, WowRuns(c, w, args, n), c.next = n + 10
    PROVE  WowParts(Code!RunOne(c, w, args), args, n)
<1> DEFINE d == Code!RunOne(c, w, args)
<1>1. /\ n = Len(args) /\ n \in Nat /\ IsCpu(c, Len(args)) /\ WowStack(c, n) /\ WowCalls(c, n) /\ args \in Seq(Int)
      /\ 0 \in Slots(n) /\ -1 \in Slots(n) /\ -2 \in Slots(n) /\ -3 \in Slots(n)
  BY WowFacts
<1>2. Instruction(c, w, args).op = "ret" /\ Instruction(c, w, args).n = n
  <2>1. Code!CallCode(w, args)[n + 10].op = "ret" /\ Code!CallCode(w, args)[n + 10].n = n
    BY WowCode
  <2> QED BY <2>1 DEF Instruction
<1>4. /\ c.next \in 1..n + 11 /\ c.next # 1 /\ c.next > 1 /\ ~(c.next <= n + 2) /\ ~(c.next <= n + 3) /\ ~(c.next <= n + 8) /\ ~(c.next <= n + 9) /\ c.next <= n + 10
      /\ c.next > n + 3 /\ c.next > n + 4 /\ c.next > n + 5 /\ c.next > n + 6 /\ c.next > n + 8 /\ ~(c.next > n + 10)
      /\ c.next # n + 3 /\ c.next # n + 4 /\ c.next # n + 5 /\ c.next # n + 6 /\ c.next # n + 7 /\ c.next # n + 8 /\ c.next # n + 9
  BY <1>1
<1>5. c.sp = 0 /\ c.stack[0] = ReturnAddress /\ c.calls = <<c.calls[1], c.calls[2]>> /\ EventSet(c.calls[2]) /\ c.status = Answer
  BY <1>1, <1>4 DEF WowStack, WowCalls
<1>3. /\ IsCpu(d, Len(args)) /\ d.calls = c.calls /\ d.next = c.next + 1 /\ d.at = c.stack[c.sp] /\ d.sp = c.sp + 1 + n
      /\ d.status = c.status
  <2>1. RetIsNext(c, w, args, n)
    BY <1>1, <1>2, <1>5 DEF RetIsNext
  <2> QED BY <2>1, RetRuns
<1> HIDE DEF d
<1>6. d.next = n + 11 /\ d.calls = c.calls
  BY <1>1, <1>3 DEF KeepsAll
<1>7. d.sp = 1 + n /\ d.at = ReturnAddress /\ d.status = Answer
  BY <1>1, <1>3, <1>5
<1>8. /\ d.next \in 1..n + 11 /\ d.next # 1 /\ d.next > 1 /\ ~(d.next <= n + 2) /\ ~(d.next <= n + 3) /\ ~(d.next <= n + 8) /\ ~(d.next <= n + 9) /\ ~(d.next <= n + 10)
      /\ d.next > n + 3 /\ d.next > n + 4 /\ d.next > n + 5 /\ d.next > n + 6 /\ d.next > n + 8 /\ d.next > n + 10
      /\ d.next # n + 3 /\ d.next # n + 4 /\ d.next # n + 5 /\ d.next # n + 6 /\ d.next # n + 7 /\ d.next # n + 8 /\ d.next # n + 9 /\ d.next # n + 10
  <2>1. n \in Nat /\ d.next = n + 11
    BY <1>1, <1>6
  <2> QED BY <2>1
<1>9. WowStack(d, n)
  BY <1>5, <1>6, <1>7, <1>8 DEF WowStack
<1>10. WowCalls(d, n)
  BY <1>5, <1>6, <1>7, <1>8 DEF WowCalls
<1> QED BY <1>1, <1>3, <1>8, <1>9, <1>10 DEF WowParts, d

\* The routine is called, and pops its arguments.
LEMMA WowCallsRoutine ==
    ASSUME NEW c, NEW w, NEW args, NEW n, WowRuns(c, w, args, n), c.next = n + 3
    PROVE  WowParts(Code!RunOne(c, w, args), args, n)
<1> DEFINE d == Code!RunOne(c, w, args)
           call == CallOf(c, w, args)
<1>1. /\ n = Len(args) /\ n \in Nat /\ IsCpu(c, Len(args)) /\ WowStack(c, n) /\ WowCalls(c, n) /\ args \in Seq(Int)
      /\ 0 \in Slots(n) /\ -1 \in Slots(n) /\ -2 \in Slots(n) /\ -3 \in Slots(n) /\ IsWow(w)
  BY WowFacts
<1>2. Instruction(c, w, args) = Code!Op("call")
  <2>1. Code!CallCode(w, args)[n + 3] = Code!Op("call")
    BY WowCode
  <2> QED BY <2>1 DEF Instruction
<1>3. /\ c.next \in 1..n + 11 /\ c.next # 1 /\ c.next > 1 /\ ~(c.next <= n + 2) /\ c.next <= n + 3 /\ c.next <= n + 8 /\ c.next <= n + 9 /\ c.next <= n + 10
      /\ ~(c.next > n + 3) /\ ~(c.next > n + 4) /\ ~(c.next > n + 5) /\ ~(c.next > n + 6) /\ ~(c.next > n + 8) /\ ~(c.next > n + 10)
      /\ c.next # n + 4 /\ c.next # n + 5 /\ c.next # n + 6 /\ c.next # n + 7 /\ c.next # n + 8 /\ c.next # n + 9 /\ c.next # n + 10
  BY <1>1
<1>4. c.sp = 0 - (n + 1) /\ c.reg["bp"] = -1 /\ c.stack[0] = ReturnAddress /\ c.calls = <<>> /\ c.reg["ax"] = Routine
  BY <1>1, <1>3 DEF WowStack, WowCalls
<1>5. /\ IsCpu(d, Len(args)) /\ d.at = c.at /\ d.next = c.next + 1 /\ d.status = c.status
      /\ d.calls = Append(c.calls, call)
      /\ d.sp = IF w THEN c.sp + Count(c, args) ELSE c.sp
      /\ d.reg["ax"] = Answer /\ d.reg["bp"] = c.reg["bp"]
      /\ \A x \in Slots(Len(args)) :
           w \/ c.reg["ax"] = SetEvent \/ x \notin c.sp..c.sp + 3 => d.stack[x] = c.stack[x]
  <2>1. CallIsNext(c, w, args)
    BY <1>1, <1>2 DEF CallIsNext, IsWow
  <2> QED BY <2>1, CallRuns
<1> HIDE DEF d, call
<1>6. d.next = n + 4 /\ d.stack[0] = ReturnAddress
  BY <1>1, <1>4, <1>5 DEF IsWow
<1>7. d.sp = -1 /\ d.calls = <<d.calls[1]>> /\ d.reg["bp"] = -1
  <2>1. Count(c, args) = n
    BY <1>1, <1>4, StubIs DEF Count
  <2>2. d.sp = -1
    BY <1>1, <1>4, <1>5, <2>1 DEF IsWow
  <2>3. d.calls = <<call>>
    BY <1>4, <1>5
  <2>4. d.calls[1] = call
    BY <2>3
  <2> QED BY <1>4, <1>5, <2>2, <2>3, <2>4
<1>8. /\ d.next \in 1..n + 11 /\ d.next # 1 /\ d.next > 1 /\ ~(d.next <= n + 2) /\ ~(d.next <= n + 3) /\ d.next <= n + 8 /\ d.next <= n + 9 /\ d.next <= n + 10
      /\ d.next > n + 3 /\ ~(d.next > n + 4) /\ ~(d.next > n + 5) /\ ~(d.next > n + 6) /\ ~(d.next > n + 8) /\ ~(d.next > n + 10)
      /\ d.next # n + 3 /\ d.next # n + 5 /\ d.next # n + 6 /\ d.next # n + 7 /\ d.next # n + 8 /\ d.next # n + 9 /\ d.next # n + 10
  <2>1. n \in Nat /\ d.next = n + 4
    BY <1>1, <1>6
  <2> QED BY <2>1
<1>9. WowStack(d, n)
  BY <1>4, <1>5, <1>6, <1>7, <1>8 DEF WowStack
<1>10. WowCalls(d, n)
  BY <1>4, <1>5, <1>6, <1>7, <1>8 DEF WowCalls
<1> QED BY <1>1, <1>5, <1>8, <1>9, <1>10 DEF WowParts, d

\* The event is set.
LEMMA WowSetsEvent ==
    ASSUME NEW c, NEW w, NEW args, NEW n, WowRuns(c, w, args, n), c.next = n + 8
    PROVE  WowParts(Code!RunOne(c, w, args), args, n)
<1> DEFINE d == Code!RunOne(c, w, args)
           call == CallOf(c, w, args)
<1>1. /\ n = Len(args) /\ n \in Nat /\ IsCpu(c, Len(args)) /\ WowStack(c, n) /\ WowCalls(c, n) /\ args \in Seq(Int)
      /\ 0 \in Slots(n) /\ -1 \in Slots(n) /\ -2 \in Slots(n) /\ -3 \in Slots(n) /\ IsWow(w)
  BY WowFacts
<1>2. Instruction(c, w, args) = Code!Op("call")
  <2>1. Code!CallCode(w, args)[n + 8] = Code!Op("call")
    BY WowCode
  <2> QED BY <2>1 DEF Instruction
<1>3. /\ c.next \in 1..n + 11 /\ c.next # 1 /\ c.next > 1 /\ ~(c.next <= n + 2) /\ ~(c.next <= n + 3) /\ c.next <= n + 8 /\ c.next <= n + 9 /\ c.next <= n + 10
      /\ c.next > n + 3 /\ c.next > n + 4 /\ c.next > n + 5 /\ c.next > n + 6 /\ ~(c.next > n + 8) /\ ~(c.next > n + 10)
      /\ c.next # n + 3 /\ c.next # n + 4 /\ c.next # n + 5 /\ c.next # n + 6 /\ c.next # n + 7 /\ c.next # n + 9 /\ c.next # n + 10
  BY <1>1
<1>4. c.sp = -3 /\ c.reg["bp"] = -1 /\ c.stack[0] = ReturnAddress /\ c.calls = <<c.calls[1]>> /\ c.reg["ax"] = SetEvent /\ c.status = Answer
      /\ c.stack[-2] = 0 /\ c.stack[-3] = Event
  BY <1>1, <1>3 DEF WowStack, WowCalls
<1>5. /\ IsCpu(d, Len(args)) /\ d.at = c.at /\ d.next = c.next + 1 /\ d.status = c.status
      /\ d.calls = Append(c.calls, call)
      /\ d.sp = IF w THEN c.sp + Count(c, args) ELSE c.sp
      /\ d.reg["ax"] = Answer /\ d.reg["bp"] = c.reg["bp"]
      /\ \A x \in Slots(Len(args)) :
           w \/ c.reg["ax"] = SetEvent \/ x \notin c.sp..c.sp + 3 => d.stack[x] = c.stack[x]
  <2>1. CallIsNext(c, w, args)
    BY <1>1, <1>2 DEF CallIsNext, IsWow
  <2> QED BY <2>1, CallRuns
<1>51. EventSet(call)
  <2>1. Count(c, args) = 2
    BY <1>4 DEF Count
  <2>2. Seen(c, w, 2) = <<c.stack[-3], c.stack[-2]>>
    <3>1. Seen(c, w, 2) = [i \in 1..2 |-> c.stack[c.sp + i - 1]]
      BY <1>1 DEF Seen, IsWow
    <3>2. c.sp + 1 - 1 = -3 /\ c.sp + 2 - 1 = -2
      BY <1>4
    <3> QED BY <3>1, <3>2
  <2>3. call.fn = SetEvent /\ call.status = Answer
    BY <1>4 DEF CallOf
  <2>4. call.args = <<Event, 0>>
    BY <1>4, <2>1, <2>2 DEF CallOf
  <2> QED BY <2>3, <2>4 DEF EventSet
<1> HIDE DEF d, call
<1>6. d.next = n + 9 /\ d.stack[0] = ReturnAddress
  BY <1>1, <1>4, <1>5 DEF IsWow
<1>7. d.sp = -1 /\ d.calls = <<d.calls[1], d.calls[2]>> /\ EventSet(d.calls[2]) /\ d.reg["bp"] = -1
  <2>1. Count(c, args) = 2
    BY <1>4 DEF Count
  <2>2. d.sp = -1
    BY <1>1, <1>4, <1>5, <2>1 DEF IsWow
  <2> DEFINE first == c.calls[1]
  <2>3. d.calls = Append(<<first>>, call)
    BY <1>4, <1>5
  <2> HIDE DEF first
  <2>4. d.calls = <<first, call>>
    BY <2>3, SecondAppended
  <2>5. d.calls[1] = first /\ d.calls[2] = call
    BY <2>4
  <2>6. d.calls = <<d.calls[1], d.calls[2]>>
    BY <2>4, <2>5
  <2> QED BY <1>4, <1>5, <1>51, <2>2, <2>5, <2>6
<1>8. /\ d.next \in 1..n + 11 /\ d.next # 1 /\ d.next > 1 /\ ~(d.next <= n + 2) /\ ~(d.next <= n + 3) /\ ~(d.next <= n + 8) /\ d.next <= n + 9 /\ d.next <= n + 10
      /\ d.next > n + 3 /\ d.next > n + 4 /\ d.next > n + 5 /\ d.next > n + 6 /\ d.next > n + 8 /\ ~(d.next > n + 10)
      /\ d.next # n + 3 /\ d.next # n + 4 /\ d.next # n + 5 /\ d.next # n + 6 /\ d.next # n + 7 /\ d.next # n + 8 /\ d.next # n + 10
  <2>1. n \in Nat /\ d.next = n + 9
    BY <1>1, <1>6
  <2> QED BY <2>1
<1>9. WowStack(d, n)
  BY <1>4, <1>5, <1>6, <1>7, <1>8 DEF WowStack
<1>10. WowCalls(d, n)
  BY <1>4, <1>5, <1>6, <1>7, <1>8 DEF WowCalls
<1> QED BY <1>1, <1>5, <1>8, <1>9, <1>10 DEF WowParts, d

\* Where a number can be past the arguments pushed.
LEMMA OneOfNine ==
    ASSUME NEW n \in Nat, NEW x \in Nat, x > n + 1, x <= n + 10
    PROVE  \/ x = n + 2 \/ x = n + 3 \/ x = n + 4 \/ x = n + 5 \/ x = n + 6
           \/ x = n + 7 \/ x = n + 8 \/ x = n + 9 \/ x = n + 10
OBVIOUS

\* An instruction of a stub in a wow64 process does its part.
LEMMA WowStep ==
    ASSUME NEW c, NEW w, NEW args, NEW n, WowRuns(c, w, args, n), c.next <= Len(Code!CallCode(w, args))
    PROVE  WowParts(Code!RunOne(c, w, args), args, n)
<1> DEFINE d == Code!RunOne(c, w, args)
<1>1. n \in Nat /\ c.next \in Nat /\ c.next >= 1 /\ c.next <= n + 10
  <2>1. Len(Code!CallCode(w, args)) = n + 10
    BY WowCode
  <2>2. n \in Nat /\ c.next \in 1..n + 11
    BY DEF WowRuns, WowParts
  <2> QED BY <2>1, <2>2
<1>2. CASE c.next = 1
  BY <1>2, WowEnters
<1>3. CASE c.next > 1 /\ c.next <= n + 1
  <2> DEFINE j == c.next - 1
  <2>1. j \in 1..n /\ c.next = 1 + j
    BY <1>1, <1>3
  <2> HIDE DEF j
  <2> QED BY <2>1, WowPushes
<1>4. CASE c.next > n + 1
  <2>1. \/ c.next = n + 2 \/ c.next = n + 3 \/ c.next = n + 4 \/ c.next = n + 5 \/ c.next = n + 6
        \/ c.next = n + 7 \/ c.next = n + 8 \/ c.next = n + 9 \/ c.next = n + 10
    BY <1>1, <1>4, OneOfNine
  <2>2. c.next = n + 2 \/ c.next = n + 3 => WowParts(d, args, n)
    BY WowAims, WowCallsRoutine
  <2>3. c.next = n + 4 \/ c.next = n + 5 => WowParts(d, args, n)
    BY WowKeepsAnswer, WowPushesCount
  <2>4. c.next = n + 6 \/ c.next = n + 7 => WowParts(d, args, n)
    BY WowPushesEvent, WowAimsAtEvent
  <2>5. c.next = n + 8 \/ c.next = n + 9 => WowParts(d, args, n)
    BY WowSetsEvent, WowLeaves
  <2>6. c.next = n + 10 => WowParts(d, args, n)
    BY WowReturns
  <2> QED BY <2>1, <2>2, <2>3, <2>4, <2>5, <2>6
<1> QED BY <1>1, <1>2, <1>3, <1>4

\* Such a stub begins with its first instruction.
LEMMA WowBegins ==
    ASSUME NEW args \in Seq(Int)
    PROVE  WowParts(Code!Entered(Len(args)), args, Len(args))
<1> DEFINE n == Len(args)
           c == Code!Entered(Len(args))
<1>1. n \in Nat
  OBVIOUS
<1>2. IsCpu(c, n) /\ c.next = 1 /\ c.sp = 0 /\ c.calls = <<>> /\ c.stack[0] = ReturnAddress
  BY <1>1, EnteredIs
<1> HIDE DEF n, c
<1>3. WowStack(c, n)
  BY <1>1, <1>2 DEF WowStack
<1>4. WowCalls(c, n)
  BY <1>1, <1>2 DEF WowCalls
<1>5. c.next \in 1..n + 11
  BY <1>1, <1>2
<1> QED BY <1>1, <1>2, <1>3, <1>4, <1>5 DEF WowParts, n, c

\* What a native stub has done when its routine is called, and at its end.
LEMMA NativeGives ==
    ASSUME NEW args \in Seq(Int), Fits(args), NEW w, IsNative(w), NEW c, Native(c, args)
    PROVE  /\ c.calls # <<>> => RoutineCalled(c.calls[1], args)
           /\ ~(c.next <= Len(Code!CallCode(w, args))) =>
                /\ Len(c.calls) = 2 /\ EventSet(c.calls[2]) /\ c.at = ReturnAddress /\ c.sp = 1
<1> DEFINE m == InRegisters(args)
           k == OnStack(args)
           a == Edge(args)
           frame == Code!Frame64(Len(args))
<1>1. NativeSizes(args, m, k, a, frame) /\ NativeParts(c, args, m, k, a, frame)
  BY NativeSizesAre DEF Native
<1> HIDE DEF m, k, a, frame
<1>2. a \in Nat
  BY <1>1, NativeNumbers
<1>3. c.next \in Nat /\ NativeStack(c, a, frame) /\ NativeCalls(c, args, a)
  BY <1>1, NativeFacts
<1>4. c.calls # <<>> => RoutineCalled(c.calls[1], args)
  <2>1. c.next <= a + 2 \/ c.next > a + 2
    BY <1>2, <1>3
  <2> QED BY <1>3, <2>1 DEF NativeCalls
<1>5. ASSUME ~(c.next <= Len(Code!CallCode(w, args)))
      PROVE  /\ Len(c.calls) = 2 /\ EventSet(c.calls[2]) /\ c.at = ReturnAddress /\ c.sp = 1
  <2>1. Len(Code!CallCode(w, args)) = a + 13
    BY <1>1, NativeTail
  <2>2. c.next > a + 13 /\ c.next > a + 8 /\ ~(c.next <= 5) /\ ~(c.next <= a + 3) /\ ~(c.next <= a + 13)
    BY <1>2, <1>3, <1>5, <2>1
  <2>3. c.sp = 1 /\ c.at = ReturnAddress
    BY <1>3, <2>2 DEF NativeStack
  <2>4. c.calls = <<c.calls[1], c.calls[2]>> /\ EventSet(c.calls[2])
    BY <1>3, <2>2 DEF NativeCalls
  <2> DEFINE x == c.calls[1]
             y == c.calls[2]
  <2>5. c.calls = <<x, y>>
    BY <2>4
  <2> HIDE DEF x, y
  <2>6. Len(c.calls) = 2
    BY <2>5
  <2> QED BY <2>3, <2>4, <2>6
<1> QED BY <1>4, <1>5

\* What a stub in a wow64 process has done at its end.
LEMMA WowGives ==
    ASSUME NEW c, NEW w, NEW args, NEW n, WowRuns(c, w, args, n), ~(c.next <= Len(Code!CallCode(w, args)))
    PROVE  Len(c.calls) = 2 /\ EventSet(c.calls[2]) /\ c.at = ReturnAddress /\ c.sp = 1 + n
<1>1. n \in Nat /\ c.next \in 1..n + 11 /\ WowStack(c, n) /\ WowCalls(c, n)
  BY DEF WowRuns, WowParts
<1>2. c.next > n + 10 /\ c.next > n + 8
  <2>1. Len(Code!CallCode(w, args)) = n + 10
    BY WowCode
  <2> QED BY <1>1, <2>1
<1>3. c.sp = 1 + n /\ c.at = ReturnAddress
  BY <1>1, <1>2 DEF WowStack
<1>4. c.calls = <<c.calls[1], c.calls[2]>> /\ EventSet(c.calls[2])
  BY <1>1, <1>2 DEF WowCalls
<1> DEFINE x == c.calls[1]
           y == c.calls[2]
<1>5. c.calls = <<x, y>>
  BY <1>4
<1> HIDE DEF x, y
<1>6. Len(c.calls) = 2
  BY <1>5
<1> QED BY <1>3, <1>4, <1>6

-----------------------------------------------------------------------------
(* Division with rest.                                                     *)

\* A number is what it holds of another, and a rest.
LEMMA Division ==
    ASSUME NEW x \in Int, NEW n \in Nat \ {0}
    PROVE  x \div n \in Int /\ x % n \in 0..n - 1 /\ x = n * (x \div n) + (x % n)
OBVIOUS

\* Which are those.
LEMMA OneQuotient ==
    ASSUME NEW n \in Nat \ {0}, NEW q \in Int, NEW e \in Int, NEW r \in 0..n - 1, NEW s \in 0..n - 1,
           n * q + r = n * e + s
    PROVE  q = e /\ r = s
<1>1. CASE q = e
  BY <1>1
<1>2. CASE q >= e + 1
  <2>1. n * q >= n * (e + 1)
    BY <1>2
  <2>2. n * (e + 1) = n * e + n
    OBVIOUS
  <2> QED BY <2>1, <2>2
<1>3. CASE e >= q + 1
  <2>1. n * e >= n * (q + 1)
    BY <1>3
  <2>2. n * (q + 1) = n * q + n
    OBVIOUS
  <2> QED BY <2>1, <2>2
<1> QED BY <1>1, <1>2, <1>3

\* A quotient and a rest are those of the division.
LEMMA DivisionIs ==
    ASSUME NEW n \in Nat \ {0}, NEW q \in Int, NEW r \in 0..n - 1, NEW x \in Int, x = n * q + r
    PROVE  x \div n = q /\ x % n = r
<1> DEFINE e == x \div n
           s == x % n
<1>1. e \in Int /\ s \in 0..n - 1 /\ x = n * e + s
  BY Division
<1> HIDE DEF e, s
<1>2. n * e + s = n * q + r
  BY <1>1
<1>3. e = q /\ s = r
  BY <1>1, <1>2, OneQuotient
<1> QED BY <1>3 DEF e, s

\* What is added as a whole is lost.
LEMMA WholesAreLost ==
    ASSUME NEW n \in Nat \ {0}, NEW x \in Int, NEW k \in Int
    PROVE  (x + n * k) % n = x % n
<1> DEFINE e == x \div n
           s == x % n
<1>1. e \in Int /\ s \in 0..n - 1 /\ x = n * e + s
  BY Division
<1> HIDE DEF e, s
<1>2. n * (e + k) = n * e + n * k /\ e + k \in Int
  BY <1>1
<1>3. n * k \in Int /\ n * e \in Int
  BY <1>1
<1>4. x + n * k = n * (e + k) + s /\ x + n * k \in Int
  BY <1>1, <1>2, <1>3
<1>5. (x + n * k) % n = s
  BY <1>1, <1>2, <1>4, DivisionIs
<1> QED BY <1>5 DEF s

\* A rest of a multiple is as good as the number.
LEMMA RestsAdd ==
    ASSUME NEW n \in Nat \ {0}, NEW k \in Nat \ {0}, NEW x \in Int, NEW d \in Int
    PROVE  (x + (d % (n * k))) % n = (x + d) % n
<1> DEFINE q == n * k
           e == d \div q
           r == d % q
<1>1. q \in Nat \ {0}
  OBVIOUS
<1> HIDE DEF q
<1>2. e \in Int /\ r \in Int /\ d = q * e + r
  BY <1>1, Division
<1> HIDE DEF e, r
<1>3. k * e \in Int /\ q * e = n * (k * e)
  BY <1>2 DEF q
<1> DEFINE f == k * e
<1>4. f \in Int /\ d = n * f + r
  BY <1>2, <1>3
<1> HIDE DEF f
<1>5. n * f \in Int
  BY <1>4
<1>6. x + d = (x + r) + n * f
  BY <1>2, <1>4, <1>5
<1>7. ((x + r) + n * f) % n = (x + r) % n
  <2> DEFINE y == x + r
  <2>1. y \in Int
    BY <1>2
  <2> HIDE DEF y
  <2>2. (y + n * f) % n = y % n
    BY <1>4, <2>1, WholesAreLost
  <2> QED BY <2>2 DEF y
<1> QED BY <1>6, <1>7 DEF r, q

\* So is a rest of a number to which something is added.
LEMMA RestAdds ==
    ASSUME NEW n \in Nat \ {0}, NEW x \in Int, NEW d \in Int
    PROVE  ((x % n) + d) % n = (x + d) % n
<1> DEFINE e == x \div n
           r == x % n
<1>1. e \in Int /\ r \in Int /\ x = n * e + r
  BY Division
<1> HIDE DEF e, r
<1>2. n * e \in Int
  BY <1>1
<1>3. x + d = (r + d) + n * e
  BY <1>1, <1>2
<1>4. ((r + d) + n * e) % n = (r + d) % n
  <2> DEFINE y == r + d
  <2>1. y \in Int
    BY <1>1
  <2> HIDE DEF y
  <2>2. (y + n * e) % n = y % n
    BY <1>1, <2>1, WholesAreLost
  <2> QED BY <2>2 DEF y
<1> QED BY <1>3, <1>4 DEF r

\* A number in two digits.
LEMMA TwoDigits ==
    ASSUME NEW n \in Nat \ {0}, NEW v \in 0..n * n - 1
    PROVE  /\ v % n \in 0..n - 1 /\ v \div n \in 0..n - 1 /\ (v \div n) % n = v \div n
           /\ (v % n) + n * (v \div n) = v
<1> DEFINE q == v \div n
           r == v % n
<1>1. n * n \in Nat /\ v \in Int
  OBVIOUS
<1>2. q \in Int /\ r \in 0..n - 1 /\ v = n * q + r
  BY <1>1, Division
<1> HIDE DEF q, r
<1>3. q >= 0
  <2>1. CASE q <= -1
    <3>1. n * q <= n * (-1)
      BY <1>2, <2>1
    <3>2. n * (-1) = -n /\ n * q \in Int
      BY <1>2
    <3> QED BY <1>2, <3>1, <3>2
  <2> QED BY <1>2, <2>1
<1>4. q <= n - 1
  <2>1. CASE q >= n
    <3>1. n * q >= n * n
      BY <1>2, <2>1
    <3>2. n * q \in Int
      BY <1>2
    <3> QED BY <1>1, <1>2, <3>1, <3>2
  <2> QED BY <1>2, <2>1
<1>5. q \in 0..n - 1
  BY <1>2, <1>3, <1>4
<1>6. q % n = q
  <2>1. n * 0 = 0
    OBVIOUS
  <2>2. q = n * 0 + q
    BY <1>2, <2>1
  <2> QED BY <1>5, <2>2, DivisionIs
<1>7. r + n * q = v
  <2>1. n * q \in Int
    BY <1>2
  <2> QED BY <1>2, <2>1
<1> QED BY <1>2, <1>5, <1>6, <1>7 DEF q, r

\* A half is its signed value, up to a whole.
LEMMA SignedIs ==
    ASSUME NEW h \in Nat \ {0}, NEW x \in 0..(h + h) - 1, NEW s, s = IF x >= h THEN x - (h + h) ELSE x
    PROVE  s \in (-h)..h - 1 /\ (s = x \/ s = x - (h + h))
OBVIOUS

\* Two signed values that differ by wholes are one.
LEMMA SignedOne ==
    ASSUME NEW h \in Nat \ {0}, NEW n, n = h + h, NEW s \in (-h)..h - 1, NEW t \in (-h)..h - 1, NEW q \in Int, s = t + n * q
    PROVE  s = t
<1>1. n * q \in Int /\ n \in Nat \ {0}
  OBVIOUS
<1>2. n * q \in (-n) + 1..n - 1
  BY <1>1
<1>3. CASE q >= 1
  <2>1. n * q >= n * 1
    BY <1>1, <1>3
  <2> QED BY <1>1, <1>2, <2>1
<1>4. CASE q <= -1
  <2>1. n * q <= n * (-1)
    BY <1>1, <1>4
  <2>2. n * (-1) = -n
    BY <1>1
  <2> QED BY <1>1, <1>2, <2>1, <2>2
<1>5. CASE q = 0
  <2>1. n * q = 0
    BY <1>1, <1>5
  <2> QED BY <2>1
<1> QED BY <1>3, <1>4, <1>5

Sign(h, x) == IF x >= h THEN x - (h + h) ELSE x

\* What the sign of a half is.
LEMMA SignIs ==
    ASSUME NEW h \in Nat \ {0}, NEW n, n = h + h, NEW x \in 0..n - 1
    PROVE  Sign(h, x) \in (-h)..h - 1 /\ \E e \in 0..1 : Sign(h, x) = x - n * e
<1>1. Sign(h, x) \in (-h)..h - 1 /\ (Sign(h, x) = x \/ Sign(h, x) = x - n)
  BY DEF Sign
<1>2. n * 0 = 0 /\ n * 1 = n /\ 0 \in 0..1 /\ 1 \in 0..1
  OBVIOUS
<1>3. CASE Sign(h, x) = x
  <2>1. Sign(h, x) = x - n * 0
    BY <1>2, <1>3
  <2> QED BY <1>1, <1>2, <2>1
<1>4. CASE Sign(h, x) = x - n
  <2>1. Sign(h, x) = x - n * 1
    BY <1>2, <1>4
  <2> QED BY <1>1, <1>2, <2>1
<1> QED BY <1>1, <1>3, <1>4

Halved(h, n, hi, lo, d, g, k) ==
  /\ h \in Nat \ {0} /\ n = h + h /\ hi \in Int /\ lo \in 0..n - 1 /\ d \in Int /\ g \in Int
  /\ k \in Int /\ d = n * k + g

\* The low half an address is left with is, signed, what its high half was rounded by.
LEMMA LowIsTheRest ==
    ASSUME NEW h, NEW n, NEW hi, NEW lo, NEW d, NEW g, NEW k, Halved(h, n, hi, lo, d, g, k)
    PROVE  LET a == n * hi + Sign(h, lo) + g + h
           IN  Sign(h, (lo + d) % n) = (a % n) - h
<1> DEFINE s == Sign(h, lo)
           a == n * hi + s + g + h
           q == a \div n
           z == a % n
           l == (lo + d) % n
           f == (lo + d) \div n
           t == Sign(h, l)
<1>0. /\ h \in Nat \ {0} /\ n = h + h /\ n \in Nat \ {0} /\ hi \in Int /\ lo \in 0..n - 1 /\ d \in Int /\ g \in Int
      /\ k \in Int /\ d = n * k + g
  BY DEF Halved
<1>1. PICK e3 \in 0..1 : s = lo - n * e3
  BY <1>0, SignIs
<1>2. s \in Int /\ a \in Int /\ n * hi \in Int
  BY <1>0, SignIs
<1>3. lo + d \in Int
  BY <1>0
<1> HIDE DEF s, a
<1>4. q \in Int /\ z \in 0..n - 1 /\ a = n * q + z
  BY <1>0, <1>2, Division
<1>5. f \in Int /\ l \in 0..n - 1 /\ lo + d = n * f + l
  <2> DEFINE y == lo + d
  <2>1. y \in Int
    BY <1>3
  <2> HIDE DEF y
  <2>2. y \div n \in Int /\ y % n \in 0..n - 1 /\ y = n * (y \div n) + (y % n)
    BY <1>0, <2>1, Division
  <2> QED BY <2>2 DEF y
<1> HIDE DEF q, z, l, f
<1>6. PICK e4 \in 0..1 : t = l - n * e4
  BY <1>0, <1>5, SignIs
<1>7. t \in (-h)..h - 1
  BY <1>0, <1>5, SignIs
<1> HIDE DEF t
<1>8. z - h \in (-h)..h - 1
  BY <1>0, <1>4
<1> DEFINE e == k - f - e4 - hi + e3 + q
<1>9. e \in Int
  BY <1>0, <1>1, <1>4, <1>5, <1>6
<1>10. t = (z - h) + n * e
  <2>1. n * e = n * k - n * f - n * e4 - n * hi + n * e3 + n * q
    BY <1>0, <1>1, <1>4, <1>5, <1>6
  <2>2. /\ n * k \in Int /\ n * f \in Int /\ n * e4 \in Int /\ n * hi \in Int /\ n * e3 \in Int /\ n * q \in Int
    BY <1>0, <1>1, <1>4, <1>5, <1>6
  <2> DEFINE nk == n * k
             nf == n * f
             n4 == n * e4
             nh == n * hi
             n3 == n * e3
             nq == n * q
             ne == n * e
  <2>3. /\ nk \in Int /\ nf \in Int /\ n4 \in Int /\ nh \in Int /\ n3 \in Int /\ nq \in Int
        /\ ne = nk - nf - n4 - nh + n3 + nq
        /\ s = lo - n3 /\ t = l - n4 /\ lo + d = nf + l /\ d = nk + g /\ a = nq + z /\ a = nh + s + g + h
    BY <1>1, <1>4, <1>5, <1>6, <1>0, <2>1, <2>2 DEF a
  <2> HIDE DEF nk, nf, n4, nh, n3, nq, ne, e
  <2>4. s \in Int /\ z \in Int /\ l \in Int /\ a \in Int
    BY <1>2, <1>4, <1>5
  <2>5. t = (z - h) + ne
    BY <1>0, <2>3, <2>4
  <2> QED BY <2>5 DEF ne
<1> HIDE DEF e
<1>11. t = z - h
  <2> DEFINE y == z - h
  <2>1. y \in (-h)..h - 1 /\ t = y + n * e
    BY <1>8, <1>10
  <2> HIDE DEF y
  <2>2. t = y
    BY <1>0, <1>7, <1>9, <2>1, SignedOne
  <2> QED BY <2>2 DEF y
<1> QED BY <1>11 DEF t, z, l, a, s

IsSplit(h, n, hi, lo, d) == h \in Nat \ {0} /\ n = h + h /\ hi \in Int /\ lo \in 0..n - 1 /\ d \in Int

\* A split address moves by the distance, whatever its halves carry.
LEMMA SplitMoves ==
    ASSUME NEW h, NEW n, NEW hi, NEW lo, NEW d, IsSplit(h, n, hi, lo, d)
    PROVE  LET g == d % (n * n)
               high == ((n * hi + Sign(h, lo) + g + h) \div n) % n
               low == (lo + d) % n
           IN  (n * high + Sign(h, low)) % (n * n) = (n * hi + Sign(h, lo) + d) % (n * n)
<1> DEFINE w == n * n
           s == Sign(h, lo)
           g == d % w
           k == d \div w
           a == n * hi + s + g + h
           q == a \div n
           z == a % n
           high == q % n
           f == q \div n
           t == Sign(h, (lo + d) % n)
<1>0. n \in Nat \ {0} /\ h \in Nat \ {0} /\ n = h + h /\ hi \in Int /\ lo \in 0..n - 1 /\ d \in Int
  BY DEF IsSplit
<1>00. w \in Nat \ {0}
  BY <1>0
<1>1. s \in Int
  BY <1>0, SignIs
<1> HIDE DEF w
<1>2. k \in Int /\ g \in Int /\ d = w * k + g
  <2>1. d \in Int
    BY <1>0
  <2> QED BY <1>00, <2>1, Division
<1> HIDE DEF s, g, k
<1>3. w * k = n * (n * k) /\ n * k \in Int
  BY <1>0, <1>00, <1>2 DEF w
<1>4. t = z - h
  <2> DEFINE j == n * k
  <2>1. j \in Int /\ d = n * j + g
    BY <1>2, <1>3
  <2> HIDE DEF j
  <2>2. Halved(h, n, hi, lo, d, g, j)
    BY <1>0, <1>2, <2>1 DEF Halved
  <2>3. Sign(h, (lo + d) % n) = ((n * hi + Sign(h, lo) + g + h) % n) - h
    BY <2>2, LowIsTheRest
  <2> QED BY <2>3 DEF s
<1>5. n * hi \in Int
  BY <1>0
<1>6. a \in Int
  BY <1>0, <1>1, <1>2, <1>5
<1> HIDE DEF a, t
<1>7. q \in Int /\ z \in 0..n - 1 /\ a = n * q + z
  BY <1>0, <1>6, Division
<1> HIDE DEF q, z
<1>8. f \in Int /\ high \in 0..n - 1 /\ q = n * f + high
  BY <1>0, <1>7, Division
<1> HIDE DEF f, high
<1>9. n * q = w * f + n * high /\ w * f \in Int /\ n * high \in Int
  <2>1. n * (n * f + high) = (n * n) * f + n * high
    BY <1>0, <1>8
  <2> QED BY <1>0, <1>8, <2>1 DEF w
<1>10. n * hi + s + g = (n * high + t) + w * f
  <2> DEFINE nq == n * q
             wf == w * f
             nh == n * high
             ni == n * hi
  <2>1. nq = wf + nh /\ wf \in Int /\ nh \in Int /\ ni \in Int /\ a = nq + z /\ t = z - h /\ a = ni + s + g + h
    BY <1>4, <1>5, <1>7, <1>9 DEF a
  <2> HIDE DEF nq, wf, nh, ni
  <2>2. z \in Int
    BY <1>7
  <2>3. ni + s + g = (nh + t) + wf
    BY <1>0, <1>1, <1>2, <2>1, <2>2
  <2> QED BY <2>3 DEF ni, nh, wf
<1>11. (n * hi + s + g) % w = (n * high + t) % w
  <2> DEFINE y == n * high + t
  <2>1. y \in Int /\ n * hi + s + g = y + w * f
    BY <1>4, <1>7, <1>9, <1>10
  <2> HIDE DEF y
  <2>2. (y + w * f) % w = y % w
    BY <1>0, <1>00, <1>8, <2>1, WholesAreLost
  <2> QED BY <2>1, <2>2 DEF y
<1>12. (n * hi + s + g) % w = (n * hi + s + d) % w
  <2> DEFINE y == n * hi + s
  <2>1. y \in Int
    BY <1>1, <1>5
  <2> HIDE DEF y
  <2>2. ((d % w) + y) % w = (d + y) % w
    BY <1>0, <1>00, <2>1, RestAdds
  <2>3. g + y = y + g /\ d + y = y + d
    BY <1>0, <1>2, <2>1
  <2>4. (y + g) % w = (y + d) % w
    BY <2>2, <2>3 DEF g
  <2> QED BY <2>4 DEF y
<1> QED BY <1>11, <1>12 DEF w, s, g, high, q, a, t

-----------------------------------------------------------------------------
(* Halves and addresses of an image.                                       *)

Cells == 0..HalfSize - 1

\* The sizes of halves and of addresses.
LEMMA SizesAre ==
    LET h == HalfSize \div 2
    IN  /\ HalfSize \in Nat \ {0} /\ h \in Nat \ {0} /\ HalfSize = h + h
        /\ Reloc!Long = HalfSize * HalfSize /\ Reloc!Long \in Nat \ {0}
        /\ Reloc!Quad = Reloc!Long * Reloc!Long /\ Reloc!Quad \in Nat \ {0}
        /\ \A x : Reloc!Signed(x) = Sign(h, x)
<1>1. HalfSize \in Nat \ {0} /\ HalfSize % 2 = 0
  BY ImageFilesAssumption
<1>2. HalfSize \div 2 \in Nat \ {0} /\ HalfSize = (HalfSize \div 2) + (HalfSize \div 2)
  BY <1>1
<1>3. HalfSize * HalfSize \in Nat \ {0}
  BY <1>1
<1>4. Reloc!Long = HalfSize * HalfSize /\ Reloc!Long \in Nat \ {0}
  BY <1>3 DEF Reloc!Long
<1> DEFINE l == Reloc!Long
<1>5. Reloc!Quad = l * l
  BY DEF Reloc!Quad
<1>6. l \in Nat \ {0}
  BY <1>4
<1> HIDE DEF l
<1>7. l * l \in Nat \ {0}
  BY <1>6
<1>8. ASSUME NEW x PROVE Reloc!Signed(x) = Sign(HalfSize \div 2, x)
  BY <1>2 DEF Reloc!Signed, Sign
<1> QED BY <1>1, <1>2, <1>4, <1>5, <1>7, <1>8 DEF l

\* The digits of a number smaller than that.
LEMMA LongDigits ==
    ASSUME NEW v \in 0..Reloc!Long - 1
    PROVE  /\ v % HalfSize \in Cells /\ (v \div HalfSize) % HalfSize \in Cells
           /\ (v % HalfSize) + HalfSize * ((v \div HalfSize) % HalfSize) = v
<1>1. HalfSize \in Nat \ {0} /\ v \in 0..HalfSize * HalfSize - 1
  BY SizesAre
<1>2. /\ v % HalfSize \in 0..HalfSize - 1 /\ v \div HalfSize \in 0..HalfSize - 1
      /\ (v \div HalfSize) % HalfSize = v \div HalfSize /\ (v % HalfSize) + HalfSize * (v \div HalfSize) = v
  BY <1>1, TwoDigits
<1> QED BY <1>2 DEF Cells

\* The two 32-bit digits of a 64-bit number.
LEMMA QuadDigits ==
    ASSUME NEW v \in 0..Reloc!Quad - 1
    PROVE  /\ v % Reloc!Long \in 0..Reloc!Long - 1 /\ (v \div Reloc!Long) % Reloc!Long \in 0..Reloc!Long - 1
           /\ (v % Reloc!Long) + Reloc!Long * ((v \div Reloc!Long) % Reloc!Long) = v
<1> DEFINE l == Reloc!Long
<1>1. l \in Nat \ {0} /\ v \in 0..l * l - 1
  BY SizesAre
<1> HIDE DEF l
<1>2. v % l \in 0..l - 1 /\ v \div l \in 0..l - 1 /\ (v \div l) % l = v \div l /\ (v % l) + l * (v \div l) = v
  BY <1>1, TwoDigits
<1>3. v % l \in 0..l - 1 /\ (v \div l) % l \in 0..l - 1 /\ (v % l) + l * ((v \div l) % l) = v
  BY <1>2
<1> QED BY <1>3 DEF l

\* A number is written in two halves, and read from them.
LEMMA PutLongIs ==
    ASSUME NEW P \in SUBSET Int, NEW image \in [P -> Cells], NEW p \in P, p + 1 \in P, NEW v \in 0..Reloc!Long - 1
    PROVE  LET new == Reloc!PutLong(image, p, v)
           IN  /\ new \in [P -> Cells] /\ Reloc!LongAt(new, p) = v
               /\ \A x \in P : x \notin p..p + 1 => new[x] = image[x]
<1> DEFINE lo == v % HalfSize
           hi == (v \div HalfSize) % HalfSize
           new == Reloc!PutLong(image, p, v)
<1>1. lo \in Cells /\ hi \in Cells /\ lo + HalfSize * hi = v
  BY LongDigits
<1>2. new = [image EXCEPT ![p] = lo, ![p + 1] = hi]
  BY DEF Reloc!PutLong
<1> HIDE DEF lo, hi, new
<1>3. p + 1 # p /\ p \in Int
  OBVIOUS
<1>4. new \in [P -> Cells] /\ new[p] = lo /\ new[p + 1] = hi
  BY <1>1, <1>2, <1>3
<1>5. Reloc!LongAt(new, p) = v
  BY <1>1, <1>4 DEF Reloc!LongAt
<1>6. \A x \in P : x \notin p..p + 1 => new[x] = image[x]
  <2>1. \A x \in P : x \notin p..p + 1 => x # p /\ x # p + 1
    BY <1>3
  <2> QED BY <1>2, <2>1
<1> QED BY <1>4, <1>5, <1>6 DEF new

\* What is read as 32 bits is a number.
LEMMA LongAtIs ==
    ASSUME NEW P \in SUBSET Int, NEW image \in [P -> Cells], NEW p \in P, p + 1 \in P
    PROVE  Reloc!LongAt(image, p) \in Int
<1>1. image[p] \in Int /\ image[p + 1] \in Int /\ HalfSize \in Int
  BY SizesAre DEF Cells
<1>2. HalfSize * image[p + 1] \in Int
  BY <1>1
<1> QED BY <1>1, <1>2 DEF Reloc!LongAt

\* What is read as 64 bits is a number.
LEMMA QuadAtIs ==
    ASSUME NEW P \in SUBSET Int, NEW image \in [P -> Cells], NEW p \in P, p + 1 \in P, p + 2 \in P, p + 3 \in P
    PROVE  Reloc!QuadAt(image, p) \in Int
<1>1. p + 2 + 1 = p + 3
  OBVIOUS
<1>2. Reloc!LongAt(image, p) \in Int /\ Reloc!LongAt(image, p + 2) \in Int
  BY <1>1, LongAtIs
<1>3. Reloc!Long \in Int
  BY SizesAre
<1>4. Reloc!Long * Reloc!LongAt(image, p + 2) \in Int
  BY <1>2, <1>3
<1> QED BY <1>2, <1>4 DEF Reloc!QuadAt

\* A 64-bit number is written in four halves, and read from them.
LEMMA PutQuadIs ==
    ASSUME NEW P \in SUBSET Int, NEW image \in [P -> Cells], NEW p \in P, p + 1 \in P, p + 2 \in P, p + 3 \in P,
           NEW v \in 0..Reloc!Quad - 1
    PROVE  LET new == Reloc!PutQuad(image, p, v)
           IN  /\ new \in [P -> Cells] /\ Reloc!QuadAt(new, p) = v
               /\ \A x \in P : x \notin p..p + 3 => new[x] = image[x]
<1> DEFINE lo == v % Reloc!Long
           hi == (v \div Reloc!Long) % Reloc!Long
           half == Reloc!PutLong(image, p, lo)
           new == Reloc!PutQuad(image, p, v)
<1>1. lo \in 0..Reloc!Long - 1 /\ hi \in 0..Reloc!Long - 1 /\ lo + Reloc!Long * hi = v
  BY QuadDigits
<1>2. new = Reloc!PutLong(half, p + 2, hi)
  BY DEF Reloc!PutQuad
<1> HIDE DEF lo, hi, new
<1>3. /\ half \in [P -> Cells] /\ Reloc!LongAt(half, p) = lo
      /\ \A x \in P : x \notin p..p + 1 => half[x] = image[x]
  BY <1>1, PutLongIs
<1> HIDE DEF half
<1>4. p \in Int /\ p + 2 + 1 = p + 3
  OBVIOUS
<1>5. /\ new \in [P -> Cells] /\ Reloc!LongAt(new, p + 2) = hi
      /\ \A x \in P : x \notin p + 2..p + 2 + 1 => new[x] = half[x]
  BY <1>1, <1>2, <1>3, <1>4, PutLongIs
<1>6. new[p] = half[p] /\ new[p + 1] = half[p + 1]
  <2>1. p \notin p + 2..p + 2 + 1 /\ p + 1 \notin p + 2..p + 2 + 1
    BY <1>4
  <2> QED BY <1>5, <2>1
<1>7. Reloc!LongAt(new, p) = lo
  BY <1>3, <1>6 DEF Reloc!LongAt
<1>8. Reloc!QuadAt(new, p) = v
  BY <1>1, <1>5, <1>7 DEF Reloc!QuadAt
<1>9. \A x \in P : x \notin p..p + 3 => new[x] = image[x]
  <2> TAKE x \in P
  <2> HAVE x \notin p..p + 3
  <2>1. x \notin p..p + 1 /\ x \notin p + 2..p + 2 + 1
    BY <1>4
  <2> QED BY <1>3, <1>5, <2>1
<1> QED BY <1>5, <1>8, <1>9 DEF new

-----------------------------------------------------------------------------
(* Linked files.                                                           *)

\* What is known of a linked file.
IsImage(file, image) == image \in [DOMAIN file.image -> Cells]
EntriesIn(file, b) == file.blocks[b].entries

FileParts(file) ==
  /\ file.base \in Int /\ DOMAIN file.image \in SUBSET Int /\ IsImage(file, file.image)
  /\ Len(file.blocks) \in Nat /\ DOMAIN file.blocks = 1..Len(file.blocks)
  /\ \A b \in DOMAIN file.blocks :
       /\ file.blocks[b].va \in Nat /\ Len(EntriesIn(file, b)) \in Nat
       /\ DOMAIN EntriesIn(file, b) = 1..Len(EntriesIn(file, b))
       /\ \A i \in DOMAIN EntriesIn(file, b) : EntriesIn(file, b)[i].off \in Nat

BlockIs == [va : Nat, size : Nat, entries : Seq([type : STRING, off : Nat])]

\* The same of a block.
LEMMA BlockParts ==
    ASSUME NEW block \in BlockIs
    PROVE  /\ block.va \in Nat /\ Len(block.entries) \in Nat /\ DOMAIN block.entries = 1..Len(block.entries)
           /\ \A i \in DOMAIN block.entries : block.entries[i].off \in Nat
<1> DEFINE E == [type : STRING, off : Nat]
           s == block.entries
<1>1. block.va \in Nat /\ s \in Seq(E)
  BY DEF BlockIs
<1>2. \A x \in E : x.off \in Nat
  OBVIOUS
<1> HIDE DEF E, s
<1>3. Len(s) \in Nat /\ DOMAIN s = 1..Len(s) /\ \A i \in DOMAIN s : s[i] \in E
  BY <1>1
<1> QED BY <1>1, <1>2, <1>3 DEF s

\* A linked file has them.
LEMMA FileHasParts ==
    ASSUME NEW file, Linked(file)
    PROVE  FileParts(file)
<1> DEFINE P == DOMAIN file.image
           bs == file.blocks
<1>1. /\ file.base \in Int /\ P \subseteq Int /\ \A p \in P : file.image[p] \in 0..HalfSize - 1
      /\ file.image = [p \in P |-> file.image[p]]
  BY DEF Linked
<1>2. IsImage(file, file.image)
  BY <1>1 DEF IsImage, Cells
<1>3. bs \in Seq(BlockIs)
  BY DEF Linked, BlockIs
<1> HIDE DEF bs
<1>4. Len(bs) \in Nat /\ DOMAIN bs = 1..Len(bs) /\ \A b \in DOMAIN bs : bs[b] \in BlockIs
  BY <1>3
<1>5. \A b \in DOMAIN bs :
        /\ bs[b].va \in Nat /\ Len(bs[b].entries) \in Nat /\ DOMAIN bs[b].entries = 1..Len(bs[b].entries)
        /\ \A i \in DOMAIN bs[b].entries : bs[b].entries[i].off \in Nat
  BY <1>4, BlockParts
<1> QED BY <1>1, <1>2, <1>4, <1>5 DEF FileParts, EntriesIn, bs

\* What is known of an address.
AddressParts(file, a) ==
  /\ a.form \in {"long", "split", "quad"} /\ a = [form |-> a.form, block |-> a.block, entry |-> a.entry]
  /\ a.block \in DOMAIN file.blocks /\ a.entry \in DOMAIN EntriesIn(file, a.block)
  /\ a.block \in Nat /\ a.entry \in Nat /\ a.entry >= 1 /\ a.block >= 1
  /\ HalvesOf(file, a) \subseteq DOMAIN file.image
  /\ Place(file, a) = file.blocks[a.block].va + EntryOf(file, a).off
  /\ Place(file, a) \in Int
  /\ Place(file, a) \in HalvesOf(file, a) /\ Place(file, a) + 1 \in HalvesOf(file, a)
  /\ a.form = "quad" =>
       Place(file, a) + 2 \in HalvesOf(file, a) /\ Place(file, a) + 3 \in HalvesOf(file, a)
  /\ a.form = "long" => EntryOf(file, a).type = "HIGHLOW"
  /\ a.form = "quad" => EntryOf(file, a).type = "DIR64"
  /\ a.form = "split" =>
       LET entries == EntriesIn(file, a.block)
       IN  /\ EntryOf(file, a).type = "HIGHADJ" /\ ~Reloc!Final(EntryOf(file, a).off)
           /\ a.entry + 2 \in DOMAIN entries
           /\ entries[a.entry + 1].off = file.image[Place(file, a) + 1]
           /\ entries[a.entry + 2].type = "LOW" /\ entries[a.entry + 2].off = EntryOf(file, a).off + 1

\* An address of a linked file has them.
LEMMA AddressHasParts ==
    ASSUME NEW file, Linked(file), NEW a \in file.addresses
    PROVE  AddressParts(file, a)
<1>1. FileParts(file) /\ AddressIsWhole(file, a) /\ a \in [form : {"long", "split", "quad"}, block : Nat, entry : Nat]
  BY FileHasParts DEF Linked
<1>2. /\ a.form \in {"long", "split", "quad"} /\ a = [form |-> a.form, block |-> a.block, entry |-> a.entry]
      /\ a.block \in Nat /\ a.entry \in Nat
  BY <1>1
<1>3. /\ a.block \in DOMAIN file.blocks /\ a.entry \in DOMAIN EntriesIn(file, a.block)
      /\ HalvesOf(file, a) \subseteq DOMAIN file.image
  BY <1>1 DEF AddressIsWhole, EntriesIn
<1>4. a.entry >= 1 /\ a.block >= 1
  BY <1>1, <1>2, <1>3 DEF FileParts
<1>5. file.blocks[a.block].va \in Nat /\ EntryOf(file, a).off \in Nat
  BY <1>1, <1>3 DEF FileParts, EntriesIn, EntryOf
<1>6. Place(file, a) = file.blocks[a.block].va + EntryOf(file, a).off /\ Place(file, a) \in Int
  BY <1>5 DEF Place
<1>7. /\ Place(file, a) \in HalvesOf(file, a) /\ Place(file, a) + 1 \in HalvesOf(file, a)
      /\ a.form = "quad" => Place(file, a) + 2 \in HalvesOf(file, a) /\ Place(file, a) + 3 \in HalvesOf(file, a)
  BY <1>6 DEF HalvesOf
<1>8. EntryOf(file, a).type = CASE a.form = "long" -> "HIGHLOW" [] a.form = "quad" -> "DIR64" [] OTHER -> "HIGHADJ"
  BY <1>1 DEF AddressIsWhole
<1>9. /\ a.form = "long" => EntryOf(file, a).type = "HIGHLOW"
      /\ a.form = "quad" => EntryOf(file, a).type = "DIR64"
      /\ a.form = "split" => EntryOf(file, a).type = "HIGHADJ"
  BY <1>8
<1>10. a.form = "split" =>
       LET entries == EntriesIn(file, a.block)
       IN  /\ ~Reloc!Final(EntryOf(file, a).off)
           /\ a.entry + 2 \in DOMAIN entries
           /\ entries[a.entry + 1].off = file.image[Place(file, a) + 1]
           /\ entries[a.entry + 2].type = "LOW" /\ entries[a.entry + 2].off = EntryOf(file, a).off + 1
  BY <1>1 DEF AddressIsWhole, EntriesIn
<1> QED BY <1>2, <1>3, <1>4, <1>6, <1>7, <1>9, <1>10 DEF AddressParts

\* Whether the halves of an address are as they were linked, moved, or its high one is.
Untouched(file, image, a) == \A p \in HalvesOf(file, a) : image[p] = file.image[p]
Moved(file, base, image, a) ==
  ValueAt(image, file, a) = (ValueAt(file.image, file, a) + base - file.base) % Span(a)
HighMoved(file, base, image, a) ==
  LET p == Place(file, a)
      lo == file.image[p + 1]
  IN  /\ image[p] = ((HalfSize * file.image[p] + Reloc!Signed(lo) + (Reloc!Diff(file, base, 0) % Reloc!Long)
                       + HalfSize \div 2) \div HalfSize) % HalfSize
      /\ image[p + 1] = lo
Else(file, a, image, new) == \A x \in DOMAIN file.image : x \notin HalvesOf(file, a) => new[x] = image[x]

\* The distance an address moves is that between the bases.
LEMMA DistanceIs ==
    ASSUME NEW file, NEW base \in Int, FileParts(file), NEW x \in Int
    PROVE  LET diff == Reloc!Diff(file, base, 0)
           IN  /\ diff \in Int
               /\ (x + diff) % Reloc!Long = (x + base - file.base) % Reloc!Long
               /\ (x + diff) % Reloc!Quad = (x + base - file.base) % Reloc!Quad
<1> DEFINE d == base - file.base
           q == Reloc!Quad
           l == Reloc!Long
           diff == Reloc!Diff(file, base, 0)
<1>1. d \in Int /\ d + 0 = d /\ x + d = x + base - file.base
  BY DEF FileParts
<1>2. diff = d % q
  BY <1>1 DEF Reloc!Diff
<1>3. q \in Nat \ {0} /\ l \in Nat \ {0} /\ q = l * l
  BY SizesAre
<1> HIDE DEF d, q, l, diff
<1>4. diff \in Int
  BY <1>1, <1>2, <1>3
<1>5. (x + (d % (l * l))) % l = (x + d) % l
  BY <1>1, <1>3, RestsAdd
<1>6. (x + diff) % q = (x + d) % q
  <2>1. ((d % q) + x) % q = (d + x) % q
    BY <1>1, <1>3, RestAdds
  <2>2. diff + x = x + diff /\ d + x = x + d
    BY <1>1, <1>4
  <2> QED BY <1>2, <2>1, <2>2
<1> QED BY <1>1, <1>2, <1>3, <1>4, <1>5, <1>6 DEF q, l, diff

-----------------------------------------------------------------------------
(* What an entry does to an address.                                       *)

\* What an entry of each type does to an image.
LEMMA FixedIs ==
    ASSUME NEW image, NEW va, NEW e, NEW low, NEW diff
    PROVE  LET p == va + e.off
               new == Reloc!Fixed(image, va, e, low, diff)
           IN  /\ e.type = "HIGHLOW" => new = Reloc!PutLong(image, p, (Reloc!LongAt(image, p) + diff) % Reloc!Long)
               /\ e.type = "DIR64" => new = Reloc!PutQuad(image, p, (Reloc!QuadAt(image, p) + diff) % Reloc!Quad)
               /\ e.type = "HIGHADJ" /\ ~Reloc!Final(e.off) =>
                    new = [image EXCEPT ![p] = ((HalfSize * image[p] + Reloc!Signed(low) + (diff % Reloc!Long)
                                                   + HalfSize \div 2) \div HalfSize) % HalfSize]
               /\ e.type = "LOW" => new = [image EXCEPT ![p] = (@ + diff) % HalfSize]
               /\ IdleEntry(e) => new = image
<1> DEFINE p == va + e.off
           new == Reloc!Fixed(image, va, e, low, diff)
<1>1. e.type = "HIGHLOW" => new = Reloc!PutLong(image, p, (Reloc!LongAt(image, p) + diff) % Reloc!Long)
  BY DEF Reloc!Fixed
<1>2. e.type = "DIR64" => new = Reloc!PutQuad(image, p, (Reloc!QuadAt(image, p) + diff) % Reloc!Quad)
  BY DEF Reloc!Fixed
<1>3. e.type = "HIGHADJ" /\ ~Reloc!Final(e.off) =>
        new = [image EXCEPT ![p] = ((HalfSize * image[p] + Reloc!Signed(low) + (diff % Reloc!Long)
                                       + HalfSize \div 2) \div HalfSize) % HalfSize]
  BY DEF Reloc!Fixed
<1>4. e.type = "LOW" => new = [image EXCEPT ![p] = (@ + diff) % HalfSize]
  BY DEF Reloc!Fixed
<1>5. IdleEntry(e) => new = image
  BY DEF Reloc!Fixed, IdleEntry
<1> QED BY <1>1, <1>2, <1>3, <1>4, <1>5

\* An address under relocation: its file, its distance, and an image so far.
Relocates(file, base, a, image, diff) ==
  /\ Linked(file) /\ a \in file.addresses /\ base \in Int /\ IsImage(file, image)
  /\ diff = Reloc!Diff(file, base, 0)

\* What is known of it, in parts.
LEMMA RelocatesIs ==
    ASSUME NEW file, NEW base, NEW a, NEW image, NEW diff, Relocates(file, base, a, image, diff)
    PROVE  /\ FileParts(file) /\ AddressParts(file, a) /\ base \in Int /\ IsImage(file, image)
           /\ diff = Reloc!Diff(file, base, 0) /\ diff \in Int
           /\ Place(file, a) \in DOMAIN file.image /\ Place(file, a) + 1 \in DOMAIN file.image
           /\ a.form = "quad" => Place(file, a) + 2 \in DOMAIN file.image /\ Place(file, a) + 3 \in DOMAIN file.image
           /\ image \in [DOMAIN file.image -> Cells] /\ DOMAIN file.image \in SUBSET Int /\ file.image \in [DOMAIN file.image -> Cells]
           /\ Place(file, a) \in Int
<1>1. /\ FileParts(file) /\ AddressParts(file, a) /\ base \in Int /\ IsImage(file, image)
      /\ diff = Reloc!Diff(file, base, 0)
  BY FileHasParts, AddressHasParts DEF Relocates
<1>2. diff \in Int
  <2>1. 0 \in Int
    OBVIOUS
  <2> QED BY <1>1, <2>1, DistanceIs
<1>3. /\ Place(file, a) \in DOMAIN file.image /\ Place(file, a) + 1 \in DOMAIN file.image
      /\ a.form = "quad" => Place(file, a) + 2 \in DOMAIN file.image /\ Place(file, a) + 3 \in DOMAIN file.image
      /\ Place(file, a) \in Int
  BY <1>1 DEF AddressParts
<1>4. image \in [DOMAIN file.image -> Cells] /\ DOMAIN file.image \in SUBSET Int /\ file.image \in [DOMAIN file.image -> Cells]
  BY <1>1 DEF IsImage, FileParts
<1> QED BY <1>1, <1>2, <1>3, <1>4

\* A 32-bit address moves.
LEMMA LongMoves ==
    ASSUME NEW file, NEW base, NEW a, NEW image, NEW diff, NEW low, Relocates(file, base, a, image, diff),
           a.form = "long", Untouched(file, image, a)
    PROVE  LET new == Reloc!Fixed(image, file.blocks[a.block].va, EntryOf(file, a), low, diff)
           IN  IsImage(file, new) /\ Moved(file, base, new, a) /\ Else(file, a, image, new)
<1> DEFINE P == DOMAIN file.image
           p == Place(file, a)
           new == Reloc!Fixed(image, file.blocks[a.block].va, EntryOf(file, a), low, diff)
           x == Reloc!LongAt(image, p)
           v == (x + diff) % Reloc!Long
<1>1. /\ p \in P /\ p + 1 \in P /\ p \in Int /\ image \in [P -> Cells] /\ P \in SUBSET Int /\ base \in Int
      /\ FileParts(file) /\ diff = Reloc!Diff(file, base, 0) /\ diff \in Int /\ AddressParts(file, a)
      /\ file.image \in [P -> Cells]
  BY RelocatesIs
<1>2. p = file.blocks[a.block].va + EntryOf(file, a).off /\ EntryOf(file, a).type = "HIGHLOW"
      /\ p \in HalvesOf(file, a) /\ p + 1 \in HalvesOf(file, a)
  BY <1>1 DEF AddressParts
<1>3. new = Reloc!PutLong(image, p, v)
  BY <1>2, FixedIs
<1>4. HalvesOf(file, a) = p..p + 1
  BY DEF HalvesOf
<1>5. x = Reloc!LongAt(file.image, p)
  BY <1>2 DEF Untouched, Reloc!LongAt
<1>6. x \in Int
  BY <1>1, LongAtIs
<1> HIDE DEF x, p, new
<1>7. v \in 0..Reloc!Long - 1
  <2> DEFINE y == x + diff
             l == Reloc!Long
  <2>1. y \in Int /\ l \in Nat \ {0}
    BY <1>1, <1>6, SizesAre
  <2> HIDE DEF y, l
  <2>2. y % l \in 0..l - 1
    BY <2>1
  <2> QED BY <2>2 DEF y, l
<1>8. v = (x + base - file.base) % Reloc!Long
  BY <1>1, <1>6, DistanceIs
<1> HIDE DEF v
<1>9. /\ new \in [P -> Cells] /\ Reloc!LongAt(new, p) = v
      /\ \A z \in P : z \notin p..p + 1 => new[z] = image[z]
  BY <1>1, <1>3, <1>7, PutLongIs
<1>10. ValueAt(new, file, a) = v /\ ValueAt(file.image, file, a) = x /\ Span(a) = Reloc!Long
  BY <1>5, <1>9 DEF ValueAt, Span, p
<1> QED BY <1>4, <1>8, <1>9, <1>10 DEF IsImage, Moved, Else, new

\* So does a 64-bit one.
LEMMA QuadMoves ==
    ASSUME NEW file, NEW base, NEW a, NEW image, NEW diff, NEW low, Relocates(file, base, a, image, diff),
           a.form = "quad", Untouched(file, image, a)
    PROVE  LET new == Reloc!Fixed(image, file.blocks[a.block].va, EntryOf(file, a), low, diff)
           IN  IsImage(file, new) /\ Moved(file, base, new, a) /\ Else(file, a, image, new)
<1> DEFINE P == DOMAIN file.image
           p == Place(file, a)
           new == Reloc!Fixed(image, file.blocks[a.block].va, EntryOf(file, a), low, diff)
           x == Reloc!QuadAt(image, p)
           v == (x + diff) % Reloc!Quad
<1>1. /\ p \in P /\ p + 1 \in P /\ p + 2 \in P /\ p + 3 \in P /\ p \in Int
      /\ image \in [P -> Cells] /\ P \in SUBSET Int /\ base \in Int
      /\ FileParts(file) /\ diff = Reloc!Diff(file, base, 0) /\ diff \in Int /\ AddressParts(file, a)
      /\ file.image \in [P -> Cells]
  BY RelocatesIs
<1>2. /\ p = file.blocks[a.block].va + EntryOf(file, a).off /\ EntryOf(file, a).type = "DIR64"
      /\ p \in HalvesOf(file, a) /\ p + 1 \in HalvesOf(file, a) /\ p + 2 \in HalvesOf(file, a) /\ p + 3 \in HalvesOf(file, a)
  BY <1>1 DEF AddressParts
<1>3. new = Reloc!PutQuad(image, p, v)
  BY <1>2, FixedIs
<1>4. HalvesOf(file, a) = p..p + 3
  BY DEF HalvesOf
<1>5. x = Reloc!QuadAt(file.image, p)
  <2>1. p + 2 + 1 = p + 3
    BY <1>1
  <2>2. Reloc!LongAt(image, p) = Reloc!LongAt(file.image, p)
    BY <1>2 DEF Untouched, Reloc!LongAt
  <2>3. Reloc!LongAt(image, p + 2) = Reloc!LongAt(file.image, p + 2)
    BY <1>2, <2>1 DEF Untouched, Reloc!LongAt
  <2> QED BY <2>2, <2>3 DEF Reloc!QuadAt
<1>6. x \in Int
  BY <1>1, QuadAtIs
<1> HIDE DEF x, p, new
<1>7. v \in 0..Reloc!Quad - 1
  <2> DEFINE y == x + diff
             l == Reloc!Quad
  <2>1. y \in Int /\ l \in Nat \ {0}
    BY <1>1, <1>6, SizesAre
  <2> HIDE DEF y, l
  <2>2. y % l \in 0..l - 1
    BY <2>1
  <2> QED BY <2>2 DEF y, l
<1>8. v = (x + base - file.base) % Reloc!Quad
  BY <1>1, <1>6, DistanceIs
<1> HIDE DEF v
<1>9. /\ new \in [P -> Cells] /\ Reloc!QuadAt(new, p) = v
      /\ \A z \in P : z \notin p..p + 3 => new[z] = image[z]
  BY <1>1, <1>3, <1>7, PutQuadIs
<1>10. ValueAt(new, file, a) = v /\ ValueAt(file.image, file, a) = x /\ Span(a) = Reloc!Quad
  BY <1>5, <1>9 DEF ValueAt, Span, p
<1> QED BY <1>4, <1>8, <1>9, <1>10 DEF IsImage, Moved, Else, new

\* The high half of a split address moves, with what its low half will carry.
LEMMA HighMoves ==
    ASSUME NEW file, NEW base, NEW a, NEW image, NEW diff, Relocates(file, base, a, image, diff),
           a.form = "split", Untouched(file, image, a)
    PROVE  LET low == EntriesIn(file, a.block)[a.entry + 1].off
               new == Reloc!Fixed(image, file.blocks[a.block].va, EntryOf(file, a), low, diff)
           IN  IsImage(file, new) /\ HighMoved(file, base, new, a) /\ Else(file, a, image, new)
<1> DEFINE P == DOMAIN file.image
           p == Place(file, a)
           low == EntriesIn(file, a.block)[a.entry + 1].off
           new == Reloc!Fixed(image, file.blocks[a.block].va, EntryOf(file, a), low, diff)
           h == HalfSize \div 2
           t == HalfSize * image[p] + Reloc!Signed(low) + (diff % Reloc!Long) + h
           v == (t \div HalfSize) % HalfSize
<1>1. /\ p \in P /\ p + 1 \in P /\ p \in Int /\ image \in [P -> Cells] /\ P \in SUBSET Int
      /\ FileParts(file) /\ diff = Reloc!Diff(file, base, 0) /\ diff \in Int /\ AddressParts(file, a)
      /\ file.image \in [P -> Cells]
  BY RelocatesIs
<1>2. /\ p = file.blocks[a.block].va + EntryOf(file, a).off
      /\ EntryOf(file, a).type = "HIGHADJ" /\ ~Reloc!Final(EntryOf(file, a).off)
      /\ p \in HalvesOf(file, a) /\ p + 1 \in HalvesOf(file, a) /\ low = file.image[p + 1]
  BY <1>1 DEF AddressParts
<1>3. new = [image EXCEPT ![p] = v]
  BY <1>2, FixedIs
<1>4. image[p] = file.image[p] /\ image[p + 1] = file.image[p + 1]
  BY <1>2 DEF Untouched
<1>5. low \in Cells /\ image[p] \in Cells
  BY <1>1, <1>2
<1> HIDE DEF new, p, low
<1>6. t \in Int
  <2> DEFINE s == Reloc!Signed(low)
             g == diff % Reloc!Long
             i == image[p]
  <2>1. s \in Int
    BY <1>5, SizesAre, SignIs DEF Cells
  <2>2. g \in Int
    <3> DEFINE l == Reloc!Long
    <3>1. l \in Nat \ {0}
      BY SizesAre
    <3> HIDE DEF l
    <3>2. diff % l \in Int
      BY <1>1, <3>1
    <3> QED BY <3>2 DEF l
  <2>3. i \in Int /\ HalfSize \in Int /\ h \in Int
    BY <1>5, SizesAre DEF Cells
  <2> HIDE DEF s, g, i, h
  <2>4. HalfSize * i \in Int
    BY <2>3
  <2>5. HalfSize * i + s + g + h \in Int
    BY <2>1, <2>2, <2>3, <2>4
  <2> QED BY <2>5 DEF s, g, i
<1> HIDE DEF t
<1>7. v \in Cells
  <2>1. HalfSize \in Nat \ {0}
    BY SizesAre
  <2>2. t \div HalfSize \in Int
    BY <1>6, <2>1
  <2> DEFINE y == t \div HalfSize
  <2>3. y \in Int
    BY <2>2
  <2> HIDE DEF y
  <2>4. y % HalfSize \in 0..HalfSize - 1
    BY <2>1, <2>3
  <2> QED BY <2>4 DEF y, Cells
<1> HIDE DEF v
<1>8. new \in [P -> Cells] /\ new[p] = v /\ \A z \in P : z # p => new[z] = image[z]
  BY <1>1, <1>3, <1>7
<1>9. new[p + 1] = image[p + 1]
  BY <1>1, <1>8
<1>10. HighMoved(file, base, new, a)
  BY <1>1, <1>2, <1>4, <1>8, <1>9 DEF HighMoved, v, t, p
<1>11. Else(file, a, image, new)
  BY <1>2, <1>8 DEF Else
<1> QED BY <1>8, <1>10, <1>11 DEF IsImage, new, low

\* Its low half moves, and the address is whole again.
LEMMA LowMoves ==
    ASSUME NEW file, NEW base, NEW a, NEW image, NEW diff, NEW low, Relocates(file, base, a, image, diff),
           a.form = "split", HighMoved(file, base, image, a)
    PROVE  LET new == Reloc!Fixed(image, file.blocks[a.block].va, EntriesIn(file, a.block)[a.entry + 2], low, diff)
           IN  IsImage(file, new) /\ Moved(file, base, new, a) /\ Else(file, a, image, new)
<1> DEFINE P == DOMAIN file.image
           p == Place(file, a)
           e == EntriesIn(file, a.block)[a.entry + 2]
           new == Reloc!Fixed(image, file.blocks[a.block].va, e, low, diff)
           h == HalfSize \div 2
           hi == file.image[p]
           lo == file.image[p + 1]
           high == ((HalfSize * hi + Sign(h, lo) + (diff % Reloc!Long) + h) \div HalfSize) % HalfSize
           v == (lo + diff) % HalfSize
<1>1. /\ p \in P /\ p + 1 \in P /\ p \in Int /\ image \in [P -> Cells] /\ P \in SUBSET Int /\ base \in Int
      /\ FileParts(file) /\ diff = Reloc!Diff(file, base, 0) /\ diff \in Int /\ AddressParts(file, a)
      /\ file.image \in [P -> Cells]
  BY RelocatesIs
<1>2. /\ p = file.blocks[a.block].va + EntryOf(file, a).off /\ e.type = "LOW" /\ e.off = EntryOf(file, a).off + 1
      /\ p \in HalvesOf(file, a) /\ p + 1 \in HalvesOf(file, a)
      /\ file.blocks[a.block].va \in Nat /\ EntryOf(file, a).off \in Nat
  BY <1>1 DEF AddressParts, FileParts, EntriesIn, EntryOf
<1>3. file.blocks[a.block].va + e.off = p + 1
  BY <1>2
<1>4. new = [image EXCEPT ![p + 1] = (image[p + 1] + diff) % HalfSize]
  BY <1>2, <1>3, FixedIs
<1>5. image[p] = high /\ image[p + 1] = lo
  BY <1>1, SizesAre DEF HighMoved
<1>6. HalfSize \in Nat \ {0} /\ h \in Nat \ {0} /\ HalfSize = h + h /\ hi \in 0..HalfSize - 1 /\ lo \in 0..HalfSize - 1
      /\ Reloc!Long = HalfSize * HalfSize
  BY <1>1, SizesAre DEF Cells
<1> HIDE DEF new, p, e, hi, lo, h
<1>7. v \in Cells
  <2> DEFINE y == lo + diff
  <2>1. y \in Int
    BY <1>1, <1>6
  <2> HIDE DEF y
  <2>2. y % HalfSize \in 0..HalfSize - 1
    BY <1>6, <2>1
  <2> QED BY <2>2 DEF y, Cells
<1>8. (HalfSize * high + Sign(h, v)) % Reloc!Long = (HalfSize * hi + Sign(h, lo) + diff) % Reloc!Long
  <2>1. IsSplit(h, HalfSize, hi, lo, diff)
    BY <1>1, <1>6 DEF IsSplit
  <2>2. (HalfSize * ((((HalfSize * hi + Sign(h, lo) + (diff % (HalfSize * HalfSize)) + h) \div HalfSize) % HalfSize))
           + Sign(h, (lo + diff) % HalfSize)) % (HalfSize * HalfSize)
          = (HalfSize * hi + Sign(h, lo) + diff) % (HalfSize * HalfSize)
    BY <2>1, SplitMoves
  <2> QED BY <1>6, <2>2
<1> HIDE DEF v, high
<1>9. new \in [P -> Cells] /\ new[p + 1] = v /\ \A z \in P : z # p + 1 => new[z] = image[z]
  BY <1>1, <1>4, <1>5, <1>7 DEF v
<1>10. new[p] = high
  <2>1. p # p + 1
    BY <1>1
  <2> QED BY <1>1, <1>5, <1>9, <2>1
<1> DEFINE x == HalfSize * hi + Sign(h, lo)
<1>11. x \in Int
  <2>1. HalfSize * hi \in Int
    BY <1>6
  <2>2. Sign(h, lo) \in Int
    BY <1>6, SignIs
  <2> QED BY <2>1, <2>2
<1>12. ValueAt(new, file, a) = (HalfSize * high + Sign(h, v)) % Reloc!Long
  BY <1>9, <1>10, SizesAre DEF ValueAt, p, h
<1>13. ValueAt(file.image, file, a) = x % Reloc!Long
  BY SizesAre DEF ValueAt, p, h, hi, lo
<1> HIDE DEF x
<1>14. (x + diff) % Reloc!Long = (x + base - file.base) % Reloc!Long
  BY <1>1, <1>11, DistanceIs
<1>15. ((x % Reloc!Long) + base - file.base) % Reloc!Long = (x + base - file.base) % Reloc!Long
  <2> DEFINE l == Reloc!Long
             d == base - file.base
  <2>1. l \in Nat \ {0} /\ d \in Int
    BY <1>1, SizesAre DEF FileParts
  <2>2. x % l \in Int
    <3> HIDE DEF l
    <3> QED BY <1>11, <2>1
  <2>3. (x % l) + base - file.base = (x % l) + d /\ x + base - file.base = x + d
    BY <1>1, <1>11, <2>2 DEF FileParts
  <2>4. ((x % l) + d) % l = (x + d) % l
    <3> HIDE DEF l, d
    <3> QED BY <1>11, <2>1, RestAdds
  <2> QED BY <2>3, <2>4
<1>16. Span(a) = Reloc!Long
  BY DEF Span
<1>17. Moved(file, base, new, a)
  BY <1>8, <1>12, <1>13, <1>14, <1>15, <1>16 DEF Moved, x
<1>18. Else(file, a, image, new)
  BY <1>2, <1>9 DEF Else
<1> QED BY <1>9, <1>17, <1>18 DEF IsImage, new, e

-----------------------------------------------------------------------------
(* How far a relocation is.                                                *)

\* A relocation has passed a place, or is between the halves of an address.
Before(r, b, i) == b < r.block \/ (b = r.block /\ i < r.entry)
Halfway(r, a) == a.form = "split" /\ a.block = r.block /\ r.entry = a.entry + 2

AddressIs(file, base, r, image, a) ==
  /\ ~Before(r, a.block, a.entry) => Untouched(file, image, a)
  /\ Halfway(r, a) => HighMoved(file, base, image, a)
  /\ Before(r, a.block, a.entry) /\ ~Halfway(r, a) => Moved(file, base, image, a)

\* It is at an entry or a header, or past the last block, and has passed
\* nothing that stops it.
Placed(file, r) ==
  /\ r.block \in Nat /\ r.entry \in Nat /\ r.block >= 1 /\ r.block <= Len(file.blocks) + 1
  /\ r.block > Len(file.blocks) => r.entry = 0
  /\ r.block <= Len(file.blocks) => r.entry <= Len(EntriesIn(file, r.block)) + 1
  /\ r.block \in DOMAIN file.blocks /\ r.entry \in DOMAIN EntriesIn(file, r.block) =>
       EntriesIn(file, r.block)[r.entry].type # "half"
  /\ \A b \in DOMAIN file.blocks : \A i \in {0} \cup DOMAIN EntriesIn(file, b) :
       Stops(file, b, i) => ~Before(r, b, i)

Answers(file, r) ==
  /\ ~file.valid => r.res = "invalid"
  /\ file.valid /\ file.blocks = <<>> => r.res = IF file.stripped THEN "conflict" ELSE "success"
  /\ ~file.valid \/ file.blocks = <<>> => r.block = 1 /\ r.entry = 0
  /\ file.valid /\ file.blocks # <<>> =>
       /\ r.res \in {"running", "success", "invalid"}
       /\ r.res = "success" => r.block > Len(file.blocks)
       /\ r.res = "invalid" =>
            /\ r.block \in DOMAIN file.blocks /\ r.entry \in {0} \cup DOMAIN EntriesIn(file, r.block)
            /\ Stops(file, r.block, r.entry)

ImageIs(file, base, r, image) ==
  /\ IsImage(file, image)
  /\ \A a \in file.addresses : AddressIs(file, base, r, image, a)
  /\ \A p \in DOMAIN file.image : (\A a \in file.addresses : p \notin HalvesOf(file, a)) => image[p] = file.image[p]

RelocationInv(file, base, r) ==
  /\ r = [image |-> r.image, block |-> r.block, entry |-> r.entry, res |-> r.res]
  /\ Placed(file, r) /\ Answers(file, r) /\ ImageIs(file, base, r, r.image)

\* What an address is depends on its halves only.
LEMMA SameHalves ==
    ASSUME NEW file, NEW base, NEW a, AddressParts(file, a), NEW image, NEW new,
           \A x \in HalvesOf(file, a) : new[x] = image[x]
    PROVE  /\ Untouched(file, image, a) => Untouched(file, new, a)
           /\ HighMoved(file, base, image, a) => HighMoved(file, base, new, a)
           /\ Moved(file, base, image, a) => Moved(file, base, new, a)
<1> DEFINE p == Place(file, a)
<1>1. /\ p \in HalvesOf(file, a) /\ p + 1 \in HalvesOf(file, a) /\ p \in Int /\ a.form \in {"long", "split", "quad"}
      /\ a.form = "quad" => p + 2 \in HalvesOf(file, a) /\ p + 3 \in HalvesOf(file, a)
  BY DEF AddressParts
<1>2. new[p] = image[p] /\ new[p + 1] = image[p + 1]
  BY <1>1
<1>3. a.form = "quad" => new[p + 2] = image[p + 2] /\ new[p + 2 + 1] = image[p + 2 + 1]
  <2>1. p + 2 + 1 = p + 3
    BY <1>1
  <2> QED BY <1>1, <2>1
<1> HIDE DEF p
<1>4. ValueAt(new, file, a) = ValueAt(image, file, a)
  <2>1. CASE a.form = "long"
    BY <1>2, <2>1 DEF ValueAt, p, Reloc!LongAt
  <2>2. CASE a.form = "split"
    BY <1>2, <2>2 DEF ValueAt, p
  <2>3. CASE a.form = "quad"
    BY <1>2, <1>3, <2>3 DEF ValueAt, p, Reloc!LongAt, Reloc!QuadAt
  <2> QED BY <1>1, <2>1, <2>2, <2>3
<1>5. Untouched(file, image, a) => Untouched(file, new, a)
  BY DEF Untouched
<1>6. HighMoved(file, base, image, a) => HighMoved(file, base, new, a)
  BY <1>2 DEF HighMoved, p
<1> QED BY <1>4, <1>5, <1>6 DEF Moved

\* So it is what it was where the relocation has not got anywhere with it.
LEMMA AddressStays ==
    ASSUME NEW file, NEW base, NEW a, AddressParts(file, a), NEW image, NEW new, NEW r, NEW s,
           AddressIs(file, base, r, image, a),
           Before(s, a.block, a.entry) <=> Before(r, a.block, a.entry), Halfway(s, a) <=> Halfway(r, a),
           \A x \in HalvesOf(file, a) : new[x] = image[x]
    PROVE  AddressIs(file, base, s, new, a)
<1>1. /\ Untouched(file, image, a) => Untouched(file, new, a)
      /\ HighMoved(file, base, image, a) => HighMoved(file, base, new, a)
      /\ Moved(file, base, image, a) => Moved(file, base, new, a)
  BY SameHalves
<1> QED BY <1>1 DEF AddressIs

\* It begins where nothing is passed.
LEMMA RelocationBegins ==
    ASSUME NEW file, Linked(file), NEW base
    PROVE  RelocationInv(file, base, Reloc!LdrRelocateImage(file))
<1> DEFINE r == Reloc!LdrRelocateImage(file)
           res == CASE ~file.valid -> "invalid"
                    [] file.valid /\ file.blocks = <<>> -> IF file.stripped THEN "conflict" ELSE "success"
                    [] OTHER -> "running"
<1>1. FileParts(file)
  BY FileHasParts
<1>2. r = [image |-> file.image, block |-> 1, entry |-> 0, res |-> res]
  BY DEF Reloc!LdrRelocateImage
<1>3. r.image = file.image /\ r.block = 1 /\ r.entry = 0 /\ r.res = res
  BY <1>2
<1>4. r = [image |-> r.image, block |-> r.block, entry |-> r.entry, res |-> r.res]
  BY <1>2
<1> HIDE DEF r
<1>5. \A b \in DOMAIN file.blocks : b \in Nat /\ b >= 1
  BY <1>1 DEF FileParts
<1>6. \A b \in DOMAIN file.blocks : \A i \in DOMAIN EntriesIn(file, b) : i \in Nat /\ i >= 1
  BY <1>1 DEF FileParts
<1>7. \A b \in DOMAIN file.blocks : \A i \in {0} \cup DOMAIN EntriesIn(file, b) : ~Before(r, b, i)
  BY <1>3, <1>5, <1>6 DEF Before
<1>8. Placed(file, r)
  <2>1. 0 \notin DOMAIN EntriesIn(file, 1) \/ 1 \notin DOMAIN file.blocks
    BY <1>6
  <2>2. r.block <= Len(file.blocks) => r.entry <= Len(EntriesIn(file, r.block)) + 1
    <3>1. 1 <= Len(file.blocks) => 1 \in DOMAIN file.blocks
      BY <1>1 DEF FileParts
    <3>2. 1 <= Len(file.blocks) => Len(EntriesIn(file, 1)) \in Nat
      BY <1>1, <3>1 DEF FileParts
    <3> QED BY <1>3, <3>2
  <2>3. Len(file.blocks) \in Nat
    BY <1>1 DEF FileParts
  <2> QED BY <1>3, <1>7, <2>1, <2>2, <2>3 DEF Placed
<1>9. Answers(file, r)
  BY <1>3 DEF Answers
<1>10. ASSUME NEW a \in file.addresses PROVE AddressIs(file, base, r, r.image, a)
  <2>1. AddressParts(file, a)
    BY AddressHasParts
  <2>2. ~Before(r, a.block, a.entry)
    BY <1>7, <2>1 DEF AddressParts
  <2>3. ~Halfway(r, a)
    BY <1>3, <2>1 DEF Halfway, AddressParts
  <2>4. Untouched(file, r.image, a)
    BY <1>3 DEF Untouched
  <2> QED BY <2>2, <2>3, <2>4 DEF AddressIs
<1>11. ImageIs(file, base, r, r.image)
  BY <1>1, <1>3, <1>10 DEF ImageIs, FileParts
<1> QED BY <1>4, <1>8, <1>9, <1>11 DEF RelocationInv, r

-----------------------------------------------------------------------------
(* The steps of a relocation.                                              *)

\* A relocation under way.
GoingOn(file, base, r) == Linked(file) /\ base \in Int /\ RelocationInv(file, base, r) /\ r.res = "running"

\* What is known of it, in parts.
LEMMA GoingOnIs ==
    ASSUME NEW file, NEW base, NEW r, GoingOn(file, base, r)
    PROVE  /\ FileParts(file) /\ file.valid /\ file.blocks # <<>> /\ base \in Int
           /\ r = [image |-> r.image, block |-> r.block, entry |-> r.entry, res |-> "running"]
           /\ Placed(file, r) /\ ImageIs(file, base, r, r.image)
           /\ r.block \in Nat /\ r.entry \in Nat /\ r.block >= 1 /\ r.block <= Len(file.blocks) + 1
           /\ r.block > Len(file.blocks) => r.entry = 0
           /\ r.block <= Len(file.blocks) => r.block \in DOMAIN file.blocks
<1>1. FileParts(file) /\ base \in Int /\ RelocationInv(file, base, r) /\ r.res = "running"
  BY FileHasParts DEF GoingOn
<1>2. /\ r = [image |-> r.image, block |-> r.block, entry |-> r.entry, res |-> r.res]
      /\ Placed(file, r) /\ Answers(file, r) /\ ImageIs(file, base, r, r.image)
  BY <1>1 DEF RelocationInv
<1>3. file.valid /\ file.blocks # <<>>
  BY <1>1, <1>2 DEF Answers
<1>4. /\ r.block \in Nat /\ r.entry \in Nat /\ r.block >= 1 /\ r.block <= Len(file.blocks) + 1
      /\ r.block > Len(file.blocks) => r.entry = 0
  BY <1>2 DEF Placed
<1>5. r.block <= Len(file.blocks) => r.block \in DOMAIN file.blocks
  BY <1>1, <1>4 DEF FileParts
<1> QED BY <1>1, <1>2, <1>3, <1>4, <1>5

\* The entries of a linked file: halves follow HIGHADJ entries, which are
\* never last, and what is no address of the file changes nothing.
LEMMA EntriesAre ==
    ASSUME NEW file, Linked(file), NEW b \in DOMAIN file.blocks, NEW i \in DOMAIN EntriesIn(file, b)
    PROVE  LET e == EntriesIn(file, b)
           IN  /\ e[i].type = "half" <=> i > 1 /\ e[i - 1].type = "HIGHADJ"
               /\ e[i].type = "HIGHADJ" => i < Len(e)
               /\ \/ e[i].type = "half" \/ e[i].type \notin Reloc!Known \/ IdleEntry(e[i])
                  \/ \E a \in file.addresses : a.block = b /\ i \in EntriesOf(a)
<1> QED BY DEF Linked, EntriesIn

\* It answers success past the last block.
LEMMA RelocationEnds ==
    ASSUME NEW file, NEW base, NEW r, GoingOn(file, base, r), r.block > Len(file.blocks)
    PROVE  RelocationInv(file, base, [r EXCEPT !.res = "success"])
<1> DEFINE s == [r EXCEPT !.res = "success"]
<1>1. /\ FileParts(file) /\ file.valid /\ file.blocks # <<>>
      /\ r = [image |-> r.image, block |-> r.block, entry |-> r.entry, res |-> "running"]
      /\ Placed(file, r) /\ ImageIs(file, base, r, r.image)
  BY GoingOnIs
<1>2. s = [image |-> r.image, block |-> r.block, entry |-> r.entry, res |-> "success"]
  BY <1>1
<1>3. s.image = r.image /\ s.block = r.block /\ s.entry = r.entry /\ s.res = "success"
  BY <1>2
<1>4. s = [image |-> s.image, block |-> s.block, entry |-> s.entry, res |-> s.res]
  BY <1>2
<1> HIDE DEF s
<1>5. \A b, i : Before(s, b, i) <=> Before(r, b, i)
  BY <1>3 DEF Before
<1>6. Placed(file, s)
  BY <1>1, <1>3, <1>5 DEF Placed
<1>7. Answers(file, s)
  BY <1>1, <1>3 DEF Answers
<1>8. \A a : Halfway(s, a) <=> Halfway(r, a)
  BY <1>3 DEF Halfway
<1>9. ImageIs(file, base, s, s.image)
  BY <1>1, <1>3, <1>5, <1>8 DEF ImageIs, AddressIs
<1> QED BY <1>4, <1>6, <1>7, <1>9 DEF RelocationInv, s

\* It answers that the file is invalid at an empty block or an illegal entry.
LEMMA RelocationStops ==
    ASSUME NEW file, NEW base, NEW r, GoingOn(file, base, r), r.block \in DOMAIN file.blocks,
           r.entry \in {0} \cup DOMAIN EntriesIn(file, r.block), Stops(file, r.block, r.entry)
    PROVE  RelocationInv(file, base, [r EXCEPT !.res = "invalid"])
<1> DEFINE s == [r EXCEPT !.res = "invalid"]
<1>1. /\ FileParts(file) /\ file.valid /\ file.blocks # <<>>
      /\ r = [image |-> r.image, block |-> r.block, entry |-> r.entry, res |-> "running"]
      /\ Placed(file, r) /\ ImageIs(file, base, r, r.image)
  BY GoingOnIs
<1>2. s = [image |-> r.image, block |-> r.block, entry |-> r.entry, res |-> "invalid"]
  BY <1>1
<1>3. s.image = r.image /\ s.block = r.block /\ s.entry = r.entry /\ s.res = "invalid"
  BY <1>2
<1>4. s = [image |-> s.image, block |-> s.block, entry |-> s.entry, res |-> s.res]
  BY <1>2
<1> HIDE DEF s
<1>5. \A b, i : Before(s, b, i) <=> Before(r, b, i)
  BY <1>3 DEF Before
<1>6. Placed(file, s)
  BY <1>1, <1>3, <1>5 DEF Placed
<1>7. Answers(file, s)
  BY <1>1, <1>3 DEF Answers
<1>8. \A a : Halfway(s, a) <=> Halfway(r, a)
  BY <1>3 DEF Halfway
<1>9. ImageIs(file, base, s, s.image)
  BY <1>1, <1>3, <1>5, <1>8 DEF ImageIs, AddressIs
<1> QED BY <1>4, <1>6, <1>7, <1>9 DEF RelocationInv, s

\* A block that is not empty is entered.
LEMMA BlockBegins ==
    ASSUME NEW file, NEW base, NEW r, GoingOn(file, base, r), r.entry = 0, r.block \in DOMAIN file.blocks,
           file.blocks[r.block].size # 0
    PROVE  RelocationInv(file, base, [r EXCEPT !.entry = 1])
<1> DEFINE s == [r EXCEPT !.entry = 1]
<1>1. /\ FileParts(file) /\ file.valid /\ file.blocks # <<>>
      /\ r = [image |-> r.image, block |-> r.block, entry |-> r.entry, res |-> "running"]
      /\ Placed(file, r) /\ ImageIs(file, base, r, r.image) /\ r.block \in Nat
      /\ r.block >= 1 /\ r.block <= Len(file.blocks) + 1
  BY GoingOnIs
<1>2. s = [image |-> r.image, block |-> r.block, entry |-> 1, res |-> "running"]
  BY <1>1
<1>3. s.image = r.image /\ s.block = r.block /\ s.entry = 1 /\ s.res = "running"
  BY <1>2
<1>4. s = [image |-> s.image, block |-> s.block, entry |-> s.entry, res |-> s.res]
  BY <1>2
<1> HIDE DEF s
<1>5. /\ Len(file.blocks) \in Nat /\ r.block <= Len(file.blocks) /\ Len(EntriesIn(file, r.block)) \in Nat
      /\ \A b \in DOMAIN file.blocks : b \in Nat /\ \A i \in {0} \cup DOMAIN EntriesIn(file, b) : i \in Nat
  BY <1>1 DEF FileParts
<1>6. Placed(file, s)
  <2>1. s.entry \in DOMAIN EntriesIn(file, s.block) => EntriesIn(file, s.block)[s.entry].type # "half"
    <3>1. Linked(file)
      BY DEF GoingOn
    <3>2. ~(1 > 1)
      OBVIOUS
    <3> QED BY <1>3, <3>1, <3>2, EntriesAre
  <2>2. ASSUME NEW b \in DOMAIN file.blocks, NEW i \in {0} \cup DOMAIN EntriesIn(file, b), Stops(file, b, i),
               Before(s, b, i)
        PROVE  FALSE
    <3>1. ~Before(r, b, i)
      BY <1>1, <2>2 DEF Placed
    <3>2. b = r.block /\ i = 0
      BY <1>1, <1>3, <1>5, <2>2, <3>1 DEF Before
    <3> QED BY <2>2, <3>2 DEF Stops
  <2>3. s.entry <= Len(EntriesIn(file, s.block)) + 1
    BY <1>3, <1>5
  <2> QED BY <1>1, <1>3, <1>5, <2>1, <2>2, <2>3 DEF Placed
<1>7. Answers(file, s)
  BY <1>1, <1>3 DEF Answers
<1>8. ASSUME NEW a \in file.addresses PROVE AddressIs(file, base, s, s.image, a)
  <2>1. AddressParts(file, a)
    BY AddressHasParts DEF GoingOn
  <2>2. a.entry \in Nat /\ a.entry >= 1 /\ a.block \in Nat
    BY <2>1 DEF AddressParts
  <2>3. Before(s, a.block, a.entry) <=> Before(r, a.block, a.entry)
    BY <1>1, <1>3, <2>2 DEF Before
  <2>4. Halfway(s, a) <=> Halfway(r, a)
    BY <1>3, <2>2 DEF Halfway
  <2>5. AddressIs(file, base, r, r.image, a)
    BY <1>1 DEF ImageIs
  <2> QED BY <1>3, <2>1, <2>3, <2>4, <2>5, AddressStays
<1>9. ImageIs(file, base, s, s.image)
  BY <1>1, <1>3, <1>8 DEF ImageIs
<1> QED BY <1>4, <1>6, <1>7, <1>9 DEF RelocationInv, s

\* Past its last entry it is left.
LEMMA BlockEnds ==
    ASSUME NEW file, NEW base, NEW r, GoingOn(file, base, r), r.entry > 0, r.block \in DOMAIN file.blocks,
           r.entry > Len(EntriesIn(file, r.block))
    PROVE  RelocationInv(file, base, [r EXCEPT !.block = @ + 1, !.entry = 0])
<1> DEFINE s == [r EXCEPT !.block = @ + 1, !.entry = 0]
<1>1. /\ FileParts(file) /\ file.valid /\ file.blocks # <<>>
      /\ r = [image |-> r.image, block |-> r.block, entry |-> r.entry, res |-> "running"]
      /\ Placed(file, r) /\ ImageIs(file, base, r, r.image) /\ r.block \in Nat
      /\ r.block >= 1 /\ r.block <= Len(file.blocks) + 1 /\ r.entry \in Nat
  BY GoingOnIs
<1>2. s = [image |-> r.image, block |-> r.block + 1, entry |-> 0, res |-> "running"]
  <2> DEFINE c == r.block + 1
             q == [r EXCEPT !.block = c]
  <2>1. s = [r EXCEPT !.block = c, !.entry = 0]
    OBVIOUS
  <2> HIDE DEF s, c
  <2>2. q = [image |-> r.image, block |-> c, entry |-> r.entry, res |-> "running"]
    BY <1>1
  <2>3. s = [q EXCEPT !.entry = 0]
    BY <2>1
  <2> HIDE DEF q
  <2>4. [q EXCEPT !.entry = 0] = [image |-> r.image, block |-> c, entry |-> 0, res |-> "running"]
    BY <2>2
  <2> QED BY <2>3, <2>4 DEF c
<1>3. s.image = r.image /\ s.block = r.block + 1 /\ s.entry = 0 /\ s.res = "running"
  BY <1>2
<1>4. s = [image |-> s.image, block |-> s.block, entry |-> s.entry, res |-> s.res]
  BY <1>2
<1> HIDE DEF s
<1>5. /\ Len(file.blocks) \in Nat /\ r.block <= Len(file.blocks) /\ Len(EntriesIn(file, r.block)) \in Nat
      /\ DOMAIN file.blocks = 1..Len(file.blocks)
      /\ \A b \in DOMAIN file.blocks :
           /\ b \in Nat /\ Len(EntriesIn(file, b)) \in Nat
           /\ \A i \in DOMAIN EntriesIn(file, b) : i \in Nat /\ i >= 1 /\ i <= Len(EntriesIn(file, b))
  BY <1>1 DEF FileParts
<1>6. ASSUME NEW b \in DOMAIN file.blocks, NEW i \in {0} \cup DOMAIN EntriesIn(file, b)
      PROVE  Before(s, b, i) <=> Before(r, b, i)
  <2>1. b \in Nat /\ i \in Nat /\ (b = r.block => i < r.entry)
    BY <1>1, <1>5
  <2> QED BY <1>1, <1>3, <2>1 DEF Before
<1>7. Placed(file, s)
  <2>1. s.block \in DOMAIN file.blocks => s.entry \notin DOMAIN EntriesIn(file, s.block)
    BY <1>3, <1>5
  <2>2. s.block <= Len(file.blocks) => s.entry <= Len(EntriesIn(file, s.block)) + 1
    <3>1. s.block <= Len(file.blocks) => s.block \in DOMAIN file.blocks
      BY <1>1, <1>3, <1>5
    <3> QED BY <1>3, <1>5, <3>1
  <2> QED BY <1>1, <1>3, <1>5, <1>6, <2>1, <2>2 DEF Placed
<1>8. Answers(file, s)
  BY <1>1, <1>3 DEF Answers
<1>9. ASSUME NEW a \in file.addresses PROVE AddressIs(file, base, s, s.image, a)
  <2>1. AddressParts(file, a)
    BY AddressHasParts DEF GoingOn
  <2>2. /\ a.entry \in Nat /\ a.entry >= 1 /\ a.block \in DOMAIN file.blocks /\ a.entry \in DOMAIN EntriesIn(file, a.block)
        /\ a.form = "split" => a.entry + 2 \in DOMAIN EntriesIn(file, a.block)
    BY <2>1 DEF AddressParts
  <2>3. Before(s, a.block, a.entry) <=> Before(r, a.block, a.entry)
    BY <1>6, <2>2
  <2>4. ~Halfway(s, a)
    BY <1>3, <2>2 DEF Halfway
  <2>5. ~Halfway(r, a)
    BY <1>1, <1>5, <2>2 DEF Halfway
  <2>6. AddressIs(file, base, r, r.image, a)
    BY <1>1 DEF ImageIs
  <2> QED BY <1>3, <2>1, <2>3, <2>4, <2>5, <2>6, AddressStays
<1>10. ImageIs(file, base, s, s.image)
  BY <1>1, <1>3, <1>9 DEF ImageIs
<1> QED BY <1>4, <1>7, <1>8, <1>10 DEF RelocationInv, s

\* A step of a relocation under way, over a known entry.
Type(file, r) == EntriesIn(file, r.block)[r.entry].type
Turns(r, file) == r.entry + (IF Type(file, r) = "HIGHADJ" THEN 2 ELSE 1)
EntryStep(file, base, r, image, s) ==
  /\ GoingOn(file, base, r) /\ r.block \in DOMAIN file.blocks /\ r.entry \in DOMAIN EntriesIn(file, r.block)
  /\ Type(file, r) \in Reloc!Known
  /\ s = [image |-> image, block |-> r.block, entry |-> Turns(r, file), res |-> "running"]

\* What is known of it, in parts.
LEMMA EntryStepIs ==
    ASSUME NEW file, NEW base, NEW r, NEW image, NEW s, EntryStep(file, base, r, image, s)
    PROVE  /\ Linked(file) /\ FileParts(file) /\ file.valid /\ file.blocks # <<>> /\ base \in Int
           /\ Placed(file, r) /\ ImageIs(file, base, r, r.image)
           /\ r.block \in Nat /\ r.block \in DOMAIN file.blocks /\ r.block >= 1 /\ r.block <= Len(file.blocks)
           /\ r.entry \in Nat /\ r.entry >= 1 /\ r.entry \in DOMAIN EntriesIn(file, r.block)
           /\ Len(EntriesIn(file, r.block)) \in Nat
           /\ DOMAIN EntriesIn(file, r.block) = 1..Len(EntriesIn(file, r.block))
           /\ Type(file, r) \in Reloc!Known /\ Type(file, r) # "half"
           /\ s.image = image /\ s.block = r.block /\ s.res = "running"
           /\ s = [image |-> s.image, block |-> s.block, entry |-> s.entry, res |-> s.res]
           /\ s.entry = r.entry + (IF Type(file, r) = "HIGHADJ" THEN 2 ELSE 1)
<1>1. /\ GoingOn(file, base, r) /\ r.block \in DOMAIN file.blocks /\ r.entry \in DOMAIN EntriesIn(file, r.block)
      /\ Type(file, r) \in Reloc!Known
  BY DEF EntryStep
<1>2. /\ FileParts(file) /\ file.valid /\ file.blocks # <<>> /\ base \in Int
      /\ Placed(file, r) /\ ImageIs(file, base, r, r.image)
      /\ r.block \in Nat /\ r.block >= 1 /\ r.entry \in Nat /\ Linked(file)
  BY <1>1, GoingOnIs DEF GoingOn
<1>3. r.block <= Len(file.blocks)
  BY <1>1, <1>2 DEF FileParts
<1>4. Len(EntriesIn(file, r.block)) \in Nat /\ DOMAIN EntriesIn(file, r.block) = 1..Len(EntriesIn(file, r.block))
  BY <1>1, <1>2 DEF FileParts
<1>5. r.entry >= 1
  BY <1>1, <1>2, <1>4
<1>6. Type(file, r) # "half"
  BY <1>1, <1>2 DEF Placed, Type
<1>7. s = [image |-> image, block |-> r.block, entry |-> Turns(r, file), res |-> "running"]
  BY DEF EntryStep
<1>8. s.image = image /\ s.block = r.block /\ s.res = "running" /\ s.entry = Turns(r, file)
  BY <1>7
<1>9. s = [image |-> s.image, block |-> s.block, entry |-> s.entry, res |-> s.res]
  BY <1>7
<1> QED BY <1>1, <1>2, <1>3, <1>4, <1>5, <1>6, <1>8, <1>9 DEF Turns

\* It comes to an entry that is no half, and passes nothing that stops it.
LEMMA EntryAdvances ==
    ASSUME NEW file, NEW base, NEW r, NEW image, NEW s, EntryStep(file, base, r, image, s)
    PROVE  Placed(file, s) /\ Answers(file, s)
<1> DEFINE e == EntriesIn(file, r.block)
           t == Type(file, r)
<1>1. /\ Linked(file) /\ FileParts(file) /\ file.valid /\ file.blocks # <<>> /\ Placed(file, r)
      /\ r.block \in Nat /\ r.block \in DOMAIN file.blocks /\ r.block >= 1 /\ r.block <= Len(file.blocks)
      /\ r.entry \in Nat /\ r.entry >= 1 /\ r.entry \in DOMAIN e /\ Len(e) \in Nat /\ DOMAIN e = 1..Len(e)
      /\ t \in Reloc!Known /\ t # "half"
      /\ s.block = r.block /\ s.res = "running"
      /\ s.entry = r.entry + (IF t = "HIGHADJ" THEN 2 ELSE 1)
  BY EntryStepIs
<1>2. t = e[r.entry].type
  BY DEF Type
<1>3. Len(file.blocks) \in Nat
  BY <1>1 DEF FileParts
<1>4. t = "HIGHADJ" => r.entry + 1 \in DOMAIN e /\ e[r.entry + 1].type = "half"
  <2>1. t = "HIGHADJ" => r.entry < Len(e)
    <3>1. e[r.entry].type = "HIGHADJ" => r.entry < Len(e)
      BY <1>1, EntriesAre
    <3> QED BY <1>2, <3>1
  <2>2. t = "HIGHADJ" => r.entry + 1 \in DOMAIN e
    BY <1>1, <2>1
  <2>3. (r.entry + 1) - 1 = r.entry /\ r.entry + 1 > 1
    BY <1>1
  <2>4. t = "HIGHADJ" => e[r.entry + 1].type = "half"
    <3>1. CASE t = "HIGHADJ"
      <4> DEFINE k == r.entry + 1
      <4>1. k \in DOMAIN e /\ k > 1 /\ k - 1 = r.entry
        BY <2>2, <2>3, <3>1
      <4> HIDE DEF k
      <4>2. e[k].type = "half" <=> k > 1 /\ e[k - 1].type = "HIGHADJ"
        BY <1>1, <4>1, EntriesAre
      <4> QED BY <1>2, <3>1, <4>1, <4>2 DEF k
    <3> QED BY <3>1
  <2> QED BY <2>2, <2>4
<1>5. s.entry \in Nat /\ s.entry >= 2 /\ s.entry <= Len(e) + 1
  <2>1. CASE t = "HIGHADJ"
    BY <1>1, <1>4, <2>1
  <2>2. CASE t # "HIGHADJ"
    BY <1>1, <2>2
  <2> QED BY <2>1, <2>2
<1>6. s.entry \in DOMAIN e => e[s.entry].type # "half"
  <2> DEFINE k == s.entry - 1
  <2>1. e[k].type # "HIGHADJ"
    <3>1. CASE t = "HIGHADJ"
      <4>1. k = r.entry + 1
        BY <1>1, <3>1
      <4> QED BY <1>4, <3>1, <4>1
    <3>2. CASE t # "HIGHADJ"
      <4>1. k = r.entry
        BY <1>1, <3>2
      <4> QED BY <1>2, <3>2, <4>1
    <3> QED BY <3>1, <3>2
  <2>2. s.entry \in DOMAIN e => (e[s.entry].type = "half" <=> s.entry > 1 /\ e[k].type = "HIGHADJ")
    BY <1>1, EntriesAre
  <2> QED BY <2>1, <2>2
<1>7. ASSUME NEW b \in DOMAIN file.blocks, NEW i \in {0} \cup DOMAIN EntriesIn(file, b), Stops(file, b, i),
             Before(s, b, i)
      PROVE  FALSE
  <2>1. ~Before(r, b, i)
    BY <1>1, <1>7 DEF Placed
  <2>2. b \in Nat /\ i \in Nat
    BY <1>1 DEF FileParts
  <2>3. b = r.block /\ i >= r.entry /\ i < s.entry
    BY <1>1, <1>5, <1>7, <2>1, <2>2 DEF Before
  <2>4. i = r.entry \/ (t = "HIGHADJ" /\ i = r.entry + 1)
    BY <1>1, <2>2, <2>3
  <2>5. i # 0 /\ e[i].type \in Reloc!Known \cup {"half"}
    BY <1>1, <1>2, <1>4, <2>4
  <2>6. file.blocks[b].entries = e
    BY <2>3 DEF EntriesIn
  <2> QED BY <1>7, <2>5, <2>6 DEF Stops
<1> HIDE DEF e, t
<1>8. Placed(file, s)
  <2>1. /\ s.block \in Nat /\ s.entry \in Nat /\ s.block >= 1 /\ s.block <= Len(file.blocks) + 1
        /\ s.block > Len(file.blocks) => s.entry = 0
    BY <1>1, <1>3, <1>5
  <2>2. /\ s.entry <= Len(EntriesIn(file, s.block)) + 1
        /\ s.entry \in DOMAIN EntriesIn(file, s.block) => EntriesIn(file, s.block)[s.entry].type # "half"
    BY <1>1, <1>5, <1>6 DEF e
  <2> QED BY <1>7, <2>1, <2>2 DEF Placed
<1>9. Answers(file, s)
  BY <1>1 DEF Answers
<1> QED BY <1>8, <1>9

\* An address that the entry does not relocate is as far as it was.
LEMMA Others ==
    ASSUME NEW file, NEW base, NEW r, NEW image, NEW s, EntryStep(file, base, r, image, s),
           NEW c \in file.addresses, c.block # r.block \/ r.entry \notin EntriesOf(c)
    PROVE  /\ Before(s, c.block, c.entry) <=> Before(r, c.block, c.entry)
           /\ Halfway(s, c) <=> Halfway(r, c)
<1> DEFINE e == EntriesIn(file, r.block)
           t == Type(file, r)
<1>1. /\ Linked(file) /\ FileParts(file)
      /\ r.block \in Nat /\ r.block \in DOMAIN file.blocks
      /\ r.entry \in Nat /\ r.entry \in DOMAIN e /\ Len(e) \in Nat /\ DOMAIN e = 1..Len(e)
      /\ t # "half" /\ s.block = r.block
      /\ s.entry = r.entry + (IF t = "HIGHADJ" THEN 2 ELSE 1)
  BY EntryStepIs
<1>2. t = e[r.entry].type
  BY DEF Type
<1>3. AddressParts(file, c)
  BY <1>1, AddressHasParts
<1>4. c.block \in Nat /\ c.entry \in Nat /\ c.entry \in DOMAIN EntriesIn(file, c.block)
  BY <1>3 DEF AddressParts
<1>5. CASE c.block # r.block
  BY <1>1, <1>4, <1>5 DEF Before, Halfway
<1>6. CASE c.block = r.block /\ r.entry \notin EntriesOf(c)
  <2>1. c.entry # r.entry /\ (c.form = "split" => r.entry # c.entry + 2)
    BY <1>6 DEF EntriesOf
  <2>2. c.form \in {"long", "split", "quad"} /\ e[c.entry].type \in {"HIGHLOW", "DIR64", "HIGHADJ"}
        /\ (c.form = "split" => e[c.entry].type = "HIGHADJ")
    BY <1>3, <1>6 DEF AddressParts, EntryOf, EntriesIn
  <2>3. \A k \in Nat : k \in DOMAIN e /\ k + 1 \in DOMAIN e => (e[k + 1].type = "half" <=> e[k].type = "HIGHADJ")
    <3>1. SUFFICES ASSUME NEW k \in Nat, k \in DOMAIN e, k + 1 \in DOMAIN e
                   PROVE  e[k + 1].type = "half" <=> e[k].type = "HIGHADJ"
      OBVIOUS
    <3> DEFINE n == k + 1
    <3>2. n \in DOMAIN e /\ n > 1 /\ n - 1 = k
      BY <1>1, <3>1
    <3> HIDE DEF n
    <3>3. e[n].type = "half" <=> n > 1 /\ e[n - 1].type = "HIGHADJ"
      BY <1>1, <3>2, EntriesAre
    <3> QED BY <3>2, <3>3 DEF n
  <2>4. t = "HIGHADJ" => c.entry # r.entry + 1
    BY <1>1, <1>2, <1>4, <1>6, <2>2, <2>3
  <2>5. Before(s, c.block, c.entry) <=> Before(r, c.block, c.entry)
    BY <1>1, <1>4, <1>6, <2>1, <2>4 DEF Before
  <2>6. ~Halfway(r, c)
    BY <1>6, <2>1 DEF Halfway
  <2>7. ~Halfway(s, c)
    <3>1. ASSUME c.form = "split", s.entry = c.entry + 2 PROVE FALSE
      <4>1. t # "HIGHADJ"
        BY <1>1, <1>4, <2>1, <3>1
      <4>2. r.entry = c.entry + 1
        BY <1>1, <1>4, <3>1, <4>1
      <4>3. e[c.entry + 1].type = "half"
        BY <1>1, <1>4, <1>6, <2>2, <2>3, <3>1, <4>2
      <4> QED BY <1>1, <1>2, <4>2, <4>3
    <3> QED BY <3>1 DEF Halfway
  <2> QED BY <2>5, <2>6, <2>7
<1> QED BY <1>5, <1>6

\* The half an entry of an address fixes is one of the address.
LEMMA EntryIsOfAddress ==
    ASSUME NEW file, NEW a, AddressParts(file, a), FileParts(file), NEW i \in EntriesOf(a)
    PROVE  file.blocks[a.block].va + EntriesIn(file, a.block)[i].off \in HalvesOf(file, a)
<1>1. /\ Place(file, a) = file.blocks[a.block].va + EntryOf(file, a).off
      /\ Place(file, a) \in HalvesOf(file, a) /\ Place(file, a) + 1 \in HalvesOf(file, a)
      /\ EntryOf(file, a) = EntriesIn(file, a.block)[a.entry]
      /\ a.block \in DOMAIN file.blocks /\ a.entry \in DOMAIN EntriesIn(file, a.block)
  BY DEF AddressParts, EntryOf, EntriesIn
<1>2. CASE i = a.entry
  BY <1>1, <1>2
<1>3. CASE a.form = "split" /\ i = a.entry + 2
  <2>1. EntriesIn(file, a.block)[i].off = EntryOf(file, a).off + 1
    BY <1>3 DEF AddressParts
  <2>2. file.blocks[a.block].va \in Nat /\ EntryOf(file, a).off \in Nat
    BY <1>1 DEF FileParts
  <2> QED BY <1>1, <2>1, <2>2
<1> QED BY <1>2, <1>3 DEF EntriesOf

\* No entry is of two addresses.
LEMMA OneAddress ==
    ASSUME NEW file, Linked(file), NEW a \in file.addresses, NEW c \in file.addresses, c # a, NEW i \in EntriesOf(a)
    PROVE  c.block # a.block \/ i \notin EntriesOf(c)
<1>1. AddressParts(file, a) /\ AddressParts(file, c) /\ FileParts(file)
  BY AddressHasParts, FileHasParts
<1>2. HalvesOf(file, a) \cap HalvesOf(file, c) = {}
  BY DEF Linked
<1>3. file.blocks[a.block].va + EntriesIn(file, a.block)[i].off \in HalvesOf(file, a)
  BY <1>1, EntryIsOfAddress
<1>4. i \in EntriesOf(c) => file.blocks[c.block].va + EntriesIn(file, c.block)[i].off \in HalvesOf(file, c)
  BY <1>1, EntryIsOfAddress
<1> QED BY <1>2, <1>3, <1>4

\* The entry after a HIGHADJ is its low half.
LowOf(file, r) == IF Type(file, r) = "HIGHADJ" THEN EntriesIn(file, r.block)[r.entry + 1].off ELSE 0
FixedAt(file, base, r) ==
  Reloc!Fixed(r.image, file.blocks[r.block].va, EntriesIn(file, r.block)[r.entry], LowOf(file, r),
              Reloc!Diff(file, base, 0))

\* An entry of an address takes it from one half to the next, and changes
\* nothing else.
LEMMA EntryMoves ==
    ASSUME NEW file, NEW base, NEW r, NEW s, EntryStep(file, base, r, FixedAt(file, base, r), s),
           NEW a \in file.addresses, a.block = r.block, r.entry \in EntriesOf(a)
    PROVE  LET new == FixedAt(file, base, r)
           IN  IsImage(file, new) /\ AddressIs(file, base, s, new, a) /\ Else(file, a, r.image, new)
<1> DEFINE new == FixedAt(file, base, r)
           diff == Reloc!Diff(file, base, 0)
           e == EntriesIn(file, r.block)
           va == file.blocks[a.block].va
           t == Type(file, r)
<1>1. /\ Linked(file) /\ base \in Int /\ ImageIs(file, base, r, r.image)
      /\ r.entry \in Nat /\ r.entry >= 1 /\ s.block = r.block /\ r.block \in Nat
      /\ s.entry = r.entry + (IF t = "HIGHADJ" THEN 2 ELSE 1)
  BY EntryStepIs
<1>2. AddressParts(file, a)
  BY <1>1, AddressHasParts
<1>3. Relocates(file, base, a, r.image, diff)
  BY <1>1 DEF Relocates, ImageIs
<1>4. AddressIs(file, base, r, r.image, a)
  BY <1>1 DEF ImageIs
<1>5. a.form \in {"long", "split", "quad"} /\ a.entry \in Nat
  BY <1>2 DEF AddressParts
<1>6. t = e[r.entry].type /\ EntriesIn(file, a.block) = e
  BY DEF Type
<1>7. new = Reloc!Fixed(r.image, va, e[r.entry], LowOf(file, r), diff)
  BY DEF FixedAt
<1>8. CASE a.form = "long" \/ a.form = "quad"
  <2>1. r.entry = a.entry
    BY <1>8 DEF EntriesOf
  <2>2. EntryOf(file, a) = e[r.entry] /\ t # "HIGHADJ"
    BY <1>2, <1>6, <1>8, <2>1 DEF AddressParts, EntryOf, EntriesIn
  <2>3. ~Before(r, a.block, a.entry)
    BY <1>1, <1>5, <2>1 DEF Before
  <2>4. Untouched(file, r.image, a)
    BY <1>4, <2>3 DEF AddressIs
  <2>5. new = Reloc!Fixed(r.image, va, EntryOf(file, a), LowOf(file, r), diff)
    BY <1>7, <2>2
  <2>6. IsImage(file, new) /\ Moved(file, base, new, a) /\ Else(file, a, r.image, new)
    <3> HIDE DEF new, va, diff
    <3>1. CASE a.form = "long"
      BY <1>3, <2>4, <2>5, <3>1, LongMoves DEF va
    <3>2. CASE a.form = "quad"
      BY <1>3, <2>4, <2>5, <3>2, QuadMoves DEF va
    <3> QED BY <1>8, <3>1, <3>2
  <2>7. Before(s, a.block, a.entry) /\ ~Halfway(s, a)
    BY <1>1, <1>5, <1>8, <2>1, <2>2 DEF Before, Halfway
  <2> QED BY <2>6, <2>7 DEF AddressIs
<1>9. CASE a.form = "split" /\ r.entry = a.entry
  <2>1. EntryOf(file, a) = e[r.entry] /\ t = "HIGHADJ"
    BY <1>2, <1>6, <1>9 DEF AddressParts, EntryOf, EntriesIn
  <2>2. ~Before(r, a.block, a.entry)
    BY <1>1, <1>5, <1>9 DEF Before
  <2>3. Untouched(file, r.image, a)
    BY <1>4, <2>2 DEF AddressIs
  <2>4. LowOf(file, r) = EntriesIn(file, a.block)[a.entry + 1].off
    BY <1>9, <2>1 DEF LowOf
  <2>5. new = Reloc!Fixed(r.image, va, EntryOf(file, a), EntriesIn(file, a.block)[a.entry + 1].off, diff)
    BY <1>7, <2>1, <2>4
  <2>6. IsImage(file, new) /\ HighMoved(file, base, new, a) /\ Else(file, a, r.image, new)
    <3> HIDE DEF new, va, diff
    <3> QED BY <1>3, <1>9, <2>3, <2>5, HighMoves DEF va
  <2>7. Before(s, a.block, a.entry) /\ Halfway(s, a)
    BY <1>1, <1>5, <1>9, <2>1 DEF Before, Halfway
  <2> QED BY <2>6, <2>7 DEF AddressIs
<1>10. CASE a.form = "split" /\ r.entry = a.entry + 2
  <2>1. t = "LOW"
    BY <1>2, <1>6, <1>10 DEF AddressParts
  <2>2. Before(r, a.block, a.entry) /\ Halfway(r, a)
    BY <1>1, <1>5, <1>10 DEF Before, Halfway
  <2>3. HighMoved(file, base, r.image, a)
    BY <1>4, <2>2 DEF AddressIs
  <2>4. new = Reloc!Fixed(r.image, va, EntriesIn(file, a.block)[a.entry + 2], LowOf(file, r), diff)
    BY <1>6, <1>7, <1>10
  <2>5. IsImage(file, new) /\ Moved(file, base, new, a) /\ Else(file, a, r.image, new)
    <3> HIDE DEF new, va, diff
    <3> QED BY <1>3, <1>10, <2>3, <2>4, LowMoves DEF va
  <2>6. Before(s, a.block, a.entry) /\ ~Halfway(s, a)
    BY <1>1, <1>5, <1>10, <2>1 DEF Before, Halfway
  <2> QED BY <2>5, <2>6 DEF AddressIs
<1> QED BY <1>5, <1>8, <1>9, <1>10 DEF EntriesOf

\* So every address is as far as the relocation is, whatever the entry.
LEMMA EntryKeeps ==
    ASSUME NEW file, NEW base, NEW r, NEW s, EntryStep(file, base, r, FixedAt(file, base, r), s)
    PROVE  ImageIs(file, base, s, FixedAt(file, base, r))
<1> DEFINE new == FixedAt(file, base, r)
           e == EntriesIn(file, r.block)
           OfNone(p) == \A a \in file.addresses : p \notin HalvesOf(file, a)
<1>1. /\ Linked(file) /\ FileParts(file) /\ base \in Int /\ ImageIs(file, base, r, r.image)
      /\ r.block \in DOMAIN file.blocks /\ r.entry \in DOMAIN e
      /\ Type(file, r) \in Reloc!Known /\ Type(file, r) # "half"
  BY EntryStepIs
<1>2. Type(file, r) = e[r.entry].type
  BY DEF Type
<1>3. ASSUME NEW c \in file.addresses, c.block # r.block \/ r.entry \notin EntriesOf(c),
             \A x \in HalvesOf(file, c) : new[x] = r.image[x]
      PROVE  AddressIs(file, base, s, new, c)
  <2>1. AddressParts(file, c)
    BY <1>1, AddressHasParts
  <2>2. AddressIs(file, base, r, r.image, c)
    BY <1>1 DEF ImageIs
  <2>3. Before(s, c.block, c.entry) <=> Before(r, c.block, c.entry)
    BY <1>3, Others
  <2>4. Halfway(s, c) <=> Halfway(r, c)
    BY <1>3, Others
  <2> HIDE DEF new
  <2> QED BY <1>3, <2>1, <2>2, <2>3, <2>4, AddressStays
<1>4. CASE \E a \in file.addresses : a.block = r.block /\ r.entry \in EntriesOf(a)
  <2>1. PICK a \in file.addresses : a.block = r.block /\ r.entry \in EntriesOf(a)
    BY <1>4
  <2>2. IsImage(file, new) /\ AddressIs(file, base, s, new, a) /\ Else(file, a, r.image, new)
    BY <2>1, EntryMoves
  <2> HIDE DEF new
  <2>3. ASSUME NEW c \in file.addresses, c # a PROVE AddressIs(file, base, s, new, c)
    <3>1. c.block # r.block \/ r.entry \notin EntriesOf(c)
      BY <1>1, <2>1, <2>3, OneAddress
    <3>2. HalvesOf(file, c) \cap HalvesOf(file, a) = {}
      BY <1>1, <2>3 DEF Linked
    <3>3. HalvesOf(file, c) \subseteq DOMAIN file.image
      BY <1>1, AddressHasParts DEF AddressParts
    <3>4. \A x \in HalvesOf(file, c) : new[x] = r.image[x]
      BY <2>2, <3>2, <3>3 DEF Else
    <3> QED BY <1>3, <3>1, <3>4
  <2>4. ASSUME NEW p \in DOMAIN file.image, OfNone(p) PROVE new[p] = file.image[p]
    BY <1>1, <2>2, <2>4 DEF Else, ImageIs
  <2> QED BY <2>2, <2>3, <2>4 DEF ImageIs, new
<1>5. CASE ~\E a \in file.addresses : a.block = r.block /\ r.entry \in EntriesOf(a)
  <2>1. IdleEntry(e[r.entry])
    <3>1. \/ e[r.entry].type = "half" \/ e[r.entry].type \notin Reloc!Known \/ IdleEntry(e[r.entry])
          \/ \E a \in file.addresses : a.block = r.block /\ r.entry \in EntriesOf(a)
      BY <1>1, EntriesAre
    <3> QED BY <1>1, <1>2, <1>5, <3>1
  <2>2. new = r.image
    BY <2>1, FixedIs DEF FixedAt
  <2> HIDE DEF new
  <2>3. ASSUME NEW c \in file.addresses PROVE AddressIs(file, base, s, new, c)
    BY <1>3, <1>5, <2>2
  <2>4. IsImage(file, new) /\ \A p \in DOMAIN file.image : OfNone(p) => new[p] = file.image[p]
    BY <1>1, <2>2 DEF ImageIs
  <2> QED BY <2>3, <2>4 DEF ImageIs, new
<1> QED BY <1>4, <1>5

\* What LdrProcessRelocationBlockLongLong does with an entry is such a step.
LEMMA EntryApplies ==
    ASSUME NEW file, NEW base, NEW r, GoingOn(file, base, r), r.block \in DOMAIN file.blocks,
           r.entry \in DOMAIN EntriesIn(file, r.block), Type(file, r) \in Reloc!Known
    PROVE  RelocationInv(file, base,
             Reloc!LdrProcessRelocationBlockLongLong(r, file.blocks[r.block], Reloc!Diff(file, base, 0)))
<1> DEFINE s == Reloc!LdrProcessRelocationBlockLongLong(r, file.blocks[r.block], Reloc!Diff(file, base, 0))
           new == FixedAt(file, base, r)
           n == Turns(r, file)
           q == [r EXCEPT !.image = new]
<1>1. r = [image |-> r.image, block |-> r.block, entry |-> r.entry, res |-> "running"]
  BY GoingOnIs
<1>2. s = [r EXCEPT !.image = new, !.entry = n]
  BY DEF Reloc!LdrProcessRelocationBlockLongLong, FixedAt, LowOf, Turns, Type, EntriesIn
<1> HIDE DEF s, new, n
<1>3. q = [image |-> new, block |-> r.block, entry |-> r.entry, res |-> "running"]
  BY <1>1
<1>4. s = [q EXCEPT !.entry = n]
  BY <1>2
<1> HIDE DEF q
<1>5. s = [image |-> new, block |-> r.block, entry |-> n, res |-> "running"]
  BY <1>3, <1>4
<1>6. EntryStep(file, base, r, new, s)
  BY <1>5 DEF EntryStep, n
<1>7. Placed(file, s) /\ Answers(file, s)
  BY <1>6, EntryAdvances
<1>8. ImageIs(file, base, s, new)
  BY <1>6, EntryKeeps DEF new
<1>9. s.image = new /\ s = [image |-> s.image, block |-> s.block, entry |-> s.entry, res |-> s.res]
  BY <1>5
<1> QED BY <1>7, <1>8, <1>9 DEF RelocationInv, s

-----------------------------------------------------------------------------
(* The end of a relocation.                                                *)

\* Where a relocation that has ended stands: it has passed what nothing stops
\* it from, and is between no halves.
LEMMA PassedIsReached ==
    ASSUME NEW file, Linked(file), NEW base, NEW r, RelocationInv(file, base, r), r.res # "running",
           file.valid, file.blocks # <<>>, NEW a \in file.addresses
    PROVE  (Reached(file, a) <=> Before(r, a.block, a.entry)) /\ ~Halfway(r, a)
<1>1. FileParts(file) /\ AddressParts(file, a) /\ Placed(file, r) /\ Answers(file, r)
  BY FileHasParts, AddressHasParts DEF RelocationInv
<1>2. /\ a.block \in DOMAIN file.blocks /\ a.block \in Nat /\ a.entry \in Nat /\ a.entry >= 1
      /\ a.form = "split" => EntriesIn(file, a.block)[a.entry + 2].type = "LOW"
  BY <1>1 DEF AddressParts
<1>3. /\ r.block \in Nat /\ r.entry \in Nat
      /\ \A b \in DOMAIN file.blocks : \A i \in {0} \cup DOMAIN EntriesIn(file, b) : Stops(file, b, i) => ~Before(r, b, i)
  BY <1>1 DEF Placed
<1>4. \/ r.res = "success" /\ r.block > Len(file.blocks)
      \/ /\ r.res = "invalid" /\ r.block \in DOMAIN file.blocks
         /\ r.entry \in {0} \cup DOMAIN EntriesIn(file, r.block) /\ Stops(file, r.block, r.entry)
  BY <1>1 DEF Answers
<1>5. /\ Len(file.blocks) \in Nat /\ DOMAIN file.blocks = 1..Len(file.blocks)
      /\ \A b \in DOMAIN file.blocks : b \in Nat /\ \A i \in {0} \cup DOMAIN EntriesIn(file, b) : i \in Nat
  BY <1>1 DEF FileParts
<1>6. Before(r, a.block, a.entry) => Reached(file, a)
  <2>1. ASSUME Before(r, a.block, a.entry), NEW b \in DOMAIN file.blocks, NEW i \in {0} \cup DOMAIN file.blocks[b].entries,
               Stops(file, b, i)
        PROVE  b > a.block \/ (b = a.block /\ i > a.entry)
    <3>1. i \in {0} \cup DOMAIN EntriesIn(file, b)
      BY DEF EntriesIn
    <3>2. ~Before(r, b, i) /\ b \in Nat /\ i \in Nat
      BY <1>3, <1>5, <2>1, <3>1
    <3> QED BY <1>2, <1>3, <2>1, <3>2 DEF Before
  <2> QED BY <2>1 DEF Reached
<1>7. Reached(file, a) => Before(r, a.block, a.entry)
  <2>1. CASE r.res = "success" /\ r.block > Len(file.blocks)
    BY <1>2, <1>3, <1>5, <2>1 DEF Before
  <2>2. CASE /\ r.res = "invalid" /\ r.block \in DOMAIN file.blocks
             /\ r.entry \in {0} \cup DOMAIN EntriesIn(file, r.block) /\ Stops(file, r.block, r.entry)
    <3>1. r.entry \in {0} \cup DOMAIN file.blocks[r.block].entries
      BY <2>2 DEF EntriesIn
    <3>2. Reached(file, a) => r.block > a.block \/ (r.block = a.block /\ r.entry > a.entry)
      BY <2>2, <3>1 DEF Reached
    <3> QED BY <1>2, <1>3, <3>2 DEF Before
  <2> QED BY <1>4, <2>1, <2>2
<1>8. ~Halfway(r, a)
  <2>1. ASSUME Halfway(r, a) PROVE FALSE
    <3>1. a.form = "split" /\ r.block = a.block /\ r.entry = a.entry + 2
      BY <2>1 DEF Halfway
    <3>2. r.entry # 0 /\ r.block \in DOMAIN file.blocks /\ ~(r.block > Len(file.blocks))
      BY <1>2, <1>5, <3>1
    <3>3. Stops(file, r.block, r.entry)
      BY <1>4, <3>2
    <3>4. file.blocks[r.block].entries[r.entry].type = "LOW"
      BY <1>2, <3>1 DEF EntriesIn
    <3> QED BY <3>2, <3>3, <3>4 DEF Stops, Reloc!Known
  <2> QED BY <2>1
<1> QED BY <1>6, <1>7, <1>8

\* So what is left by a relocation that has ended is what was to be.
LEMMA RelocationGives ==
    ASSUME NEW file, Linked(file), NEW base, NEW r, RelocationInv(file, base, r), r.res # "running"
    PROVE  /\ \A a \in file.addresses :
                IF Reached(file, a) THEN Moved(file, base, r.image, a) ELSE Untouched(file, r.image, a)
           /\ \A p \in DOMAIN file.image : (\A a \in file.addresses : p \notin HalvesOf(file, a)) => r.image[p] = file.image[p]
           /\ r.res = CASE ~file.valid -> "invalid"
                        [] file.valid /\ file.blocks = <<>> -> IF file.stripped THEN "conflict" ELSE "success"
                        [] file.valid /\ file.blocks # <<>> ->
                             IF \E b \in DOMAIN file.blocks : \E i \in {0} \cup DOMAIN file.blocks[b].entries :
                                  Stops(file, b, i)
                             THEN "invalid" ELSE "success"
<1>1. FileParts(file) /\ Placed(file, r) /\ Answers(file, r) /\ ImageIs(file, base, r, r.image)
  BY FileHasParts DEF RelocationInv
<1>2. ASSUME NEW a \in file.addresses
      PROVE  IF Reached(file, a) THEN Moved(file, base, r.image, a) ELSE Untouched(file, r.image, a)
  <2>1. AddressIs(file, base, r, r.image, a) /\ AddressParts(file, a)
    BY <1>1, AddressHasParts DEF ImageIs
  <2>2. CASE file.valid /\ file.blocks # <<>>
    <3>1. (Reached(file, a) <=> Before(r, a.block, a.entry)) /\ ~Halfway(r, a)
      BY <2>2, PassedIsReached
    <3> QED BY <2>1, <3>1 DEF AddressIs
  <2>3. CASE ~file.valid
    <3>1. r.block = 1 /\ r.entry = 0
      BY <1>1, <2>3 DEF Answers
    <3>2. ~Before(r, a.block, a.entry)
      BY <2>1, <3>1 DEF AddressParts, Before
    <3>3. ~Reached(file, a)
      BY <2>3 DEF Reached
    <3> QED BY <2>1, <3>2, <3>3 DEF AddressIs
  <2>4. CASE file.blocks = <<>>
    <3>1. a.block \in DOMAIN file.blocks
      BY <2>1 DEF AddressParts
    <3> QED BY <2>4, <3>1
  <2> QED BY <2>2, <2>3, <2>4
<1>3. CASE ~file.valid
  BY <1>1, <1>2, <1>3 DEF Answers, ImageIs
<1>4. CASE file.valid /\ file.blocks = <<>>
  BY <1>1, <1>2, <1>4 DEF Answers, ImageIs
<1>5. CASE file.valid /\ file.blocks # <<>>
  <2> DEFINE stopped == \E b \in DOMAIN file.blocks : \E i \in {0} \cup DOMAIN file.blocks[b].entries : Stops(file, b, i)
  <2>1. \/ r.res = "success" /\ r.block > Len(file.blocks)
        \/ /\ r.res = "invalid" /\ r.block \in DOMAIN file.blocks
           /\ r.entry \in {0} \cup DOMAIN EntriesIn(file, r.block) /\ Stops(file, r.block, r.entry)
    BY <1>1, <1>5 DEF Answers
  <2>2. r.res = "invalid" => stopped
    BY <2>1 DEF EntriesIn
  <2>3. ASSUME r.block > Len(file.blocks), NEW b \in DOMAIN file.blocks, NEW i \in {0} \cup DOMAIN file.blocks[b].entries,
               Stops(file, b, i)
        PROVE  FALSE
    <3>1. ~Before(r, b, i)
      BY <1>1, <2>3 DEF Placed, EntriesIn
    <3>2. b < r.block
      BY <1>1, <2>3 DEF Placed, FileParts
    <3> QED BY <3>1, <3>2 DEF Before
  <2>4. r.res = IF stopped THEN "invalid" ELSE "success"
    BY <2>1, <2>2, <2>3
  <2> HIDE DEF stopped
  <2> QED BY <1>1, <1>2, <1>5, <2>4 DEF ImageIs, stopped
<1> QED BY <1>3, <1>4, <1>5

-----------------------------------------------------------------------------
(* Jobs.                                                                   *)

\* What is known of a job once begun: of a stub the part it has done, of a
\* relocation how far it is.
CallInv ==
  /\ job \in CallJobs
  /\ result # Pending =>
       IF job.wow64 THEN WowParts(result, job.args, Len(job.args)) ELSE Native(result, job.args)
TextInv == job \in TextJobs /\ NamesSplitPaths /\ SearchesFindTheFirst
ImageInv == job \in RelocationJobs /\ (result # Pending => RelocationInv(job.file, job.base, result))
CodeInv == CallInv \/ TextInv \/ ImageInv

\* The jobs of a kind are what their routine takes.
LEMMA JobsAre ==
           /\ job \in CallJobs => job.kind = "call" /\ job.args \in Seq(Int) /\ job.wow64 \in BOOLEAN
           /\ job \in CallJobs /\ ~job.wow64 => Fits(job.args)
           /\ job \in TextJobs => job.kind \in {"path", "search", "pattern"}
           /\ job \in RelocationJobs =>
                job.kind = "relocate" /\ job.file \in ImageFiles /\ job.base \in Int /\ Linked(job.file)
<1>1. job \in CallJobs => job.kind = "call" /\ job.args \in Seq(Int) /\ job.wow64 \in BOOLEAN
  BY StubAssumption DEF CallJobs
<1>0. job \in CallJobs /\ ~job.wow64 => Fits(job.args)
  BY DEF CallJobs, MostArgs, Fits
<1>2. job \in TextJobs => job.kind \in {"path", "search", "pattern"}
  BY DEF TextJobs
<1>3. job \in RelocationJobs => job.kind = "relocate" /\ job.file \in ImageFiles /\ job.base \in Bases
  BY DEF RelocationJobs
<1>4. job \in RelocationJobs => job.base \in Int /\ Linked(job.file)
  BY <1>3, ImageFilesAssumption
<1> QED BY <1>0, <1>1, <1>2, <1>3, <1>4

\* Nothing is known at first but the job.
LEMMA CodeInitially ==
    ASSUME CodeInit
    PROVE  CodeInv
BY DEF CodeInit, CodeInv, CallInv, TextInv, ImageInv, NamesSplitPaths, SearchesFindTheFirst, Done

\* A stub is entered where it begins.
LEMMA CallBegins ==
    ASSUME CodeInv, CallRoutine
    PROVE  CallInv'
<1>1. job.kind = "call" /\ job' = job /\ result' = Code!Entered(Len(job.args))
  BY DEF CallRoutine, Compute
<1>2. job \in CallJobs /\ job.args \in Seq(Int) /\ job.wow64 \in BOOLEAN
  BY <1>1, JobsAre DEF CodeInv, CallInv, TextInv, ImageInv
<1>3. WowParts(Code!Entered(Len(job.args)), job.args, Len(job.args))
  BY <1>2, WowBegins
<1>4. job.wow64 = FALSE => Native(Code!Entered(Len(job.args)), job.args)
  BY <1>2, JobsAre, NativeBegins
<1> QED BY <1>1, <1>2, <1>3, <1>4 DEF CallInv

\* Each of its instructions does its part.
LEMMA StubGoesOn ==
    ASSUME CodeInv, ExecuteStub
    PROVE  CallInv'
<1> DEFINE w == job.wow64
           args == job.args
           n == Len(args)
<1>1. /\ job.kind = "call" /\ job' = job /\ result # Pending /\ result.next <= Len(Code!CallCode(w, args))
      /\ result' = Code!RunOne(result, w, args)
  BY DEF ExecuteStub, Executing, Done
<1>2. job \in CallJobs /\ args \in Seq(Int) /\ w \in BOOLEAN /\ CallInv
  BY <1>1, JobsAre DEF CodeInv, CallInv, TextInv, ImageInv
<1> HIDE DEF w, args
<1>3. CASE w = TRUE
  <2>1. WowParts(result, args, n)
    BY <1>1, <1>2, <1>3 DEF CallInv, w, args
  <2> HIDE DEF n
  <2>2. WowRuns(result, w, args, n)
    BY <1>3, <2>1 DEF WowRuns, IsWow
  <2>3. WowParts(result', args, n)
    BY <1>1, <2>2, WowStep
  <2> QED BY <1>1, <1>2, <1>3, <2>3 DEF CallInv, w, args, n
<1>4. CASE w = FALSE
  <2>1. Native(result, args)
    BY <1>1, <1>2, <1>4 DEF CallInv, w, args
  <2>2. IsNative(w)
    BY <1>4 DEF IsNative
  <2>0. Fits(args)
    BY <1>2, <1>4, JobsAre DEF w, args
  <2>3. Native(result', args)
    BY <1>1, <1>2, <2>0, <2>1, <2>2, NativeStep
  <2> QED BY <1>1, <1>2, <1>4, <2>3 DEF CallInv, w, args
<1> QED BY <1>2, <1>3, <1>4

\* A text is split or searched at once.
LEMMA TextFound ==
    ASSUME CodeInv, SearchText
    PROVE  TextInv'
<1>1. job.kind \in {"path", "search", "pattern"} /\ job' = job
  BY DEF SearchText, Compute
<1>2. job \in TextJobs
  BY <1>1, JobsAre DEF CodeInv, CallInv, TextInv, ImageInv
<1>3. CASE Compute("path", [name |-> Text!BBStripPath(job.source), dir |-> Text!BBStripFilename(job.source)])
  <2>1. job.kind = "path"
    BY <1>3 DEF Compute
  <2>2. NamesSplitPaths'
    BY <1>2, <1>3, <2>1, PathStep
  <2>3. SearchesFindTheFirst'
    BY <1>1, <2>1 DEF SearchesFindTheFirst, Done
  <2> QED BY <1>1, <1>2, <2>2, <2>3 DEF TextInv
<1>4. CASE Compute("search", [at |-> Text!BBSafeSearchString(job.source, job.target)])
  <2>1. job.kind = "search"
    BY <1>4 DEF Compute
  <2>2. SearchesFindTheFirst'
    BY <1>2, <1>4, <2>1, SearchStep
  <2>3. NamesSplitPaths'
    BY <1>1, <2>1 DEF NamesSplitPaths, Done
  <2> QED BY <1>1, <1>2, <2>2, <2>3 DEF TextInv
<1>5. CASE Compute("pattern", [at |-> Text!BBSearchPattern(job.target, job.source)])
  <2>1. job.kind = "pattern"
    BY <1>5 DEF Compute
  <2>2. SearchesFindTheFirst'
    BY <1>2, <1>5, <2>1, PatternStep
  <2>3. NamesSplitPaths'
    BY <1>1, <2>1 DEF NamesSplitPaths, Done
  <2> QED BY <1>1, <1>2, <2>2, <2>3 DEF TextInv
<1> QED BY <1>3, <1>4, <1>5 DEF SearchText

\* A relocation goes on from block to block and from entry to entry.
LEMMA ImageGoesOn ==
    ASSUME CodeInv, RelocateImage
    PROVE  ImageInv'
<1> DEFINE file == job.file
           base == job.base
           r == result
<1>1. job.kind = "relocate" /\ job' = job
  BY DEF RelocateImage, BeginRelocation, RelocateBlock, RelocateEntry, Running, Done, Compute, Goes
<1>2. job \in RelocationJobs /\ ImageInv /\ base \in Int /\ Linked(file)
  BY <1>1, JobsAre DEF CodeInv, CallInv, TextInv, ImageInv
<1>3. Running => GoingOn(file, base, r)
  BY <1>2 DEF Running, Done, ImageInv, GoingOn
<1>4. RelocationInv(file, base, r') => ImageInv'
  BY <1>1, <1>2 DEF ImageInv
<1> HIDE DEF file, base
<1>5. CASE BeginRelocation
  <2>1. r' = Reloc!LdrRelocateImage(file)
    BY <1>5 DEF BeginRelocation, Compute, file
  <2>2. RelocationInv(file, base, Reloc!LdrRelocateImage(file))
    BY <1>2, RelocationBegins
  <2> QED BY <1>4, <2>1, <2>2
<1>6. CASE RelocateBlock
  <2>1. /\ GoingOn(file, base, r) /\ r.entry = 0
        /\ \/ r.block > Len(file.blocks) /\ r' = [r EXCEPT !.res = "success"]
           \/ /\ r.block <= Len(file.blocks)
              /\ \/ file.blocks[r.block].size = 0 /\ r' = [r EXCEPT !.res = "invalid"]
                 \/ file.blocks[r.block].size # 0 /\ r' = [r EXCEPT !.entry = 1]
    BY <1>3, <1>6 DEF RelocateBlock, Goes, file
  <2> HIDE DEF r
  <2>2. r.block <= Len(file.blocks) => r.block \in DOMAIN file.blocks
    BY <2>1, GoingOnIs
  <2>3. r.block > Len(file.blocks) => RelocationInv(file, base, [r EXCEPT !.res = "success"])
    BY <2>1, RelocationEnds
  <2>4. r.block <= Len(file.blocks) /\ file.blocks[r.block].size = 0 =>
          RelocationInv(file, base, [r EXCEPT !.res = "invalid"])
    <3>1. file.blocks[r.block].size = 0 => Stops(file, r.block, r.entry)
      BY <2>1 DEF Stops
    <3>2. r.entry \in {0} \cup DOMAIN EntriesIn(file, r.block)
      BY <2>1
    <3> QED BY <2>1, <2>2, <3>1, <3>2, RelocationStops
  <2>5. r.block <= Len(file.blocks) /\ file.blocks[r.block].size # 0 =>
          RelocationInv(file, base, [r EXCEPT !.entry = 1])
    BY <2>1, <2>2, BlockBegins
  <2> QED BY <1>4, <2>1, <2>3, <2>4, <2>5
<1>7. CASE RelocateEntry
  <2> DEFINE block == file.blocks[r.block]
             next == Reloc!LdrProcessRelocationBlockLongLong(r, block, Reloc!Diff(file, base, 0))
  <2>1. /\ GoingOn(file, base, r) /\ r.entry > 0
        /\ \/ r.entry > Len(block.entries) /\ r' = [r EXCEPT !.block = @ + 1, !.entry = 0]
           \/ /\ r.entry <= Len(block.entries)
              /\ \/ block.entries[r.entry].type \notin Reloc!Known /\ r' = [r EXCEPT !.res = "invalid"]
                 \/ block.entries[r.entry].type \in Reloc!Known /\ r' = next
    BY <1>3, <1>7 DEF RelocateEntry, Goes, file, base
  <2> HIDE DEF r, next
  <2>2. /\ r.block \in DOMAIN file.blocks /\ r.entry \in Nat /\ FileParts(file) /\ Placed(file, r)
        /\ block.entries = EntriesIn(file, r.block)
    <3>1. r.block \in Nat /\ r.entry \in Nat /\ FileParts(file) /\ Placed(file, r)
          /\ (r.block > Len(file.blocks) => r.entry = 0)
          /\ (r.block <= Len(file.blocks) => r.block \in DOMAIN file.blocks)
      BY <2>1, GoingOnIs
    <3>2. Len(file.blocks) \in Nat
      BY <3>1 DEF FileParts
    <3> QED BY <2>1, <3>1, <3>2 DEF EntriesIn
  <2>3. r.entry <= Len(block.entries) => r.entry \in DOMAIN EntriesIn(file, r.block)
    BY <2>1, <2>2 DEF FileParts
  <2>4. r.entry > Len(block.entries) => RelocationInv(file, base, [r EXCEPT !.block = @ + 1, !.entry = 0])
    BY <2>1, <2>2, BlockEnds
  <2>5. r.entry <= Len(block.entries) /\ block.entries[r.entry].type \notin Reloc!Known =>
          RelocationInv(file, base, [r EXCEPT !.res = "invalid"])
    <3>1. ASSUME r.entry <= Len(block.entries), block.entries[r.entry].type \notin Reloc!Known
          PROVE  RelocationInv(file, base, [r EXCEPT !.res = "invalid"])
      <4>1. r.entry # 0 /\ block.entries[r.entry].type # "half"
        BY <2>1, <2>2, <2>3, <3>1 DEF Placed
      <4>2. Stops(file, r.block, r.entry)
        BY <3>1, <4>1 DEF Stops
      <4>3. r.entry \in {0} \cup DOMAIN EntriesIn(file, r.block)
        BY <2>3, <3>1
      <4> QED BY <2>1, <2>2, <4>2, <4>3, RelocationStops
    <3> QED BY <3>1
  <2>6. r.entry <= Len(block.entries) /\ block.entries[r.entry].type \in Reloc!Known => RelocationInv(file, base, next)
    BY <2>1, <2>2, <2>3, EntryApplies DEF Type, next
  <2> HIDE DEF block
  <2> QED BY <1>4, <2>1, <2>4, <2>5, <2>6
<1> QED BY <1>5, <1>6, <1>7 DEF RelocateImage

\* What is known of a job stays known.
LEMMA CodeStep ==
    ASSUME CodeInv, [CodeNext]_vars
    PROVE  CodeInv'
<1>1. CASE CallRoutine
  BY <1>1, CallBegins DEF CodeInv
<1>2. CASE ExecuteStub
  BY <1>2, StubGoesOn DEF CodeInv
<1>3. CASE SearchText
  BY <1>3, TextFound DEF CodeInv
<1>4. CASE RelocateImage
  BY <1>4, ImageGoesOn DEF CodeInv
<1>5. CASE UNCHANGED vars
  BY <1>5 DEF vars, CodeInv, CallInv, TextInv, ImageInv, NamesSplitPaths, SearchesFindTheFirst, Done
<1> QED BY <1>1, <1>2, <1>3, <1>4, <1>5 DEF CodeNext

\* What is known of a stub makes its call exact.
LEMMA CallIsExact ==
    ASSUME CallInv
    PROVE  NativeRoutineGetsItsArguments /\ StubSignalsAndReturns
<1> DEFINE w == job.wow64
           args == job.args
           n == Len(args)
<1>1. job.kind = "call" /\ args \in Seq(Int) /\ w \in BOOLEAN
  BY JobsAre DEF CallInv
<1>2. CASE result = Pending
  BY <1>2 DEF NativeRoutineGetsItsArguments, StubSignalsAndReturns, Done
<1>3. CASE result # Pending /\ w = FALSE
  <2>1. Native(result, args)
    BY <1>3 DEF CallInv
  <2>2. IsNative(w) /\ Fits(args)
    BY <1>3, JobsAre DEF IsNative, CallInv
  <2> HIDE DEF w, args
  <2>3. /\ result.calls # <<>> => RoutineCalled(result.calls[1], args)
        /\ ~(result.next <= Len(Code!CallCode(w, args))) =>
             Len(result.calls) = 2 /\ EventSet(result.calls[2]) /\ result.at = ReturnAddress /\ result.sp = 1
    BY <1>1, <2>1, <2>2, NativeGives
  <2>4. NativeRoutineGetsItsArguments
    BY <2>3 DEF NativeRoutineGetsItsArguments, RoutineCalled, args
  <2>5. StubSignalsAndReturns
    BY <1>1, <1>3, <2>3 DEF StubSignalsAndReturns, Executing, Done, EventSet, w, args
  <2> QED BY <2>4, <2>5
<1>4. CASE result # Pending /\ w = TRUE
  <2>1. WowParts(result, args, n)
    BY <1>4 DEF CallInv
  <2> HIDE DEF w, args, n
  <2>2. WowRuns(result, w, args, n)
    BY <1>4, <2>1 DEF WowRuns, IsWow
  <2>3. ~(result.next <= Len(Code!CallCode(w, args))) =>
          Len(result.calls) = 2 /\ EventSet(result.calls[2]) /\ result.at = ReturnAddress /\ result.sp = 1 + n
    BY <2>2, WowGives
  <2>4. NativeRoutineGetsItsArguments
    BY <1>4 DEF NativeRoutineGetsItsArguments, w
  <2>5. StubSignalsAndReturns
    BY <1>1, <1>4, <2>3 DEF StubSignalsAndReturns, Executing, Done, EventSet, w, args, n
  <2> QED BY <2>4, <2>5
<1> QED BY <1>1, <1>2, <1>3, <1>4

\* What is known of a relocation makes it exact at its end.
LEMMA ImageIsExact ==
    ASSUME ImageInv
    PROVE  RelocationIsExact
<1> DEFINE file == job.file
           base == job.base
           r == result
<1>1. job.kind = "relocate" /\ base \in Int /\ Linked(file)
  BY JobsAre DEF ImageInv
<1>2. CASE result = Pending \/ Running
  BY <1>2 DEF RelocationIsExact, Done
<1>3. CASE result # Pending /\ ~Running
  <2>1. RelocationInv(file, base, r) /\ r.res # "running"
    BY <1>1, <1>3 DEF ImageInv, Running, Done
  <2> HIDE DEF file, base, r
  <2>2. /\ \A a \in file.addresses :
             IF Reached(file, a) THEN Moved(file, base, r.image, a) ELSE Untouched(file, r.image, a)
        /\ \A p \in DOMAIN file.image : (\A a \in file.addresses : p \notin HalvesOf(file, a)) => r.image[p] = file.image[p]
    BY <1>1, <2>1, RelocationGives
  <2>3. r.res = CASE ~file.valid -> "invalid"
                  [] file.valid /\ file.blocks = <<>> -> IF file.stripped THEN "conflict" ELSE "success"
                  [] file.valid /\ file.blocks # <<>> ->
                       IF \E b \in DOMAIN file.blocks : \E i \in {0} \cup DOMAIN file.blocks[b].entries :
                            Stops(file, b, i)
                       THEN "invalid" ELSE "success"
    BY <1>1, <2>1, RelocationGives
  <2> QED BY <2>2, <2>3 DEF RelocationIsExact, Moved, Untouched, file, base, r
<1> QED BY <1>2, <1>3

\* CodeIsExact follows from what is known.
LEMMA CodeInvIsExact ==
    ASSUME CodeInv
    PROVE  CodeIsExact
<1>1. CASE CallInv
  <2>1. job.kind = "call"
    BY <1>1, JobsAre DEF CallInv
  <2>2. NativeRoutineGetsItsArguments /\ StubSignalsAndReturns
    BY <1>1, CallIsExact
  <2> QED BY <2>1, <2>2 DEF CodeIsExact, RelocationIsExact, NamesSplitPaths, SearchesFindTheFirst, Done
<1>2. CASE TextInv
  <2>1. job.kind \in {"path", "search", "pattern"}
    BY <1>2, JobsAre DEF TextInv
  <2>2. NativeRoutineGetsItsArguments /\ StubSignalsAndReturns /\ RelocationIsExact
    BY <2>1 DEF NativeRoutineGetsItsArguments, StubSignalsAndReturns, RelocationIsExact, Done
  <2> QED BY <1>2, <2>2 DEF CodeIsExact, TextInv
<1>3. CASE ImageInv
  <2>1. job.kind = "relocate"
    BY <1>3, JobsAre DEF ImageInv
  <2>2. RelocationIsExact
    BY <1>3, ImageIsExact
  <2> QED BY <2>1, <2>2
          DEF CodeIsExact, NativeRoutineGetsItsArguments, StubSignalsAndReturns, NamesSplitPaths, SearchesFindTheFirst, Done
<1> QED BY <1>1, <1>2, <1>3 DEF CodeInv

\* What is known of every job.
THEOREM CodeIsInv == CodeSpec => []CodeInv
<1>1. CodeInit => CodeInv
  BY CodeInitially
<1>2. CodeInv /\ [CodeNext]_vars => CodeInv'
  BY CodeStep
<1> QED BY <1>1, <1>2, PTL DEF CodeSpec

\* Whatever the routine, the arguments, at most 14 in a native process, the
\* file, its base and the texts: a stub calls with its arguments and returns,
\* a relocated image is the image
\* linked at its new base, and names and patterns are found where they are.
THEOREM CodeExact == CodeSpec => []CodeIsExact
<1>1. CodeInv => CodeIsExact
  BY CodeInvIsExact
<1> QED BY <1>1, CodeIsInv, PTL
=============================================================================
