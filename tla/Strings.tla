------------------------------ MODULE Strings ------------------------------
(***************************************************************************)
(* The string and pattern helpers of Utils.c.  A string is a sequence of   *)
(* characters; positions count from 0, as the code's do.                   *)
(***************************************************************************)
EXTENDS Integers, Sequences, FiniteSets, FiniteSetsExt

CONSTANTS Separators, Wildcard

Occurs(target, source, i) == SubSeq(source, i + 1, i + Len(target)) = target

BBSafeSearchString(source, target) ==
  LET hits == {i \in 0..Len(source) - Len(target) : Occurs(target, source, i)}
  IN  IF hits = {} THEN -1 ELSE Min(hits)

\* The last separator, but one in front of everything.
LastSeparator(path) ==
  LET cuts == {i \in 1..Len(path) - 1 : path[i + 1] \in Separators}
  IN  IF cuts = {} THEN -1 ELSE Max(cuts)

BBStripPath(path) ==
  LET i == LastSeparator(path)
  IN  IF i = -1 THEN [found |-> FALSE, name |-> path]
      ELSE [found |-> TRUE, name |-> SubSeq(path, i + 2, Len(path))]

BBStripFilename(path) ==
  LET i == LastSeparator(path)
  IN  IF i = -1 THEN [found |-> FALSE, dir |-> path]
      ELSE [found |-> TRUE, dir |-> SubSeq(path, 1, i)]

\* The position one past the last tried is where a match could still lie.
BBSearchPattern(pattern, bytes) ==
  LET Matches(i) == \A j \in DOMAIN pattern : pattern[j] \in {Wildcard, bytes[i + j]}
      hits == {i \in 0..Len(bytes) - Len(pattern) - 1 : Matches(i)}
  IN  IF hits = {} THEN -1 ELSE Min(hits)
=============================================================================
