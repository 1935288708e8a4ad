------------------------------ MODULE MCStartup ------------------------------
(* The instance of Startup that TLC checks.                                 *)
EXTENDS Startup

\* Two running drivers, neither, the first or the last of them blacklisted.
MCDriverLists == {<<FALSE, FALSE>>, <<TRUE, FALSE>>, <<FALSE, TRUE>>}
=============================================================================
