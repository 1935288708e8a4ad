----------------------------- MODULE MCInjectDll -----------------------------
(* Small instances of InjectDll: an image and the two libraries around it.  *)
EXTENDS InjectDll

CONSTANTS a, b

\* No imports; a chain; both imported, and one imports the other; two cycles.
MCGraphs ==
    {(Root :> i) @@ (a :> j) @@ (b :> k) :
        << i, j, k >> \in {<< <<a>>, <<b>>, << >> >>,
                           << <<a, b>>, << >>, <<a>> >>,
                           << <<a, b>>, <<Root>>, << >> >>,
                           << <<a>>, <<b>>, <<a>> >>}}

MCRoutine == Kind \X Dll

MCFlagSets ==
    {{"manualImports"}, {"manualImports", "noThreads"},
     {}, {"noThreads"}, {"manifest", "tls", "initRoutine"}}
=============================================================================
