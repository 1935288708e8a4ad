---------------------------- MODULE MCProcessRemap ----------------------------
(* Small instances of ProcessRemap: an address space of three pages.        *)
EXTENDS ProcessRemap

\* A single page, there or not.
MCOnePage == {<<"a">>, <<"-">>}
MCOnePageRequests == {<<1, 1>>}

\* One run of two pages and a hole; three runs of one page; a hole in between.
MCLayouts == {<<"a", "a", "-">>, <<"a", "b", "-">>, <<"-", "a", "a">>}

\* A page at each end, the middle page with its right neighbour, everything.
MCRequests == {<<1, 1>>, <<2, 1>>, <<2, 2>>, <<1, 3>>}
=============================================================================
