---------------------------- MODULE MCHtmlBuild ----------------------------
(* Asset paths that alias, collide or are refused, and one render that uses *)
(* a file of the output directory.                                          *)
EXTENDS HtmlBuild, TLC

CONSTANTS fig, FIG, MANIFESTJSON, dots

SomeNames == {INDEX, MANIFEST, fig, FIG, MANIFESTJSON, dots}

\* Names are folded to lower case.
Folding == [name \in SomeNames |->
    CASE name = FIG -> fig
      [] name = MANIFESTJSON -> MANIFEST
      [] OTHER -> name]

SomeRequests ==
    {[inside |-> TRUE, assets |-> <<>>],
     [inside |-> FALSE, assets |-> << <<fig>>, <<FIG>> >>],
     [inside |-> FALSE, assets |-> << <<fig>>, <<fig, FIG>> >>],
     [inside |-> FALSE, assets |-> << <<fig, FIG>>, <<MANIFESTJSON>> >>],
     [inside |-> FALSE, assets |-> << <<fig>>, <<fig>> >>],
     [inside |-> FALSE, assets |-> << <<dots, fig>> >>]}

WriterSymmetry == Permutations(Writers)
=============================================================================
