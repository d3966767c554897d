------------------------------ MODULE MCCompiler ------------------------------
(***************************************************************************)
(* A small instance of the compiler.  The documents share their blocks, so *)
(* that edits insert, remove, move, repeat and relabel content.            *)
(***************************************************************************)
EXTENDS CompilerProperties

Entry(key, text) == [key |-> key, text |-> text, plain |-> TRUE, tagged |-> FALSE]
Quoted(key, text) == [Entry(key, text) EXCEPT !.plain = FALSE]
Options(entries) == [mapping |-> TRUE, entries |-> entries]
Cell(text, entries) == [text |-> text, language |-> "r", options |-> Options(entries)]
Link(reference, destination) == [reference |-> reference, destination |-> destination]

Plain(kind) ==
    [kind |-> kind, size |-> 3, label |-> None, cells |-> <<>>, links |-> <<>>,
     defines |-> None, execute |-> <<>>, unsupported |-> FALSE]
CellBlock(text, entries) == [Plain("cell") EXCEPT !.cells = <<Cell(text, entries)>>]
Defining(destination) ==
    [Plain("quiet") EXCEPT !.defines = [label |-> "img", destination |-> destination]]

off == <<Entry("eval", "false")>>

SomeContent ==
    "intro" :> Plain("heading")
    @@ "fig" :> [Plain("heading") EXCEPT !.label = "fig", !.size = 5]
    @@ "note" :> [Plain("body") EXCEPT !.links = <<Link("img", None), Link(None, "data.csv")>>]
    @@ "web" :> [Plain("body") EXCEPT !.links = <<Link("img", "http"), Link(None, "logo.png")>>]
    @@ "figure" :> Defining("figure.png")
    @@ "logo" :> [Defining("logo.png") EXCEPT !.size = 4]
    @@ "broken" :> Defining("%zz")
    @@ "comment" :> Plain("quiet")
    @@ "footnote" :> [Plain("quiet") EXCEPT !.unsupported = TRUE]
    @@ "x" :> CellBlock("x", <<>>)
    @@ "y" :> CellBlock("y", <<Entry("label", "fig")>>)
    @@ "z" :> CellBlock("z", <<Entry("session", "isolated"), Entry("echo", "false")>>)
    @@ "named" :> CellBlock("named", <<Quoted("session", "true"), Entry("eval", "true")>>)
    @@ "bad" :> CellBlock("bad", <<Entry("session", "true"), Entry("eval", "false")>>)
    @@ "quote" :> [Plain("container") EXCEPT
                      !.cells = <<Cell("> x", <<>>), Cell("> y", <<Entry("label", "q")>>)>>,
                      !.links = <<Link("img", None)>>]
    @@ "quote+" :> [Plain("container") EXCEPT !.cells = <<Cell("> x", <<>>)>>, !.size = 6]
    @@ "wrapped" :> [Plain("container") EXCEPT !.cells = <<Cell("x", <<>>)>>]
    @@ "hidden" :> [Plain("quiet") EXCEPT !.execute = <<Options(<<Entry("include", "false")>>)>>]

Source(path, title, execute, blocks) ==
    [path |-> path, title |-> title, parse_errors |-> 0, execute |-> execute, blocks |-> blocks]
Quiet(title, blocks) == Source("a", title, <<Options(off)>>, blocks)

\* No source text of an anonymous cell occurs both on its own and in a container.
SomeInput ==
    [a1 |-> Quiet("t", <<"intro", "note", "fig", "x", "figure">>),
     a2 |-> Quiet("t", <<"comment", "fig", "x", "logo", "intro", "note">>),
     a3 |-> [Quiet(None, <<"intro", "x", "note", "x", "fig", "web", "logo">>) EXCEPT !.path = "b"],
     c1 |-> Source("a", "t", <<Options(off \o <<Entry("echo", "false")>>)>>,
                   <<"fig", "x", "logo", "intro", "quote">>),
     c2 |-> Quiet("t", <<"intro", "quote+", "fig", "x", "hidden">>),
     d1 |-> Quiet(None, <<"intro", "note", "footnote", "fig", "broken", "figure">>),
     d2 |-> Quiet("t", <<"fig", "intro", "y", "y", "quote">>),
     e1 |-> Source("a", None, <<>>, <<"x", "z", "named", "x", "quote+", "y">>),
     e2 |-> Source("a", None, <<Options(<<Entry("eval", "maybe")>>)>>, <<"fig", "x", "bad">>)]

\* A cell is copied from a container to the place before it.
CopiedInput ==
    [before |-> Quiet(None, <<"wrapped">>),
     after |-> Quiet(None, <<"x", "wrapped">>),
     a1 |-> Quiet("t", <<"intro", "note", "fig", "x", "figure">>),
     a2 |-> Quiet("t", <<"comment", "fig", "x", "logo", "intro", "note">>)]

\* What the theorems about the handles of cells assume of the documents:
\* SomeInput satisfies it, CopiedInput does not.
ASSUME RepeatedAssumption == RepeatedCellsStandAlone <=> Input # CopiedInput
===============================================================================
