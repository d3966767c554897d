--------------------------- MODULE SourceDocument ---------------------------
(***************************************************************************)
(* What the compiler derives from one lowered source document before it    *)
(* consults an earlier revision: validation and label declarations, the    *)
(* two resolvers of cell options, slide layout and the evaluation plan.    *)
(*                                                                         *)
(* Parsing is the constant Content, which gives the block that each        *)
(* document-level source text lowers to.  A block lists its cells and its  *)
(* links, nested ones included; how these alternate within one block, and  *)
(* all other inlines, are abstracted.  What depends on a document alone is *)
(* a function on the names of the inputs.                                  *)
(***************************************************************************)
EXTENDS Naturals, SequencesExt

CONSTANTS
    Texts,      \* source texts of document-level blocks
    Content,    \* the block each text lowers to
    Input,      \* the inputs an editor may supply, by name
    None        \* an absent label, title, reference, destination or cell

Documents == DOMAIN Input

\* Options are a mapping or some other YAML value; a mapping is its entries in
\* order, each a key and a scalar that is plain or quoted, perhaps tagged.
CellOptions ==
    [mapping : BOOLEAN,
     entries : Seq([key : STRING, text : STRING, plain : BOOLEAN, tagged : BOOLEAN])]

\* Kind "heading" is a level-two heading; "quiet" is source without body
\* content: comments, definitions and metadata.  label is an identifier
\* attribute, defines a reference definition.
LoweredBlocks ==
    LET Optional == {None} \cup STRING
    IN  [kind : {"heading", "body", "quiet", "cell", "container"},
         size : Nat,
         label : Optional,
         cells : Seq([text : STRING, language : STRING, options : CellOptions]),
         links : Seq([reference : Optional, destination : Optional]),
         defines : {None} \cup [label : STRING, destination : STRING],
         execute : Seq(CellOptions),
         unsupported : BOOLEAN]

\* A cell block is its own only cell.
ASSUME DocumentAssumption ==
    /\ None \notin STRING
    /\ \A text \in Texts :
          LET block == Content[text]
          IN  /\ block \in LoweredBlocks
              /\ block.kind = "cell" =>
                    Len(block.cells) = 1 /\ block.cells[1].text = text /\ block.label = None
              /\ block.size > Len(block.links)
    /\ \A document \in Documents :
          Input[document] \in [path : STRING, title : {None} \cup STRING, parse_errors : Nat,
                               execute : Seq(CellOptions), blocks : Seq(Texts)]

Block(document, i) == Content[Input[document].blocks[i]]
Blocks(document) == DOMAIN Input[document].blocks

\* Cells in source order, as pairs of block and index in the block.
CellsOf ==
    [document \in Documents |->
        FlattenSeq([i \in Blocks(document) |->
                       [j \in DOMAIN Block(document, i).cells |-> <<i, j>>]])]

CellAt(document, at) == Block(document, at[1]).cells[at[2]]

\* Every execute mapping, of the front matter and of metadata blocks.
ExecuteMappings ==
    [document \in Documents |->
        Input[document].execute
            \o FlattenSeq([i \in Blocks(document) |-> Block(document, i).execute])]

(***************************************************************************)
(* Values.  A plain null or Boolean is not a string; a name is a nonempty  *)
(* string.  Whitespace and block scalars are not distinguished.            *)
(***************************************************************************)
NotStrings == {"", "null", "true", "false"}

IsName(entry) == entry.text # "" /\ ~ (entry.plain /\ entry.text \in NotStrings)
IsBoolean(entry) == entry.plain /\ entry.text \in {"true", "false"}

(***************************************************************************)
(* Handles.  A label is hashed to a handle that is the same in every       *)
(* build; other handles are counted out by the compiler.                   *)
(***************************************************************************)
Labeled(label) == <<label, 0>>
Anonymous(n) == <<None, n>>
IsLabeled(handle) == handle[1] # None

\* The handles of a block in the order in which they are visited: its node,
\* then a node and a cell for every cell; a cell block's node is its cell's.
NodeSlot(block, j) == IF j = 0 \/ block.kind = "cell" THEN 1 ELSE 2 * j
CellSlot(block, j) == IF block.kind = "cell" THEN 2 ELSE 2 * j + 1
SlotCount(block) == IF block.kind = "cell" THEN 2 ELSE 1 + 2 * Len(block.cells)

(***************************************************************************)
(* Validation: declared labels in source order, and diagnostics as pairs   *)
(* of a code and a place.                                                  *)
(***************************************************************************)
OptionVocabulary ==
    {"label", "eval", "echo", "include", "results", "session", "cache", "inputs",
     "fig-width", "fig-height", "fig-cap"}

First(options, e) ==
    \A d \in 1..(e - 1) : options.entries[d].key # options.entries[e].key

LabelEntries(options) ==
    {e \in DOMAIN options.entries :
        /\ options.entries[e].key = "label"
        /\ First(options, e)
        /\ ~ options.entries[e].tagged
        /\ IsName(options.entries[e])}

Declaration(label, i, node, cell) ==
    [label |-> label, block |-> i, node |-> node, cell |-> cell]

CellDeclarations(document, i, j) ==
    LET block == Block(document, i)
        options == block.cells[j].options
    IN  [e \in 1..Cardinality(LabelEntries(options)) |->
            Declaration(options.entries[CHOOSE d \in LabelEntries(options) : TRUE].text,
                        i, NodeSlot(block, j), CellSlot(block, j))]

labels ==
    [document \in Documents |->
        FlattenSeq([i \in Blocks(document) |->
            (IF Block(document, i).label = None THEN <<>>
             ELSE <<Declaration(Block(document, i).label, i, 1, 0)>>)
            \o FlattenSeq([j \in DOMAIN Block(document, i).cells |->
                              CellDeclarations(document, i, j)])])]

OptionErrors(options, isDefault, place) ==
    LET At(e) == options.entries[e]
    IN  (IF options.mapping THEN {} ELSE {<<"invalid-option-mapping", place>>})
        \cup {<<"duplicate-option", place>> : e \in {d \in DOMAIN options.entries : ~ First(options, d)}}
        \cup {<<"unsupported-option-syntax", place>> :
                 e \in {d \in DOMAIN options.entries : At(d).tagged \/ At(d).key = "<<"}}
        \cup {<<"wrong-option-scope", place>> :
                 e \in {d \in DOMAIN options.entries : isDefault /\ At(d).key \in {"label", "fig-cap"}}}
        \cup {<<"invalid-label", place>> :
                 e \in {d \in DOMAIN options.entries :
                           /\ ~ isDefault /\ At(d).key = "label" /\ First(options, d)
                           /\ ~ At(d).tagged /\ ~ IsName(At(d))}}
        \cup {<<"unknown-option", place>> :
                 e \in {d \in DOMAIN options.entries :
                           At(d).key \notin OptionVocabulary \cup {"<<"}}}

declarations(document) ==
    LET executes == ExecuteMappings[document]
        declared == labels[document]
        cells == CellsOf[document]
    IN  UNION {OptionErrors(executes[m], TRUE, <<0, m>>) : m \in DOMAIN executes}
        \cup {<<"duplicate-option", <<0, m>>>> : m \in 2..Len(executes)}
        \cup UNION {OptionErrors(CellAt(document, cells[c]).options, FALSE, cells[c]) :
                       c \in DOMAIN cells}
        \cup {<<"duplicate-label", <<declared[d].block, declared[d].node>>>> :
                 d \in {e \in DOMAIN declared :
                           \E f \in 1..(e - 1) : declared[f].label = declared[e].label}}

\* Declarations are only diagnosed in a document that parses.
inspection ==
    [document \in Documents |->
        IF Input[document].parse_errors > 0 THEN {<<"syntax-error", <<0, 0>>>>}
        ELSE declarations(document)]

(***************************************************************************)
(* Option resolution, once for planning and once for display.  Entries     *)
(* apply in order; a value of the wrong type is diagnosed and skipped,     *)
(* also where a later entry or eval: false would hide it.                  *)
(***************************************************************************)
session(entry) == <<IF entry.text \in {"default", "isolated"} THEN entry.text ELSE "named", entry.text>>
DefaultSession == <<"default", "default">>
IsolatedSession == <<"isolated", "isolated">>

EvaluationApply(options, entry) ==
    CASE entry.key = "eval" /\ IsBoolean(entry) ->
            [options EXCEPT !.eval = entry.text = "true"]
      [] entry.key = "session" /\ IsName(entry) ->
            [options EXCEPT !.session = session(entry)]
      [] OTHER -> options

DisplayApply(options, entry) ==
    IF entry.key \in {"eval", "echo", "include"} /\ IsBoolean(entry)
    THEN [options EXCEPT ![entry.key] = entry.text = "true"]
    ELSE options

Entries(mappings) ==
    FlattenSeq([m \in DOMAIN mappings |-> mappings[m].entries])

\* All entries that a cell's options are resolved from, in order.
CellEntries(document, at) ==
    Entries(ExecuteMappings[document]) \o CellAt(document, at).options.entries

EvaluationOptions ==
    [document \in Documents |-> [at \in ToSet(CellsOf[document]) |->
        FoldLeft(EvaluationApply, [eval |-> TRUE, session |-> DefaultSession],
                 CellEntries(document, at))]]

DisplayOptions ==
    [document \in Documents |-> [at \in ToSet(CellsOf[document]) |->
        FoldLeft(DisplayApply, [eval |-> TRUE, echo |-> TRUE, include |-> TRUE],
                 CellEntries(document, at))]]

BadValue(entry, booleans, names) ==
    \/ entry.key \in booleans /\ ~ IsBoolean(entry)
    \/ entry.key \in names /\ ~ IsName(entry)

ValueErrors(document, booleans, names) ==
    {<<"invalid-option-value", <<0, m>>>> :
        m \in {k \in DOMAIN ExecuteMappings[document] :
                  \E entry \in ToSet(ExecuteMappings[document][k].entries) :
                      BadValue(entry, booleans, names)}}
    \cup {<<"invalid-option-value", at>> :
             at \in {a \in ToSet(CellsOf[document]) :
                        \E entry \in ToSet(CellAt(document, a).options.entries) :
                            BadValue(entry, booleans, names)}}

EvaluationErrors ==
    [document \in Documents |-> ValueErrors(document, {"eval"}, {"session"})]
DisplayErrors ==
    [document \in Documents |-> ValueErrors(document, {"eval", "echo", "include"}, {})]

(***************************************************************************)
(* Layout: a level-two heading, or the first body content, starts a slide; *)
(* what precedes the first slide is preamble.  A title is a slide of its   *)
(* own.                                                                    *)
(***************************************************************************)
has_body_content(block) == block.kind # "quiet"

StartsSlide(document, i) ==
    \/ Block(document, i).kind = "heading"
    \/ /\ has_body_content(Block(document, i))
       /\ \A h \in 1..(i - 1) : ~ has_body_content(Block(document, h))

build_presentation ==
    [document \in Documents |->
        LET starts == FlattenSeq([i \in Blocks(document) |->
                                     IF StartsSlide(document, i) THEN <<i>> ELSE <<>>])
            End(s) == IF s = Len(starts) THEN Len(Input[document].blocks) ELSE starts[s + 1] - 1
        IN  (IF Input[document].title = None THEN <<>>
             ELSE <<[title |-> Input[document].title, blocks |-> <<>>]>>)
            \o [s \in DOMAIN starts |->
                   [title |-> None,
                    blocks |-> [k \in 1..(End(s) - starts[s] + 1) |-> starts[s] + k - 1]]]]

IsTitle(slide) == slide.title # None

(***************************************************************************)
(* References: the first definition of a label wins, wherever it stands.   *)
(***************************************************************************)
Definitions(document, label) ==
    {i \in Blocks(document) :
        Block(document, i).defines # None /\ Block(document, i).defines.label = label}

ReferenceLabels(document) ==
    {link.reference : link \in UNION {ToSet(Block(document, i).links) : i \in Blocks(document)}}
        \ {None}

References ==
    [document \in Documents |-> [label \in ReferenceLabels(document) |->
        IF Definitions(document, label) = {} THEN None
        ELSE Block(document, Min(Definitions(document, label))).defines.destination]]
=============================================================================
