----------------------------- MODULE StaticHtml -----------------------------
(***************************************************************************)
(* Preparation of a source-only HTML deck from any snapshot, old or new.   *)
(* A deck is memoized per snapshot and mode; the fragments of slides are   *)
(* kept in one cache that all revisions share and that every edit trims.   *)
(* Reads of other queries are recorded, and replayed when a fragment is    *)
(* reused.                                                                 *)
(***************************************************************************)
EXTENDS Compiler

CONSTANTS
    Modes,      \* the no_execute settings a caller renders with
    External,   \* destinations with a scheme or host, kept as they are
    BadPaths    \* destinations whose path does not decode

VARIABLES
    html,       \* memoized decks by position in snapshots and mode
    fragments   \* the shared cache, by slide handle

vars == <<snapshots, preview, html, fragments>>

(***************************************************************************)
(* Provenance: a file and a byte range.  The file of a snapshot's origins  *)
(* is its own source, which the revision stands for.                       *)
(***************************************************************************)
Starts ==
    [document \in Documents |->
        FoldLeft(LAMBDA starts, text : Append(starts, Last(starts) + Content[text].size),
                 <<0>>, Input[document].blocks)]

Origin(snapshot, from, size) ==
    [file |-> snapshot.revision, start |-> from, end |-> from + size]

BlockOrigin(snapshot, i) ==
    Origin(snapshot, Starts[snapshot.source][i], Block(snapshot.source, i).size)

LinkOrigin(snapshot, i, k) == Origin(snapshot, Starts[snapshot.source][i] + k, 1)

\* A title has its origin in the front matter, which precedes every block.
TitleOrigin(snapshot) == [file |-> snapshot.revision, start |-> 0 - 1, end |-> 0]

slide_origins(snapshot, slide) ==
    IF IsTitle(slide) THEN <<TitleOrigin(snapshot)>>
    ELSE [b \in DOMAIN slide.blocks |-> BlockOrigin(snapshot, slide.blocks[b])]

\* Move an origin from one of the inputs it was recorded under to the same
\* input in the requesting snapshot.
Rebind(origin, from, to) ==
    LET b == Min({c \in DOMAIN from : from[c].start <= origin.start /\ origin.end <= from[c].end})
        Shifted(position) == position + to[b].start - from[b].start
    IN  [file |-> to[b].file, start |-> Shifted(origin.start), end |-> Shifted(origin.end)]

(***************************************************************************)
(* Queries and their recorded reads.                                       *)
(***************************************************************************)
Query(name) == <<name, None>>
Keyed(name, handle) == <<name, handle>>

Nodes(template) ==
    {template.handles[NodeSlot(Content[template.text], j)] :
        j \in 0..Len(Content[template.text].cells)}
Cells(template) ==
    {CellHandle(template, j) : j \in DOMAIN Content[template.text].cells}

\* The handle of the block that holds a cell.
CellNode(snapshot, at) ==
    snapshot.templates[at[1]].handles[NodeSlot(Block(snapshot.source, at[1]), at[2])]
CellId(snapshot, at) == CellHandle(snapshot.templates[at[1]], at[2])

AllCells(snapshot) == ToSet(CellsOf[snapshot.source])

\* The metadata blocks whose options apply to the document.
MetadataReads(snapshot) ==
    {Query("Metadata")}
    \cup {Keyed("SemanticBlock", NodeHandle(snapshot.templates[i])) :
             i \in {h \in Blocks(snapshot.source) : Block(snapshot.source, h).execute # <<>>}}

CellQueries(snapshot, name, defaults) ==
    [key \in {Keyed(name, CellId(snapshot, at)) : at \in AllCells(snapshot)} |->
        {defaults} \cup {Keyed("SemanticBlock", CellNode(snapshot, at)) :
                            at \in {a \in AllCells(snapshot) : CellId(snapshot, a) = key[2]}}]

\* Mutant: only document-level blocks are recorded.
BlockQueriesAtTopLevel(snapshot) ==
    [key \in {Keyed("SemanticBlock", NodeHandle(t)) : t \in ToSet(snapshot.templates)} |->
        {Query("SourceDocument")}]

\* Blocks of a template, each reading the blocks nested in it.
BlockQueries(snapshot) ==
    LET templates == ToSet(snapshot.templates)
        Key(node) == Keyed("SemanticBlock", node)
        Inner(node) == UNION {Nodes(t) \ {node} : t \in {u \in templates : NodeHandle(u) = node}}
    IN  [key \in {Key(node) : node \in UNION {Nodes(t) : t \in templates}} |->
            {Query("SourceDocument")} \cup {Key(node) : node \in Inner(key[2])}]

SlideReads(snapshot, slide) ==
    {Query("SlideLayout")}
    \cup (IF IsTitle(slide) THEN {Query("Metadata")}
          ELSE {Keyed("SemanticBlock", NodeHandle(snapshot.templates[i])) : i \in ToSet(slide.blocks)})

SlideKeys(snapshot) == {Keyed("Slide", id) : id \in ToSet(SlideIds(snapshot))}

\* All that is recorded when no two of the parts record the same query.
Recorded(parts) ==
    [key \in UNION {DOMAIN part : part \in parts} |->
        UNION {part[key] : part \in {p \in parts : key \in DOMAIN p}}]

\* One query and its reads.
Reading(query, reads) == [key \in {query} |-> reads]

\* What a snapshot records when it is compiled.
dependencies(snapshot) ==
    LET document == snapshot.source
        planned == inspection[document] = {}
        cells == CellQueries(snapshot, "CellEvaluation", Query("EvaluationDefaults"))
        slides == [key \in SlideKeys(snapshot) |->
                      SlideReads(snapshot, snapshot.slides[SlideAt(snapshot, key[2])])]
    IN  Recorded(
            {Reading(Query("Source"), {}),
             Reading(Query("SourceDocument"), {Query("Source")}),
             Reading(Query("SourceDiagnostics"), {Query("SourceDocument")}),
             Reading(Query("Metadata"), {Query("SourceDocument")}),
             Reading(Query("SlideLayout"), {Query("SourceDocument")}),
             BlockQueries(snapshot),
             slides,
             Reading(Query("Inspection"),
                     {Query("SlideLayout"), Query("SourceDiagnostics")} \cup SlideKeys(snapshot))}
            \cup
            (IF planned
             THEN {Reading(Query("EvaluationDefaults"),
                           {Query("SourceDocument")} \cup MetadataReads(snapshot)),
                   cells,
                   Reading(Query("EvaluationPlan"),
                           {Query("SourceDiagnostics"), Query("EvaluationDefaults"),
                            Query("SourceDocument")} \cup DOMAIN cells)}
             ELSE {Reading(Query("EvaluationPlan"), {Query("SourceDiagnostics")})}))

is_closed(edges) == UNION Range(edges) \subseteq DOMAIN edges

(***************************************************************************)
(* Fragments.                                                              *)
(***************************************************************************)
\* The destination a link is rendered with: its own, or that of its reference.
Destination(link, references) ==
    IF link.destination # None \/ link.reference = None THEN link.destination
    ELSE references[link.reference]

\* The local files a slide needs, in order, each at the first link to it.
Resources(found) ==
    FoldLeft(LAMBDA resources, link :
                 IF \E r \in ToSet(resources) : r.path = link.path THEN resources
                 ELSE Append(resources, link),
             <<>>, found)

\* The links of a block whose destination has no usable path.
BadLinks(document, i, references) ==
    {k \in DOMAIN Block(document, i).links :
        Destination(Block(document, i).links[k], references) \in BadPaths}

\* Render a block: the sources its cells show and where its links lead.
RenderBlock(snapshot, i, policies, references) ==
    LET block == Block(snapshot.source, i)
        Policy(j) == policies[CellId(snapshot, <<i, j>>)]
    IN  [template |-> snapshot.templates[i],
         shown |-> [j \in DOMAIN block.cells |-> Policy(j).echo /\ Policy(j).include],
         links |-> [k \in DOMAIN block.links |-> Destination(block.links[k], references)]]

\* The local files the links of the b-th block of a slide ask for, and where.
Resolve(links, b, references) ==
    LET Path(k) == Destination(links[k], references)
    IN  FlattenSeq([k \in DOMAIN links |->
            IF Path(k) \in External \cup {None} THEN <<>>
            ELSE <<[path |-> Path(k), at |-> <<b, k>>]>>])

\* What rendering a block looks up, up to its first unusable link.
BlockReads(snapshot, i, references) ==
    LET block == Block(snapshot.source, i)
        bad == BadLinks(snapshot.source, i, references)
    IN  {Keyed("CellPolicy", CellId(snapshot, <<i, j>>)) : j \in DOMAIN block.cells}
        \cup ({Keyed("Reference", block.links[k].reference) :
                  k \in {l \in DOMAIN block.links : bad = {} \/ l <= Min(bad)}}
              \ {Keyed("Reference", None)})

\* Render a slide from its input and explicit lookups.  The first unsupported
\* block or unusable path ends it; what was read before counts as read.
render_slide(snapshot, slide, policies, references) ==
    LET document == snapshot.source
        Bad(b) == BadLinks(document, slide.blocks[b], references)
        failing == {b \in DOMAIN slide.blocks :
                       Block(document, slide.blocks[b]).unsupported \/ Bad(b) # {}}
        ok == failing = {}
        visited == IF ok THEN Len(slide.blocks) ELSE Min(failing)
        last == slide.blocks[visited]
        Needed == Resources(FlattenSeq([b \in DOMAIN slide.blocks |->
                      Resolve(Block(document, slide.blocks[b]).links, b, references)]))
        Place(at) == LinkOrigin(snapshot, slide.blocks[at[1]], at[2])
    IN  [ok |-> ok,
         body |-> IF ~ ok THEN <<>>
                  ELSE <<slide.title>> \o [b \in DOMAIN slide.blocks |->
                           RenderBlock(snapshot, slide.blocks[b], policies, references)],
         resources |-> IF ~ ok THEN <<>>
                       ELSE [r \in DOMAIN Needed |->
                                [path |-> Needed[r].path, origin |-> Place(Needed[r].at)]],
         error |-> IF ok THEN None
                   ELSE IF Bad(visited) = {} THEN BlockOrigin(snapshot, last)
                   ELSE LinkOrigin(snapshot, last, Min(Bad(visited))),
         reads |-> {Keyed("Slide", slide.id)}
                   \cup UNION {BlockReads(snapshot, slide.blocks[b], references) : b \in 1..visited}]

\* Mutant: the references that a fragment read are not compared.
IsReusableAnyReference(cached, input, policies, references) ==
    /\ cached.slide = input
    /\ \A id \in DOMAIN cached.policies :
          id \in DOMAIN policies /\ policies[id] = cached.policies[id]

\* A cached fragment is used while its input and every value it read are the
\* same; its origins then move to the requesting snapshot.
IsReusable(cached, input, policies, references) ==
    /\ cached.slide = input
    /\ \A id \in DOMAIN cached.policies :
          id \in DOMAIN policies /\ policies[id] = cached.policies[id]
    /\ \A label \in DOMAIN cached.references :
          label \in DOMAIN references /\ references[label] = cached.references[label]

bind(cached, origins) ==
    LET Bound(origin) == Rebind(origin, cached.origins, origins)
        fragment == cached.result
    IN  [fragment EXCEPT
            !.resources = [r \in DOMAIN fragment.resources |->
                              [path |-> fragment.resources[r].path,
                               origin |-> Bound(fragment.resources[r].origin)]],
            !.error = IF fragment.ok THEN None ELSE Bound(fragment.error)]

CachedFragment(snapshot, slide, fragment, policies, references) ==
    LET Read(name) == {key[2] : key \in {k \in fragment.reads : k[1] = name}}
    IN  [slide |-> slide_input(snapshot, slide),
         policies |-> Restrict(policies, Read("CellPolicy")),
         references |-> Restrict(references, Read("Reference")),
         origins |-> slide_origins(snapshot, slide),
         result |-> fragment]

(***************************************************************************)
(* Decks.                                                                  *)
(***************************************************************************)
Policies(snapshot) ==
    [id \in {CellId(snapshot, at) : at \in AllCells(snapshot)} |->
        DisplayOptions[snapshot.source][CHOOSE at \in AllCells(snapshot) : CellId(snapshot, at) = id]]

\* Mutant: a cell whose source is hidden needs no result.
UnavailableShown(snapshot, mode) ==
    {<<IF mode THEN "result-unavailable" ELSE "execution-unavailable", CellId(snapshot, at)>> :
        at \in {a \in AllCells(snapshot) :
                   /\ DisplayOptions[snapshot.source][a].eval
                   /\ DisplayOptions[snapshot.source][a].echo}}

\* The enabled cells, none of which has a result without a runner or a store.
Unavailable(snapshot, mode) ==
    {<<IF mode THEN "result-unavailable" ELSE "execution-unavailable", CellId(snapshot, at)>> :
        at \in {a \in AllCells(snapshot) : DisplayOptions[snapshot.source][a].eval}}

NoDeck == [status |-> "unrendered", diagnostics |-> {}, title |-> None, slides |-> <<>>, reads |-> {}]

Refused(diagnostics, reads) ==
    [NoDeck EXCEPT !.status = "refused", !.diagnostics = diagnostics, !.reads = reads]

\* Render one slide after those made so far, through the cache.
RenderSlide(snapshot, policies, references, made, slide) ==
    LET Reused(cached) ==
            [slides |-> Append(made.slides, [id |-> slide.id,
                                             fragment |-> bind(cached, slide_origins(snapshot, slide))]),
             cache |-> made.cache]
        Rendered(fragment) ==
            [slides |-> Append(made.slides, [id |-> slide.id, fragment |-> fragment]),
             cache |-> [id \in DOMAIN made.cache \cup {slide.id} |->
                           IF id = slide.id
                           THEN CachedFragment(snapshot, slide, fragment, policies, references)
                           ELSE made.cache[id]]]
    IN  IF /\ slide.id \in DOMAIN made.cache
           /\ IsReusable(made.cache[slide.id], slide_input(snapshot, slide), policies, references)
        THEN Reused(made.cache[slide.id])
        ELSE Rendered(render_slide(snapshot, slide, policies, references))

\* Render the slides in order, up to the first that fails.
RenderSlides(snapshot, policies, references, cache) ==
    FoldLeft(LAMBDA made, slide :
                 IF made.slides # <<>> /\ ~ Last(made.slides).fragment.ok THEN made
                 ELSE RenderSlide(snapshot, policies, references, made, slide),
             [slides |-> <<>>, cache |-> cache], snapshot.slides)

DeckTitle(document) ==
    IF Input[document].title # None THEN Input[document].title ELSE Input[document].path

\* The deck of a snapshot, and the cache after preparing it: refused for the
\* first kind of diagnostics there is, rendered otherwise.
compile_deck(snapshot, mode, cache) ==
    LET document == snapshot.source
        Deck(rendered, policyReads) ==
            [deck |-> [status |-> IF \A s \in DOMAIN rendered.slides : rendered.slides[s].fragment.ok
                                  THEN "compiled" ELSE "failed",
                       diagnostics |-> {}, title |-> DeckTitle(document),
                       slides |-> rendered.slides,
                       reads |-> policyReads \cup {Query("HtmlTitle")}
                                 \cup {Keyed("HtmlSlide", slide.id) : slide \in ToSet(rendered.slides)}],
             cache |-> rendered.cache]
        Refuse(diagnostics, reads) == [deck |-> Refused(diagnostics, reads), cache |-> cache]
        Compile(invalid, unresolved, unavailable, policyReads) ==
            IF invalid # {} THEN Refuse(invalid, {Query("Inspection")})
            ELSE IF unresolved # {} THEN Refuse(unresolved, policyReads)
            ELSE IF unavailable # {}
                 THEN Refuse(unavailable,
                             policyReads \cup {Keyed("SemanticBlock", CellNode(snapshot, at)) :
                                 at \in {a \in AllCells(snapshot) : DisplayOptions[document][a].eval}})
            ELSE Deck(RenderSlides(snapshot, Policies(snapshot), References[document], cache), policyReads)
    IN  Compile(inspection[document], DisplayErrors[document], Unavailable(snapshot, mode),
                {Query("Inspection"), Query("SlideLayout"), Query("DisplayDefaults")}
                    \cup {Keyed("CellPolicy", CellId(snapshot, at)) : at \in AllCells(snapshot)})

\* The queries that preparing a deck adds to those of its snapshot.
DeckDependencies(snapshot, mode, deck) ==
    LET document == snapshot.source
        entered == Query("SlideLayout") \in deck.reads
        rendering == Query("HtmlTitle") \in deck.reads
        Title == {s \in DOMAIN snapshot.slides : IsTitle(snapshot.slides[s])}
        display ==
            {Reading(Query("DisplayDefaults"), {Query("SlideLayout")} \cup MetadataReads(snapshot)),
             CellQueries(snapshot, "CellPolicy", Query("DisplayDefaults"))}
        titles ==
            {Reading(Query("HtmlTitle"),
                     {Query("SlideLayout")}
                     \cup (IF Title = {} THEN {Query("Source")}
                           ELSE {Keyed("Slide", snapshot.slides[Min(Title)].id)}))}
        references ==
            {Reading(Query("ReferenceIndex"), {Query("SourceDocument")}),
             [key \in {Keyed("Reference", label) : label \in DOMAIN References[document]} |->
                 {Query("ReferenceIndex")}
                 \cup {Keyed("SemanticBlock", NodeHandle(snapshot.templates[i])) :
                          i \in IF Definitions(document, key[2]) = {} THEN {}
                                ELSE {Min(Definitions(document, key[2]))}}]}
        slides ==
            {[key \in {Keyed("HtmlSlide", slide.id) : slide \in ToSet(deck.slides)} |->
                 deck.slides[CHOOSE s \in DOMAIN deck.slides : deck.slides[s].id = key[2]].fragment.reads]}
    IN  Recorded({dependencies(snapshot), Reading(Keyed("HtmlDeck", mode), deck.reads)}
                 \cup (IF entered THEN display ELSE {})
                 \cup (IF rendering THEN titles \cup references \cup slides ELSE {}))

(***************************************************************************)
(* The specification: edits, and renders of any snapshot handed out.       *)
(***************************************************************************)
Unrendered == [mode \in Modes |-> NoDeck]

Init ==
    /\ CompilerInit
    /\ html = <<Unrendered>>
    /\ fragments = <<>>

\* An edit keeps the fragments of slides that still exist.
Update(document) ==
    /\ update_source_with_changes(document)
    /\ html' = Append(html, Unrendered)
    /\ fragments' = LET next == snapshots'[Len(snapshots')]
                    IN  Restrict(fragments, DOMAIN fragments \cap ToSet(SlideIds(next)))

prepare(s, mode) ==
    /\ html[s][mode] = NoDeck
    /\ \E made \in {compile_deck(snapshots[s], mode, fragments)} :
          /\ html' = [html EXCEPT ![s][mode] = made.deck]
          /\ fragments' = made.cache
    /\ UNCHANGED <<snapshots, preview>>

Next ==
    \/ \E document \in Documents : Update(document)
    \/ \E s \in DOMAIN snapshots, mode \in Modes : prepare(s, mode)

Spec == Init /\ [][Next]_vars
=============================================================================
