------------------------------ MODULE Compiler ------------------------------
(***************************************************************************)
(* One compiler instance: every edit replaces the current snapshot by a    *)
(* new one whose blocks, cells and slides keep handles of the preceding    *)
(* revision where they match it, and reports the slides that changed.      *)
(*                                                                         *)
(* A semantic template holds the handles of a block; it is shared by all   *)
(* revisions whose block matches it, and "born" tells templates of equal   *)
(* text apart, as the identity of their isolated source file does.         *)
(***************************************************************************)
EXTENDS SourceDocument

CONSTANT MaxRevision    \* bound on the number of effective edits

VARIABLES
    snapshots,  \* every snapshot handed out, in order of revision
    preview     \* what a consumer of change sets alone has on screen

(***************************************************************************)
(* Matching.  fits[n] are the candidates that suit the n-th seeker; every  *)
(* seeker in turn takes its first candidate that is left, or none (0).     *)
(***************************************************************************)
\* Mutant: a candidate stays available after it was taken.
FirstFitUnconsumed(fits) ==
    [n \in DOMAIN fits |-> IF fits[n] = {} THEN 0 ELSE Min(fits[n])]

FirstFit(fits) ==
    FoldLeft(LAMBDA taken, fit :
                 LET left == fit \ ToSet(taken)
                 IN  Append(taken, IF left = {} THEN 0 ELSE Min(left)),
             <<>>, fits)

\* What the preceding revision and the labels ask of a handle slot, apart
\* from being a certain handle.
Unassigned == <<None, 0 - 1>>
MustBeAnonymous == <<None, 0 - 2>>
IsHandle(desired) == desired \notin {Unassigned, MustBeAnonymous}

LabelDesired(declared, i, k) ==
    LET own == {d \in DOMAIN declared :
                   declared[d].block = i /\ k \in {declared[d].node, declared[d].cell}}
        label == declared[Min(own)].label
    IN  IF own = {} THEN Unassigned
        ELSE IF \E d, e \in DOMAIN declared :
                   d # e /\ declared[d].label = label /\ declared[e].label = label
             THEN MustBeAnonymous
        ELSE Labeled(label)

Desired ==
    [document \in Documents |-> [i \in Blocks(document) |->
        [k \in 1..SlotCount(Block(document, i)) |-> LabelDesired(labels[document], i, k)]]]

\* Mutant: cells in containers are not collected.
CellCandidatesAtTopLevel(templates) ==
    FlattenSeq([p \in DOMAIN templates |->
        LET handles == templates[p].handles
        IN  IF Content[templates[p].text].kind # "cell" \/ IsLabeled(handles[2]) THEN <<>>
            ELSE <<[text |-> templates[p].text, node |-> handles[1], cell |-> handles[2]]>>])

\* The anonymous cells of the preceding revision, in its order.
CellCandidates(templates) ==
    FlattenSeq([p \in DOMAIN templates |->
        LET block == Content[templates[p].text]
            handles == templates[p].handles
            Candidate(j) == [text |-> block.cells[j].text,
                             node |-> handles[NodeSlot(block, j)],
                             cell |-> handles[CellSlot(block, j)]]
        IN  FlattenSeq([j \in DOMAIN block.cells |->
                IF IsLabeled(Candidate(j).cell) THEN <<>> ELSE <<Candidate(j)>>])])

\* The slots of a cell.
Slots(document, at) ==
    [node |-> NodeSlot(Block(document, at[1]), at[2]), cell |-> CellSlot(Block(document, at[1]), at[2])]

\* The handle each slot takes when cells[n] is matched with candidates[pick[n]].
Assign(desired, cells, slots, candidates, pick) ==
    LET Matched(i, k) ==
            {n \in DOMAIN cells : pick[n] # 0 /\ cells[n][1] = i /\ k \in Range(slots[n])}
        Take(i, k, n, candidate) ==
            IF k = slots[n].cell THEN candidate.cell
            ELSE IF IsLabeled(desired[i][k]) THEN desired[i][k]
            ELSE IF IsLabeled(candidate.node) THEN MustBeAnonymous
            ELSE candidate.node
        Slot(i, k, matched) ==
            IF matched = {} THEN desired[i][k]
            ELSE Take(i, k, Min(matched), candidates[pick[Min(matched)]])
    IN  [i \in DOMAIN desired |-> [k \in DOMAIN desired[i] |-> Slot(i, k, Matched(i, k))]]

\* The handle each slot of each block has to take.
match_identities(document, templates) ==
    LET Match(desired, cells, slots, candidates) ==
            Assign(desired, cells, slots, candidates,
                   FirstFit([n \in DOMAIN cells |->
                       {c \in DOMAIN candidates :
                           /\ ~ IsLabeled(desired[cells[n][1]][slots[n].cell])
                           /\ candidates[c].text = CellAt(document, cells[n]).text}]))
    IN  Match(Desired[document], CellsOf[document],
              [n \in DOMAIN CellsOf[document] |-> Slots(document, CellsOf[document][n])],
              CellCandidates(templates))

matches(assigned, template) ==
    \A k \in DOMAIN assigned :
        \/ assigned[k] = Unassigned
        \/ assigned[k] = MustBeAnonymous /\ ~ IsLabeled(template.handles[k])
        \/ IsHandle(assigned[k]) /\ template.handles[k] = assigned[k]

\* Slots nothing is known about get handles counted out from next.
Allocate(assigned, next) ==
    [k \in DOMAIN assigned |->
        IF IsHandle(assigned[k]) THEN assigned[k]
        ELSE Anonymous(next + Cardinality({h \in 1..(k - 1) : ~ IsHandle(assigned[h])}))]

Fresh(assigned) == Cardinality({k \in DOMAIN assigned : ~ IsHandle(assigned[k])})

\* The templates of a document, and the next handle to count out.
semantic_nodes(document, templates, next, revision) ==
    LET blocks == Input[document].blocks
        New(i, assigned, built) ==
            [templates |-> Append(built.templates,
                                  [text |-> blocks[i],
                                   born |-> <<revision, i>>,
                                   handles |-> Allocate(assigned, built.next)]),
             next |-> built.next + Fresh(assigned)]
        Reused(p, built) ==
            [templates |-> Append(built.templates, templates[p]), next |-> built.next]
        Build(assigned, pick) ==
            FoldLeftDomain(LAMBDA built, i :
                               IF pick[i] = 0 THEN New(i, assigned[i], built) ELSE Reused(pick[i], built),
                           [templates |-> <<>>, next |-> next], blocks)
        Reuse(assigned) ==
            Build(assigned, FirstFit([i \in DOMAIN blocks |->
                                {p \in DOMAIN templates :
                                    /\ templates[p].text = blocks[i]
                                    /\ matches(assigned[i], templates[p])}]))
    IN  Reuse(match_identities(document, templates))

(***************************************************************************)
(* Snapshots.                                                              *)
(***************************************************************************)
NodeHandle(template) == template.handles[1]
CellHandle(template, j) == template.handles[CellSlot(Content[template.text], j)]

\* The first template with a node handle, as every lookup by handle finds it.
TemplateOf(templates, node) ==
    templates[Min({p \in DOMAIN templates : NodeHandle(templates[p]) = node})]

FirstNode(templates, slide) == NodeHandle(templates[slide.blocks[1]])

\* A labeled first block names its slide; other slides keep the handle of the
\* first old title, or old slide with the same first block, that is left.
IdentifySlides(document, templates, previous) ==
    LET old == previous.slides
        OwnLabel(slide) == ~ IsTitle(slide) /\ IsLabeled(FirstNode(templates, slide))
        Same(slide, was) ==
            \/ IsTitle(slide) /\ IsTitle(was)
            \/ /\ ~ IsTitle(slide) /\ ~ IsTitle(was)
               /\ FirstNode(templates, slide) = FirstNode(previous.templates, was)
        Name(slides, pick) ==
            LET New(s) == ~ OwnLabel(slides[s]) /\ pick[s] = 0
                Count(s) == Cardinality({r \in 1..s : New(r)})
                Handle(s) == IF OwnLabel(slides[s]) THEN FirstNode(templates, slides[s])
                             ELSE IF New(s) THEN Anonymous(previous.next_slide + Count(s) - 1)
                             ELSE old[pick[s]].id
            IN  [slides |-> [s \in DOMAIN slides |->
                    [title |-> slides[s].title, blocks |-> slides[s].blocks, id |-> Handle(s)]],
                 next_slide |-> previous.next_slide + Count(Len(slides))]
        Match(slides) ==
            Name(slides, FirstFit([s \in DOMAIN slides |->
                {o \in DOMAIN old : ~ OwnLabel(slides[s]) /\ Same(slides[s], old[o])}]))
    IN  Match(build_presentation[document])

NoSnapshot == [templates |-> <<>>, slides |-> <<>>, next_id |-> 0, next_slide |-> 0]

\* Mutant: slide handles are counted from the number of slides.
SnapshotCountingSlides(document, revision, nodes, laid) ==
    [source |-> document, revision |-> revision,
     templates |-> nodes.templates, slides |-> laid.slides,
     next_id |-> nodes.next, next_slide |-> Len(laid.slides)]

Snapshot(document, revision, nodes, laid) ==
    [source |-> document, revision |-> revision,
     templates |-> nodes.templates, slides |-> laid.slides,
     next_id |-> nodes.next, next_slide |-> laid.next_slide]

updated(document, revision, previous) ==
    LET Laid(nodes) ==
            Snapshot(document, revision, nodes, IdentifySlides(document, nodes.templates, previous))
    IN  Laid(semantic_nodes(document, previous.templates, previous.next_id, revision))

Current == snapshots[Len(snapshots)]

(***************************************************************************)
(* The evaluation plan: enabled cells in document order, each linked to    *)
(* the preceding enabled cell of its language and session.                 *)
(***************************************************************************)
PlanErrors(document) ==
    IF inspection[document] # {} THEN inspection[document] ELSE EvaluationErrors[document]

PlannedCells(snapshot) ==
    LET document == snapshot.source
        Planned(at, options) ==
            [cell_id |-> CellHandle(snapshot.templates[at[1]], at[2]),
             language |-> CellAt(document, at).language,
             session |-> options[at].session]
        Enabled(cells, options) ==
            FlattenSeq([n \in DOMAIN cells |->
                IF options[cells[n]].eval THEN <<Planned(cells[n], options)>> ELSE <<>>])
    IN  Enabled(CellsOf[document], EvaluationOptions[document])

Linked(cell, predecessor) ==
    [cell_id |-> cell.cell_id, language |-> cell.language, session |-> cell.session,
     predecessor |-> predecessor]

\* Mutant: the sessions of a language share one chain.
linkedByLanguage(cells) ==
    LET Before(n) == {m \in 1..(n - 1) : cells[m].language = cells[n].language}
    IN  [n \in DOMAIN cells |->
            Linked(cells[n], IF Before(n) = {} THEN None ELSE cells[Max(Before(n))].cell_id)]

\* The links that plan() makes with one map from chains to their last cell.
linked(cells) ==
    LET Link(made, n) ==
            LET chain == <<cells[n].language, cells[n].session>>
                isolated == cells[n].session = IsolatedSession
                known == ~ isolated /\ chain \in DOMAIN made.last
            IN  [last |-> IF isolated THEN made.last
                          ELSE [key \in DOMAIN made.last \cup {chain} |->
                                   IF key = chain THEN cells[n].cell_id ELSE made.last[key]],
                 links |-> Append(made.links, IF known THEN made.last[chain] ELSE None)]
        links == FoldLeftDomain(Link, [last |-> <<>>, links |-> <<>>], cells).links
    IN  [n \in DOMAIN cells |-> Linked(cells[n], links[n])]

plan(snapshot) == linked(PlannedCells(snapshot))

(***************************************************************************)
(* Slide changes.                                                          *)
(***************************************************************************)
slide_input(snapshot, slide) ==
    [title |-> slide.title,
     content |-> [b \in DOMAIN slide.blocks |->
                     TemplateOf(snapshot.templates,
                                NodeHandle(snapshot.templates[slide.blocks[b]]))]]

SlideIds(snapshot) == [s \in DOMAIN snapshot.slides |-> snapshot.slides[s].id]

SlideAt(snapshot, id) ==
    CHOOSE s \in DOMAIN snapshot.slides : snapshot.slides[s].id = id

\* How many slides before the s-th are also in the other order.
Rank(order, others, s) == Cardinality({r \in 1..(s - 1) : order[r] \in others})

\* Mutant: a slide that moved is not compared.
betweenMovedOrModified(previous, next) ==
    LET old == SlideIds(previous)
        new == SlideIds(next)
        retained == {s \in DOMAIN new : new[s] \in ToSet(old)}
        From(s) == SlideAt(previous, new[s])
        moved == {s \in retained : Rank(old, ToSet(new), From(s)) # Rank(new, ToSet(old), s)}
    IN  [inserted |-> [s \in DOMAIN new \ retained |-> new[s]],
         removed |-> [s \in {r \in DOMAIN old : old[r] \notin ToSet(new)} |-> old[s]],
         reordered |-> [s \in moved |-> new[s]],
         modified |-> [s \in {r \in retained \ moved :
                                 slide_input(previous, previous.slides[From(r)])
                                     # slide_input(next, next.slides[r])} |-> new[s]],
         order |-> new]

between(previous, next) ==
    LET old == SlideIds(previous)
        new == SlideIds(next)
        Positions(order, others) ==
            [s \in {r \in DOMAIN order : order[r] \notin others} |-> order[s]]
        retained == {s \in DOMAIN new : new[s] \in ToSet(old)}
        From(s) == SlideAt(previous, new[s])
    IN  [inserted |-> Positions(new, ToSet(old)),
         removed |-> Positions(old, ToSet(new)),
         reordered |-> [s \in {r \in retained : Rank(old, ToSet(new), From(r))
                                                   # Rank(new, ToSet(old), r)} |-> new[s]],
         modified |-> [s \in {r \in retained :
                                 slide_input(previous, previous.slides[From(r)])
                                     # slide_input(next, next.slides[r])} |-> new[s]],
         order |-> new]

(***************************************************************************)
(* A consumer of change sets keeps, per handle, what it last fetched: it   *)
(* fetches inserted and modified slides only.                              *)
(***************************************************************************)
Show(snapshot, ids) == [id \in ids |-> slide_input(snapshot, snapshot.slides[SlideAt(snapshot, id)])]

Apply(shown, changes, next) ==
    LET fetched == Range(changes.inserted) \cup Range(changes.modified)
        kept == (DOMAIN shown.content \ Range(changes.removed)) \ fetched
    IN  [order |-> changes.order,
         content |-> [id \in kept \cup fetched |->
                         IF id \in kept THEN shown.content[id] ELSE Show(next, fetched)[id]],
         changes |-> changes]

NoChanges(order) ==
    [inserted |-> <<>>, removed |-> <<>>, reordered |-> <<>>, modified |-> <<>>, order |-> order]

CompilerInit ==
    \E document \in Documents :
        \E first \in {updated(document, 0, NoSnapshot)} :
            /\ snapshots = <<first>>
            /\ preview = [order |-> SlideIds(first), content |-> Show(first, ToSet(SlideIds(first))),
                          changes |-> NoChanges(SlideIds(first))]

\* Identical bytes and path leave the current snapshot alone.
update_source_with_changes(document) ==
    /\ document # Current.source
    /\ Len(snapshots) <= MaxRevision
    /\ \E next \in {updated(document, Current.revision + 1, Current)} :
          /\ snapshots' = Append(snapshots, next)
          /\ preview' = Apply(preview, between(Current, next), next)
=============================================================================
