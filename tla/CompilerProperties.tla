-------------------------- MODULE CompilerProperties --------------------------
(***************************************************************************)
(* What the compiler promises: handles that identify one thing for ever,   *)
(* change sets a preview can live on, plans that its other passes and the  *)
(* schedule agree with, and decks that do not depend on their history.     *)
(***************************************************************************)
EXTENDS StaticHtml

(***************************************************************************)
(* Handles.                                                                *)
(***************************************************************************)
CellHandles(snapshot) ==
    [n \in DOMAIN CellsOf[snapshot.source] |-> CellId(snapshot, CellsOf[snapshot.source][n])]

\* The nodes of a snapshot: a block, or a cell nested in one.
NodePlaces(snapshot) ==
    {<<i, 0>> : i \in Blocks(snapshot.source)}
    \cup {at \in AllCells(snapshot) : Block(snapshot.source, at[1]).kind # "cell"}

\* In every revision, no two blocks or nested cells have one node handle, no
\* two cells one cell handle and no two slides one slide handle, whatever was
\* matched against the preceding revision (compiler/reuse/identities.rs:1,
\* "one-to-one matching").
HandlesAreUnique ==
    /\ \A at, other \in NodePlaces(Current) :
          CellNode(Current, at) = CellNode(Current, other) => at = other
    /\ IsInjective(CellHandles(Current))
    /\ IsInjective(SlideIds(Current))

AllHandles(snapshot) ==
    [node |-> {CellNode(snapshot, at) : at \in NodePlaces(snapshot)},
     cell |-> Range(CellHandles(snapshot)),
     slide |-> ToSet(SlideIds(snapshot))]

\* Cells of one text in a document are the only cells of blocks that repeat one
\* text, as copies of a cell block are: none has its source in another
\* container, or beside another cell.
RepeatedCellsStandAlone ==
    \A document \in Documents : \A at, other \in ToSet(CellsOf[document]) :
        at # other /\ CellAt(document, at).text = CellAt(document, other).text =>
            /\ Input[document].blocks[at[1]] = Input[document].blocks[other[1]]
            /\ Len(Block(document, at[1]).cells) = 1

\* Only the preceding revision is matched: an anonymous handle that a revision
\* lacks never comes back (document/identity.rs:48, "never reassigned").
HandlesAreNotReassigned ==
    \A q, r \in DOMAIN snapshots :
        q < r /\ r < Len(snapshots) =>
            \A domain \in {"node", "cell", "slide"} :
                \A handle \in AllHandles(snapshots[q])[domain] \cap AllHandles(Current)[domain] :
                    IsLabeled(handle) \/ handle \in AllHandles(snapshots[r])[domain]

\* Anonymous cells of a snapshot with a given source text.
Alike(snapshot, text) ==
    {at \in AllCells(snapshot) :
        CellAt(snapshot.source, at).text = text /\ ~ IsLabeled(CellId(snapshot, at))}

IdsOf(snapshot, places) == {CellId(snapshot, at) : at \in places}

\* From one revision to the next an anonymous cell handle stays with the same
\* cell source, and as many cells of that source keep a handle as there are in
\* both: no edit around a cell costs its handle.
CellsKeepTheirHandles ==
    Len(snapshots) > 1 =>
        LET before == snapshots[Len(snapshots) - 1]
            after == Current
            texts == {CellAt(before.source, at).text : at \in AllCells(before)}
            anonymous == {id \in Range(CellHandles(before)) : ~ IsLabeled(id)}
        IN  \A text \in texts :
                LET kept == IdsOf(after, Alike(after, text)) \cap anonymous
                    was == Cardinality(Alike(before, text))
                    is == Cardinality(Alike(after, text))
                IN  /\ kept \subseteq IdsOf(before, Alike(before, text))
                    /\ Cardinality(kept) = Min({was, is})

(***************************************************************************)
(* Plans.                                                                  *)
(***************************************************************************)
\* The planned cells as the coordinator and the schedule take them.
Resolved(cells) ==
    [n \in DOMAIN cells |->
        LET cell == cells[n]
        IN  [cell_id |-> cell.cell_id, code |-> None, environment |-> None, volatile_nonce |-> None,
             session |-> IF cell.session = IsolatedSession THEN cell.session
                         ELSE <<cell.language, cell.session[1], cell.session[2]>>]]

P == INSTANCE EvaluationPlan WITH
        CellIds <- {}, Chains <- {}, Isolated <- IsolatedSession, Environments <- {},
        Codes <- {}, Nonces <- {}, NoNonce <- None, NoKey <- None, NoCell <- None

\* A plan that lowering returns is one the schedule accepts: its handles are
\* unique and every link is the chain predecessor that chain_predecessors
\* works out again from the languages and sessions (schedule.rs:94).
PlanIsSchedulable ==
    PlanErrors(Current.source) = {} =>
        \E cells \in {plan(Current)} :
            \E resolved \in {Resolved(cells)} :
                /\ P!WellFormed(resolved)
                /\ \A n \in DOMAIN cells :
                      cells[n].predecessor = P!Predecessor(resolved, cells[n].cell_id)

\* Planning and display resolve eval separately; in every document that both
\* accept, a deck waits for exactly the cells that the plan computes, and a
\* document that display refuses for its options has no plan or no cell that
\* depends on them.
PassesAgreeOnEnabledCells ==
    \A s \in DOMAIN snapshots, mode \in Modes :
        LET snapshot == snapshots[s]
            deck == html[s][mode]
        IN  deck # NoDeck /\ PlanErrors(snapshot.source) = {} /\ DisplayErrors[snapshot.source] = {} =>
                /\ {d[2] : d \in deck.diagnostics} = {cell.cell_id : cell \in Range(plan(snapshot))}
                /\ deck.status = "refused" <=> plan(snapshot) # <<>>

(***************************************************************************)
(* Changes.                                                                *)
(***************************************************************************)
\* A consumer that only applies change sets, fetching inserted and modified
\* slides, always shows the slides of the current revision in their order.
PreviewInStep ==
    /\ preview.order = SlideIds(Current)
    /\ preview.content = Show(Current, ToSet(SlideIds(Current)))

(***************************************************************************)
(* Decks.                                                                  *)
(***************************************************************************)
\* A deck as its reader sees it: without the handles counted out by its
\* compiler's history, and with origins in the snapshot it was made for.
Visible(deck, revision) ==
    LET Anonymized(handle) == IF IsLabeled(handle) THEN handle ELSE None
        Located(origin) == [origin EXCEPT !.file = origin.file = revision]
        Shown(entry) == [text |-> entry.template.text, shown |-> entry.shown, links |-> entry.links]
        Fragment(id, fragment) ==
            [id |-> Anonymized(id),
             body |-> IF fragment.ok
                      THEN <<Head(fragment.body),
                             [b \in DOMAIN Tail(fragment.body) |-> Shown(fragment.body[b + 1])]>>
                      ELSE <<>>,
             resources |-> [r \in DOMAIN fragment.resources |->
                               <<fragment.resources[r].path, Located(fragment.resources[r].origin)>>],
             error |-> IF fragment.ok THEN None ELSE Located(fragment.error)]
    IN  [status |-> deck.status, title |-> deck.title,
         codes |-> {d[1] : d \in deck.diagnostics},
         slides |-> [s \in DOMAIN deck.slides |-> Fragment(deck.slides[s].id, deck.slides[s].fragment)]]

\* What a new compiler makes of the same source, with an empty cache.
CleanBuild ==
    [document \in Documents |-> [mode \in Modes |->
        Visible(compile_deck(updated(document, 0, NoSnapshot), mode, <<>>).deck, 0)]]

\* Whatever edits and renders came before, of whichever snapshots, a deck is
\* the deck of a clean build of its source: content, policies, references,
\* diagnostics, and the origins of resources and errors.
HtmlMatchesCleanBuild ==
    \A s \in DOMAIN snapshots, mode \in Modes :
        html[s][mode] # NoDeck =>
            Visible(html[s][mode], snapshots[s].revision) = CleanBuild[snapshots[s].source][mode]

\* Every read a deck or one of its fragments records, replayed reads of reused
\* fragments included, is of a query that this compilation recorded
\* (compiler/static_html.rs:123 asserts it in debug builds).
QueriesAreClosed ==
    \A s \in DOMAIN snapshots, mode \in Modes :
        html[s][mode] # NoDeck =>
            is_closed(DeckDependencies(snapshots[s], mode, html[s][mode]))
===============================================================================
