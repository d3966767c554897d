-------------------------- MODULE StaticHtmlProofs --------------------------
(***************************************************************************)
(* Proofs about decks, for every set of documents and every history of     *)
(* edits and renders.  The reads of a deck are closed in the queries that  *)
(* its compilation recorded.  A cached fragment is one that rendering gave *)
(* for a slide of some snapshot (GenuineDecks); where it is reusable, its  *)
(* origins moved, it is what rendering would give; and rendering shows the *)
(* same of any two snapshots of one source.  So a deck is the deck of a    *)
(* clean build.                                                            *)
(***************************************************************************)
EXTENDS CompilerProofs

-----------------------------------------------------------------------------
(***************************************************************************)
(* What preparing a deck returns.                                          *)
(***************************************************************************)
\* What deck preparation returns in each of its cases.
LEMMA RefusedIs ==
    ASSUME NEW diagnostics, NEW reads
    PROVE  /\ Refused(diagnostics, reads).status = "refused"
           /\ Refused(diagnostics, reads).diagnostics = diagnostics
           /\ Refused(diagnostics, reads).slides = <<>>
           /\ Refused(diagnostics, reads).reads = reads
BY DEF Refused, NoDeck

PolicyReads(snapshot) ==
    {Query("Inspection"), Query("SlideLayout"), Query("DisplayDefaults")}
        \cup {Keyed("CellPolicy", CellId(snapshot, at)) : at \in AllCells(snapshot)}

EnabledCells(snapshot) ==
    {at \in AllCells(snapshot) : DisplayOptions[snapshot.source][at].eval}

StatusOf(slides) == IF \A s \in DOMAIN slides : slides[s].fragment.ok THEN "compiled" ELSE "failed"

DeckCases(snapshot, mode, cache, made) ==
    \/ /\ inspection[snapshot.source] # {}
       /\ made.deck = Refused(inspection[snapshot.source], {Query("Inspection")})
       /\ made.cache = cache
    \/ /\ inspection[snapshot.source] = {} /\ DisplayErrors[snapshot.source] # {}
       /\ made.deck = Refused(DisplayErrors[snapshot.source], PolicyReads(snapshot))
       /\ made.cache = cache
    \/ /\ inspection[snapshot.source] = {} /\ DisplayErrors[snapshot.source] = {}
       /\ EnabledCells(snapshot) # {}
       /\ made.deck = Refused(Unavailable(snapshot, mode),
                              PolicyReads(snapshot) \cup
                                  {Keyed("SemanticBlock", CellNode(snapshot, at)) :
                                      at \in EnabledCells(snapshot)})
       /\ made.cache = cache
    \/ /\ inspection[snapshot.source] = {} /\ DisplayErrors[snapshot.source] = {}
       /\ EnabledCells(snapshot) = {}
       /\ \E rendered :
             /\ rendered = RenderSlides(snapshot, Policies(snapshot),
                                        References[snapshot.source], cache)
             /\ made.cache = rendered.cache
             /\ made.deck.slides = rendered.slides
             /\ made.deck.status = StatusOf(rendered.slides)
             /\ made.deck.diagnostics = {} /\ made.deck.title = DeckTitle(snapshot.source)
             /\ made.deck.reads = PolicyReads(snapshot) \cup {Query("HtmlTitle")}
                    \cup {Keyed("HtmlSlide", slide.id) : slide \in ToSet(rendered.slides)}

\* compile_deck by its outcomes: refused for the inspection, for the display options or for cells
\* awaiting evaluation, or drawn from the cache.
LEMMA DeckIs ==
    ASSUME NEW snapshot, NEW mode, NEW cache, NEW made, made = compile_deck(snapshot, mode, cache)
    PROVE  DeckCases(snapshot, mode, cache, made)
<1>1. Unavailable(snapshot, mode) = {} <=> EnabledCells(snapshot) = {}
    BY DEF Unavailable, EnabledCells
<1>2. PICK rendered : rendered = RenderSlides(snapshot, Policies(snapshot),
                                              References[snapshot.source], cache)
    OBVIOUS
<1>3. PICK policyReads : policyReads = PolicyReads(snapshot)
    OBVIOUS
<1>. DEFINE Refuse(diagnostics, reads) == [deck |-> Refused(diagnostics, reads), cache |-> cache]
            deck == [status |-> IF \A s \in DOMAIN rendered.slides : rendered.slides[s].fragment.ok
                                THEN "compiled" ELSE "failed",
                     diagnostics |-> {}, title |-> DeckTitle(snapshot.source),
                     slides |-> rendered.slides,
                     reads |-> policyReads \cup {Query("HtmlTitle")}
                               \cup {Keyed("HtmlSlide", slide.id) : slide \in ToSet(rendered.slides)}]
<1>4. made = IF inspection[snapshot.source] # {}
             THEN Refuse(inspection[snapshot.source], {Query("Inspection")})
             ELSE IF DisplayErrors[snapshot.source] # {}
             THEN Refuse(DisplayErrors[snapshot.source], policyReads)
             ELSE IF Unavailable(snapshot, mode) # {}
             THEN Refuse(Unavailable(snapshot, mode),
                         policyReads \cup {Keyed("SemanticBlock", CellNode(snapshot, at)) :
                                              at \in EnabledCells(snapshot)})
             ELSE [deck |-> deck, cache |-> rendered.cache]
    BY <1>2, <1>3, Zenon DEF compile_deck, PolicyReads, EnabledCells
<1>5. /\ deck.slides = rendered.slides /\ deck.status = StatusOf(rendered.slides)
      /\ deck.diagnostics = {} /\ deck.title = DeckTitle(snapshot.source)
      /\ deck.reads = policyReads \cup {Query("HtmlTitle")}
                          \cup {Keyed("HtmlSlide", slide.id) : slide \in ToSet(rendered.slides)}
    BY DEF StatusOf
<1>. HIDE DEF deck
<1>6. \A d, c : [deck |-> d, cache |-> c].deck = d /\ [deck |-> d, cache |-> c].cache = c
    OBVIOUS
<1>7. CASE inspection[snapshot.source] # {}
    BY <1>4, <1>6, <1>7 DEF DeckCases
<1>8. CASE inspection[snapshot.source] = {} /\ DisplayErrors[snapshot.source] # {}
    BY <1>3, <1>4, <1>6, <1>8 DEF DeckCases
<1>9. CASE /\ inspection[snapshot.source] = {} /\ DisplayErrors[snapshot.source] = {}
           /\ EnabledCells(snapshot) # {}
    BY <1>1, <1>3, <1>4, <1>6, <1>9 DEF DeckCases
<1>10. CASE /\ inspection[snapshot.source] = {} /\ DisplayErrors[snapshot.source] = {}
            /\ EnabledCells(snapshot) = {}
    <2>1. made.deck = deck /\ made.cache = rendered.cache
        BY <1>1, <1>4, <1>6, <1>10
    <2>. QED
        BY <1>2, <1>3, <1>5, <1>10, <2>1 DEF DeckCases
<1>. QED
    BY <1>7, <1>8, <1>9, <1>10

\* Reads of a slide's rendering: its layout, policies of cells, references.
ReadsOk(id, policies, references, reads) ==
    \A key \in reads :
        \/ key = Keyed("Slide", id)
        \/ \E p \in policies : key = Keyed("CellPolicy", p)
        \/ \E label \in references : key = Keyed("Reference", label)

\* Every cached fragment read its own slide, and what it is compared by.
CacheSound(cache) ==
    \A id \in DOMAIN cache :
        /\ "reads" \in DOMAIN cache[id].result
        /\ ReadsOk(id, DOMAIN cache[id].policies, DOMAIN cache[id].references, cache[id].result.reads)

\* Rendering a slide reads only what its snapshot has (render_slide).
LEMMA RenderReads ==
    ASSUME NEW snapshot, SnapshotSound(snapshot), NEW s \in DOMAIN snapshot.slides,
           NEW slide, slide = snapshot.slides[s], NEW policies, NEW references,
           NEW fragment, fragment = render_slide(snapshot, slide, policies, references)
    PROVE  /\ "reads" \in DOMAIN fragment
           /\ ReadsOk(slide.id, DOMAIN Policies(snapshot), DOMAIN References[snapshot.source],
                      fragment.reads)
<1>1. PICK document \in Documents : document = snapshot.source
    BY DEF SnapshotSound
<1>2. PICK blocks \in Seq(Blocks(document)) : blocks = slide.blocks
    <2>1. build_presentation[document] \in Seq(Layouts(document))
        BY PresentationIs
    <2>2. build_presentation[document][s] \in Layouts(document)
        BY <1>1, <2>1 DEF SnapshotSound
    <2>3. build_presentation[document][s].blocks \in Seq(Blocks(document))
        BY <2>2 DEF Layouts
    <2>. QED
        BY <1>1, <2>3 DEF SnapshotSound
<1>. DEFINE failing == {b \in DOMAIN slide.blocks :
                           \/ Block(snapshot.source, slide.blocks[b]).unsupported
                           \/ BadLinks(snapshot.source, slide.blocks[b], references) # {}}
            visited == IF failing = {} THEN Len(slide.blocks) ELSE Min(failing)
<1>3. /\ "reads" \in DOMAIN fragment
      /\ fragment.reads = {Keyed("Slide", slide.id)}
                          \cup UNION {BlockReads(snapshot, blocks[b], references) : b \in 1..visited}
    <2>. DEFINE reads == {Keyed("Slide", slide.id)}
                    \cup UNION {BlockReads(snapshot, slide.blocks[b], references) : b \in 1..visited}
    <2>1. \E ok, body, resources, error :
              fragment = [ok |-> ok, body |-> body, resources |-> resources, error |-> error,
                          reads |-> reads]
        BY Zenon DEF render_slide
    <2>2. reads = {Keyed("Slide", slide.id)}
                  \cup UNION {BlockReads(snapshot, blocks[b], references) : b \in 1..visited}
        BY <1>2
    <2>. HIDE DEF reads
    <2>3. "reads" \in DOMAIN fragment /\ fragment.reads = reads
        BY <2>1
    <2>. QED
        BY <2>2, <2>3
<1>4. visited \in 0..Len(blocks)
    <2>1. DOMAIN blocks = 1..Len(blocks) /\ Len(blocks) \in Nat
        BY <1>2
    <2>2. failing # {} => Min(failing) \in failing
        <3>1. failing \in SUBSET (Nat \ {0})
            BY <1>2, <2>1
        <3>. HIDE DEF failing
        <3>. QED
            BY <3>1, MinIs
    <2>3. failing \subseteq 1..Len(blocks)
        BY <1>2, <2>1
    <2>. HIDE DEF failing
    <2>4. CASE failing = {}
        BY <1>2, <2>1, <2>4
    <2>5. CASE failing # {}
        <3>1. PICK first : first = Min(failing)
            OBVIOUS
        <3>2. first \in 1..Len(blocks) /\ visited = first
            BY <2>2, <2>3, <2>5, <3>1
        <3>. HIDE DEF visited
        <3>. QED
            BY <2>1, <3>2
    <2>. QED
        BY <2>4, <2>5
<1>. HIDE DEF visited
<1>5. ASSUME NEW i \in Blocks(document), NEW key \in BlockReads(snapshot, i, references)
      PROVE  \/ \E p \in DOMAIN Policies(snapshot) : key = Keyed("CellPolicy", p)
             \/ \E label \in DOMAIN References[document] : key = Keyed("Reference", label)
    <2>1. ASSUME NEW j \in DOMAIN Block(document, i).cells,
                 key = Keyed("CellPolicy", CellId(snapshot, <<i, j>>))
          PROVE  \E p \in DOMAIN Policies(snapshot) : key = Keyed("CellPolicy", p)
        <3>1. <<i, j>> \in AllCells(snapshot)
            BY <1>1, CellsOfIs DEF AllCells
        <3>2. CellId(snapshot, <<i, j>>) \in DOMAIN Policies(snapshot)
            BY <3>1 DEF Policies
        <3>. QED
            BY <2>1, <3>2
    <2>2. ASSUME NEW k \in DOMAIN Block(document, i).links,
                 key = Keyed("Reference", Block(document, i).links[k].reference),
                 key # Keyed("Reference", None)
          PROVE  \E label \in DOMAIN References[document] : key = Keyed("Reference", label)
        <3>1. PICK link : link = Block(document, i).links[k]
            OBVIOUS
        <3>2. link \in ToSet(Block(document, i).links) /\ link.reference # None
            BY <2>2, <3>1 DEF ToSet
        <3>3. link.reference \in ReferenceLabels(document)
            BY <3>2 DEF ReferenceLabels
        <3>4. DOMAIN References[document] = ReferenceLabels(document)
            BY DEF References
        <3>. QED
            BY <2>2, <3>1, <3>3, <3>4
    <2>. QED
        BY <1>1, <1>5, <2>1, <2>2 DEF BlockReads
<1>6. \A b \in 1..visited : blocks[b] \in Blocks(document)
    BY <1>2, <1>4
<1>. QED
    BY <1>1, <1>3, <1>5, <1>6 DEF ReadsOk

\* Moving origins leaves the recorded reads alone.
LEMMA BindReads ==
    ASSUME NEW cached, "reads" \in DOMAIN cached.result, NEW origins
    PROVE  bind(cached, origins).reads = cached.result.reads
BY DEF bind

\* A fragment is cached under every policy and reference it read.
LEMMA CachedReads ==
    ASSUME NEW snapshot, NEW slide, NEW fragment, NEW policies, NEW references,
           NEW keys, NEW labelled, ReadsOk(slide.id, keys, labelled, fragment.reads),
           NEW cached, cached = CachedFragment(snapshot, slide, fragment, policies, references)
    PROVE  /\ cached.result = fragment
           /\ ReadsOk(slide.id, DOMAIN cached.policies, DOMAIN cached.references, fragment.reads)
<1>. DEFINE Read(name) == {key[2] : key \in {k \in fragment.reads : k[1] = name}}
<1>1. /\ cached.result = fragment /\ cached.policies = Restrict(policies, Read("CellPolicy"))
      /\ cached.references = Restrict(references, Read("Reference"))
    BY DEF CachedFragment
<1>2. /\ DOMAIN cached.policies = Read("CellPolicy")
      /\ DOMAIN cached.references = Read("Reference")
    BY <1>1 DEF Restrict
<1>3. ASSUME NEW name, NEW x, Keyed(name, x) \in fragment.reads
      PROVE  x \in Read(name)
    <2>1. Keyed(name, x)[1] = name /\ Keyed(name, x)[2] = x
        BY DEF Keyed
    <2>. QED
        BY <1>3, <2>1
<1>. HIDE DEF Read
<1>. QED
    BY <1>1, <1>2, <1>3 DEF ReadsOk

DrawStep(snapshot, policies, references, d, e, made, slide) ==
    IF made.slides # <<>> /\ ~ Last(made.slides).fragment.ok THEN made
    ELSE RenderSlide(snapshot, policies, references, made, slide)

\* Slides made so far are of the snapshot, and read what it has.
DrawnOk(snapshot, policies, references, made) ==
    /\ CacheSound(made.cache)
    /\ made.slides \in Seq(Range(made.slides))
    /\ \A k \in DOMAIN made.slides :
          /\ made.slides[k].id \in ToSet(SlideIds(snapshot))
          /\ ReadsOk(made.slides[k].id, DOMAIN policies, DOMAIN references, made.slides[k].fragment.reads)

DrawInvariant(snapshot, policies, references, d, e, slides, n, made) ==
    DrawnOk(snapshot, policies, references, made)

Drawing == INSTANCE SequenceFolds WITH Step <- DrawStep, Invariant <- DrawInvariant

\* One slide drawn keeps the cache and the fragments sound.
LEMMA DrawnMore ==
    ASSUME NEW snapshot, SnapshotSound(snapshot), NEW s \in DOMAIN snapshot.slides,
           NEW slide, slide = snapshot.slides[s],
           NEW policies, policies = Policies(snapshot),
           NEW references, references = References[snapshot.source],
           NEW made, DrawnOk(snapshot, policies, references, made)
    PROVE  DrawnOk(snapshot, policies, references,
                   RenderSlide(snapshot, policies, references, made, slide))
<1>1. slide.id \in ToSet(SlideIds(snapshot))
    BY DEF ToSet, SlideIds
<1>2. PICK cache, slides : cache = made.cache /\ slides = made.slides
    OBVIOUS
<1>3. /\ CacheSound(cache) /\ slides \in Seq(Range(slides))
      /\ \A k \in DOMAIN slides :
            /\ slides[k].id \in ToSet(SlideIds(snapshot))
            /\ ReadsOk(slides[k].id, DOMAIN policies, DOMAIN references, slides[k].fragment.reads)
    BY <1>2 DEF DrawnOk
<1>4. ASSUME NEW later, CacheSound(later), NEW entry, entry.id = slide.id,
             ReadsOk(slide.id, DOMAIN policies, DOMAIN references, entry.fragment.reads)
      PROVE  DrawnOk(snapshot, policies, references, [slides |-> Append(slides, entry), cache |-> later])
    <2>1. PICK longer : longer = Append(slides, entry)
        OBVIOUS
    <2>2. /\ longer \in Seq(Range(longer)) /\ DOMAIN longer = 1..(Len(slides) + 1)
          /\ longer[Len(slides) + 1] = entry
          /\ DOMAIN slides = 1..Len(slides) /\ Len(slides) \in Nat
          /\ \A k \in DOMAIN slides : longer[k] = slides[k]
        BY <1>3, <2>1, AppendIs
    <2>3. \A k \in DOMAIN longer : k \in DOMAIN slides \/ longer[k] = entry
        BY <2>2
    <2>4. \A k \in DOMAIN longer :
              /\ longer[k].id \in ToSet(SlideIds(snapshot))
              /\ ReadsOk(longer[k].id, DOMAIN policies, DOMAIN references, longer[k].fragment.reads)
        BY <1>1, <1>3, <1>4, <2>2, <2>3
    <2>5. PICK more : more = [slides |-> longer, cache |-> later]
        OBVIOUS
    <2>6. DrawnOk(snapshot, policies, references, more)
        BY <1>4, <2>2, <2>4, <2>5 DEF DrawnOk
    <2>. QED
        BY <2>1, <2>5, <2>6
<1>. DEFINE hit == /\ slide.id \in DOMAIN cache
                   /\ IsReusable(cache[slide.id], slide_input(snapshot, slide), policies, references)
            bound == bind(cache[slide.id], slide_origins(snapshot, slide))
            fragment == render_slide(snapshot, slide, policies, references)
            cached == CachedFragment(snapshot, slide, fragment, policies, references)
            more == [id \in DOMAIN cache \cup {slide.id} |-> IF id = slide.id THEN cached ELSE cache[id]]
<1>5. RenderSlide(snapshot, policies, references, made, slide) =
          IF hit THEN [slides |-> Append(slides, [id |-> slide.id, fragment |-> bound]), cache |-> cache]
          ELSE [slides |-> Append(slides, [id |-> slide.id, fragment |-> fragment]), cache |-> more]
    BY <1>2, Zenon DEF RenderSlide
<1>6. \A f : [id |-> slide.id, fragment |-> f].id = slide.id /\ [id |-> slide.id, fragment |-> f].fragment = f
    OBVIOUS
<1>7. CASE hit
    <2>1. PICK old : old = cache[slide.id]
        OBVIOUS
    <2>2. /\ "reads" \in DOMAIN old.result
          /\ ReadsOk(slide.id, DOMAIN old.policies, DOMAIN old.references, old.result.reads)
        BY <1>3, <1>7, <2>1 DEF CacheSound
    <2>3. DOMAIN old.policies \subseteq DOMAIN policies /\ DOMAIN old.references \subseteq DOMAIN references
        BY <1>7, <2>1 DEF IsReusable
    <2>4. bound.reads = old.result.reads
        BY <2>1, <2>2, BindReads
    <2>. HIDE DEF bound
    <2>5. ReadsOk(slide.id, DOMAIN policies, DOMAIN references, bound.reads)
        BY <2>2, <2>3, <2>4 DEF ReadsOk
    <2>6. PICK entry : entry = [id |-> slide.id, fragment |-> bound]
        OBVIOUS
    <2>7. DrawnOk(snapshot, policies, references, [slides |-> Append(slides, entry), cache |-> cache])
        BY <1>3, <1>4, <1>6, <2>5, <2>6
    <2>. QED
        BY <1>5, <1>7, <2>6, <2>7
<1>8. CASE ~ hit
    <2>1. /\ "reads" \in DOMAIN fragment
          /\ ReadsOk(slide.id, DOMAIN policies, DOMAIN references, fragment.reads)
        <3>1. PICK f : f = render_slide(snapshot, slide, policies, references)
            OBVIOUS
        <3>2. /\ "reads" \in DOMAIN f
              /\ ReadsOk(slide.id, DOMAIN policies, DOMAIN references, f.reads)
            BY <3>1, RenderReads
        <3>. QED
            BY <3>1, <3>2
    <2>. HIDE DEF fragment
    <2>2. /\ cached.result = fragment
          /\ ReadsOk(slide.id, DOMAIN cached.policies, DOMAIN cached.references, fragment.reads)
        BY <2>1, CachedReads
    <2>. HIDE DEF cached
    <2>3. CacheSound(more)
        BY <1>3, <2>1, <2>2 DEF CacheSound
    <2>4. PICK entry, later : entry = [id |-> slide.id, fragment |-> fragment] /\ later = more
        OBVIOUS
    <2>5. DrawnOk(snapshot, policies, references, [slides |-> Append(slides, entry), cache |-> later])
        BY <1>4, <1>6, <2>1, <2>3, <2>4
    <2>. QED
        BY <1>5, <1>8, <2>4, <2>5
<1>. QED
    BY <1>7, <1>8

\* All slides drawn from a sound cache: a sound cache and sound fragments.
LEMMA RenderedIs ==
    ASSUME NEW snapshot, SnapshotSound(snapshot),
           NEW policies, policies = Policies(snapshot),
           NEW references, references = References[snapshot.source],
           NEW cache, CacheSound(cache)
    PROVE  DrawnOk(snapshot, policies, references, RenderSlides(snapshot, policies, references, cache))
<1>1. PICK n, slides : n \in Nat /\ slides = snapshot.slides /\ DOMAIN slides = 1..n
    BY DEF SnapshotSound, Usable
<1>2. PICK base : base = [slides |-> <<>>, cache |-> cache]
    OBVIOUS
<1>3. RenderSlides(snapshot, policies, references, cache) =
          Drawing!Fold(snapshot, policies, references, {}, {}, base, slides)
    <2>1. RenderSlides(snapshot, policies, references, cache) =
              Drawing!Fold(snapshot, policies, references, {}, {},
                           [slides |-> <<>>, cache |-> cache], snapshot.slides)
        BY Zenon DEF RenderSlides, FoldLeft, MapThenFoldSet, Max, Drawing!Fold, Drawing!IsFold,
                     Drawing!Greatest, DrawStep
    <2>. QED
        BY <1>1, <1>2, <2>1, Zenon
<1>4. DrawnOk(snapshot, policies, references, base)
    <2>1. base.slides = <<>> /\ base.cache = cache
        BY <1>2
    <2>2. <<>> \in Seq(Range(<<>>)) /\ DOMAIN <<>> = {}
        OBVIOUS
    <2>. QED
        BY <2>1, <2>2 DEF DrawnOk
<1>5. ASSUME NEW i \in 1..n, NEW made, DrawnOk(snapshot, policies, references, made)
      PROVE  DrawnOk(snapshot, policies, references,
                     DrawStep(snapshot, policies, references, {}, {}, made, slides[i]))
    <2>1. PICK slide : slide = slides[i]
        OBVIOUS
    <2>2. DrawnOk(snapshot, policies, references,
                  RenderSlide(snapshot, policies, references, made, slide))
        BY <1>1, <1>5, <2>1, DrawnMore
    <2>. QED
        BY <1>5, <2>1, <2>2 DEF DrawStep
<1>6. DrawnOk(snapshot, policies, references,
              Drawing!Fold(snapshot, policies, references, {}, {}, base, slides))
    BY <1>1, <1>4, <1>5, Drawing!FoldInvariant DEF DrawInvariant
<1>. QED
    BY <1>3, <1>6

-----------------------------------------------------------------------------
(***************************************************************************)
(* Recorded queries.                                                       *)
(***************************************************************************)
LEMMA ReadingIs ==
    ASSUME NEW query, NEW reads
    PROVE  DOMAIN Reading(query, reads) = {query} /\ Reading(query, reads)[query] = reads
BY DEF Reading

\* Everything recorded by some part of a compilation.
KeysOf(parts) == UNION {DOMAIN part : part \in parts}

\* A part reads queries of a set only.
PartReads(part, keys) == \A key \in DOMAIN part : part[key] \subseteq keys

\* The queries recorded by several parts are those of each part.
LEMMA RecordedIs ==
    ASSUME NEW parts
    PROVE  /\ DOMAIN Recorded(parts) = KeysOf(parts)
           /\ \A keys : (\A part \in parts : PartReads(part, keys)) => PartReads(Recorded(parts), keys)
<1>1. Recorded(parts) = [key \in KeysOf(parts) |->
                            UNION {part[key] : part \in {p \in parts : key \in DOMAIN p}}]
    BY Zenon DEF Recorded, KeysOf
<1>2. DOMAIN Recorded(parts) = KeysOf(parts)
    BY <1>1
<1>3. ASSUME NEW keys, \A part \in parts : PartReads(part, keys), NEW key \in KeysOf(parts),
             NEW read \in Recorded(parts)[key]
      PROVE  read \in keys
    <2>1. Recorded(parts)[key] = UNION {part[key] : part \in {p \in parts : key \in DOMAIN p}}
        BY <1>1
    <2>2. PICK part \in parts : key \in DOMAIN part /\ read \in part[key]
        BY <1>3, <2>1
    <2>. QED
        BY <1>3, <2>2 DEF PartReads
<1>. QED
    BY <1>2, <1>3 DEF PartReads

\* A query with its reads is a part that reads them.
LEMMA ReadingReads ==
    ASSUME NEW query, NEW reads, NEW keys, reads \subseteq keys
    PROVE  PartReads(Reading(query, reads), keys) /\ DOMAIN Reading(query, reads) = {query}
BY ReadingIs DEF PartReads

NodeKeys(snapshot) ==
    {Keyed("SemanticBlock", node) : node \in UNION {Nodes(t) : t \in ToSet(snapshot.templates)}}

\* The nodes of blocks and cells are among those of the templates.
LEMMA NodeKeysHave ==
    ASSUME NEW snapshot, SnapshotSound(snapshot)
    PROVE  /\ \A i \in Blocks(snapshot.source) :
                 Keyed("SemanticBlock", NodeHandle(snapshot.templates[i])) \in NodeKeys(snapshot)
           /\ \A at \in AllCells(snapshot) :
                 Keyed("SemanticBlock", CellNode(snapshot, at)) \in NodeKeys(snapshot)
<1>1. PICK document \in Documents : document = snapshot.source
    BY DEF SnapshotSound
<1>2. PICK templates : /\ templates = snapshot.templates /\ DOMAIN templates = Blocks(document)
                       /\ \A i \in Blocks(document) : Content[templates[i].text] = Block(document, i)
    BY <1>1, BlockIs DEF SnapshotSound
<1>3. ASSUME NEW i \in Blocks(document), NEW j \in 0..Len(Block(document, i).cells)
      PROVE  Keyed("SemanticBlock", templates[i].handles[NodeSlot(Block(document, i), j)])
                 \in NodeKeys(snapshot)
    <2>1. templates[i].handles[NodeSlot(Block(document, i), j)] \in Nodes(templates[i])
        BY <1>2 DEF Nodes
    <2>2. templates[i] \in ToSet(snapshot.templates)
        BY <1>2 DEF ToSet
    <2>. QED
        BY <2>1, <2>2 DEF NodeKeys
<1>4. ASSUME NEW i \in Blocks(document)
      PROVE  Keyed("SemanticBlock", NodeHandle(templates[i])) \in NodeKeys(snapshot)
    <2>1. 0 \in 0..Len(Block(document, i).cells)
        <3>1. Len(Block(document, i).cells) \in Nat
            BY BlockIs, SlotsAre
        <3>. QED
            BY <3>1
    <2>2. NodeSlot(Block(document, i), 0) = 1
        BY DEF NodeSlot
    <2>. QED
        BY <1>3, <2>1, <2>2 DEF NodeHandle
<1>5. ASSUME NEW at \in AllCells(snapshot)
      PROVE  Keyed("SemanticBlock", CellNode(snapshot, at)) \in NodeKeys(snapshot)
    <2>1. PICK i, j : i = at[1] /\ j = at[2] /\ i \in Blocks(document) /\ j \in DOMAIN Block(document, i).cells
        BY <1>1, CellPlace DEF AllCells
    <2>2. j \in 0..Len(Block(document, i).cells)
        <3>1. /\ DOMAIN Block(document, i).cells = 1..Len(Block(document, i).cells)
              /\ Len(Block(document, i).cells) \in Nat
            BY <2>1, BlockIs, SlotsAre
        <3>. QED
            BY <2>1, <3>1
    <2>3. CellNode(snapshot, at) = templates[i].handles[NodeSlot(Block(document, i), j)]
        BY <1>1, <1>2, <2>1 DEF CellNode
    <2>. QED
        BY <1>3, <2>1, <2>2, <2>3
<1>. QED
    BY <1>1, <1>2, <1>4, <1>5

\* Queries that every snapshot records.
BaseKeys(snapshot) ==
    {Query("Source"), Query("SourceDocument"), Query("SourceDiagnostics"), Query("Metadata"),
     Query("SlideLayout"), Query("Inspection")}
        \cup NodeKeys(snapshot) \cup SlideKeys(snapshot)

\* One query per node, each reading base inputs only.
LEMMA BlockQueriesAre ==
    ASSUME NEW snapshot
    PROVE  /\ DOMAIN BlockQueries(snapshot) = NodeKeys(snapshot)
           /\ PartReads(BlockQueries(snapshot), BaseKeys(snapshot))
<1>. DEFINE templates == ToSet(snapshot.templates)
            Key(node) == Keyed("SemanticBlock", node)
            Inner(node) == UNION {Nodes(t) \ {node} : t \in {u \in templates : NodeHandle(u) = node}}
<1>1. BlockQueries(snapshot) =
          [key \in NodeKeys(snapshot) |->
              {Query("SourceDocument")} \cup {Key(node) : node \in Inner(key[2])}]
    BY Zenon DEF BlockQueries, NodeKeys
<1>2. ASSUME NEW key, NEW node \in Inner(key[2])
      PROVE  Key(node) \in NodeKeys(snapshot)
    BY DEF NodeKeys
<1>. HIDE DEF Inner
<1>. QED
    BY <1>1, <1>2 DEF PartReads, BaseKeys

\* The metadata query reads base inputs only.
LEMMA MetadataReadsAre ==
    ASSUME NEW snapshot, SnapshotSound(snapshot)
    PROVE  MetadataReads(snapshot) \subseteq BaseKeys(snapshot)
BY NodeKeysHave DEF MetadataReads, BaseKeys

\* One query per cell, reading base inputs and the defaults.
LEMMA CellQueriesAre ==
    ASSUME NEW snapshot, SnapshotSound(snapshot), NEW name, NEW defaults, NEW keys,
           BaseKeys(snapshot) \subseteq keys, defaults \in keys
    PROVE  /\ DOMAIN CellQueries(snapshot, name, defaults) =
                 {Keyed(name, CellId(snapshot, at)) : at \in AllCells(snapshot)}
           /\ PartReads(CellQueries(snapshot, name, defaults), keys)
<1>1. \A at \in AllCells(snapshot) : Keyed("SemanticBlock", CellNode(snapshot, at)) \in keys
    BY NodeKeysHave DEF BaseKeys
<1>. QED
    BY <1>1 DEF CellQueries, PartReads

\* A slide id of the snapshot is found at the slide that has it.
LEMMA SlideFoundAt ==
    ASSUME NEW snapshot, NEW id \in ToSet(SlideIds(snapshot))
    PROVE  /\ SlideAt(snapshot, id) \in DOMAIN snapshot.slides
           /\ snapshot.slides[SlideAt(snapshot, id)].id = id
<1>1. \E s \in DOMAIN snapshot.slides : snapshot.slides[s].id = id
    BY DEF ToSet, SlideIds
<1>. QED
    BY <1>1 DEF SlideAt

\* A slide reads base inputs only.
LEMMA SlideReadsAre ==
    ASSUME NEW snapshot, SnapshotSound(snapshot), NEW s \in DOMAIN snapshot.slides
    PROVE  SlideReads(snapshot, snapshot.slides[s]) \subseteq BaseKeys(snapshot)
<1>1. PICK document \in Documents : document = snapshot.source
    BY DEF SnapshotSound
<1>2. ToSet(snapshot.slides[s].blocks) \subseteq Blocks(document)
    <2>1. build_presentation[document] \in Seq(Layouts(document))
        BY PresentationIs
    <2>2. build_presentation[document][s] \in Layouts(document)
        BY <1>1, <2>1 DEF SnapshotSound
    <2>3. PICK blocks : blocks = snapshot.slides[s].blocks /\ blocks \in Seq(Blocks(document))
        BY <1>1, <2>2 DEF Layouts, SnapshotSound
    <2>4. ToSet(blocks) \subseteq Blocks(document)
        BY <2>3 DEF ToSet
    <2>. QED
        BY <2>3, <2>4
<1>3. ASSUME NEW i \in ToSet(snapshot.slides[s].blocks)
      PROVE  Keyed("SemanticBlock", NodeHandle(snapshot.templates[i])) \in BaseKeys(snapshot)
    BY <1>1, <1>2, NodeKeysHave DEF BaseKeys
<1>. QED
    BY <1>3 DEF SlideReads, BaseKeys

\* What compiling a snapshot records is closed.
LEMMA BaseClosed ==
    ASSUME NEW snapshot, SnapshotSound(snapshot)
    PROVE  /\ BaseKeys(snapshot) \subseteq DOMAIN dependencies(snapshot)
           /\ PartReads(dependencies(snapshot), DOMAIN dependencies(snapshot))
<1>. DEFINE cells == CellQueries(snapshot, "CellEvaluation", Query("EvaluationDefaults"))
            slides == [key \in SlideKeys(snapshot) |->
                          SlideReads(snapshot, snapshot.slides[SlideAt(snapshot, key[2])])]
            always ==
                {Reading(Query("Source"), {}),
                 Reading(Query("SourceDocument"), {Query("Source")}),
                 Reading(Query("SourceDiagnostics"), {Query("SourceDocument")}),
                 Reading(Query("Metadata"), {Query("SourceDocument")}),
                 Reading(Query("SlideLayout"), {Query("SourceDocument")}),
                 BlockQueries(snapshot),
                 slides,
                 Reading(Query("Inspection"),
                         {Query("SlideLayout"), Query("SourceDiagnostics")} \cup SlideKeys(snapshot))}
            planned ==
                {Reading(Query("EvaluationDefaults"),
                         {Query("SourceDocument")} \cup MetadataReads(snapshot)),
                 cells,
                 Reading(Query("EvaluationPlan"),
                         {Query("SourceDiagnostics"), Query("EvaluationDefaults"),
                          Query("SourceDocument")} \cup DOMAIN cells)}
            refused == {Reading(Query("EvaluationPlan"), {Query("SourceDiagnostics")})}
            base == BaseKeys(snapshot)
<1>1. /\ \A a, b : KeysOf(a \cup b) = KeysOf(a) \cup KeysOf(b)
      /\ \A a : KeysOf({a}) = DOMAIN a
    BY DEF KeysOf
<1>2. DOMAIN slides = SlideKeys(snapshot) /\ PartReads(slides, base)
    <2>1. ASSUME NEW key \in SlideKeys(snapshot)
          PROVE  slides[key] \subseteq base
        <3>1. PICK id \in ToSet(SlideIds(snapshot)) : key = Keyed("Slide", id)
            BY DEF SlideKeys
        <3>2. key[2] = id
            BY <3>1 DEF Keyed
        <3>3. PICK s \in DOMAIN snapshot.slides : s = SlideAt(snapshot, id)
            BY SlideFoundAt
        <3>. QED
            BY <3>2, <3>3, SlideReadsAre
    <2>. QED
        BY <2>1 DEF PartReads
<1>3. KeysOf(always) = base
    <2>. HIDE DEF slides
    <2>1. PICK a, b, c, d, e, f, g :
              /\ a = Reading(Query("Source"), {})
              /\ b = Reading(Query("SourceDocument"), {Query("Source")})
              /\ c = Reading(Query("SourceDiagnostics"), {Query("SourceDocument")})
              /\ d = Reading(Query("Metadata"), {Query("SourceDocument")})
              /\ e = Reading(Query("SlideLayout"), {Query("SourceDocument")})
              /\ f = BlockQueries(snapshot)
              /\ g = Reading(Query("Inspection"),
                             {Query("SlideLayout"), Query("SourceDiagnostics")}
                                 \cup SlideKeys(snapshot))
        OBVIOUS
    <2>2. \A query, reads : DOMAIN Reading(query, reads) = {query}
        BY ReadingIs
    <2>3. KeysOf(always) =
              {Query("Source")} \cup {Query("SourceDocument")} \cup {Query("SourceDiagnostics")}
              \cup {Query("Metadata")} \cup {Query("SlideLayout")} \cup DOMAIN BlockQueries(snapshot)
              \cup DOMAIN slides \cup {Query("Inspection")}
        <3>1. always = {a, b, c, d, e, f, slides, g}
            BY <2>1, Zenon
        <3>2. KeysOf({a, b, c, d, e, f, slides, g}) =
                  DOMAIN a \cup DOMAIN b \cup DOMAIN c \cup DOMAIN d
                  \cup DOMAIN e \cup DOMAIN f \cup DOMAIN slides \cup DOMAIN g
            BY DEF KeysOf
        <3>3. /\ DOMAIN a = {Query("Source")} /\ DOMAIN b = {Query("SourceDocument")}
              /\ DOMAIN c = {Query("SourceDiagnostics")} /\ DOMAIN d = {Query("Metadata")}
              /\ DOMAIN e = {Query("SlideLayout")} /\ DOMAIN g = {Query("Inspection")}
            BY <2>1, <2>2, Zenon
        <3>. QED
            BY <2>1, <3>1, <3>2, <3>3, Zenon
    <2>. HIDE DEF always
    <2>. QED
        BY <1>2, <2>3, BlockQueriesAre DEF BaseKeys
<1>4. \A part \in always : PartReads(part, base)
    <2>. HIDE DEF slides
    <2>1. \A query : /\ PartReads(Reading(query, {}), base)
                     /\ PartReads(Reading(query, {Query("Source")}), base)
                     /\ PartReads(Reading(query, {Query("SourceDocument")}), base)
        BY ReadingReads DEF BaseKeys
    <2>2. \A query : PartReads(Reading(query, {Query("SlideLayout"), Query("SourceDiagnostics")}
                                              \cup SlideKeys(snapshot)), base)
        <3>1. {Query("SlideLayout"), Query("SourceDiagnostics")} \cup SlideKeys(snapshot) \subseteq base
            BY DEF BaseKeys
        <3>. QED
            BY <3>1, ReadingReads
    <2>. QED
        BY <1>2, <2>1, <2>2, BlockQueriesAre
<1>5. \A part, keys : PartReads(part, base) /\ base \subseteq keys => PartReads(part, keys)
    BY DEF PartReads
<1>6. CASE inspection[snapshot.source] = {}
    <2>. DEFINE all == base \cup {Query("EvaluationDefaults")} \cup DOMAIN cells
                            \cup {Query("EvaluationPlan")}
    <2>1. dependencies(snapshot) = Recorded(always \cup planned)
        BY <1>6, Zenon DEF dependencies
    <2>2. KeysOf(planned) = {Query("EvaluationDefaults")} \cup DOMAIN cells \cup {Query("EvaluationPlan")}
        <3>. HIDE DEF cells
        <3>1. PICK a, b : /\ a = Reading(Query("EvaluationDefaults"),
                                         {Query("SourceDocument")} \cup MetadataReads(snapshot))
                          /\ b = Reading(Query("EvaluationPlan"),
                                         {Query("SourceDiagnostics"), Query("EvaluationDefaults"),
                                          Query("SourceDocument")} \cup DOMAIN cells)
            OBVIOUS
        <3>2. KeysOf({a, cells, b}) = DOMAIN a \cup DOMAIN cells \cup DOMAIN b
            BY DEF KeysOf
        <3>3. DOMAIN a = {Query("EvaluationDefaults")} /\ DOMAIN b = {Query("EvaluationPlan")}
            BY <3>1, ReadingIs, Zenon
        <3>. QED
            BY <3>1, <3>2, <3>3, Zenon
    <2>3. KeysOf(always \cup planned) = all
        <3>. HIDE DEF always, planned, cells, base
        <3>. QED
            BY <1>1, <1>3, <2>2
    <2>4. PartReads(cells, all)
        BY CellQueriesAre
    <2>5. PartReads(Reading(Query("EvaluationDefaults"),
                            {Query("SourceDocument")} \cup MetadataReads(snapshot)), all)
        <3>1. {Query("SourceDocument")} \cup MetadataReads(snapshot) \subseteq base
            BY MetadataReadsAre DEF BaseKeys
        <3>. QED
            BY <3>1, ReadingReads
    <2>6. PartReads(Reading(Query("EvaluationPlan"),
                            {Query("SourceDiagnostics"), Query("EvaluationDefaults"),
                             Query("SourceDocument")} \cup DOMAIN cells), all)
        <3>1. Query("SourceDiagnostics") \in base /\ Query("SourceDocument") \in base
            BY DEF BaseKeys
        <3>2. {Query("SourceDiagnostics"), Query("EvaluationDefaults"),
               Query("SourceDocument")} \cup DOMAIN cells \subseteq all
            <4>. HIDE DEF cells, base
            <4>. QED
                BY <3>1
        <3>. QED
            BY <3>2, ReadingReads
    <2>. HIDE DEF all
    <2>7. \A part \in planned : PartReads(part, all)
        <3>. HIDE DEF cells
        <3>. QED
            BY <2>4, <2>5, <2>6
    <2>8. base \subseteq all
        BY DEF all
    <2>9. \A part \in always \cup planned : PartReads(part, all)
        <3>. HIDE DEF always, planned, base
        <3>. QED
            BY <1>4, <1>5, <2>7, <2>8
    <2>10. PICK parts : parts = always \cup planned
        OBVIOUS
    <2>. HIDE DEF always, planned, base
    <2>. QED
        BY <2>1, <2>3, <2>8, <2>9, <2>10, RecordedIs DEF base
<1>7. CASE inspection[snapshot.source] # {}
    <2>1. dependencies(snapshot) = Recorded(always \cup refused)
        BY <1>7, Zenon DEF dependencies
    <2>2. KeysOf(refused) = {Query("EvaluationPlan")}
        <3>1. KeysOf(refused) = DOMAIN Reading(Query("EvaluationPlan"), {Query("SourceDiagnostics")})
            BY <1>1, Zenon
        <3>. QED
            BY <3>1, ReadingIs
    <2>3. \A part \in refused : PartReads(part, base)
        <3>1. {Query("SourceDiagnostics")} \subseteq base
            BY DEF BaseKeys
        <3>2. PartReads(Reading(Query("EvaluationPlan"), {Query("SourceDiagnostics")}), base)
            BY <3>1, ReadingReads
        <3>. HIDE DEF base
        <3>. QED
            BY <3>2
    <2>4. PICK parts, all : /\ parts = always \cup refused
                            /\ all = base \cup {Query("EvaluationPlan")}
        OBVIOUS
    <2>. HIDE DEF always, refused, base
    <2>5. KeysOf(parts) = all /\ base \subseteq all
        BY <1>1, <1>3, <2>2, <2>4
    <2>6. \A part \in parts : PartReads(part, all)
        BY <1>4, <1>5, <2>3, <2>4, <2>5
    <2>. QED
        BY <2>1, <2>4, <2>5, <2>6, RecordedIs DEF base
<1>. QED
    BY <1>6, <1>7

DisplayKeys(snapshot) ==
    {Query("DisplayDefaults")} \cup {Keyed("CellPolicy", CellId(snapshot, at)) : at \in AllCells(snapshot)}

RenderedKeys(deck) ==
    {Query("HtmlTitle")} \cup {Keyed("HtmlSlide", slide.id) : slide \in ToSet(deck.slides)}

\* A deck that reads what its stages record, and whose fragments read what its
\* snapshot has, is closed.
LEMMA DeckClosed ==
    ASSUME NEW snapshot, SnapshotSound(snapshot), NEW mode, NEW deck,
           deck.reads \subseteq
               BaseKeys(snapshot)
               \cup (IF Query("SlideLayout") \in deck.reads THEN DisplayKeys(snapshot) ELSE {})
               \cup (IF Query("HtmlTitle") \in deck.reads THEN RenderedKeys(deck) ELSE {}),
           \A s \in DOMAIN deck.slides :
               /\ Query("SlideLayout") \in deck.reads
               /\ deck.slides[s].id \in ToSet(SlideIds(snapshot))
               /\ ReadsOk(deck.slides[s].id, DOMAIN Policies(snapshot),
                          DOMAIN References[snapshot.source], deck.slides[s].fragment.reads)
    PROVE  is_closed(DeckDependencies(snapshot, mode, deck))
<1>1. PICK document \in Documents : document = snapshot.source
    BY DEF SnapshotSound
<1>. DEFINE entered == Query("SlideLayout") \in deck.reads
            rendering == Query("HtmlTitle") \in deck.reads
            Title == {s \in DOMAIN snapshot.slides : IsTitle(snapshot.slides[s])}
            titleReads == {Query("SlideLayout")}
                          \cup (IF Title = {} THEN {Query("Source")}
                                ELSE {Keyed("Slide", snapshot.slides[Min(Title)].id)})
            named == [key \in {Keyed("Reference", label) : label \in DOMAIN References[document]} |->
                         {Query("ReferenceIndex")}
                         \cup {Keyed("SemanticBlock", NodeHandle(snapshot.templates[i])) :
                                  i \in IF Definitions(document, key[2]) = {} THEN {}
                                        ELSE {Min(Definitions(document, key[2]))}}]
            shown == [key \in {Keyed("HtmlSlide", slide.id) : slide \in ToSet(deck.slides)} |->
                         deck.slides[CHOOSE s \in DOMAIN deck.slides : deck.slides[s].id = key[2]]
                             .fragment.reads]
<1>2. PICK base, own, defaults, policies, title, index :
          /\ base = dependencies(snapshot)
          /\ own = Reading(Keyed("HtmlDeck", mode), deck.reads)
          /\ defaults = Reading(Query("DisplayDefaults"),
                                {Query("SlideLayout")} \cup MetadataReads(snapshot))
          /\ policies = CellQueries(snapshot, "CellPolicy", Query("DisplayDefaults"))
          /\ title = Reading(Query("HtmlTitle"), titleReads)
          /\ index = Reading(Query("ReferenceIndex"), {Query("SourceDocument")})
    OBVIOUS
<1>3. PICK parts : parts = {base, own}
                           \cup (IF entered THEN {defaults, policies} ELSE {})
                           \cup (IF rendering THEN {title} \cup {index, named} \cup {shown} ELSE {})
    OBVIOUS
<1>4. DeckDependencies(snapshot, mode, deck) = Recorded(parts)
    BY <1>1, <1>2, <1>3, ZenonT(40) DEF DeckDependencies
<1>5. PICK keys : keys = KeysOf(parts)
    OBVIOUS
<1>6. \A part \in parts : DOMAIN part \subseteq keys
    BY <1>5 DEF KeysOf
<1>7. /\ BaseKeys(snapshot) \subseteq keys /\ DOMAIN base \subseteq keys
      /\ entered => DisplayKeys(snapshot) \subseteq keys
      /\ rendering => /\ RenderedKeys(deck) \subseteq keys /\ Query("ReferenceIndex") \in keys
                      /\ \A label \in DOMAIN References[document] : Keyed("Reference", label) \in keys
    <2>1. DOMAIN base \subseteq keys
        BY <1>3, <1>6
    <2>2. BaseKeys(snapshot) \subseteq keys
        BY <1>2, <2>1, BaseClosed
    <2>3. ASSUME entered PROVE DisplayKeys(snapshot) \subseteq keys
        <3>1. DOMAIN defaults \subseteq keys /\ DOMAIN policies \subseteq keys
            BY <1>3, <1>6, <2>3
        <3>2. DOMAIN defaults = {Query("DisplayDefaults")}
            BY <1>2, ReadingIs
        <3>3. DOMAIN policies = {Keyed("CellPolicy", CellId(snapshot, at)) : at \in AllCells(snapshot)}
            BY <1>2, Zenon DEF CellQueries
        <3>. QED
            BY <3>1, <3>2, <3>3 DEF DisplayKeys
    <2>4. ASSUME rendering
          PROVE  /\ RenderedKeys(deck) \subseteq keys /\ Query("ReferenceIndex") \in keys
                 /\ \A label \in DOMAIN References[document] : Keyed("Reference", label) \in keys
        <3>1. /\ DOMAIN title = {Query("HtmlTitle")} /\ DOMAIN index = {Query("ReferenceIndex")}
              /\ DOMAIN named = {Keyed("Reference", label) : label \in DOMAIN References[document]}
              /\ DOMAIN shown = {Keyed("HtmlSlide", slide.id) : slide \in ToSet(deck.slides)}
            BY <1>2, ReadingIs
        <3>. HIDE DEF named, shown
        <3>2. {title, index, named, shown} \subseteq parts
            BY <1>3, <2>4
        <3>3. DOMAIN title \cup DOMAIN index \cup DOMAIN named \cup DOMAIN shown \subseteq keys
            BY <1>6, <3>2
        <3>. QED
            BY <3>1, <3>3 DEF RenderedKeys
    <2>. QED
        BY <2>1, <2>2, <2>3, <2>4
<1>8. PartReads(base, keys)
    BY <1>2, <1>7, BaseClosed DEF PartReads
<1>9. PartReads(own, keys)
    <2>1. deck.reads \subseteq keys
        BY <1>7
    <2>. QED
        BY <1>2, <2>1, ReadingReads
<1>10. ASSUME entered PROVE PartReads(defaults, keys) /\ PartReads(policies, keys)
    <2>1. {Query("SlideLayout")} \cup MetadataReads(snapshot) \subseteq keys
        BY <1>7, MetadataReadsAre DEF BaseKeys
    <2>2. Query("DisplayDefaults") \in keys
        BY <1>7, <1>10 DEF DisplayKeys
    <2>3. PartReads(defaults, keys)
        BY <1>2, <2>1, ReadingReads
    <2>4. PartReads(policies, keys)
        BY <1>2, <1>7, <2>2, CellQueriesAre
    <2>. QED
        BY <2>3, <2>4
<1>11. PartReads(title, keys)
    <2>1. PICK n \in Nat : DOMAIN snapshot.slides = 1..n
        BY DEF SnapshotSound, Usable
    <2>2. Title # {} => Min(Title) \in Title
        <3>1. Title \in SUBSET (Nat \ {0})
            BY <2>1
        <3>. HIDE DEF Title
        <3>. QED
            BY <3>1, MinIs
    <2>3. Title # {} => Keyed("Slide", snapshot.slides[Min(Title)].id) \in SlideKeys(snapshot)
        BY <2>2 DEF SlideKeys, SlideIds, ToSet
    <2>4. titleReads \subseteq BaseKeys(snapshot)
        <3>. HIDE DEF Title
        <3>. QED
            BY <2>3 DEF BaseKeys
    <2>5. titleReads \subseteq keys
        BY <1>7, <2>4
    <2>. HIDE DEF titleReads
    <2>. QED
        BY <1>2, <2>5, ReadingReads
<1>12. PartReads(index, keys)
    <2>1. {Query("SourceDocument")} \subseteq keys
        BY <1>7 DEF BaseKeys
    <2>. QED
        BY <1>2, <2>1, ReadingReads
<1>13. ASSUME rendering PROVE PartReads(named, keys)
    <2>1. ASSUME NEW label
          PROVE  \A i \in IF Definitions(document, label) = {} THEN {} ELSE {Min(Definitions(document, label))} :
                     Keyed("SemanticBlock", NodeHandle(snapshot.templates[i])) \in keys
        <3>1. Definitions(document, label) \in SUBSET (Nat \ {0})
            BY DocumentIs DEF Definitions
        <3>2. Definitions(document, label) # {} => Min(Definitions(document, label)) \in Blocks(document)
            <4>1. PICK found : found = Definitions(document, label)
                OBVIOUS
            <4>2. found \subseteq Blocks(document) /\ found \in SUBSET (Nat \ {0})
                BY <3>1, <4>1 DEF Definitions
            <4>3. found # {} => Min(found) \in found
                BY <4>2, MinIs
            <4>. QED
                BY <4>1, <4>2, <4>3
        <3>. QED
            BY <1>1, <1>7, <3>2, NodeKeysHave DEF BaseKeys
    <2>2. \A key \in DOMAIN named : named[key] \subseteq keys
        BY <1>7, <1>13, <2>1
    <2>. QED
        BY <2>2 DEF PartReads
<1>14. ASSUME rendering PROVE PartReads(shown, keys)
    <2>1. ASSUME NEW key \in DOMAIN shown, NEW read \in shown[key]
          PROVE  read \in keys
        <3>1. PICK r \in DOMAIN deck.slides : key = Keyed("HtmlSlide", deck.slides[r].id)
            BY DEF ToSet
        <3>2. PICK s : s = CHOOSE t \in DOMAIN deck.slides : deck.slides[t].id = key[2]
            OBVIOUS
        <3>3. key[2] = deck.slides[r].id
            BY <3>1 DEF Keyed
        <3>4. s \in DOMAIN deck.slides /\ deck.slides[s].id = key[2]
            BY <3>2, <3>3
        <3>5. read \in deck.slides[s].fragment.reads
            BY <2>1, <3>2
        <3>6. /\ entered /\ deck.slides[s].id \in ToSet(SlideIds(snapshot))
              /\ ReadsOk(deck.slides[s].id, DOMAIN Policies(snapshot),
                         DOMAIN References[document], deck.slides[s].fragment.reads)
            BY <1>1, <3>4
        <3>7. Keyed("Slide", deck.slides[s].id) \in keys
            BY <1>7, <3>6 DEF BaseKeys, SlideKeys
        <3>8. \A p \in DOMAIN Policies(snapshot) : Keyed("CellPolicy", p) \in keys
            BY <1>7, <3>6 DEF Policies, DisplayKeys
        <3>. QED
            BY <1>7, <1>14, <3>5, <3>6, <3>7, <3>8 DEF ReadsOk
    <2>. QED
        BY <2>1 DEF PartReads
<1>. HIDE DEF titleReads, named, shown
<1>15. \A part \in parts : PartReads(part, keys)
    BY <1>3, <1>8, <1>9, <1>10, <1>11, <1>12, <1>13, <1>14
<1>16. DOMAIN Recorded(parts) = keys /\ PartReads(Recorded(parts), keys)
    BY <1>5, <1>15, RecordedIs
<1>. QED
    BY <1>4, <1>16 DEF is_closed, Range, PartReads

-----------------------------------------------------------------------------
(***************************************************************************)
(* Decks prepared so far.                                                  *)
(***************************************************************************)
\* A deck was prepared from its snapshot with a sound cache.
DeckSound(snapshot, mode, deck) ==
    \E cache : CacheSound(cache) /\ deck = compile_deck(snapshot, mode, cache).deck

Decks ==
    /\ CacheSound(fragments)
    /\ html \in Seq(Range(html)) /\ DOMAIN html = DOMAIN snapshots
    /\ \A s \in DOMAIN snapshots : DOMAIN html[s] = Modes
    /\ \A s \in DOMAIN snapshots : \A mode \in Modes :
          html[s][mode] = NoDeck \/ DeckSound(snapshots[s], mode, html[s][mode])

\* Compiling a deck keeps the cache sound.
LEMMA CacheAfter ==
    ASSUME NEW snapshot, SnapshotSound(snapshot), NEW mode, NEW cache, CacheSound(cache),
           NEW made, made = compile_deck(snapshot, mode, cache)
    PROVE  CacheSound(made.cache)
<1>1. \/ made.cache = cache
      \/ made.cache = RenderSlides(snapshot, Policies(snapshot), References[snapshot.source], cache).cache
    <2>1. DeckCases(snapshot, mode, cache, made)
        BY DeckIs
    <2>. QED
        BY <2>1 DEF DeckCases
<1>. QED
    BY <1>1, RenderedIs DEF DrawnOk

\* Nothing is cached at the start, and the first snapshot has no deck.
LEMMA DecksInit == Init => Decks
<1>. SUFFICES ASSUME Init PROVE Decks
    OBVIOUS
<1>1. \E first : snapshots = <<first>>
    BY DEF Init, CompilerInit
<1>2. html = <<Unrendered>> /\ fragments = <<>>
    BY DEF Init
<1>3. PICK blank : blank = Unrendered /\ html = <<blank>>
    BY <1>2
<1>4. /\ <<blank>> \in Seq(Range(<<blank>>)) /\ DOMAIN <<blank>> = 1..1 /\ <<blank>>[1] = blank
      /\ \A first : DOMAIN <<first>> = 1..1
    BY DEF Range
<1>5. DOMAIN blank = Modes /\ \A mode \in Modes : blank[mode] = NoDeck
    BY <1>3 DEF Unrendered
<1>6. DOMAIN <<>> = {} /\ 1..1 = {1}
    OBVIOUS
<1>. QED
    BY <1>1, <1>2, <1>3, <1>4, <1>5, <1>6 DEF Decks, CacheSound

\* Every step keeps the cache and the decks sound.
LEMMA DecksNext == Lineage /\ Decks /\ [Next]_vars => Decks'
<1>. SUFFICES ASSUME Lineage, Decks, [Next]_vars PROVE Decks'
    OBVIOUS
<1>1. CASE UNCHANGED vars
    BY <1>1 DEF vars, Decks, Range
<1>2. ASSUME NEW document \in Documents, Update(document)
      PROVE  Decks'
    <2>1. PICK n \in Nat : Len(snapshots) = n /\ DOMAIN snapshots = 1..n
        BY DEF Lineage, Snapshots
    <2>2. PICK next : snapshots' = Append(snapshots, next)
        BY <1>2 DEF Update, update_source_with_changes
    <2>3. html' = Append(html, Unrendered)
        BY <1>2 DEF Update
    <2>4. html \in Seq(Range(html)) /\ Len(html) = n /\ DOMAIN html = 1..n
        BY <2>1 DEF Decks
    <2>5. /\ DOMAIN snapshots' = 1..(n + 1)
          /\ \A i \in 1..n : snapshots'[i] = snapshots[i]
        BY <2>1, <2>2, AppendIs DEF Lineage, Snapshots
    <2>6. /\ html' \in Seq(Range(html')) /\ DOMAIN html' = 1..(n + 1)
          /\ html'[n + 1] = Unrendered
          /\ \A i \in 1..n : html'[i] = html[i]
        BY <2>3, <2>4, AppendIs
    <2>7. ASSUME NEW s \in 1..(n + 1)
          PROVE  /\ DOMAIN html'[s] = Modes
                 /\ \A mode \in Modes :
                       html'[s][mode] = NoDeck \/ DeckSound(snapshots'[s], mode, html'[s][mode])
        <3>1. CASE s = n + 1
            BY <2>6, <3>1 DEF Unrendered
        <3>2. CASE s # n + 1
            <4>1. s \in 1..n
                BY <3>2
            <4>2. html'[s] = html[s] /\ snapshots'[s] = snapshots[s]
                BY <2>5, <2>6, <4>1
            <4>. QED
                BY <2>1, <4>1, <4>2 DEF Decks
        <3>. QED
            BY <3>1, <3>2
    <2>8. CacheSound(fragments')
        <3>1. PICK S : fragments' = Restrict(fragments, DOMAIN fragments \cap S)
            BY <1>2 DEF Update
        <3>. QED
            BY <3>1 DEF Restrict, CacheSound, Decks
    <2>. QED
        BY <2>5, <2>6, <2>7, <2>8 DEF Decks
<1>3. ASSUME NEW s \in DOMAIN snapshots, NEW mode \in Modes, prepare(s, mode)
      PROVE  Decks'
    <2>1. PICK made : /\ made = compile_deck(snapshots[s], mode, fragments)
                      /\ html' = [html EXCEPT ![s][mode] = made.deck]
                      /\ fragments' = made.cache /\ snapshots' = snapshots
        BY <1>3 DEF prepare
    <2>2. PICK n \in Nat : DOMAIN snapshots = 1..n /\ DOMAIN html = 1..n
        BY DEF Lineage, Snapshots, Decks
    <2>3. SnapshotSound(snapshots[s])
        BY DEF Lineage
    <2>4. CacheSound(fragments')
        BY <2>1, <2>3, CacheAfter DEF Decks
    <2>5. DeckSound(snapshots[s], mode, made.deck)
        BY <2>1 DEF DeckSound, Decks
    <2>6. DOMAIN html' = 1..n /\ html' \in Seq(Range(html'))
        <3>1. DOMAIN html' = 1..n
            BY <2>1, <2>2
        <3>2. html' = [i \in 1..n |-> html'[i]]
            BY <2>1, <2>2
        <3>3. \A i \in 1..n : html'[i] \in Range(html')
            BY <3>1 DEF Range
        <3>. QED
            BY <3>1, <3>2, <3>3
    <2>7. ASSUME NEW r \in 1..n
          PROVE  /\ DOMAIN html'[r] = Modes
                 /\ \A m \in Modes :
                       html'[r][m] = html[r][m] \/ (r = s /\ m = mode /\ html'[r][m] = made.deck)
        BY <2>1, <2>2 DEF Decks
    <2>8. \A r \in 1..n : \A m \in Modes :
              html'[r][m] = NoDeck \/ DeckSound(snapshots'[r], m, html'[r][m])
        BY <2>1, <2>2, <2>5, <2>7 DEF Decks
    <2>. QED
        BY <2>1, <2>2, <2>4, <2>6, <2>7, <2>8 DEF Decks
<1>. QED
    BY <1>1, <1>2, <1>3 DEF Next

\* Every read recorded by a deck or one of its fragments is of a query that its
\* compilation recorded.
THEOREM QueriesClosed == Spec => []QueriesAreClosed
<1>1. ASSUME NEW snapshot, SnapshotSound(snapshot), NEW mode, NEW deck, DeckSound(snapshot, mode, deck)
      PROVE  is_closed(DeckDependencies(snapshot, mode, deck))
    <2>1. PICK cache, made : CacheSound(cache) /\ made = compile_deck(snapshot, mode, cache) /\ made.deck = deck
        BY <1>1 DEF DeckSound
    <2>2. /\ Query("Inspection") \in BaseKeys(snapshot) /\ Query("SlideLayout") \in BaseKeys(snapshot)
          /\ Query("SlideLayout") \in PolicyReads(snapshot)
          /\ PolicyReads(snapshot) \subseteq BaseKeys(snapshot) \cup DisplayKeys(snapshot)
        BY DEF BaseKeys, PolicyReads, DisplayKeys
    <2>3. CASE \E diagnostics : deck = Refused(diagnostics, {Query("Inspection")})
        <3>1. deck.reads = {Query("Inspection")} /\ deck.slides = <<>>
            BY <2>3, RefusedIs
        <3>2. DOMAIN deck.slides = {}
            BY <3>1
        <3>. QED
            BY <1>1, <2>2, <3>1, <3>2, DeckClosed
    <2>4. ASSUME NEW diagnostics, NEW reads, deck = Refused(diagnostics, PolicyReads(snapshot) \cup reads),
                 reads \subseteq BaseKeys(snapshot)
          PROVE  is_closed(DeckDependencies(snapshot, mode, deck))
        <3>1. deck.reads = PolicyReads(snapshot) \cup reads /\ deck.slides = <<>>
            BY <2>4, RefusedIs
        <3>2. DOMAIN deck.slides = {} /\ Query("SlideLayout") \in deck.reads
            BY <2>2, <3>1
        <3>3. deck.reads \subseteq BaseKeys(snapshot) \cup DisplayKeys(snapshot)
            BY <2>2, <2>4, <3>1
        <3>. QED
            BY <1>1, <3>2, <3>3, DeckClosed
    <2>5. CASE \E diagnostics : deck = Refused(diagnostics, PolicyReads(snapshot))
        <3>1. PICK reads : reads = {} /\ PolicyReads(snapshot) = PolicyReads(snapshot) \cup reads
            <4>1. PolicyReads(snapshot) = PolicyReads(snapshot) \cup {}
                OBVIOUS
            <4>. QED
                BY <4>1
        <3>2. PICK diagnostics : deck = Refused(diagnostics, PolicyReads(snapshot) \cup reads)
            BY <2>5, <3>1
        <3>. QED
            BY <2>4, <3>1, <3>2
    <2>6. CASE \E diagnostics :
                   deck = Refused(diagnostics,
                                  PolicyReads(snapshot) \cup {Keyed("SemanticBlock", CellNode(snapshot, at)) :
                                                                 at \in EnabledCells(snapshot)})
        <3>1. {Keyed("SemanticBlock", CellNode(snapshot, at)) : at \in EnabledCells(snapshot)}
                  \subseteq BaseKeys(snapshot)
            BY <1>1, NodeKeysHave DEF EnabledCells, BaseKeys
        <3>. QED
            BY <2>4, <2>6, <3>1
    <2>7. ASSUME NEW rendered,
                 rendered = RenderSlides(snapshot, Policies(snapshot), References[snapshot.source], cache),
                 deck.slides = rendered.slides,
                 deck.reads = PolicyReads(snapshot) \cup {Query("HtmlTitle")}
                     \cup {Keyed("HtmlSlide", slide.id) : slide \in ToSet(rendered.slides)}
          PROVE  is_closed(DeckDependencies(snapshot, mode, deck))
        <3>1. DrawnOk(snapshot, Policies(snapshot), References[snapshot.source], rendered)
            BY <1>1, <2>1, <2>7, RenderedIs
        <3>2. \A s \in DOMAIN deck.slides :
                  /\ deck.slides[s].id \in ToSet(SlideIds(snapshot))
                  /\ ReadsOk(deck.slides[s].id, DOMAIN Policies(snapshot),
                             DOMAIN References[snapshot.source], deck.slides[s].fragment.reads)
            BY <2>7, <3>1 DEF DrawnOk
        <3>3. /\ Query("SlideLayout") \in deck.reads /\ Query("HtmlTitle") \in deck.reads
              /\ deck.reads \subseteq BaseKeys(snapshot) \cup DisplayKeys(snapshot) \cup RenderedKeys(deck)
            BY <2>2, <2>7 DEF RenderedKeys
        <3>. QED
            BY <1>1, <3>2, <3>3, DeckClosed
    <2>8. DeckCases(snapshot, mode, cache, made)
        BY <2>1, DeckIs
    <2>. QED
        BY <2>1, <2>3, <2>5, <2>6, <2>7, <2>8 DEF DeckCases
<1>2. Lineage /\ Decks => QueriesAreClosed
    BY <1>1 DEF QueriesAreClosed, Lineage, Decks
<1>. QED
    BY <1>2, LineageInit, LineageNext, DecksInit, DecksNext, PTL DEF Spec

\* A deck waits for exactly the cells that the plan computes.
THEOREM DecksAwaitThePlan == Spec => []PassesAgreeOnEnabledCells
<1>1. ASSUME NEW snapshot, SnapshotSound(snapshot), NEW mode, NEW deck, DeckSound(snapshot, mode, deck),
             PlanErrors(snapshot.source) = {}, DisplayErrors[snapshot.source] = {}
      PROVE  /\ {d[2] : d \in deck.diagnostics} = {cell.cell_id : cell \in Range(plan(snapshot))}
             /\ deck.status = "refused" <=> plan(snapshot) # <<>>
    <2>1. PICK cache, made : made = compile_deck(snapshot, mode, cache) /\ made.deck = deck
        BY <1>1 DEF DeckSound
    <2>2. inspection[snapshot.source] = {}
        BY <1>1 DEF PlanErrors
    <2>3. EnabledCells(snapshot) =
              {at \in AllCells(snapshot) : EvaluationOptions[snapshot.source][at].eval}
        BY <1>1, PassesAgree DEF EnabledCells, AllCells, SnapshotSound
    <2>4. /\ {cell.cell_id : cell \in Range(plan(snapshot))} =
                 {CellId(snapshot, at) : at \in EnabledCells(snapshot)}
          /\ plan(snapshot) # <<>> <=> EnabledCells(snapshot) # {}
        BY <1>1, <2>3, PlanIs
    <2>5. DeckCases(snapshot, mode, cache, made)
        BY <2>1, DeckIs
    <2>6. CASE EnabledCells(snapshot) = {}
        <3>1. deck.status \in {"compiled", "failed"} /\ deck.diagnostics = {}
            BY <1>1, <2>1, <2>2, <2>6, <2>5 DEF DeckCases, StatusOf
        <3>. QED
            BY <2>4, <2>6, <3>1
    <2>7. CASE EnabledCells(snapshot) # {}
        <3>1. deck.status = "refused" /\ deck.diagnostics = Unavailable(snapshot, mode)
            BY <1>1, <2>1, <2>2, <2>7, <2>5, RefusedIs DEF DeckCases
        <3>2. {d[2] : d \in Unavailable(snapshot, mode)} =
                  {CellId(snapshot, at) : at \in EnabledCells(snapshot)}
            <4>1. PICK code : code = IF mode THEN "result-unavailable" ELSE "execution-unavailable"
                OBVIOUS
            <4>2. Unavailable(snapshot, mode) = {<<code, CellId(snapshot, at)>> : at \in EnabledCells(snapshot)}
                BY <4>1, Zenon DEF Unavailable, EnabledCells
            <4>3. \A id : <<code, id>>[2] = id
                OBVIOUS
            <4>4. ASSUME NEW d \in Unavailable(snapshot, mode)
                  PROVE  \E at \in EnabledCells(snapshot) : d[2] = CellId(snapshot, at)
                BY <4>2, <4>3
            <4>5. ASSUME NEW at \in EnabledCells(snapshot)
                  PROVE  \E d \in Unavailable(snapshot, mode) : d[2] = CellId(snapshot, at)
                <5>1. <<code, CellId(snapshot, at)>> \in Unavailable(snapshot, mode)
                    BY <4>2
                <5>. QED
                    BY <4>3, <5>1
            <4>. QED
                BY <4>4, <4>5
        <3>. QED
            BY <2>4, <2>7, <3>1, <3>2
    <2>. QED
        BY <2>6, <2>7
<1>2. Lineage /\ Decks => PassesAgreeOnEnabledCells
    BY <1>1 DEF PassesAgreeOnEnabledCells, Lineage, Decks
<1>. QED
    BY <1>2, LineageInit, LineageNext, DecksInit, DecksNext, PTL DEF Spec

-----------------------------------------------------------------------------
(***************************************************************************)
(* Origins.                                                                *)
(***************************************************************************)
StartStep(a, b, c, d, e, starts, text) == Append(starts, Last(starts) + Content[text].size)

\* Every block so far starts where those before it have ended.
StartInvariant(a, b, c, d, e, texts, n, starts) ==
    /\ starts \in Seq(Nat) /\ Len(starts) = n + 1
    /\ \A i \in 1..n : \A j \in (i + 1)..(n + 1) : starts[i] + Content[texts[i]].size <= starts[j]

Starting == INSTANCE SequenceFolds WITH Step <- StartStep, Invariant <- StartInvariant

\* A block has more parts than links, so that the origins of its links lie inside it.
LEMMA SizesAre ==
    ASSUME NEW text \in Texts, NEW block, block = Content[text]
    PROVE  /\ block.size \in Nat \ {0} /\ block.links \in Seq(Range(block.links))
           /\ DOMAIN block.links = 1..Len(block.links) /\ Len(block.links) \in Nat
           /\ \A k \in DOMAIN block.links : k \in Nat /\ 0 < k /\ k + 1 <= block.size
<1>1. block \in LoweredBlocks /\ block.size > Len(block.links)
    BY DocumentAssumption
<1>2. \A L : \A B \in [kind : {"heading", "body", "quiet", "cell", "container"},
             size : Nat,
             label : {None} \cup STRING,
             cells : Seq([text : STRING, language : STRING, options : CellOptions]),
             links : L,
             defines : {None} \cup [label : STRING, destination : STRING],
             execute : Seq(CellOptions),
             unsupported : BOOLEAN] : B.size \in Nat /\ B.links \in L
    OBVIOUS
<1>3. block.size \in Nat
    BY <1>1, <1>2 DEF LoweredBlocks
<1>4. PICK links : links = block.links /\ links \in Seq([reference : {None} \cup STRING, destination : {None} \cup STRING])
    BY TextIs
<1>5. links \in Seq(Range(links)) /\ DOMAIN links = 1..Len(links) /\ Len(links) \in Nat
    BY <1>4 DEF Range
<1>. QED
    BY <1>1, <1>3, <1>4, <1>5

\* The blocks of a document follow one another.
LEMMA StartsRise ==
    ASSUME NEW document \in Documents
    PROVE  /\ \A i \in Blocks(document) : Starts[document][i] \in Nat
           /\ \A i, j \in Blocks(document) :
                 i < j => Starts[document][i] + Block(document, i).size <= Starts[document][j]
<1>1. PICK n, texts : /\ n \in Nat /\ texts = Input[document].blocks /\ texts \in Seq(Texts)
                      /\ DOMAIN texts = 1..n /\ Blocks(document) = 1..n
    BY DocumentIs DEF Blocks
<1>2. Starts[document] = Starting!Fold({}, {}, {}, {}, {}, <<0>>, texts)
    <2>1. Starts[document] = Starting!Fold({}, {}, {}, {}, {}, <<0>>, Input[document].blocks)
        BY Zenon DEF Starts, FoldLeft, MapThenFoldSet, Max, Starting!Fold, Starting!IsFold,
                     Starting!Greatest, StartStep
    <2>. QED
        BY <1>1, <2>1
<1>3. StartInvariant({}, {}, {}, {}, {}, texts, 0, <<0>>)
    BY DEF StartInvariant
<1>4. ASSUME NEW m \in 1..n, NEW starts, StartInvariant({}, {}, {}, {}, {}, texts, m - 1, starts)
      PROVE  StartInvariant({}, {}, {}, {}, {}, texts, m, StartStep({}, {}, {}, {}, {}, starts, texts[m]))
    <2>1. PICK size \in Nat : size = Content[texts[m]].size
        BY <1>1, SizesAre
    <2>2. /\ starts \in Seq(Nat) /\ Len(starts) = m
          /\ \A i \in 1..(m - 1) : \A j \in (i + 1)..m : starts[i] + Content[texts[i]].size <= starts[j]
        BY <1>4 DEF StartInvariant
    <2>3. PICK last \in Nat : last = starts[m] /\ Last(starts) = last
        BY <2>2 DEF Last
    <2>4. PICK more : more = Append(starts, last + size)
        OBVIOUS
    <2>5. /\ more \in Seq(Nat) /\ Len(more) = m + 1 /\ more[m + 1] = last + size
          /\ \A i \in 1..m : more[i] = starts[i]
        BY <2>2, <2>4
    <2>6. ASSUME NEW i \in 1..m, NEW j \in (i + 1)..(m + 1)
          PROVE  more[i] + Content[texts[i]].size <= more[j]
        <3>1. CASE j # m + 1
            BY <2>2, <2>5, <3>1
        <3>2. CASE j = m + 1 /\ i = m
            BY <2>1, <2>3, <2>5, <3>2
        <3>3. CASE j = m + 1 /\ i # m
            <4>1. i \in 1..(m - 1) /\ m \in (i + 1)..m
                BY <3>3
            <4>2. starts[i] + Content[texts[i]].size <= last
                BY <2>2, <2>3, <4>1
            <4>3. Content[texts[i]].size \in Nat /\ starts[i] \in Nat
                BY <1>1, <2>2, SizesAre
            <4>. QED
                BY <2>5, <3>3, <4>2, <4>3
        <3>. QED
            BY <3>1, <3>2, <3>3
    <2>7. StartInvariant({}, {}, {}, {}, {}, texts, m, more)
        BY <2>5, <2>6 DEF StartInvariant
    <2>. QED
        BY <2>1, <2>3, <2>4, <2>7 DEF StartStep
<1>5. StartInvariant({}, {}, {}, {}, {}, texts, n, Starts[document])
    BY <1>1, <1>2, <1>3, <1>4, Starting!FoldInvariant
<1>6. PICK starts : starts = Starts[document]
    OBVIOUS
<1>7. /\ starts \in Seq(Nat) /\ Len(starts) = n + 1
      /\ \A i \in 1..n : \A j \in (i + 1)..(n + 1) : starts[i] + Content[texts[i]].size <= starts[j]
    BY <1>5, <1>6 DEF StartInvariant
<1>8. ASSUME NEW i \in 1..n, NEW j \in 1..n, i < j
      PROVE  starts[i] + Content[texts[i]].size <= starts[j]
    <2>1. j \in (i + 1)..(n + 1)
        BY <1>1, <1>8
    <2>. QED
        BY <1>7, <2>1
<1>9. \A i \in 1..n : starts[i] \in Nat
    BY <1>1, <1>7
<1>. QED
    BY <1>1, <1>6, <1>8, <1>9 DEF Block

\* The blocks of a slide are blocks of its document, in their order.
LEMMA SlideBlocks ==
    ASSUME NEW snapshot, SnapshotSound(snapshot), NEW s \in DOMAIN snapshot.slides,
           NEW slide, slide = snapshot.slides[s]
    PROVE  /\ slide.blocks \in Seq(Blocks(snapshot.source))
           /\ DOMAIN slide.blocks = 1..Len(slide.blocks) /\ Len(slide.blocks) \in Nat
           /\ \A b \in DOMAIN slide.blocks : slide.blocks[b] \in Blocks(snapshot.source)
           /\ \A b, c \in DOMAIN slide.blocks : b < c => slide.blocks[b] < slide.blocks[c]
           /\ IsTitle(slide) <=> slide.blocks = <<>>
<1>1. PICK document \in Documents : document = snapshot.source
    BY DEF SnapshotSound
<1>2. PICK laid \in Layouts(document) : laid = build_presentation[document][s]
    BY <1>1, PresentationIs DEF SnapshotSound
<1>3. slide.title = laid.title /\ slide.blocks = laid.blocks
    BY <1>1, <1>2 DEF SnapshotSound
<1>4. /\ laid.blocks \in Seq(Blocks(document))
      /\ \A b, c \in DOMAIN laid.blocks : b < c => laid.blocks[b] < laid.blocks[c]
      /\ IsTitle(laid) <=> laid.blocks = <<>>
    BY <1>2 DEF Layouts
<1>5. PICK blocks : blocks = slide.blocks /\ blocks \in Seq(Blocks(document))
    BY <1>3, <1>4
<1>6. /\ DOMAIN blocks = 1..Len(blocks) /\ Len(blocks) \in Nat
      /\ \A b \in DOMAIN blocks : blocks[b] \in Blocks(document)
    BY <1>5
<1>. QED
    BY <1>1, <1>3, <1>4, <1>5, <1>6 DEF IsTitle

\* A block of a document ends after it starts.
LEMMA StartIs ==
    ASSUME NEW document \in Documents, NEW i \in Blocks(document)
    PROVE  Starts[document][i] \in Nat /\ Block(document, i).size \in Nat \ {0}
BY StartsRise, BlockIs, SizesAre

\* A place within a block is within no other block of the slide.
LEMMA Containing ==
    ASSUME NEW document \in Documents, NEW blocks, NEW n \in Nat, DOMAIN blocks = 1..n,
           \A b \in DOMAIN blocks : blocks[b] \in Blocks(document),
           \A b, c \in DOMAIN blocks : b < c => blocks[b] < blocks[c],
           NEW b \in DOMAIN blocks, NEW from \in Int, NEW to \in Int, from < to,
           Starts[document][blocks[b]] <= from,
           to <= Starts[document][blocks[b]] + Block(document, blocks[b]).size,
           NEW c \in DOMAIN blocks,
           Starts[document][blocks[c]] <= from,
           to <= Starts[document][blocks[c]] + Block(document, blocks[c]).size
    PROVE  c = b
<1>1. PICK i, j \in Blocks(document) : i = blocks[b] /\ j = blocks[c]
    OBVIOUS
<1>2. PICK start, size \in Nat : start = Starts[document][i] /\ size = Block(document, i).size
    BY StartIs
<1>3. PICK begin, length \in Nat : begin = Starts[document][j] /\ length = Block(document, j).size
    BY StartIs
<1>6. start <= from /\ to <= start + size /\ begin <= from /\ to <= begin + length
    BY <1>1, <1>2, <1>3
<1>4. CASE b < c
    <2>1. i < j
        BY <1>1, <1>4
    <2>2. start + size <= begin
        BY <1>2, <1>3, <2>1, StartsRise
    <2>. QED
        BY <1>6, <2>2
<1>5. CASE c < b
    <2>1. j < i
        BY <1>1, <1>5
    <2>2. begin + length <= start
        BY <1>2, <1>3, <2>1, StartsRise
    <2>. QED
        BY <1>6, <2>2
<1>. QED
    BY <1>4, <1>5

\* A range within the b-th block of a slide; that it moves to another slide.
Within(old, was, b, at, size) ==
    at \in Nat /\ size \in Nat \ {0} /\ at + size <= Block(old.source, was.blocks[b]).size

MovesTo(old, was, new, slide, b, at, size) ==
    Rebind(Origin(old, Starts[old.source][was.blocks[b]] + at, size),
           slide_origins(old, was), slide_origins(new, slide))
        = Origin(new, Starts[new.source][slide.blocks[b]] + at, size)

\* A place in the b-th block of a slide moves to the b-th block of another.
LEMMA RebindIs ==
    ASSUME NEW old, SnapshotSound(old), NEW o \in DOMAIN old.slides, NEW was, was = old.slides[o],
           NEW new, SnapshotSound(new), NEW s \in DOMAIN new.slides, NEW slide, slide = new.slides[s],
           DOMAIN was.blocks = DOMAIN slide.blocks, NEW b \in DOMAIN was.blocks,
           NEW at, NEW size, Within(old, was, b, at, size)
    PROVE  MovesTo(old, was, new, slide, b, at, size)
<1>17. /\ at \in Nat /\ size \in Nat \ {0}
       /\ at + size <= Block(old.source, was.blocks[b]).size
    BY DEF Within
<1>1. PICK document \in Documents : document = old.source
    BY DEF SnapshotSound
<1>2. PICK blocks, n : /\ blocks = was.blocks /\ n \in Nat /\ DOMAIN blocks = 1..n
                       /\ \A c \in DOMAIN blocks : blocks[c] \in Blocks(document)
                       /\ \A c, d \in DOMAIN blocks : c < d => blocks[c] < blocks[d]
    BY <1>1, SlideBlocks
<1>3. ~ IsTitle(was) /\ ~ IsTitle(slide)
    <2>1. DOMAIN <<>> = {}
        OBVIOUS
    <2>. QED
        BY <2>1, SlideBlocks
<1>4. PICK start, length \in Nat : /\ start = Starts[document][blocks[b]]
                                  /\ length = Block(document, blocks[b]).size
    BY <1>2, StartIs
<1>5. PICK later \in Nat : later = Starts[new.source][slide.blocks[b]]
    <2>1. PICK i \in Blocks(new.source) : i = slide.blocks[b]
        BY SlideBlocks
    <2>2. new.source \in Documents
        BY DEF SnapshotSound
    <2>. QED
        BY <2>1, <2>2, StartIs
<1>6. PICK from, to : from = slide_origins(old, was) /\ to = slide_origins(new, slide)
    OBVIOUS
<1>7. /\ DOMAIN from = DOMAIN blocks
      /\ \A c \in DOMAIN blocks :
            /\ from[c].start = Starts[document][blocks[c]]
            /\ from[c].end = Starts[document][blocks[c]] + Block(document, blocks[c]).size
      /\ to[b].file = new.revision /\ to[b].start = later
    BY <1>1, <1>2, <1>3, <1>5, <1>6 DEF slide_origins, BlockOrigin, Origin
<1>8. PICK begin, end \in Nat : begin = start + at /\ end = begin + size /\ begin < end
    BY <1>4, <1>17
<1>9. end <= start + length
    <2>1. at + size <= length
        BY <1>1, <1>2, <1>4, <1>17
    <2>. QED
        BY <1>8, <1>17, <2>1
<1>14. /\ from[b].start = start /\ from[b].end = start + length
       /\ b \in DOMAIN blocks
    BY <1>2, <1>4, <1>7
<1>10. {c \in DOMAIN from : from[c].start <= begin /\ end <= from[c].end} = {b}
    <2>1. ASSUME NEW c \in DOMAIN blocks, from[c].start <= begin, end <= from[c].end
          PROVE  c = b
        <3>1. /\ Starts[document][blocks[c]] <= begin
              /\ end <= Starts[document][blocks[c]] + Block(document, blocks[c]).size
            BY <1>7, <2>1
        <3>2. /\ Starts[document][blocks[b]] <= begin
              /\ end <= Starts[document][blocks[b]] + Block(document, blocks[b]).size
            BY <1>4, <1>8, <1>9, <1>17
        <3>3. begin \in Int /\ end \in Int /\ begin < end
            BY <1>8
        <3>. QED
            BY <1>2, <1>14, <3>1, <3>2, <3>3, Containing
    <2>2. from[b].start <= begin /\ end <= from[b].end
        BY <1>8, <1>9, <1>14, <1>17
    <2>. QED
        BY <1>7, <1>14, <2>1, <2>2
<1>11. Min({b}) = b
    <2>1. {b} \in SUBSET Nat /\ {b} # {}
        BY <1>2
    <2>. QED
        BY <2>1, MinIs
<1>12. PICK origin : origin = Origin(old, begin, size)
    OBVIOUS
<1>13. origin.start = begin /\ origin.end = end
    BY <1>8, <1>12, <1>17 DEF Origin
<1>15. Rebind(origin, from, to) = [file |-> to[b].file, start |-> begin + to[b].start - from[b].start,
                                   end |-> end + to[b].start - from[b].start]
    BY <1>10, <1>11, <1>13 DEF Rebind
<1>16. Rebind(origin, from, to) = [file |-> new.revision, start |-> later + at, end |-> (later + at) + size]
    <2>1. begin + later - start = later + at /\ end + later - start = (later + at) + size
        BY <1>4, <1>8, <1>17
    <2>. QED
        BY <1>7, <1>14, <1>15, <2>1
<1>. QED
    BY <1>1, <1>2, <1>4, <1>5, <1>6, <1>8, <1>12, <1>16 DEF Origin, MovesTo

-----------------------------------------------------------------------------
(***************************************************************************)
(* What rendering a slide finds.                                           *)
(***************************************************************************)
LinksAt(document, blocks, b) == Block(document, blocks[b]).links

\* The destinations that the links of the b-th block may ask for.
FoundAt(document, blocks, references, b) ==
    {[path |-> Destination(LinksAt(document, blocks, b)[k], references), at |-> <<b, k>>] :
        k \in DOMAIN LinksAt(document, blocks, b)}

NeededBy(document, blocks, references) ==
    Resources(FlattenSeq([b \in DOMAIN blocks |->
        Resolve(LinksAt(document, blocks, b), b, references)]))

CollectStep(a, b, c, d, e, resources, link) ==
    IF \E r \in ToSet(resources) : r.path = link.path THEN resources
    ELSE Append(resources, link)

CollectInvariant(S, b, c, d, e, found, n, resources) == resources \in Seq(S)

Collecting == INSTANCE SequenceFolds WITH Step <- CollectStep, Invariant <- CollectInvariant

\* The resources found keep their type once duplicates are dropped.
LEMMA ResourcesAre ==
    ASSUME NEW S, NEW found \in Seq(S)
    PROVE  Resources(found) \in Seq(S)
<1>1. PICK n \in Nat : DOMAIN found = 1..n
    OBVIOUS
<1>2. Resources(found) = Collecting!Fold(S, {}, {}, {}, {}, <<>>, found)
    BY Zenon DEF Resources, FoldLeft, MapThenFoldSet, Max, Collecting!Fold, Collecting!IsFold,
                 Collecting!Greatest, CollectStep
<1>3. CollectInvariant(S, {}, {}, {}, {}, found, 0, <<>>)
    BY DEF CollectInvariant
<1>4. ASSUME NEW i \in 1..n, NEW made, CollectInvariant(S, {}, {}, {}, {}, found, i - 1, made)
      PROVE  CollectInvariant(S, {}, {}, {}, {}, found, i, CollectStep(S, {}, {}, {}, {}, made, found[i]))
    <2>1. made \in Seq(S) /\ found[i] \in S
        BY <1>1, <1>4 DEF CollectInvariant
    <2>2. Append(made, found[i]) \in Seq(S)
        BY <2>1
    <2>. QED
        BY <2>1, <2>2 DEF CollectInvariant, CollectStep
<1>5. CollectInvariant(S, {}, {}, {}, {}, found, n, Collecting!Fold(S, {}, {}, {}, {}, <<>>, found))
    BY <1>1, <1>3, <1>4, Collecting!FoldInvariant
<1>. QED
    BY <1>2, <1>5 DEF CollectInvariant

\* The links of a block that ask for local files.
LEMMA ResolveIs ==
    ASSUME NEW S, NEW links, links \in Seq(S), NEW b, NEW references, NEW T,
           \A k \in DOMAIN links :
              [path |-> Destination(links[k], references), at |-> <<b, k>>] \in T
    PROVE  Resolve(links, b, references) \in Seq(T)
<1>. DEFINE Path(k) == Destination(links[k], references)
            pieces == [k \in DOMAIN links |->
                          IF Path(k) \in External \cup {None} THEN <<>>
                          ELSE <<[path |-> Path(k), at |-> <<b, k>>]>>]
<1>1. PICK n \in Nat : DOMAIN links = 1..n /\ Len(links) = n
    OBVIOUS
<1>2. DOMAIN pieces = 1..n /\ Len(pieces) = n /\ (n = 0 => pieces = <<>>)
    BY <1>1
<1>3. ASSUME NEW k \in 1..n
      PROVE  pieces[k] \in Seq(T)
    <2>1. PICK found \in T : found = [path |-> Path(k), at |-> <<b, k>>]
        BY <1>1
    <2>2. pieces[k] = <<>> \/ pieces[k] = <<found>>
        BY <1>1, <2>1
    <2>. HIDE DEF pieces
    <2>. QED
        BY <2>2, SmallSequences
<1>4. Resolve(links, b, references) = FlattenSeq(pieces)
    BY DEF Resolve
<1>. HIDE DEF pieces
<1>. QED
    BY <1>2, <1>3, <1>4, FlattenIs

\* Every local file a slide needs is asked for by one of its links.
LEMMA NeededIs ==
    ASSUME NEW document \in Documents, NEW blocks \in Seq(Blocks(document)), NEW references,
           NEW needed, needed = NeededBy(document, blocks, references)
    PROVE  \A r \in DOMAIN needed :
              \E b \in DOMAIN blocks : \E k \in DOMAIN LinksAt(document, blocks, b) :
                  needed[r].at = <<b, k>>
<1>1. PICK n \in Nat : DOMAIN blocks = 1..n /\ Len(blocks) = n
    OBVIOUS
<1>. DEFINE S == UNION {FoundAt(document, blocks, references, b) : b \in 1..n}
            pieces == [b \in DOMAIN blocks |-> Resolve(LinksAt(document, blocks, b), b, references)]
<1>2. DOMAIN pieces = 1..n /\ Len(pieces) = n /\ (n = 0 => pieces = <<>>)
    BY <1>1
<1>3. ASSUME NEW b \in 1..n
      PROVE  pieces[b] \in Seq(S)
    <2>1. PICK text \in Texts : Block(document, blocks[b]) = Content[text]
        BY <1>1, BlockIs
    <2>2. PICK links, L : links = LinksAt(document, blocks, b) /\ links \in Seq(L)
        BY <2>1, SizesAre DEF LinksAt
    <2>3. ASSUME NEW k \in DOMAIN links
          PROVE  [path |-> Destination(links[k], references), at |-> <<b, k>>] \in S
        <3>1. [path |-> Destination(links[k], references), at |-> <<b, k>>]
                  \in FoundAt(document, blocks, references, b)
            BY <2>2 DEF FoundAt
        <3>. QED
            BY <3>1
    <2>. HIDE DEF S
    <2>4. Resolve(links, b, references) \in Seq(S)
        BY <2>2, <2>3, ResolveIs
    <2>. QED
        BY <1>1, <2>2, <2>4
<1>4. PICK found : found = FlattenSeq(pieces) /\ needed = Resources(found)
    BY DEF NeededBy
<1>5. \A x \in S : \E b \in 1..n : \E k \in DOMAIN LinksAt(document, blocks, b) : x.at = <<b, k>>
    BY DEF FoundAt
<1>. HIDE DEF S, pieces
<1>6. found \in Seq(S)
    BY <1>2, <1>3, <1>4, FlattenIs
<1>7. needed \in Seq(S)
    BY <1>4, <1>6, ResourcesAre
<1>8. \A r \in DOMAIN needed : needed[r] \in S
    BY <1>7
<1>. QED
    BY <1>1, <1>5, <1>8

ReadLinks(document, i, references) ==
    LET bad == BadLinks(document, i, references)
    IN  {l \in DOMAIN Block(document, i).links : bad = {} \/ l <= Min(bad)}

Failing(document, blocks, references) ==
    {b \in DOMAIN blocks :
        \/ Block(document, blocks[b]).unsupported
        \/ BadLinks(document, blocks[b], references) # {}}

\* The block at which rendering stops.
Visited(document, blocks, references) ==
    IF Failing(document, blocks, references) = {} THEN Len(blocks)
    ELSE Min(Failing(document, blocks, references))

\* Where the links of a block lead agrees as far as it is read.
LeadsAlike(document, i, references, lookups) ==
    \A k \in ReadLinks(document, i, references) :
        Destination(Block(document, i).links[k], references)
            = Destination(Block(document, i).links[k], lookups)

\* Two renderings of a block stop at the same link.
SameStop(document, i, references, other, j, lookups) ==
    /\ ReadLinks(other, j, lookups) = ReadLinks(document, i, references)
    /\ BadLinks(other, j, lookups) = {} <=> BadLinks(document, i, references) = {}
    /\ BadLinks(document, i, references) # {} =>
          /\ Min(BadLinks(other, j, lookups)) = Min(BadLinks(document, i, references))
          /\ Min(BadLinks(document, i, references)) \in DOMAIN Block(document, i).links

\* Two equal blocks whose links lead alike stop the rendering alike.
LEMMA BlockStops ==
    ASSUME NEW document \in Documents, NEW i \in Blocks(document), NEW references,
           NEW other, NEW j, Block(other, j) = Block(document, i), NEW lookups,
           LeadsAlike(document, i, references, lookups)
    PROVE  SameStop(document, i, references, other, j, lookups)
<1>1. PICK text \in Texts : Block(document, i) = Content[text]
    BY BlockIs
<1>2. PICK links, n : /\ links = Block(document, i).links /\ links = Block(other, j).links
                      /\ n \in Nat /\ DOMAIN links = 1..n
    BY <1>1, SizesAre
<1>3. PICK bad, worse : bad = BadLinks(document, i, references) /\ worse = BadLinks(other, j, lookups)
    OBVIOUS
<1>4. /\ bad = {k \in 1..n : Destination(links[k], references) \in BadPaths}
      /\ worse = {k \in 1..n : Destination(links[k], lookups) \in BadPaths}
    BY <1>2, <1>3 DEF BadLinks
<1>5. /\ ReadLinks(document, i, references) = {l \in 1..n : bad = {} \/ l <= Min(bad)}
      /\ ReadLinks(other, j, lookups) = {l \in 1..n : worse = {} \/ l <= Min(worse)}
    BY <1>2, <1>3 DEF ReadLinks
<1>6. \A k \in 1..n : bad = {} \/ k <= Min(bad) =>
          Destination(links[k], references) = Destination(links[k], lookups)
    BY <1>2, <1>5 DEF LeadsAlike
<1>7. CASE bad = {}
    <2>1. worse = {}
        BY <1>4, <1>6, <1>7
    <2>. QED
        BY <1>3, <1>5, <1>7, <2>1 DEF SameStop
<1>8. CASE bad # {}
    <2>1. bad \in SUBSET Nat /\ worse \in SUBSET Nat
        BY <1>4
    <2>2. PICK m \in 1..n : m = Min(bad) /\ m \in bad /\ \A x \in bad : m <= x
        BY <1>4, <1>8, <2>1, MinIs
    <2>3. m \in worse
        BY <1>4, <1>6, <2>2
    <2>4. PICK l \in 1..n : l = Min(worse) /\ l \in worse /\ \A x \in worse : l <= x
        BY <1>4, <2>1, <2>3, MinIs
    <2>5. l <= m
        BY <2>3, <2>4
    <2>6. l \in bad
        BY <1>4, <1>6, <2>2, <2>4, <2>5
    <2>7. l = m
        BY <2>2, <2>5, <2>6
    <2>. QED
        BY <1>2, <1>3, <1>5, <1>8, <2>2, <2>3, <2>4, <2>7 DEF SameStop
<1>. QED
    BY <1>7, <1>8

\* Two slides of the same blocks whose links lead alike.
AlikeSlides(document, blocks, references, other, others, lookups) ==
    /\ DOMAIN others = DOMAIN blocks
    /\ \A b \in DOMAIN blocks : Block(other, others[b]) = Block(document, blocks[b])
    /\ \A b \in 1..Visited(document, blocks, references) :
          LeadsAlike(document, blocks[b], references, lookups)

\* Alike slides stop the rendering at the same block, for the same reason.
LEMMA SlidesStop ==
    ASSUME NEW document \in Documents, NEW blocks \in Seq(Blocks(document)), NEW references,
           NEW other \in Documents, NEW others \in Seq(Blocks(other)), NEW lookups,
           AlikeSlides(document, blocks, references, other, others, lookups),
           NEW visited, visited = Visited(document, blocks, references)
    PROVE  /\ visited \in 0..Len(blocks)
           /\ Failing(other, others, lookups) = {} <=> Failing(document, blocks, references) = {}
           /\ Visited(other, others, lookups) = visited
           /\ \A b \in 1..visited :
                 SameStop(document, blocks[b], references, other, others[b], lookups)
           /\ Failing(document, blocks, references) # {} => visited \in DOMAIN blocks
<1>1. PICK n \in Nat : /\ n = Len(blocks) /\ DOMAIN blocks = 1..n /\ n = Len(others) /\ DOMAIN others = 1..n
                      /\ \A b \in 1..n : blocks[b] \in Blocks(document)
    BY DEF AlikeSlides
<1>2. PICK failing, failed : /\ failing = Failing(document, blocks, references)
                             /\ failed = Failing(other, others, lookups)
    OBVIOUS
<1>3. failing \in SUBSET (1..n) /\ failed \in SUBSET (1..n)
    BY <1>1, <1>2 DEF Failing
<1>4. /\ failing = {} => visited = n
      /\ failing # {} => visited \in failing /\ \A x \in failing : visited <= x
    <2>1. failing \in SUBSET Nat
        BY <1>3
    <2>. QED
        BY <1>1, <1>2, <2>1, MinIs DEF Visited
<1>5. visited \in 0..n /\ (failing # {} => visited \in 1..n)
    <2>1. CASE failing = {}
        BY <1>1, <1>4, <2>1
    <2>2. CASE failing # {}
        <3>1. visited \in 1..n
            BY <1>3, <1>4, <2>2
        <3>. QED
            BY <2>2, <3>1
    <2>. QED
        BY <2>1, <2>2
<1>10. \A b \in 1..visited : b \in 1..n
    BY <1>1, <1>5
<1>6. ASSUME NEW b \in 1..visited
      PROVE  SameStop(document, blocks[b], references, other, others[b], lookups)
    <2>1. PICK i : i = blocks[b] /\ i \in Blocks(document)
        BY <1>1, <1>10
    <2>2. PICK j : j = others[b]
        OBVIOUS
    <2>3. Block(other, j) = Block(document, i) /\ LeadsAlike(document, i, references, lookups)
        BY <1>1, <1>10, <2>1, <2>2 DEF AlikeSlides
    <2>. QED
        BY <2>1, <2>2, <2>3, BlockStops
<1>7. ASSUME NEW b \in 1..visited
      PROVE  b \in failing <=> b \in failed
    <2>1. BadLinks(other, others[b], lookups) = {} <=> BadLinks(document, blocks[b], references) = {}
        BY <1>6 DEF SameStop
    <2>2. b \in DOMAIN blocks /\ b \in DOMAIN others /\ Block(other, others[b]) = Block(document, blocks[b])
        BY <1>1, <1>10 DEF AlikeSlides
    <2>. QED
        BY <1>2, <2>1, <2>2 DEF Failing
<1>8. CASE failing = {}
    <2>1. failed = {}
        BY <1>3, <1>4, <1>7, <1>8
    <2>. QED
        BY <1>1, <1>2, <1>4, <1>5, <1>6, <1>8, <2>1 DEF Visited
<1>9. CASE failing # {}
    <2>7. visited \in 1..n /\ visited \in 1..visited /\ visited \in failing
        BY <1>1, <1>4, <1>5, <1>9
    <2>1. visited \in failed
        BY <1>7, <2>7
    <2>2. failed \in SUBSET Nat
        BY <1>3
    <2>3. PICK m \in 1..n : m = Min(failed) /\ m \in failed /\ \A x \in failed : m <= x
        BY <1>3, <2>1, <2>2, MinIs
    <2>4. m <= visited /\ m \in 1..visited
        BY <1>1, <2>1, <2>3, <2>7
    <2>8. m \in failing
        BY <1>7, <2>3, <2>4
    <2>5. m = visited
        BY <1>1, <1>4, <1>9, <2>3, <2>4, <2>7, <2>8
    <2>6. Visited(other, others, lookups) = visited
        BY <1>2, <2>1, <2>3, <2>5 DEF Visited
    <2>. QED
        BY <1>1, <1>2, <1>5, <1>6, <1>9, <2>1, <2>6, <2>7
<1>. QED
    BY <1>8, <1>9

\* Links that lead alike under two reference tables resolve alike.
LEMMA ResolveAlike ==
    ASSUME NEW links, NEW b, NEW references, NEW lookups,
           \A k \in DOMAIN links : Destination(links[k], references) = Destination(links[k], lookups)
    PROVE  Resolve(links, b, references) = Resolve(links, b, lookups)
<1>. DEFINE Pieces(names) ==
                [k \in DOMAIN links |->
                    IF Destination(links[k], names) \in External \cup {None} THEN <<>>
                    ELSE <<[path |-> Destination(links[k], names), at |-> <<b, k>>]>>]
<1>1. Pieces(references) = Pieces(lookups)
    OBVIOUS
<1>2. \A names : Resolve(links, b, names) = FlattenSeq(Pieces(names))
    BY DEF Resolve
<1>. HIDE DEF Pieces
<1>. QED
    BY <1>1, <1>2

\* A slide that renders reads all of its links.
LEMMA AllRead ==
    ASSUME NEW document, NEW blocks, NEW references,
           Failing(document, blocks, references) = {}, NEW b \in DOMAIN blocks
    PROVE  /\ BadLinks(document, blocks[b], references) = {}
           /\ ReadLinks(document, blocks[b], references) = DOMAIN LinksAt(document, blocks, b)
BY DEF Failing, ReadLinks, LinksAt

\* Alike slides need the same files.
LEMMA NeededAlike ==
    ASSUME NEW document \in Documents, NEW blocks \in Seq(Blocks(document)), NEW references,
           NEW other \in Documents, NEW others \in Seq(Blocks(other)), NEW lookups,
           AlikeSlides(document, blocks, references, other, others, lookups),
           Failing(document, blocks, references) = {}
    PROVE  NeededBy(other, others, lookups) = NeededBy(document, blocks, references)
<1>1. \A b \in DOMAIN blocks : b \in 1..Visited(document, blocks, references)
    BY DEF Visited
<1>2. ASSUME NEW b \in DOMAIN blocks
      PROVE  Resolve(LinksAt(other, others, b), b, lookups) = Resolve(LinksAt(document, blocks, b), b, references)
    <2>1. PICK links : links = LinksAt(document, blocks, b) /\ links = LinksAt(other, others, b)
        BY DEF AlikeSlides, LinksAt
    <2>2. \A k \in DOMAIN links : Destination(links[k], references) = Destination(links[k], lookups)
        BY <1>1, <2>1, AllRead DEF AlikeSlides, LeadsAlike, LinksAt
    <2>. QED
        BY <2>1, <2>2, ResolveAlike
<1>3. DOMAIN others = DOMAIN blocks
    BY DEF AlikeSlides
<1>. QED
    BY <1>2, <1>3 DEF NeededBy

-----------------------------------------------------------------------------
(***************************************************************************)
(* What rendering a slide returns.                                         *)
(***************************************************************************)
BodyOf(snapshot, slide, policies, references) ==
    <<slide.title>> \o [b \in DOMAIN slide.blocks |->
                           RenderBlock(snapshot, slide.blocks[b], policies, references)]

LocalFiles(snapshot, blocks, references) ==
    LET needed == NeededBy(snapshot.source, blocks, references)
    IN  [r \in DOMAIN needed |->
            [path |-> needed[r].path,
             origin |-> LinkOrigin(snapshot, blocks[needed[r].at[1]], needed[r].at[2])]]

Fault(snapshot, blocks, references) ==
    LET last == blocks[Visited(snapshot.source, blocks, references)]
        bad == BadLinks(snapshot.source, last, references)
    IN  IF bad = {} THEN BlockOrigin(snapshot, last) ELSE LinkOrigin(snapshot, last, Min(bad))

ReadsOf(snapshot, slide, references) ==
    {Keyed("Slide", slide.id)}
    \cup UNION {BlockReads(snapshot, slide.blocks[b], references) :
                   b \in 1..Visited(snapshot.source, slide.blocks, references)}

\* A fragment with a body, or one with an error.
Whole(body, resources, reads) ==
    [ok |-> TRUE, body |-> body, resources |-> resources, error |-> None, reads |-> reads]
Broken(error, reads) ==
    [ok |-> FALSE, body |-> <<>>, resources |-> <<>>, error |-> error, reads |-> reads]

\* render_slide by its two outcomes: a whole fragment, or the first fault.
LEMMA RenderIs ==
    ASSUME NEW snapshot, NEW slide, NEW policies, NEW references,
           NEW failing, failing = Failing(snapshot.source, slide.blocks, references)
    PROVE  render_slide(snapshot, slide, policies, references) =
               IF failing = {}
               THEN Whole(BodyOf(snapshot, slide, policies, references),
                          LocalFiles(snapshot, slide.blocks, references),
                          ReadsOf(snapshot, slide, references))
               ELSE Broken(Fault(snapshot, slide.blocks, references),
                           ReadsOf(snapshot, slide, references))
<1>. DEFINE document == snapshot.source
            blocks == slide.blocks
            body == BodyOf(snapshot, slide, policies, references)
            files == LocalFiles(snapshot, blocks, references)
            fault == Fault(snapshot, blocks, references)
            reads == ReadsOf(snapshot, slide, references)
            ok == failing = {}
<1>1. render_slide(snapshot, slide, policies, references) =
          [ok |-> ok, body |-> IF ~ ok THEN <<>> ELSE body,
           resources |-> IF ~ ok THEN <<>> ELSE files,
           error |-> IF ok THEN None ELSE fault, reads |-> reads]
    BY Zenon DEF render_slide, Failing, Visited, BodyOf, LocalFiles, NeededBy, LinksAt, Fault, ReadsOf
<1>. HIDE DEF body, files, fault, reads
<1>2. CASE ok
    <2>1. ok = TRUE
        BY <1>2
    <2>. QED
        BY <1>1, <2>1, <1>2, Zenon DEF Whole, body, files, reads
<1>3. CASE ~ ok
    <2>1. ok = FALSE
        BY <1>3
    <2>. QED
        BY <1>1, <2>1, <1>3, Zenon DEF Broken, fault, reads
<1>. QED
    BY <1>2, <1>3

\* Binding keeps a fragment but moves its origins.
FilesMoved(files, from, to) ==
    [r \in DOMAIN files |-> [path |-> files[r].path, origin |-> Rebind(files[r].origin, from, to)]]

HoldsWhole(cached, body, resources, reads) == cached.result = Whole(body, resources, reads)
HoldsBroken(cached, error, reads) == cached.result = Broken(error, reads)

\* Binding a whole cached fragment moves the origins of its files.
LEMMA BindWhole ==
    ASSUME NEW cached, NEW origins, NEW body, NEW resources, NEW reads,
           HoldsWhole(cached, body, resources, reads)
    PROVE  bind(cached, origins) = Whole(body, FilesMoved(resources, cached.origins, origins), reads)
<1>1. PICK result : result = cached.result /\ result = Whole(body, resources, reads)
    BY DEF HoldsWhole
<1>2. result.ok = TRUE /\ result.resources = resources
    BY <1>1 DEF Whole
<1>3. PICK files : files = [r \in DOMAIN resources |->
                               [path |-> resources[r].path,
                                origin |-> Rebind(resources[r].origin, cached.origins, origins)]]
    OBVIOUS
<1>4. bind(cached, origins) = [result EXCEPT !.resources = files, !.error = None]
    BY <1>1, <1>2, <1>3 DEF bind
<1>5. [result EXCEPT !.resources = files, !.error = None] = Whole(body, files, reads)
    <2>1. PICK ok : ok = TRUE
        OBVIOUS
    <2>2. result = [ok |-> ok, body |-> body, resources |-> resources, error |-> None, reads |-> reads]
        BY <1>1, <2>1, Zenon DEF Whole
    <2>3. [result EXCEPT !.resources = files, !.error = None] =
              [ok |-> ok, body |-> body, resources |-> files, error |-> None, reads |-> reads]
        <3>1. PICK half : half = [result EXCEPT !.resources = files]
            OBVIOUS
        <3>2. half = [ok |-> ok, body |-> body, resources |-> files, error |-> None, reads |-> reads]
            BY <2>2, <3>1
        <3>3. [half EXCEPT !.error = None] = half
            BY <3>2
        <3>. QED
            BY <3>1, <3>2, <3>3, Zenon
    <2>. QED
        BY <2>1, <2>3, Zenon DEF Whole
<1>. QED
    BY <1>3, <1>4, <1>5, Zenon DEF FilesMoved

\* Binding a cached failure moves the origin of its error.
LEMMA BindBroken ==
    ASSUME NEW cached, NEW origins, NEW error, NEW reads, HoldsBroken(cached, error, reads)
    PROVE  bind(cached, origins) = Broken(Rebind(error, cached.origins, origins), reads)
<1>1. PICK result : result = cached.result /\ result = Broken(error, reads)
    BY DEF HoldsBroken
<1>2. result.ok = FALSE /\ result.resources = <<>> /\ result.error = error
    BY <1>1 DEF Broken
<1>3. PICK moved : moved = Rebind(error, cached.origins, origins)
    OBVIOUS
<1>4. [r \in DOMAIN result.resources |->
          [path |-> result.resources[r].path,
           origin |-> Rebind(result.resources[r].origin, cached.origins, origins)]] = <<>>
    BY <1>2
<1>5. bind(cached, origins) = [result EXCEPT !.resources = <<>>, !.error = moved]
    BY <1>1, <1>2, <1>3, <1>4 DEF bind
<1>6. [result EXCEPT !.resources = <<>>, !.error = moved] = Broken(moved, reads)
    <2>1. PICK ok, none : ok = FALSE /\ none = <<>>
        OBVIOUS
    <2>2. result = [ok |-> ok, body |-> none, resources |-> none, error |-> error, reads |-> reads]
        BY <1>1, <2>1, Zenon DEF Broken
    <2>3. [result EXCEPT !.resources = none, !.error = moved] =
              [ok |-> ok, body |-> none, resources |-> none, error |-> moved, reads |-> reads]
        <3>1. PICK half : half = [result EXCEPT !.resources = none]
            OBVIOUS
        <3>2. half = [ok |-> ok, body |-> none, resources |-> none, error |-> error, reads |-> reads]
            BY <2>2, <3>1
        <3>3. [half EXCEPT !.error = moved] =
                  [ok |-> ok, body |-> none, resources |-> none, error |-> moved, reads |-> reads]
            BY <3>2
        <3>. QED
            BY <3>1, <3>3, Zenon
    <2>. QED
        BY <2>1, <2>3, Zenon DEF Broken
<1>. QED
    BY <1>3, <1>5, <1>6

\* The input of a slide is the templates of its blocks.
LEMMA SlideInputIs ==
    ASSUME NEW snapshot, SnapshotSound(snapshot), Distinct(snapshot.templates),
           NEW s \in DOMAIN snapshot.slides, NEW slide, slide = snapshot.slides[s]
    PROVE  slide_input(snapshot, slide) =
               [title |-> slide.title,
                content |-> [b \in DOMAIN slide.blocks |-> snapshot.templates[slide.blocks[b]]]]
<1>1. PICK document \in Documents : document = snapshot.source
    BY DEF SnapshotSound
<1>2. PICK templates, n : /\ templates = snapshot.templates /\ n \in Nat
                          /\ DOMAIN templates = 1..n /\ Blocks(document) = 1..n
    BY <1>1, DocumentIs DEF SnapshotSound
<1>3. ASSUME NEW i \in Blocks(document), NEW j \in Blocks(document),
             NodeHandle(templates[i]) = NodeHandle(templates[j])
      PROVE  i = j
    <2>1. /\ <<i, 0>> \in NodePlaces(snapshot) /\ <<j, 0>> \in NodePlaces(snapshot)
        BY <1>1 DEF NodePlaces
    <2>2. \A k : CellNode(snapshot, <<k, 0>>) = NodeHandle(templates[k])
        BY <1>2 DEF CellNode, NodeHandle, NodeSlot
    <2>3. <<i, 0>> = <<j, 0>>
        BY <1>3, <2>1, <2>2, PlacesDiffer
    <2>. QED
        BY <2>3
<1>4. ASSUME NEW i \in Blocks(document)
      PROVE  TemplateOf(templates, NodeHandle(templates[i])) = templates[i]
    <2>1. {p \in DOMAIN templates : NodeHandle(templates[p]) = NodeHandle(templates[i])} = {i}
        BY <1>2, <1>3
    <2>2. {i} \in SUBSET Nat /\ {i} # {}
        BY <1>2
    <2>3. Min({i}) = i
        BY <2>2, MinIs
    <2>. QED
        BY <2>1, <2>3 DEF TemplateOf
<1>5. \A b \in DOMAIN slide.blocks : slide.blocks[b] \in Blocks(document)
    BY <1>1, SlideBlocks
<1>. QED
    BY <1>2, <1>4, <1>5 DEF slide_input

Fragment(snapshot, slide) ==
    render_slide(snapshot, slide, Policies(snapshot), References[snapshot.source])
Remembered(snapshot, slide) ==
    CachedFragment(snapshot, slide, Fragment(snapshot, slide), Policies(snapshot),
                   References[snapshot.source])

\* What a fragment read is unchanged when it is reusable.
LEMMA ReadsUnchanged ==
    ASSUME NEW snapshot, NEW slide, NEW input, NEW policies, NEW references,
           NEW cached, cached = Remembered(snapshot, slide),
           IsReusable(cached, input, policies, references)
    PROVE  /\ cached.slide = slide_input(snapshot, slide) /\ input = cached.slide
           /\ cached.origins = slide_origins(snapshot, slide)
           /\ cached.result = Fragment(snapshot, slide)
           /\ \A id : Keyed("CellPolicy", id) \in cached.result.reads =>
                 policies[id] = Policies(snapshot)[id]
           /\ \A label : Keyed("Reference", label) \in cached.result.reads =>
                 references[label] = References[snapshot.source][label]
<1>1. PICK fragment, mine, names : /\ fragment = Fragment(snapshot, slide) /\ mine = Policies(snapshot)
                                   /\ names = References[snapshot.source]
    OBVIOUS
<1>. DEFINE Read(name) == {key[2] : key \in {k \in fragment.reads : k[1] = name}}
<1>2. cached = [slide |-> slide_input(snapshot, slide),
                policies |-> Restrict(mine, Read("CellPolicy")),
                references |-> Restrict(names, Read("Reference")),
                origins |-> slide_origins(snapshot, slide),
                result |-> fragment]
    BY <1>1 DEF Remembered, CachedFragment
<1>3. ASSUME NEW name, NEW x, Keyed(name, x) \in fragment.reads
      PROVE  x \in Read(name)
    <2>1. Keyed(name, x)[1] = name /\ Keyed(name, x)[2] = x
        BY DEF Keyed
    <2>. QED
        BY <1>3, <2>1
<1>. HIDE DEF Read
<1>4. /\ cached.slide = slide_input(snapshot, slide) /\ cached.origins = slide_origins(snapshot, slide)
      /\ cached.result = fragment
      /\ cached.policies = Restrict(mine, Read("CellPolicy"))
      /\ cached.references = Restrict(names, Read("Reference"))
    BY <1>2
<1>5. /\ DOMAIN cached.policies = Read("CellPolicy")
      /\ \A id \in Read("CellPolicy") : cached.policies[id] = mine[id]
      /\ DOMAIN cached.references = Read("Reference")
      /\ \A label \in Read("Reference") : cached.references[label] = names[label]
    BY <1>4 DEF Restrict
<1>. QED
    BY <1>1, <1>3, <1>4, <1>5 DEF IsReusable

\* A slide kept from one snapshot to another, in the same templates.
Continues(old, was, new, slide) ==
    /\ slide.title = was.title /\ DOMAIN slide.blocks = DOMAIN was.blocks
    /\ \A b \in DOMAIN was.blocks :
          /\ new.templates[slide.blocks[b]] = old.templates[was.blocks[b]]
          /\ Block(new.source, slide.blocks[b]) = Block(old.source, was.blocks[b])
          /\ \A j : CellId(new, <<slide.blocks[b], j>>) = CellId(old, <<was.blocks[b], j>>)

\* Two slides with equal inputs hold the same blocks in the same order, with the same handles.
LEMMA ContinuesIs ==
    ASSUME NEW old, SnapshotSound(old), Distinct(old.templates),
           NEW o \in DOMAIN old.slides, NEW was, was = old.slides[o],
           NEW new, SnapshotSound(new), Distinct(new.templates),
           NEW s \in DOMAIN new.slides, NEW slide, slide = new.slides[s],
           slide_input(old, was) = slide_input(new, slide)
    PROVE  Continues(old, was, new, slide)
<1>1. PICK document, other \in Documents : document = old.source /\ other = new.source
    BY DEF SnapshotSound
<1>2. PICK content, later :
          /\ content = [b \in DOMAIN was.blocks |-> old.templates[was.blocks[b]]]
          /\ later = [b \in DOMAIN slide.blocks |-> new.templates[slide.blocks[b]]]
    OBVIOUS
<1>3. /\ slide_input(old, was) = [title |-> was.title, content |-> content]
      /\ slide_input(new, slide) = [title |-> slide.title, content |-> later]
    BY <1>2, SlideInputIs
<1>4. slide.title = was.title /\ content = later
    <2>1. PICK input, first, second : /\ input = slide_input(old, was) /\ first = was.title
                                      /\ second = slide.title
        OBVIOUS
    <2>2. input = [title |-> first, content |-> content] /\ input = [title |-> second, content |-> later]
        BY <1>3, <2>1
    <2>3. input.title = first /\ input.title = second /\ input.content = content /\ input.content = later
        BY <2>2
    <2>. QED
        BY <2>1, <2>3
<1>5. DOMAIN slide.blocks = DOMAIN was.blocks
    BY <1>2, <1>4
<1>6. ASSUME NEW b \in DOMAIN was.blocks
      PROVE  /\ new.templates[slide.blocks[b]] = old.templates[was.blocks[b]]
             /\ Block(other, slide.blocks[b]) = Block(document, was.blocks[b])
             /\ \A j : CellId(new, <<slide.blocks[b], j>>) = CellId(old, <<was.blocks[b], j>>)
    <2>1. PICK i \in Blocks(document) : i = was.blocks[b]
        BY <1>1, SlideBlocks
    <2>2. PICK l \in Blocks(other) : l = slide.blocks[b]
        BY <1>1, <1>5, SlideBlocks
    <2>3. PICK template : template = old.templates[i] /\ template = new.templates[l]
        BY <1>2, <1>4, <1>5, <2>1, <2>2
    <2>4. /\ template.text = Input[document].blocks[i] /\ template.text = Input[other].blocks[l]
        BY <1>1, <2>3 DEF SnapshotSound
    <2>5. Block(other, l) = Block(document, i)
        BY <2>4 DEF Block
    <2>6. \A j : /\ CellId(old, <<i, j>>) = CellHandle(template, j)
                 /\ CellId(new, <<l, j>>) = CellHandle(template, j)
        BY <2>3 DEF CellId
    <2>. QED
        BY <2>1, <2>2, <2>3, <2>5, <2>6
<1>. QED
    BY <1>1, <1>4, <1>5, <1>6 DEF Continues

\* What rendering a block reads: the policies of its cells, and the references
\* its links are made through.
LEMMA BlockReadsAre ==
    ASSUME NEW snapshot, NEW i, NEW references
    PROVE  BlockReads(snapshot, i, references) =
               {Keyed("CellPolicy", CellId(snapshot, <<i, j>>)) : j \in DOMAIN Block(snapshot.source, i).cells}
               \cup ({Keyed("Reference", Block(snapshot.source, i).links[k].reference) :
                         k \in ReadLinks(snapshot.source, i, references)}
                     \ {Keyed("Reference", None)})
BY DEF BlockReads, ReadLinks

\* A fresh fragment by its two outcomes.
LEMMA FragmentIs ==
    ASSUME NEW snapshot, NEW slide
    PROVE  LET references == References[snapshot.source]
           IN  /\ Failing(snapshot.source, slide.blocks, references) = {} =>
                     Fragment(snapshot, slide) =
                         Whole(BodyOf(snapshot, slide, Policies(snapshot), references),
                               LocalFiles(snapshot, slide.blocks, references),
                               ReadsOf(snapshot, slide, references))
               /\ Failing(snapshot.source, slide.blocks, references) # {} =>
                     Fragment(snapshot, slide) =
                         Broken(Fault(snapshot, slide.blocks, references),
                                ReadsOf(snapshot, slide, references))
<1>1. PICK references, policies, failing :
          /\ references = References[snapshot.source] /\ policies = Policies(snapshot)
          /\ failing = Failing(snapshot.source, slide.blocks, references)
    OBVIOUS
<1>2. render_slide(snapshot, slide, policies, references) =
          IF failing = {}
          THEN Whole(BodyOf(snapshot, slide, policies, references),
                     LocalFiles(snapshot, slide.blocks, references),
                     ReadsOf(snapshot, slide, references))
          ELSE Broken(Fault(snapshot, slide.blocks, references),
                      ReadsOf(snapshot, slide, references))
    BY <1>1, RenderIs
<1>. QED
    BY <1>1, <1>2, Zenon DEF Fragment

\* The reads and the outcome of a fresh fragment.
LEMMA FragmentReads ==
    ASSUME NEW snapshot, NEW slide
    PROVE  /\ Fragment(snapshot, slide).reads = ReadsOf(snapshot, slide, References[snapshot.source])
           /\ Fragment(snapshot, slide).ok =
                 (Failing(snapshot.source, slide.blocks, References[snapshot.source]) = {})
<1>1. PICK references, failing : /\ references = References[snapshot.source]
                                 /\ failing = Failing(snapshot.source, slide.blocks, references)
    OBVIOUS
<1>2. PICK reads : reads = ReadsOf(snapshot, slide, references)
    OBVIOUS
<1>3. /\ \A body, resources : Whole(body, resources, reads).reads = reads /\ Whole(body, resources, reads).ok = TRUE
      /\ \A error : Broken(error, reads).reads = reads /\ Broken(error, reads).ok = FALSE
    BY DEF Whole, Broken
<1>4. CASE failing = {}
    <2>1. PICK body, resources : Fragment(snapshot, slide) = Whole(body, resources, reads)
        BY <1>1, <1>2, <1>4, RenderIs DEF Fragment
    <2>. QED
        BY <1>1, <1>2, <1>3, <1>4, <2>1
<1>5. CASE failing # {}
    <2>1. PICK error : Fragment(snapshot, slide) = Broken(error, reads)
        BY <1>1, <1>2, <1>5, RenderIs DEF Fragment
    <2>. QED
        BY <1>1, <1>2, <1>3, <1>5, <2>1
<1>. QED
    BY <1>4, <1>5

\* A reusable fragment was made where links lead as they do now, and cells are
\* shown as they are now.
SameLookups(old, was, new) ==
    LET references == References[old.source]
    IN  \A b \in 1..Visited(old.source, was.blocks, references) :
            /\ LeadsAlike(old.source, was.blocks[b], references, References[new.source])
            /\ \A j \in DOMAIN Block(old.source, was.blocks[b]).cells :
                  Policies(new)[CellId(old, <<was.blocks[b], j>>)]
                      = Policies(old)[CellId(old, <<was.blocks[b], j>>)]

\* A cached fragment that is reusable looked up what the new snapshot would look up.
LEMMA LookupsAre ==
    ASSUME NEW old, NEW was, NEW new, NEW input,
           NEW cached, cached = Remembered(old, was),
           IsReusable(cached, input, Policies(new), References[new.source])
    PROVE  SameLookups(old, was, new)
<1>1. PICK references, lookups, visited :
          /\ references = References[old.source] /\ lookups = References[new.source]
          /\ visited = Visited(old.source, was.blocks, references)
    OBVIOUS
<1>2. PICK reads : reads = ReadsOf(old, was, references) /\ reads = cached.result.reads
    BY <1>1, ReadsUnchanged, FragmentReads
<1>3. /\ \A id : Keyed("CellPolicy", id) \in reads => Policies(new)[id] = Policies(old)[id]
      /\ \A label : Keyed("Reference", label) \in reads => lookups[label] = references[label]
    BY <1>1, <1>2, ReadsUnchanged
<1>4. ASSUME NEW b \in 1..visited
      PROVE  /\ LeadsAlike(old.source, was.blocks[b], references, lookups)
             /\ \A j \in DOMAIN Block(old.source, was.blocks[b]).cells :
                   Policies(new)[CellId(old, <<was.blocks[b], j>>)]
                       = Policies(old)[CellId(old, <<was.blocks[b], j>>)]
    <2>1. PICK i : i = was.blocks[b]
        OBVIOUS
    <2>2. BlockReads(old, i, references) \subseteq reads
        BY <1>1, <1>2, <2>1 DEF ReadsOf
    <2>3. ASSUME NEW j \in DOMAIN Block(old.source, i).cells
          PROVE  Policies(new)[CellId(old, <<i, j>>)] = Policies(old)[CellId(old, <<i, j>>)]
        BY <1>3, <2>2, BlockReadsAre
    <2>4. ASSUME NEW k \in ReadLinks(old.source, i, references)
          PROVE  Destination(Block(old.source, i).links[k], references)
                     = Destination(Block(old.source, i).links[k], lookups)
        <3>1. PICK link : link = Block(old.source, i).links[k]
            OBVIOUS
        <3>2. CASE link.reference = None
            BY <3>1, <3>2 DEF Destination
        <3>3. CASE link.reference # None
            <4>1. Keyed("Reference", link.reference) # Keyed("Reference", None)
                BY <3>3 DEF Keyed
            <4>2. Keyed("Reference", link.reference) \in reads
                BY <2>2, <3>1, <4>1, BlockReadsAre
            <4>3. lookups[link.reference] = references[link.reference]
                BY <1>3, <4>2
            <4>. QED
                BY <3>1, <4>3 DEF Destination
        <3>. QED
            BY <3>2, <3>3
    <2>. QED
        BY <2>1, <2>3, <2>4 DEF LeadsAlike
<1>. QED
    BY <1>1, <1>4 DEF SameLookups

\* A slide of one snapshot whose fragment can stand for a slide of another.
StandsFor(old, o, was, new, s, slide) ==
    /\ SnapshotSound(old) /\ o \in DOMAIN old.slides /\ was = old.slides[o]
    /\ SnapshotSound(new) /\ s \in DOMAIN new.slides /\ slide = new.slides[s]
    /\ Continues(old, was, new, slide) /\ SameLookups(old, was, new)

\* A slide that stands for another is alike to it, block by block.
LEMMA StandsAlike ==
    ASSUME NEW old, NEW o, NEW was, NEW new, NEW s, NEW slide, StandsFor(old, o, was, new, s, slide)
    PROVE  /\ old.source \in Documents /\ new.source \in Documents
           /\ was.blocks \in Seq(Blocks(old.source)) /\ slide.blocks \in Seq(Blocks(new.source))
           /\ AlikeSlides(old.source, was.blocks, References[old.source],
                          new.source, slide.blocks, References[new.source])
<1>1. old.source \in Documents /\ new.source \in Documents
    BY DEF StandsFor, SnapshotSound
<1>2. was.blocks \in Seq(Blocks(old.source)) /\ slide.blocks \in Seq(Blocks(new.source))
    BY SlideBlocks DEF StandsFor
<1>3. AlikeSlides(old.source, was.blocks, References[old.source],
                  new.source, slide.blocks, References[new.source])
    BY DEF StandsFor, Continues, SameLookups, AlikeSlides
<1>. QED
    BY <1>1, <1>2, <1>3

\* Slides that stand for each other read the same.
LEMMA SameReads ==
    ASSUME NEW old, NEW o, NEW was, NEW new, NEW s, NEW slide, StandsFor(old, o, was, new, s, slide),
           slide.id = was.id
    PROVE  ReadsOf(new, slide, References[new.source]) = ReadsOf(old, was, References[old.source])
<1>1. PICK references, lookups, blocks, others, visited :
          /\ references = References[old.source] /\ lookups = References[new.source]
          /\ blocks = was.blocks /\ others = slide.blocks
          /\ visited = Visited(old.source, blocks, references)
    OBVIOUS
<1>2. /\ visited \in 0..Len(blocks) /\ Visited(new.source, others, lookups) = visited
      /\ \A b \in 1..visited : SameStop(old.source, blocks[b], references, new.source, others[b], lookups)
    <2>1. PICK document, other \in Documents : document = old.source /\ other = new.source
        BY StandsAlike
    <2>2. /\ blocks \in Seq(Blocks(document)) /\ others \in Seq(Blocks(other))
          /\ AlikeSlides(document, blocks, references, other, others, lookups)
        BY <1>1, <2>1, StandsAlike
    <2>3. visited = Visited(document, blocks, references)
        BY <1>1, <2>1
    <2>. QED
        BY <2>1, <2>2, <2>3, SlidesStop
<1>3. ASSUME NEW b \in 1..visited
      PROVE  BlockReads(new, others[b], lookups) = BlockReads(old, blocks[b], references)
    <2>1. PICK i, l : i = blocks[b] /\ l = others[b]
        OBVIOUS
    <2>2. b \in DOMAIN blocks
        BY <1>1, <1>2, StandsAlike
    <2>3. PICK block : block = Block(old.source, i) /\ block = Block(new.source, l)
        BY <1>1, <2>1, <2>2 DEF StandsFor, Continues
    <2>4. \A j : CellId(new, <<l, j>>) = CellId(old, <<i, j>>)
        BY <1>1, <2>1, <2>2 DEF StandsFor, Continues
    <2>5. ReadLinks(new.source, l, lookups) = ReadLinks(old.source, i, references)
        BY <1>2, <2>1 DEF SameStop
    <2>. QED
        BY <2>1, <2>3, <2>4, <2>5, BlockReadsAre
<1>. QED
    BY <1>1, <1>2, <1>3 DEF ReadsOf

\* Slides that stand for each other have the same body.
LEMMA SameBodies ==
    ASSUME NEW old, NEW o, NEW was, NEW new, NEW s, NEW slide, StandsFor(old, o, was, new, s, slide),
           Failing(old.source, was.blocks, References[old.source]) = {}
    PROVE  BodyOf(new, slide, Policies(new), References[new.source])
               = BodyOf(old, was, Policies(old), References[old.source])
<1>1. PICK references, lookups, policies, applied, blocks, others :
          /\ references = References[old.source] /\ lookups = References[new.source]
          /\ policies = Policies(old) /\ applied = Policies(new)
          /\ blocks = was.blocks /\ others = slide.blocks
    OBVIOUS
<1>2. \A b \in DOMAIN blocks : b \in 1..Visited(old.source, blocks, references)
    BY <1>1, StandsAlike DEF Visited
<1>3. ASSUME NEW b \in DOMAIN blocks
      PROVE  RenderBlock(new, others[b], applied, lookups) = RenderBlock(old, blocks[b], policies, references)
    <2>1. PICK i, l : i = blocks[b] /\ l = others[b]
        OBVIOUS
    <2>2. PICK block : block = Block(old.source, i) /\ block = Block(new.source, l)
        BY <1>1, <2>1 DEF StandsFor, Continues
    <2>3. /\ new.templates[l] = old.templates[i]
          /\ \A j : CellId(new, <<l, j>>) = CellId(old, <<i, j>>)
        BY <1>1, <2>1 DEF StandsFor, Continues
    <2>4. \A j \in DOMAIN block.cells : applied[CellId(old, <<i, j>>)] = policies[CellId(old, <<i, j>>)]
        BY <1>1, <1>2, <2>1, <2>2 DEF StandsFor, SameLookups
    <2>5. \A k \in DOMAIN block.links : Destination(block.links[k], references) = Destination(block.links[k], lookups)
        <3>1. ReadLinks(old.source, i, references) = DOMAIN block.links
            <4>1. Failing(old.source, blocks, references) = {}
                BY <1>1
            <4>2. ReadLinks(old.source, blocks[b], references) = DOMAIN LinksAt(old.source, blocks, b)
                BY <4>1, AllRead
            <4>. QED
                BY <2>1, <2>2, <4>2 DEF LinksAt
        <3>2. LeadsAlike(old.source, i, references, lookups)
            BY <1>1, <1>2, <2>1 DEF StandsFor, SameLookups
        <3>. QED
            BY <2>2, <3>1, <3>2 DEF LeadsAlike
    <2>. QED
        BY <2>1, <2>2, <2>3, <2>4, <2>5 DEF RenderBlock
<1>4. slide.title = was.title /\ DOMAIN others = DOMAIN blocks
    BY <1>1 DEF StandsFor, Continues
<1>. QED
    BY <1>1, <1>3, <1>4 DEF BodyOf

\* A place in the old slide moves to the same place in the new one.
LEMMA SamePlace ==
    ASSUME NEW old, NEW o, NEW was, NEW new, NEW s, NEW slide, StandsFor(old, o, was, new, s, slide),
           NEW b \in DOMAIN was.blocks
    PROVE  /\ \A k \in DOMAIN Block(old.source, was.blocks[b]).links :
                 Rebind(LinkOrigin(old, was.blocks[b], k), slide_origins(old, was), slide_origins(new, slide))
                     = LinkOrigin(new, slide.blocks[b], k)
           /\ Rebind(BlockOrigin(old, was.blocks[b]), slide_origins(old, was), slide_origins(new, slide))
                 = BlockOrigin(new, slide.blocks[b])
<1>1. PICK text \in Texts : Block(old.source, was.blocks[b]) = Content[text]
    <2>1. was.blocks[b] \in Blocks(old.source)
        BY StandsAlike
    <2>. QED
        BY <2>1, StandsAlike, BlockIs
<1>2. PICK block : block = Content[text]
    OBVIOUS
<1>3. /\ block.size \in Nat \ {0}
      /\ \A k \in DOMAIN block.links : k \in Nat /\ k + 1 <= block.size
    BY <1>2, SizesAre
<1>4. Block(new.source, slide.blocks[b]) = block /\ Block(old.source, was.blocks[b]) = block
    BY <1>1, <1>2 DEF StandsFor, Continues
<1>5. PICK start, later, length \in Nat :
          /\ start = Starts[old.source][was.blocks[b]] /\ later = Starts[new.source][slide.blocks[b]]
          /\ length = Block(old.source, was.blocks[b]).size /\ length = block.size
    <2>1. b \in DOMAIN slide.blocks
        BY DEF StandsFor, Continues
    <2>2. was.blocks[b] \in Blocks(old.source) /\ slide.blocks[b] \in Blocks(new.source)
        BY <2>1, StandsAlike
    <2>. QED
        BY <1>3, <1>4, <2>2, StandsAlike, StartIs
<1>6. ASSUME NEW at \in Nat, NEW size \in Nat \ {0}, at + size <= length
      PROVE  Rebind(Origin(old, start + at, size), slide_origins(old, was), slide_origins(new, slide))
                 = Origin(new, later + at, size)
    <2>1. /\ SnapshotSound(old) /\ o \in DOMAIN old.slides /\ was = old.slides[o]
          /\ SnapshotSound(new) /\ s \in DOMAIN new.slides /\ slide = new.slides[s]
          /\ DOMAIN was.blocks = DOMAIN slide.blocks
        BY DEF StandsFor, Continues
    <2>2. Within(old, was, b, at, size)
        BY <1>5, <1>6, Zenon DEF Within
    <2>3. MovesTo(old, was, new, slide, b, at, size)
        BY <2>1, <2>2, RebindIs
    <2>. QED
        BY <1>5, <2>3, Zenon DEF MovesTo
<1>7. ASSUME NEW k \in DOMAIN block.links
      PROVE  Rebind(LinkOrigin(old, was.blocks[b], k), slide_origins(old, was), slide_origins(new, slide))
                 = LinkOrigin(new, slide.blocks[b], k)
    <2>1. k \in Nat /\ 1 \in Nat \ {0} /\ k + 1 <= length
        BY <1>3, <1>5
    <2>2. Rebind(Origin(old, start + k, 1), slide_origins(old, was), slide_origins(new, slide))
              = Origin(new, later + k, 1)
        BY <1>6, <2>1
    <2>. QED
        BY <1>5, <2>2, Zenon DEF LinkOrigin
<1>8. Rebind(BlockOrigin(old, was.blocks[b]), slide_origins(old, was), slide_origins(new, slide))
          = BlockOrigin(new, slide.blocks[b])
    <2>1. 0 \in Nat /\ length \in Nat \ {0} /\ 0 + length <= length /\ start + 0 = start /\ later + 0 = later
        BY <1>3, <1>5
    <2>2. Rebind(Origin(old, start + 0, length), slide_origins(old, was), slide_origins(new, slide))
              = Origin(new, later + 0, length)
        BY <1>6, <2>1
    <2>. QED
        BY <1>4, <1>5, <2>1, <2>2 DEF BlockOrigin
<1>. QED
    BY <1>4, <1>7, <1>8

\* The files of the old slide, their origins moved, are those of the new one.
LEMMA SameFiles ==
    ASSUME NEW old, NEW o, NEW was, NEW new, NEW s, NEW slide, StandsFor(old, o, was, new, s, slide),
           Failing(old.source, was.blocks, References[old.source]) = {},
           NEW files, files = LocalFiles(old, was.blocks, References[old.source])
    PROVE  FilesMoved(files, slide_origins(old, was), slide_origins(new, slide))
               = LocalFiles(new, slide.blocks, References[new.source])
<1>1. PICK document, other \in Documents : document = old.source /\ other = new.source
    BY StandsAlike
<1>2. PICK references, lookups, blocks, others :
          /\ references = References[document] /\ lookups = References[other]
          /\ blocks = was.blocks /\ others = slide.blocks
    OBVIOUS
<1>3. /\ blocks \in Seq(Blocks(document)) /\ others \in Seq(Blocks(other))
      /\ AlikeSlides(document, blocks, references, other, others, lookups)
    BY <1>1, <1>2, StandsAlike
<1>4. Failing(document, blocks, references) = {}
    BY <1>1, <1>2
<1>5. PICK needed : needed = NeededBy(document, blocks, references)
    OBVIOUS
<1>6. needed = NeededBy(other, others, lookups)
    BY <1>3, <1>4, <1>5, NeededAlike
<1>7. \A r \in DOMAIN needed : \E b \in DOMAIN blocks : \E k \in DOMAIN LinksAt(document, blocks, b) :
          needed[r].at = <<b, k>>
    BY <1>3, <1>5, NeededIs
<1>8. PICK from, to : from = slide_origins(old, was) /\ to = slide_origins(new, slide)
    OBVIOUS
<1>9. ASSUME NEW r \in DOMAIN needed
      PROVE  Rebind(LinkOrigin(old, blocks[needed[r].at[1]], needed[r].at[2]), from, to)
                 = LinkOrigin(new, others[needed[r].at[1]], needed[r].at[2])
    <2>1. PICK b \in DOMAIN blocks : \E k \in DOMAIN LinksAt(document, blocks, b) : needed[r].at = <<b, k>>
        BY <1>7
    <2>2. PICK k \in DOMAIN LinksAt(document, blocks, b) : needed[r].at = <<b, k>>
        BY <2>1
    <2>3. needed[r].at[1] = b /\ needed[r].at[2] = k
        BY <2>2
    <2>4. b \in DOMAIN was.blocks /\ k \in DOMAIN Block(old.source, was.blocks[b]).links
        BY <1>1, <1>2, <2>1, <2>2 DEF LinksAt
    <2>5. Rebind(LinkOrigin(old, was.blocks[b], k), from, to) = LinkOrigin(new, slide.blocks[b], k)
        BY <1>8, <2>4, SamePlace
    <2>. QED
        BY <1>2, <2>3, <2>5
<1>10. /\ files = [r \in DOMAIN needed |->
                      [path |-> needed[r].path,
                       origin |-> LinkOrigin(old, blocks[needed[r].at[1]], needed[r].at[2])]]
       /\ LocalFiles(new, others, lookups) =
              [r \in DOMAIN needed |->
                  [path |-> needed[r].path,
                   origin |-> LinkOrigin(new, others[needed[r].at[1]], needed[r].at[2])]]
    BY <1>1, <1>2, <1>5, <1>6, Zenon DEF LocalFiles
<1>11. DOMAIN files = DOMAIN needed
    BY <1>10
<1>12. ASSUME NEW r \in DOMAIN needed
       PROVE  /\ files[r].path = needed[r].path
              /\ files[r].origin = LinkOrigin(old, blocks[needed[r].at[1]], needed[r].at[2])
    BY <1>10
<1>. QED
    BY <1>1, <1>2, <1>8, <1>9, <1>10, <1>11, <1>12 DEF FilesMoved

\* The fault of the old slide, its origin moved, is that of the new one.
LEMMA SameFault ==
    ASSUME NEW old, NEW o, NEW was, NEW new, NEW s, NEW slide, StandsFor(old, o, was, new, s, slide),
           Failing(old.source, was.blocks, References[old.source]) # {}
    PROVE  Rebind(Fault(old, was.blocks, References[old.source]),
                  slide_origins(old, was), slide_origins(new, slide))
               = Fault(new, slide.blocks, References[new.source])
<1>1. PICK document, other \in Documents : document = old.source /\ other = new.source
    BY StandsAlike
<1>2. PICK references, lookups, blocks, others :
          /\ references = References[document] /\ lookups = References[other]
          /\ blocks = was.blocks /\ others = slide.blocks
    OBVIOUS
<1>3. /\ blocks \in Seq(Blocks(document)) /\ others \in Seq(Blocks(other))
      /\ AlikeSlides(document, blocks, references, other, others, lookups)
    BY <1>1, <1>2, StandsAlike
<1>4. Failing(document, blocks, references) # {}
    BY <1>1, <1>2
<1>5. PICK visited : visited = Visited(document, blocks, references)
    OBVIOUS
<1>6. /\ visited \in DOMAIN blocks /\ Visited(other, others, lookups) = visited
      /\ visited \in 1..visited
      /\ \A b \in 1..visited : SameStop(document, blocks[b], references, other, others[b], lookups)
    <2>1. /\ visited \in 0..Len(blocks) /\ Visited(other, others, lookups) = visited
          /\ visited \in DOMAIN blocks
          /\ \A b \in 1..visited : SameStop(document, blocks[b], references, other, others[b], lookups)
        BY <1>3, <1>4, <1>5, SlidesStop
    <2>2. visited \in 1..Len(blocks) /\ Len(blocks) \in Nat
        BY <1>3, <2>1
    <2>. QED
        BY <2>1, <2>2
<1>7. PICK i, l, bad, worse : /\ i = blocks[visited] /\ l = others[visited]
                              /\ bad = BadLinks(document, i, references)
                              /\ worse = BadLinks(other, l, lookups)
    OBVIOUS
<1>8. /\ worse = {} <=> bad = {}
      /\ bad # {} => Min(worse) = Min(bad) /\ Min(bad) \in DOMAIN Block(document, i).links
    BY <1>6, <1>7 DEF SameStop
<1>9. /\ Fault(old, blocks, references) = IF bad = {} THEN BlockOrigin(old, i) ELSE LinkOrigin(old, i, Min(bad))
      /\ Fault(new, others, lookups) = IF worse = {} THEN BlockOrigin(new, l) ELSE LinkOrigin(new, l, Min(worse))
    BY <1>1, <1>5, <1>6, <1>7, Zenon DEF Fault
<1>10. /\ \A k \in DOMAIN Block(document, i).links :
             Rebind(LinkOrigin(old, i, k), slide_origins(old, was), slide_origins(new, slide)) = LinkOrigin(new, l, k)
       /\ Rebind(BlockOrigin(old, i), slide_origins(old, was), slide_origins(new, slide)) = BlockOrigin(new, l)
    BY <1>1, <1>2, <1>6, <1>7, SamePlace
<1>. QED
    BY <1>1, <1>2, <1>8, <1>9, <1>10

\* A fragment that may be reused is, once its origins have moved, what
\* rendering the slide would give.
LEMMA Reused ==
    ASSUME NEW old, SnapshotSound(old), Distinct(old.templates),
           NEW o \in DOMAIN old.slides, NEW was, was = old.slides[o],
           NEW new, SnapshotSound(new), Distinct(new.templates),
           NEW s \in DOMAIN new.slides, NEW slide, slide = new.slides[s], slide.id = was.id,
           NEW cached, cached = Remembered(old, was),
           IsReusable(cached, slide_input(new, slide), Policies(new), References[new.source])
    PROVE  bind(cached, slide_origins(new, slide)) = Fragment(new, slide)
<1>1. /\ slide_input(old, was) = slide_input(new, slide)
      /\ cached.origins = slide_origins(old, was) /\ cached.result = Fragment(old, was)
    BY ReadsUnchanged
<1>2. StandsFor(old, o, was, new, s, slide)
    BY <1>1, ContinuesIs, LookupsAre DEF StandsFor
<1>3. PICK references, lookups, origins : /\ references = References[old.source]
                                          /\ lookups = References[new.source]
                                          /\ origins = slide_origins(new, slide)
    OBVIOUS
<1>4. PICK failing : /\ failing = Failing(old.source, was.blocks, references)
                     /\ failing = {} <=> Failing(new.source, slide.blocks, lookups) = {}
    <2>1. PICK document, other \in Documents : document = old.source /\ other = new.source
        BY <1>2, StandsAlike
    <2>2. PICK blocks, others : blocks = was.blocks /\ others = slide.blocks
        OBVIOUS
    <2>3. /\ blocks \in Seq(Blocks(document)) /\ others \in Seq(Blocks(other))
          /\ AlikeSlides(document, blocks, references, other, others, lookups)
        BY <1>2, <1>3, <2>1, <2>2, StandsAlike
    <2>4. PICK visited : visited = Visited(document, blocks, references)
        OBVIOUS
    <2>5. Failing(other, others, lookups) = {} <=> Failing(document, blocks, references) = {}
        BY <2>3, <2>4, SlidesStop
    <2>. QED
        BY <2>1, <2>2, <2>5
<1>5. PICK reads : /\ reads = ReadsOf(old, was, references) /\ reads = ReadsOf(new, slide, lookups)
    BY <1>2, <1>3, SameReads
<1>6. CASE failing = {}
    <2>1. PICK body, files, moved :
              /\ body = BodyOf(old, was, Policies(old), references)
              /\ body = BodyOf(new, slide, Policies(new), lookups)
              /\ files = LocalFiles(old, was.blocks, references)
              /\ moved = LocalFiles(new, slide.blocks, lookups)
        <3>1. Failing(old.source, was.blocks, References[old.source]) = {}
            BY <1>3, <1>4, <1>6
        <3>2. BodyOf(new, slide, Policies(new), References[new.source])
                  = BodyOf(old, was, Policies(old), References[old.source])
            BY <1>2, <3>1, SameBodies
        <3>. QED
            BY <1>3, <3>2
    <2>2. cached.result = Whole(body, files, reads)
        BY <1>1, <1>3, <1>4, <1>5, <1>6, <2>1, FragmentIs
    <2>3. bind(cached, origins) = Whole(body, FilesMoved(files, cached.origins, origins), reads)
        BY <2>2, BindWhole DEF HoldsWhole
    <2>4. FilesMoved(files, slide_origins(old, was), slide_origins(new, slide)) = moved
        <3>1. Failing(old.source, was.blocks, References[old.source]) = {}
            BY <1>3, <1>4, <1>6
        <3>2. files = LocalFiles(old, was.blocks, References[old.source])
            BY <1>3, <2>1
        <3>. QED
            BY <1>2, <1>3, <2>1, <3>1, <3>2, SameFiles
    <2>5. bind(cached, slide_origins(new, slide)) = Whole(body, moved, reads)
        BY <1>1, <1>3, <2>3, <2>4, Zenon
    <2>6. Fragment(new, slide) = Whole(body, moved, reads)
        BY <1>3, <1>4, <1>5, <1>6, <2>1, FragmentIs
    <2>. QED
        BY <2>5, <2>6
<1>7. CASE failing # {}
    <2>1. PICK error, moved : /\ error = Fault(old, was.blocks, references)
                              /\ moved = Fault(new, slide.blocks, lookups)
        OBVIOUS
    <2>2. cached.result = Broken(error, reads)
        BY <1>1, <1>3, <1>4, <1>5, <1>7, <2>1, FragmentIs
    <2>3. bind(cached, origins) = Broken(Rebind(error, cached.origins, origins), reads)
        BY <2>2, BindBroken DEF HoldsBroken
    <2>4. Rebind(error, slide_origins(old, was), slide_origins(new, slide)) = moved
        <3>1. Failing(old.source, was.blocks, References[old.source]) # {}
            BY <1>3, <1>4, <1>7
        <3>. QED
            BY <1>2, <1>3, <2>1, <3>1, SameFault
    <2>5. Fragment(new, slide) = Broken(moved, reads)
        BY <1>3, <1>4, <1>5, <1>7, <2>1, FragmentIs
    <2>. QED
        BY <1>1, <1>3, <2>3, <2>4, <2>5
<1>. QED
    BY <1>6, <1>7

-----------------------------------------------------------------------------
(***************************************************************************)
(* Rendering through the cache.                                            *)
(***************************************************************************)
\* Snapshots that cached fragments may have been made from.
Grounded(grounds) == \A old \in grounds : SnapshotSound(old) /\ Distinct(old.templates)

\* Every cached fragment is one that rendering a slide of its handle gave.
Genuine(grounds, cache) ==
    \A id \in DOMAIN cache :
        \E old \in grounds : \E o \in DOMAIN old.slides :
            old.slides[o].id = id /\ cache[id] = Remembered(old, old.slides[o])

Entry(snapshot, k) ==
    [id |-> snapshot.slides[k].id, fragment |-> Fragment(snapshot, snapshot.slides[k])]

Ok(snapshot, k) == Fragment(snapshot, snapshot.slides[k]).ok

\* The first n slides, up to the first that fails.
RenderedUpTo(snapshot, n, slides) ==
    \E l \in 0..n :
        /\ slides = [k \in 1..l |-> Entry(snapshot, k)]
        /\ \A k \in 1..l : k < l => Ok(snapshot, k)
        /\ l < n => l > 0 /\ ~ Ok(snapshot, l)

DrawnFrom(snapshot, grounds, n, made) ==
    Genuine(grounds, made.cache) /\ RenderedUpTo(snapshot, n, made.slides)

WithSlide(snapshot, made, s) ==
    RenderSlide(snapshot, Policies(snapshot), References[snapshot.source], made, snapshot.slides[s])

\* One more slide, rendered or reused, is what rendering it gives.
LEMMA RenderMore ==
    ASSUME NEW grounds, Grounded(grounds), NEW snapshot \in grounds,
           NEW s \in DOMAIN snapshot.slides, NEW made, Genuine(grounds, made.cache)
    PROVE  /\ Genuine(grounds, WithSlide(snapshot, made, s).cache)
           /\ WithSlide(snapshot, made, s).slides = Append(made.slides, Entry(snapshot, s))
<1>1. PICK policies, references, cache, slides, slide, more :
          /\ policies = Policies(snapshot) /\ references = References[snapshot.source]
          /\ cache = made.cache /\ slides = made.slides /\ slide = snapshot.slides[s]
          /\ more = WithSlide(snapshot, made, s)
    OBVIOUS
<1>. DEFINE hit == /\ slide.id \in DOMAIN cache
                   /\ IsReusable(cache[slide.id], slide_input(snapshot, slide), policies, references)
            bound == bind(cache[slide.id], slide_origins(snapshot, slide))
            fragment == render_slide(snapshot, slide, policies, references)
            cached == CachedFragment(snapshot, slide, fragment, policies, references)
            filled == [id \in DOMAIN cache \cup {slide.id} |-> IF id = slide.id THEN cached ELSE cache[id]]
<1>2. more =
          IF hit THEN [slides |-> Append(slides, [id |-> slide.id, fragment |-> bound]), cache |-> cache]
          ELSE [slides |-> Append(slides, [id |-> slide.id, fragment |-> fragment]), cache |-> filled]
    BY <1>1, Zenon DEF RenderSlide, WithSlide
<1>3. Entry(snapshot, s) = [id |-> slide.id, fragment |-> Fragment(snapshot, slide)]
    BY <1>1 DEF Entry
<1>4. CASE hit
    <2>1. PICK old \in grounds : \E o \in DOMAIN old.slides :
              old.slides[o].id = slide.id /\ cache[slide.id] = Remembered(old, old.slides[o])
        BY <1>1, <1>4 DEF Genuine
    <2>2. PICK o \in DOMAIN old.slides :
              old.slides[o].id = slide.id /\ cache[slide.id] = Remembered(old, old.slides[o])
        BY <2>1
    <2>3. PICK was, entry : was = old.slides[o] /\ entry = cache[slide.id] /\ entry = Remembered(old, was)
        BY <2>2
    <2>4. /\ SnapshotSound(old) /\ Distinct(old.templates)
          /\ SnapshotSound(snapshot) /\ Distinct(snapshot.templates)
        BY DEF Grounded
    <2>5. IsReusable(entry, slide_input(snapshot, slide), Policies(snapshot), References[snapshot.source])
        BY <1>1, <1>4, <2>3
    <2>6. bind(entry, slide_origins(snapshot, slide)) = Fragment(snapshot, slide)
        BY <1>1, <2>2, <2>3, <2>4, <2>5, Reused
    <2>7. more = [slides |-> Append(slides, Entry(snapshot, s)), cache |-> cache]
        BY <1>2, <1>3, <1>4, <2>3, <2>6, Zenon
    <2>8. more.slides = Append(slides, Entry(snapshot, s)) /\ more.cache = cache
        BY <2>7
    <2>. QED
        BY <1>1, <2>8
<1>5. CASE ~ hit
    <2>1. fragment = Fragment(snapshot, slide) /\ cached = Remembered(snapshot, slide)
        BY <1>1, Zenon DEF Fragment, Remembered
    <2>2. PICK entry, later : entry = Entry(snapshot, s) /\ later = filled
        OBVIOUS
    <2>3. more = [slides |-> Append(slides, entry), cache |-> later]
        BY <1>2, <1>3, <1>5, <2>1, <2>2, Zenon
    <2>. HIDE DEF fragment, cached, hit
    <2>4. more.slides = Append(slides, entry) /\ more.cache = later
        BY <2>3
    <2>5. ASSUME NEW id \in DOMAIN later
          PROVE  \E old \in grounds : \E o \in DOMAIN old.slides :
                     old.slides[o].id = id /\ later[id] = Remembered(old, old.slides[o])
        <3>1. CASE id = slide.id
            <4>1. later[id] = Remembered(snapshot, slide)
                BY <2>1, <2>2, <3>1
            <4>. QED
                BY <1>1, <3>1, <4>1
        <3>2. CASE id # slide.id
            <4>1. id \in DOMAIN cache /\ later[id] = cache[id]
                BY <2>2, <2>5, <3>2
            <4>. QED
                BY <1>1, <4>1 DEF Genuine
        <3>. QED
            BY <3>1, <3>2
    <2>6. Genuine(grounds, later)
        BY <2>5 DEF Genuine
    <2>. QED
        BY <1>1, <2>2, <2>4, <2>6
<1>. QED
    BY <1>4, <1>5

RedrawInvariant(snapshot, policies, references, grounds, e, slides, n, made) ==
    DrawnFrom(snapshot, grounds, n, made)

Redrawing == INSTANCE SequenceFolds WITH Step <- DrawStep, Invariant <- RedrawInvariant

\* One slide drawn from a genuine cache: the fragment is genuine, and so is the cache after it.
LEMMA DrawNext ==
    ASSUME NEW grounds, Grounded(grounds), NEW snapshot \in grounds,
           NEW n \in Nat, NEW s \in DOMAIN snapshot.slides, s = n + 1,
           NEW slide, slide = snapshot.slides[s],
           NEW policies, policies = Policies(snapshot),
           NEW references, references = References[snapshot.source],
           NEW made, DrawnFrom(snapshot, grounds, n, made)
    PROVE  DrawnFrom(snapshot, grounds, s, DrawStep(snapshot, policies, references, grounds, {}, made, slide))
<1>1. PICK l \in 0..n :
          /\ made.slides = [k \in 1..l |-> Entry(snapshot, k)]
          /\ \A k \in 1..l : k < l => Ok(snapshot, k)
          /\ l < n => l > 0 /\ ~ Ok(snapshot, l)
    BY DEF DrawnFrom, RenderedUpTo
<1>2. PICK slides : /\ slides = made.slides /\ slides = [k \in 1..l |-> Entry(snapshot, k)]
                    /\ slides \in Seq(Range(slides)) /\ Len(slides) = l /\ (l = 0 => slides = <<>>)
    <2>1. PICK slides : slides = made.slides /\ slides = [k \in 1..l |-> Entry(snapshot, k)]
        BY <1>1
    <2>2. DOMAIN slides = 1..l
        BY <2>1
    <2>3. \A k \in 1..l : slides[k] \in Range(slides)
        BY <2>2 DEF Range
    <2>4. slides \in [1..l -> Range(slides)] /\ l \in Nat
        BY <2>1, <2>3
    <2>. QED
        BY <2>1, <2>4
<1>3. ASSUME l > 0
      PROVE  made.slides # <<>> /\ Last(made.slides).fragment.ok = Ok(snapshot, l)
    <2>1. l \in 1..l
        BY <1>3
    <2>2. slides[l] = Entry(snapshot, l) /\ Last(slides) = slides[l] /\ slides # <<>>
        BY <1>2, <1>3, <2>1 DEF Last
    <2>3. Entry(snapshot, l).fragment = Fragment(snapshot, snapshot.slides[l])
        BY DEF Entry
    <2>. QED
        BY <1>2, <2>2, <2>3 DEF Ok
<1>4. CASE l > 0 /\ ~ Ok(snapshot, l)
    <2>1. DrawStep(snapshot, policies, references, grounds, {}, made, slide) = made
        BY <1>3, <1>4 DEF DrawStep
    <2>2. l \in 0..s
        BY <1>1
    <2>3. RenderedUpTo(snapshot, s, made.slides)
        BY <1>1, <1>4, <2>2 DEF RenderedUpTo
    <2>. QED
        BY <2>1, <2>3 DEF DrawnFrom
<1>5. CASE l = 0 \/ Ok(snapshot, l)
    <2>1. PICK more : more = RenderSlide(snapshot, policies, references, made, slide)
        OBVIOUS
    <2>2. DrawStep(snapshot, policies, references, grounds, {}, made, slide) = more
        BY <1>2, <1>3, <1>5, <2>1 DEF DrawStep
    <2>3. Genuine(grounds, more.cache) /\ more.slides = Append(slides, Entry(snapshot, s))
        <3>1. Genuine(grounds, made.cache)
            BY DEF DrawnFrom
        <3>2. more = WithSlide(snapshot, made, s)
            BY <2>1, Zenon DEF WithSlide
        <3>3. Genuine(grounds, more.cache) /\ more.slides = Append(made.slides, Entry(snapshot, s))
            BY <3>1, <3>2, RenderMore
        <3>. QED
            BY <1>2, <3>3
    <2>4. l = n
        BY <1>1, <1>5
    <2>5. PICK entry : entry = Entry(snapshot, s)
        OBVIOUS
    <2>6. Append(slides, entry) = [k \in 1..s |-> Entry(snapshot, k)]
        <3>1. PICK longer : longer = Append(slides, entry)
            OBVIOUS
        <3>2. /\ longer \in Seq(Range(longer)) /\ DOMAIN longer = 1..(l + 1) /\ longer[l + 1] = entry
              /\ \A k \in 1..l : longer[k] = slides[k]
            BY <1>2, <3>1, AppendIs
        <3>3. longer = [k \in 1..s |-> longer[k]]
            BY <2>4, <3>2
        <3>4. \A k \in 1..s : longer[k] = Entry(snapshot, k)
            <4>1. \A k \in 1..s : k \in 1..l \/ k = s
                BY <2>4
            <4>2. \A k \in 1..l : slides[k] = Entry(snapshot, k)
                BY <1>2
            <4>. QED
                BY <2>4, <2>5, <3>2, <4>1, <4>2
        <3>. QED
            BY <3>1, <3>3, <3>4
    <2>7. \A k \in 1..s : k < s => Ok(snapshot, k)
        <3>1. \A k \in 1..s : k < s => k \in 1..l /\ (k < l \/ (k = l /\ l # 0))
            BY <2>4
        <3>. QED
            BY <1>1, <1>5, <3>1
    <2>8. RenderedUpTo(snapshot, s, more.slides)
        <3>1. s \in 0..s /\ ~ (s < s)
            OBVIOUS
        <3>. QED
            BY <2>3, <2>5, <2>6, <2>7, <3>1 DEF RenderedUpTo
    <2>. QED
        BY <2>2, <2>3, <2>8 DEF DrawnFrom
<1>. QED
    BY <1>1, <1>4, <1>5

\* The slides of a deck, and the cache that they leave.
LEMMA SlidesRendered ==
    ASSUME NEW grounds, Grounded(grounds), NEW snapshot \in grounds,
           NEW cache, Genuine(grounds, cache),
           NEW rendered,
           rendered = RenderSlides(snapshot, Policies(snapshot), References[snapshot.source], cache)
    PROVE  /\ Genuine(grounds, rendered.cache)
           /\ RenderedUpTo(snapshot, Len(build_presentation[snapshot.source]), rendered.slides)
<1>1. SnapshotSound(snapshot)
    BY DEF Grounded
<1>2. PICK n, slides : /\ n \in Nat /\ slides = snapshot.slides /\ DOMAIN slides = 1..n
                       /\ n = Len(build_presentation[snapshot.source])
    <2>1. PICK document \in Documents : document = snapshot.source
        BY <1>1 DEF SnapshotSound
    <2>2. PICK laid : laid = build_presentation[document] /\ laid \in Seq(Layouts(document))
        BY PresentationIs
    <2>3. DOMAIN laid = 1..Len(laid) /\ Len(laid) \in Nat
        BY <2>2
    <2>4. DOMAIN snapshot.slides = DOMAIN laid
        BY <1>1, <2>1, <2>2 DEF SnapshotSound
    <2>. QED
        BY <2>1, <2>2, <2>3, <2>4
<1>3. PICK policies, references : policies = Policies(snapshot) /\ references = References[snapshot.source]
    OBVIOUS
<1>4. PICK base : base = [slides |-> <<>>, cache |-> cache]
    OBVIOUS
<1>5. rendered = Redrawing!Fold(snapshot, policies, references, grounds, {}, base, slides)
    <2>1. RenderSlides(snapshot, policies, references, cache) =
              Redrawing!Fold(snapshot, policies, references, grounds, {},
                             [slides |-> <<>>, cache |-> cache], snapshot.slides)
        BY Zenon DEF RenderSlides, FoldLeft, MapThenFoldSet, Max, Redrawing!Fold, Redrawing!IsFold,
                     Redrawing!Greatest, DrawStep
    <2>. QED
        BY <1>2, <1>3, <1>4, <2>1, Zenon
<1>6. DrawnFrom(snapshot, grounds, 0, base)
    <2>1. base.slides = <<>> /\ base.cache = cache
        BY <1>4
    <2>2. <<>> = [k \in 1..0 |-> Entry(snapshot, k)] /\ 0 \in 0..0 /\ \A k \in 1..0 : FALSE
        OBVIOUS
    <2>3. ~ (0 < 0)
        OBVIOUS
    <2>. QED
        BY <2>1, <2>2, <2>3 DEF DrawnFrom, RenderedUpTo
<1>7. ASSUME NEW i \in 1..n, NEW made, DrawnFrom(snapshot, grounds, i - 1, made)
      PROVE  DrawnFrom(snapshot, grounds, i,
                       DrawStep(snapshot, policies, references, grounds, {}, made, slides[i]))
    <2>1. PICK m \in Nat : m = i - 1 /\ i = m + 1
        BY <1>2
    <2>2. PICK slide : slide = slides[i] /\ slide = snapshot.slides[i] /\ i \in DOMAIN snapshot.slides
        BY <1>2
    <2>3. DrawnFrom(snapshot, grounds, m, made)
        BY <1>7, <2>1
    <2>4. DrawnFrom(snapshot, grounds, i, DrawStep(snapshot, policies, references, grounds, {}, made, slide))
        BY <1>3, <2>1, <2>2, <2>3, DrawNext
    <2>. QED
        BY <2>2, <2>4
<1>8. DrawnFrom(snapshot, grounds, n,
                Redrawing!Fold(snapshot, policies, references, grounds, {}, base, slides))
    BY <1>2, <1>6, <1>7, Redrawing!FoldInvariant DEF RedrawInvariant
<1>. QED
    BY <1>2, <1>5, <1>8 DEF DrawnFrom

-----------------------------------------------------------------------------
(***************************************************************************)
(* What two compilers make of one source.                                  *)
(***************************************************************************)
\* All that a deck shows of a snapshot is settled by its source.
Faithful(snapshot) ==
    /\ SnapshotSound(snapshot) /\ Distinct(snapshot.templates)
    /\ LabelsAsAsked(snapshot.source, snapshot.templates)
    /\ \A s \in DOMAIN snapshot.slides :
          /\ HasLabel(snapshot.templates, snapshot.slides[s]) =>
                snapshot.slides[s].id = FirstNode(snapshot.templates, snapshot.slides[s])
          /\ IsLabeled(snapshot.slides[s].id) => HasLabel(snapshot.templates, snapshot.slides[s])

\* An update of a faithful predecessor is a faithful snapshot of its document.
LEMMA UpdatedFaithful ==
    ASSUME RepeatedCellsStandAlone,
           NEW document \in Documents, NEW revision, NEW previous, Usable(previous),
           Distinct(previous.templates), SlidesApart(previous),
           NEW next, next = updated(document, revision, previous)
    PROVE  Faithful(next) /\ next.source = document /\ next.revision = revision
<1>1. SnapshotSound(next) /\ next.source = document /\ next.revision = revision
    BY UpdatedIs
<1>2. Distinct(next.templates)
    BY UpdatedDistinct
<1>3. LabelsAsAsked(document, next.templates)
    BY UpdatedLabels DEF Distinct
<1>4. PICK laid : laid = IdentifySlides(document, next.templates, previous) /\ next.slides = laid.slides
    <2>1. PICK nodes : nodes = semantic_nodes(document, previous.templates, previous.next_id, revision)
        OBVIOUS
    <2>2. PICK laid : laid = IdentifySlides(document, nodes.templates, previous)
        OBVIOUS
    <2>3. next = [source |-> document, revision |-> revision,
                  templates |-> nodes.templates, slides |-> laid.slides,
                  next_id |-> nodes.next, next_slide |-> laid.next_slide]
        BY <2>1, <2>2, Zenon DEF updated, Snapshot
    <2>4. next.templates = nodes.templates /\ next.slides = laid.slides
        BY <2>3
    <2>. QED
        BY <2>2, <2>4
<1>5. PICK templates : templates = next.templates
    OBVIOUS
<1>6. PICK k \in Nat : DOMAIN previous.slides = 1..k
    BY DEF Usable
<1>7. previous.next_slide \in Nat
    BY DEF Usable
<1>8. PICK pick, count : Laid(document, templates, previous, pick, count, laid)
    BY <1>4, <1>5, <1>6, <1>7, LaidIs
<1>9. ASSUME NEW s \in DOMAIN laid.slides, HasLabel(templates, laid.slides[s])
      PROVE  laid.slides[s].id = FirstNode(templates, laid.slides[s])
    <2>1. PICK slides : slides = build_presentation[document]
        OBVIOUS
    <2>2. /\ s \in DOMAIN slides
          /\ laid.slides[s].title = slides[s].title /\ laid.slides[s].blocks = slides[s].blocks
          /\ HasLabel(templates, slides[s]) => laid.slides[s].id = FirstNode(templates, slides[s])
        BY <1>8, <2>1 DEF Laid
    <2>3. /\ HasLabel(templates, laid.slides[s]) <=> HasLabel(templates, slides[s])
          /\ FirstNode(templates, laid.slides[s]) = FirstNode(templates, slides[s])
        BY <2>2 DEF HasLabel, IsTitle, FirstNode
    <2>. QED
        BY <1>9, <2>2, <2>3
<1>10. SlidesApart(next)
    BY UpdatedSlides
<1>. QED
    BY <1>1, <1>2, <1>3, <1>4, <1>5, <1>9, <1>10 DEF Faithful, SlidesApart

\* No slides are slides named apart.
LEMMA NothingApart == SlidesApart(NoSnapshot)
<1>1. DOMAIN NoSnapshot.slides = {}
    BY DEF NoSnapshot
<1>. QED
    BY <1>1, NothingDistinct DEF SlidesApart, Distinct

\* Every snapshot of a reachable state is faithful.
LEMMA AllFaithful ==
    ASSUME RepeatedCellsStandAlone, Lineage, Descent, AllSlidesApart, NEW s \in DOMAIN snapshots
    PROVE  Faithful(snapshots[s])
<1>1. PICK n \in Nat : Len(snapshots) = n /\ DOMAIN snapshots = 1..n
    BY DEF Lineage, Snapshots
<1>2. PICK previous : previous = IF s = 1 THEN NoSnapshot ELSE snapshots[s - 1]
    OBVIOUS
<1>3. Usable(previous) /\ Distinct(previous.templates) /\ SlidesApart(previous)
    <2>1. CASE s = 1
        BY <1>2, <2>1, NoSnapshotUsable, NothingDistinct, NothingApart
    <2>2. CASE s # 1
        <3>1. PICK r \in DOMAIN snapshots : r = s - 1
            BY <1>1, <2>2
        <3>2. previous = snapshots[r]
            BY <1>2, <2>2, <3>1
        <3>3. SnapshotSound(previous) /\ SlidesApart(previous)
            BY <3>2 DEF Lineage, AllSlidesApart
        <3>. QED
            BY <3>2, <3>3, DescentDistinct DEF SnapshotSound
    <2>. QED
        BY <2>1, <2>2
<1>4. PICK next, document, revision :
          next = snapshots[s] /\ document = next.source /\ revision = next.revision
    OBVIOUS
<1>5. next = updated(document, revision, previous) /\ document \in Documents
    BY <1>2, <1>4 DEF Descent, Lineage, SnapshotSound
<1>. QED
    BY <1>3, <1>4, <1>5, UpdatedFaithful

\* A cell is shown as the options of its place say.
LEMMA PoliciesAre ==
    ASSUME NEW snapshot, Faithful(snapshot), NEW at \in AllCells(snapshot)
    PROVE  Policies(snapshot)[CellId(snapshot, at)] = DisplayOptions[snapshot.source][at]
<1>1. PICK id : id = CellId(snapshot, at)
    OBVIOUS
<1>2. \A other \in AllCells(snapshot) : CellId(snapshot, other) = id => other = at
    BY <1>1, PlacesDiffer DEF Faithful
<1>3. (CHOOSE other \in AllCells(snapshot) : CellId(snapshot, other) = id) = at
    BY <1>1, <1>2
<1>4. id \in {CellId(snapshot, other) : other \in AllCells(snapshot)}
    BY <1>1
<1>. QED
    BY <1>1, <1>3, <1>4 DEF Policies

\* A slide has the handle of a label in one snapshot of a source just as in any
\* other, and the same one.
LEMMA SameNames ==
    ASSUME NEW one, Faithful(one), NEW two, Faithful(two), one.source = two.source,
           NEW s \in DOMAIN one.slides, IsLabeled(one.slides[s].id)
    PROVE  two.slides[s].id = one.slides[s].id
<1>1. PICK document \in Documents : document = one.source /\ document = two.source
    BY DEF Faithful, SnapshotSound
<1>2. PICK slide, other : slide = one.slides[s] /\ other = two.slides[s]
    OBVIOUS
<1>3. s \in DOMAIN two.slides /\ slide.title = other.title /\ slide.blocks = other.blocks
    BY <1>1, <1>2 DEF Faithful, SnapshotSound
<1>4. /\ HasLabel(one.templates, slide) /\ slide.id = FirstNode(one.templates, slide)
      /\ ~ IsTitle(slide) /\ IsLabeled(FirstNode(one.templates, slide))
    BY <1>2 DEF Faithful, HasLabel
<1>5. PICK i \in Blocks(document) : i = slide.blocks[1]
    <2>1. SnapshotSound(one)
        BY DEF Faithful
    <2>2. slide.blocks \in Seq(Blocks(document)) /\ slide.blocks # <<>>
        BY <1>1, <1>2, <1>4, <2>1, SlideBlocks
    <2>. QED
        BY <2>2
<1>6. 1 \in 1..SlotCount(Block(document, i))
    BY BlockIs, SlotsAre, SMTT(30) DEF HandleDomains
<1>7. /\ FirstNode(one.templates, slide) = one.templates[i].handles[1]
      /\ FirstNode(two.templates, other) = two.templates[i].handles[1]
    BY <1>3, <1>5 DEF FirstNode, NodeHandle
<1>8. one.templates[i].handles[1] = Desired[document][i][1] /\ IsLabeled(Desired[document][i][1])
    BY <1>1, <1>4, <1>6, <1>7 DEF Faithful, LabelsAsAsked
<1>9. two.templates[i].handles[1] = Desired[document][i][1]
    BY <1>1, <1>6, <1>8 DEF Faithful, LabelsAsAsked
<1>10. HasLabel(two.templates, other)
    BY <1>3, <1>4, <1>7, <1>8, <1>9 DEF HasLabel, IsTitle
<1>11. other.id = FirstNode(two.templates, other)
    BY <1>2, <1>3, <1>10 DEF Faithful
<1>. QED
    BY <1>2, <1>4, <1>7, <1>8, <1>9, <1>11

\* The parts of a deck as its reader sees it.
Anonymized(handle) == IF IsLabeled(handle) THEN handle ELSE None
Located(origin, revision) == [origin EXCEPT !.file = origin.file = revision]
Shown(entry) == [text |-> entry.template.text, shown |-> entry.shown, links |-> entry.links]
VisibleFragment(id, fragment, revision) ==
    [id |-> Anonymized(id),
     body |-> IF fragment.ok
              THEN <<Head(fragment.body),
                     [b \in DOMAIN Tail(fragment.body) |-> Shown(fragment.body[b + 1])]>>
              ELSE <<>>,
     resources |-> [r \in DOMAIN fragment.resources |->
                       <<fragment.resources[r].path, Located(fragment.resources[r].origin, revision)>>],
     error |-> IF fragment.ok THEN None ELSE Located(fragment.error, revision)]

\* What a reader sees of a deck, slide by slide.
LEMMA VisibleIs ==
    ASSUME NEW deck, NEW revision
    PROVE  Visible(deck, revision) =
               [status |-> deck.status, title |-> deck.title,
                codes |-> {d[1] : d \in deck.diagnostics},
                slides |-> [s \in DOMAIN deck.slides |->
                               VisibleFragment(deck.slides[s].id, deck.slides[s].fragment, revision)]]
BY Zenon DEF Visible, VisibleFragment, Anonymized, Located, Shown

\* The body of a fragment without its title.
LEMMA BodyParts ==
    ASSUME NEW S, NEW blocks \in Seq(S), NEW title
    PROVE  /\ Head(<<title>> \o blocks) = title
           /\ DOMAIN Tail(<<title>> \o blocks) = DOMAIN blocks
           /\ \A b \in DOMAIN blocks : (<<title>> \o blocks)[b + 1] = blocks[b]
<1>1. PICK n \in Nat : Len(blocks) = n /\ DOMAIN blocks = 1..n
    OBVIOUS
<1>2. PICK whole : whole = <<title>> \o blocks
    OBVIOUS
<1>3. /\ Len(whole) = 1 + n /\ whole \in Seq(S \cup {title})
      /\ whole[1] = title /\ \A b \in 1..n : whole[b + 1] = blocks[b]
    BY <1>1, <1>2
<1>4. Head(whole) = title /\ DOMAIN Tail(whole) = 1..n
    <2>1. Len(Tail(whole)) = n /\ Tail(whole) \in Seq(S \cup {title})
        BY <1>3
    <2>. QED
        BY <1>3, <2>1
<1>. QED
    BY <1>1, <1>2, <1>3, <1>4

\* What a reader sees of an origin does not depend on the revision.
LEMMA SeenOrigin ==
    ASSUME NEW one, NEW two, NEW start, NEW size
    PROVE  Located(Origin(one, start, size), one.revision) = Located(Origin(two, start, size), two.revision)
<1>1. PICK end, first, second : end = start + size /\ first = one.revision /\ second = two.revision
    OBVIOUS
<1>2. PICK here, there : /\ here = [file |-> first, start |-> start, end |-> end]
                         /\ there = [file |-> second, start |-> start, end |-> end]
    OBVIOUS
<1>3. here.file = first /\ there.file = second
    BY <1>2
<1>4. PICK yes : yes = (here.file = first) /\ yes = (there.file = second)
    BY <1>3
<1>5. [here EXCEPT !.file = yes] = [file |-> yes, start |-> start, end |-> end]
    BY <1>2
<1>6. [there EXCEPT !.file = yes] = [file |-> yes, start |-> start, end |-> end]
    BY <1>2
<1>. QED
    BY <1>1, <1>2, <1>4, <1>5, <1>6, Zenon DEF Located, Origin

\* What a reader sees of a whole fragment.
LEMMA SeenWhole ==
    ASSUME NEW id, NEW title, NEW S, NEW blocks \in Seq(S), NEW files, NEW reads, NEW revision
    PROVE  VisibleFragment(id, Whole(<<title>> \o blocks, files, reads), revision) =
               [id |-> Anonymized(id),
                body |-> <<title, [b \in DOMAIN blocks |-> Shown(blocks[b])]>>,
                resources |-> [r \in DOMAIN files |->
                                  <<files[r].path, Located(files[r].origin, revision)>>],
                error |-> None]
<1>1. PICK body, fragment : body = <<title>> \o blocks /\ fragment = Whole(body, files, reads)
    OBVIOUS
<1>2. fragment.ok = TRUE /\ fragment.body = body /\ fragment.resources = files
    BY <1>1 DEF Whole
<1>3. /\ Head(body) = title /\ DOMAIN Tail(body) = DOMAIN blocks
      /\ \A b \in DOMAIN blocks : body[b + 1] = blocks[b]
    BY <1>1, BodyParts
<1>4. [b \in DOMAIN Tail(body) |-> Shown(body[b + 1])] = [b \in DOMAIN blocks |-> Shown(blocks[b])]
    BY <1>3
<1>5. <<Head(body), [b \in DOMAIN Tail(body) |-> Shown(body[b + 1])]>>
          = <<title, [b \in DOMAIN blocks |-> Shown(blocks[b])]>>
    BY <1>3, <1>4, Zenon
<1>6. VisibleFragment(id, fragment, revision) =
          [id |-> Anonymized(id),
           body |-> <<Head(body), [b \in DOMAIN Tail(body) |-> Shown(body[b + 1])]>>,
           resources |-> [r \in DOMAIN files |-> <<files[r].path, Located(files[r].origin, revision)>>],
           error |-> None]
    BY <1>2, Zenon DEF VisibleFragment
<1>. QED
    BY <1>1, <1>5, <1>6, Zenon

\* What a reader sees of a failed fragment.
LEMMA SeenBroken ==
    ASSUME NEW id, NEW error, NEW reads, NEW revision
    PROVE  VisibleFragment(id, Broken(error, reads), revision) =
               [id |-> Anonymized(id), body |-> <<>>, resources |-> <<>>,
                error |-> Located(error, revision)]
<1>1. PICK fragment : fragment = Broken(error, reads)
    OBVIOUS
<1>2. fragment.ok = FALSE /\ fragment.resources = <<>> /\ fragment.error = error
    BY <1>1 DEF Broken
<1>3. [r \in DOMAIN <<>> |-> <<<<>>[r].path, Located(<<>>[r].origin, revision)>>] = <<>>
    OBVIOUS
<1>4. VisibleFragment(id, fragment, revision) =
          [id |-> Anonymized(id), body |-> <<>>,
           resources |-> [r \in DOMAIN <<>> |-> <<<<>>[r].path, Located(<<>>[r].origin, revision)>>],
           error |-> Located(error, revision)]
    BY <1>2, Zenon DEF VisibleFragment
<1>. QED
    BY <1>1, <1>3, <1>4, Zenon

\* A block as its reader sees it.
SeenBlock(document, i, references) ==
    LET block == Block(document, i)
        Options(j) == DisplayOptions[document][<<i, j>>]
    IN  [text |-> Input[document].blocks[i],
         shown |-> [j \in DOMAIN block.cells |-> Options(j).echo /\ Options(j).include],
         links |-> [k \in DOMAIN block.links |-> Destination(block.links[k], references)]]

\* What a reader sees of a block depends on its document alone, not on the handles it was given.
LEMMA ShownIs ==
    ASSUME NEW snapshot, Faithful(snapshot), NEW i \in Blocks(snapshot.source), NEW references
    PROVE  Shown(RenderBlock(snapshot, i, Policies(snapshot), references))
               = SeenBlock(snapshot.source, i, references)
<1>1. PICK document \in Documents : document = snapshot.source
    BY DEF Faithful, SnapshotSound
<1>2. PICK block, template, policies, options :
          /\ block = Block(document, i) /\ template = snapshot.templates[i]
          /\ policies = Policies(snapshot) /\ options = DisplayOptions[document]
    OBVIOUS
<1>3. template.text = Input[document].blocks[i]
    BY <1>1, <1>2 DEF Faithful, SnapshotSound
<1>4. ASSUME NEW j \in DOMAIN block.cells
      PROVE  policies[CellId(snapshot, <<i, j>>)] = options[<<i, j>>]
    <2>1. <<i, j>> \in AllCells(snapshot)
        BY <1>1, <1>2, CellsOfIs DEF AllCells
    <2>. QED
        BY <1>1, <1>2, <2>1, PoliciesAre
<1>5. PICK shown, seen :
          /\ shown = [j \in DOMAIN block.cells |->
                         policies[CellId(snapshot, <<i, j>>)].echo /\ policies[CellId(snapshot, <<i, j>>)].include]
          /\ seen = [j \in DOMAIN block.cells |-> options[<<i, j>>].echo /\ options[<<i, j>>].include]
    OBVIOUS
<1>6. shown = seen
    BY <1>4, <1>5
<1>7. PICK links : links = [k \in DOMAIN block.links |-> Destination(block.links[k], references)]
    OBVIOUS
<1>8. RenderBlock(snapshot, i, policies, references) = [template |-> template, shown |-> shown, links |-> links]
    BY <1>1, <1>2, <1>5, <1>7, Zenon DEF RenderBlock
<1>9. Shown(RenderBlock(snapshot, i, policies, references))
          = [text |-> template.text, shown |-> shown, links |-> links]
    BY <1>8 DEF Shown
<1>10. SeenBlock(document, i, references) = [text |-> Input[document].blocks[i], shown |-> seen, links |-> links]
    BY <1>2, <1>5, <1>7, Zenon DEF SeenBlock
<1>. QED
    BY <1>1, <1>2, <1>3, <1>6, <1>9, <1>10, Zenon

\* Origins in two snapshots of one source are seen alike.
LEMMA SeenLink ==
    ASSUME NEW one, NEW two, one.source = two.source, NEW i, NEW k
    PROVE  Located(LinkOrigin(one, i, k), one.revision) = Located(LinkOrigin(two, i, k), two.revision)
<1>1. PICK start : start = Starts[one.source][i] + k /\ start = Starts[two.source][i] + k
    OBVIOUS
<1>2. LinkOrigin(one, i, k) = Origin(one, start, 1) /\ LinkOrigin(two, i, k) = Origin(two, start, 1)
    BY <1>1, Zenon DEF LinkOrigin
<1>. QED
    BY <1>2, SeenOrigin

\* The files a reader sees depend on the source alone, not on the revision.
LEMMA SeenFiles ==
    ASSUME NEW one, NEW two, one.source = two.source, NEW blocks, NEW references,
           NEW files, files = LocalFiles(one, blocks, references),
           NEW others, others = LocalFiles(two, blocks, references)
    PROVE  [r \in DOMAIN files |-> <<files[r].path, Located(files[r].origin, one.revision)>>]
               = [r \in DOMAIN others |-> <<others[r].path, Located(others[r].origin, two.revision)>>]
<1>1. PICK needed : /\ needed = NeededBy(one.source, blocks, references)
                    /\ needed = NeededBy(two.source, blocks, references)
    OBVIOUS
<1>2. /\ files = [r \in DOMAIN needed |->
                     [path |-> needed[r].path,
                      origin |-> LinkOrigin(one, blocks[needed[r].at[1]], needed[r].at[2])]]
      /\ others = [r \in DOMAIN needed |->
                      [path |-> needed[r].path,
                       origin |-> LinkOrigin(two, blocks[needed[r].at[1]], needed[r].at[2])]]
    BY <1>1, Zenon DEF LocalFiles
<1>3. ASSUME NEW r \in DOMAIN needed
      PROVE  <<files[r].path, Located(files[r].origin, one.revision)>>
                 = <<others[r].path, Located(others[r].origin, two.revision)>>
    <2>1. PICK i, k, here, there : /\ i = blocks[needed[r].at[1]] /\ k = needed[r].at[2]
                                   /\ here = LinkOrigin(one, i, k) /\ there = LinkOrigin(two, i, k)
        OBVIOUS
    <2>2. /\ files[r].path = needed[r].path /\ files[r].origin = here
          /\ others[r].path = needed[r].path /\ others[r].origin = there
        BY <1>2, <2>1
    <2>3. Located(here, one.revision) = Located(there, two.revision)
        BY <2>1, SeenLink
    <2>. QED
        BY <2>2, <2>3, Zenon
<1>4. DOMAIN files = DOMAIN needed /\ DOMAIN others = DOMAIN needed
    BY <1>2
<1>. QED
    BY <1>3, <1>4

\* The fault a reader sees depends on the source alone, not on the revision.
LEMMA SeenFault ==
    ASSUME NEW one, NEW two, one.source = two.source, NEW blocks, NEW references
    PROVE  Located(Fault(one, blocks, references), one.revision)
               = Located(Fault(two, blocks, references), two.revision)
<1>1. PICK last, bad, first :
          /\ last = blocks[Visited(one.source, blocks, references)]
          /\ last = blocks[Visited(two.source, blocks, references)]
          /\ bad = BadLinks(one.source, last, references) /\ bad = BadLinks(two.source, last, references)
          /\ first = Min(bad)
    OBVIOUS
<1>2. /\ Fault(one, blocks, references) = IF bad = {} THEN BlockOrigin(one, last) ELSE LinkOrigin(one, last, first)
      /\ Fault(two, blocks, references) = IF bad = {} THEN BlockOrigin(two, last) ELSE LinkOrigin(two, last, first)
    BY <1>1, Zenon DEF Fault
<1>3. Located(BlockOrigin(one, last), one.revision) = Located(BlockOrigin(two, last), two.revision)
    <2>1. PICK start, size : /\ start = Starts[one.source][last] /\ size = Block(one.source, last).size
                             /\ start = Starts[two.source][last] /\ size = Block(two.source, last).size
        OBVIOUS
    <2>2. BlockOrigin(one, last) = Origin(one, start, size) /\ BlockOrigin(two, last) = Origin(two, start, size)
        BY <2>1, Zenon DEF BlockOrigin
    <2>. QED
        BY <2>2, SeenOrigin
<1>4. Located(LinkOrigin(one, last, first), one.revision) = Located(LinkOrigin(two, last, first), two.revision)
    BY SeenLink
<1>. QED
    BY <1>2, <1>3, <1>4, Zenon

\* The blocks of a slide as its reader sees them.
LEMMA SeenBlocks ==
    ASSUME NEW snapshot, Faithful(snapshot), NEW references,
           NEW blocks, blocks \in Seq(Blocks(snapshot.source))
    PROVE  [b \in DOMAIN blocks |-> Shown(RenderBlock(snapshot, blocks[b], Policies(snapshot), references))]
               = [b \in DOMAIN blocks |-> SeenBlock(snapshot.source, blocks[b], references)]
<1>1. ASSUME NEW b \in DOMAIN blocks
      PROVE  Shown(RenderBlock(snapshot, blocks[b], Policies(snapshot), references))
                 = SeenBlock(snapshot.source, blocks[b], references)
    <2>1. PICK i \in Blocks(snapshot.source) : i = blocks[b]
        OBVIOUS
    <2>. QED
        BY <2>1, ShownIs
<1>. QED
    BY <1>1

\* A slide looks the same in two snapshots of one source, and fails in both or
\* in neither.
LEMMA SameView ==
    ASSUME NEW one, Faithful(one), NEW two, Faithful(two), one.source = two.source,
           NEW s \in DOMAIN one.slides
    PROVE  /\ s \in DOMAIN two.slides
           /\ Ok(one, s) = Ok(two, s)
           /\ VisibleFragment(one.slides[s].id, Fragment(one, one.slides[s]), one.revision)
                  = VisibleFragment(two.slides[s].id, Fragment(two, two.slides[s]), two.revision)
<1>1. PICK document \in Documents : document = one.source /\ document = two.source
    BY DEF Faithful, SnapshotSound
<1>2. PICK slide, other : slide = one.slides[s] /\ other = two.slides[s]
    OBVIOUS
<1>3. s \in DOMAIN two.slides /\ slide.title = other.title /\ slide.blocks = other.blocks
    BY <1>1, <1>2 DEF Faithful, SnapshotSound
<1>4. PICK title, blocks : /\ title = slide.title /\ title = other.title
                           /\ blocks = slide.blocks /\ blocks = other.blocks
    BY <1>3
<1>5. blocks \in Seq(Blocks(document))
    BY <1>1, <1>2, <1>4, SlideBlocks DEF Faithful
<1>6. PICK references, failing : /\ references = References[document]
                                 /\ failing = Failing(document, blocks, references)
    OBVIOUS
<1>7. Anonymized(slide.id) = Anonymized(other.id)
    <2>1. IsLabeled(slide.id) => other.id = slide.id
        BY <1>1, <1>2, SameNames
    <2>2. IsLabeled(other.id) => slide.id = other.id
        BY <1>1, <1>2, <1>3, SameNames
    <2>. QED
        BY <2>1, <2>2 DEF Anonymized
<1>8. Ok(one, s) = (failing = {}) /\ Ok(two, s) = (failing = {})
    <2>1. /\ Fragment(one, slide).ok = (Failing(one.source, slide.blocks, References[one.source]) = {})
          /\ Fragment(two, other).ok = (Failing(two.source, other.blocks, References[two.source]) = {})
        BY FragmentReads, Zenon
    <2>2. /\ failing = Failing(one.source, slide.blocks, References[one.source])
          /\ failing = Failing(two.source, other.blocks, References[two.source])
        BY <1>1, <1>4, <1>6, Zenon
    <2>. QED
        BY <1>2, <2>1, <2>2, Zenon DEF Ok
<1>9. CASE failing = {}
    <2>. DEFINE body(snapshot) ==
                    [b \in DOMAIN blocks |-> RenderBlock(snapshot, blocks[b], Policies(snapshot), references)]
    <2>1. PICK n \in Nat : Len(blocks) = n /\ DOMAIN blocks = 1..n
        BY <1>5
    <2>2. PICK first, second : first = body(one) /\ second = body(two)
        OBVIOUS
    <2>3. first \in Seq(Range(first)) /\ second \in Seq(Range(second))
        BY <2>1, <2>2 DEF Range
    <2>4. PICK files, others : /\ files = LocalFiles(one, blocks, references)
                               /\ others = LocalFiles(two, blocks, references)
        OBVIOUS
    <2>5. PICK reads, read : /\ reads = ReadsOf(one, slide, references)
                             /\ read = ReadsOf(two, other, references)
        OBVIOUS
    <2>6. /\ Fragment(one, slide) = Whole(<<title>> \o first, files, reads)
          /\ Fragment(two, other) = Whole(<<title>> \o second, others, read)
        <3>1. /\ BodyOf(one, slide, Policies(one), references) = <<title>> \o first
              /\ BodyOf(two, other, Policies(two), references) = <<title>> \o second
            BY <1>4, <2>2, Zenon DEF BodyOf
        <3>2. Fragment(one, slide) = Whole(BodyOf(one, slide, Policies(one), references), files, reads)
            BY <1>1, <1>4, <1>6, <1>9, <2>4, <2>5, FragmentIs
        <3>3. Fragment(two, other) = Whole(BodyOf(two, other, Policies(two), references), others, read)
            BY <1>1, <1>4, <1>6, <1>9, <2>4, <2>5, FragmentIs
        <3>. QED
            BY <3>1, <3>2, <3>3, Zenon
    <2>7. [b \in DOMAIN first |-> Shown(first[b])] = [b \in DOMAIN second |-> Shown(second[b])]
        <3>1. PICK seen : seen = [b \in DOMAIN blocks |-> SeenBlock(document, blocks[b], references)]
            OBVIOUS
        <3>2. DOMAIN first = DOMAIN blocks /\ DOMAIN second = DOMAIN blocks
            BY <2>2
        <3>3. [b \in DOMAIN first |-> Shown(first[b])] =
                  [b \in DOMAIN blocks |-> Shown(RenderBlock(one, blocks[b], Policies(one), references))]
            BY <2>2, <3>2
        <3>4. [b \in DOMAIN second |-> Shown(second[b])] =
                  [b \in DOMAIN blocks |-> Shown(RenderBlock(two, blocks[b], Policies(two), references))]
            BY <2>2, <3>2
        <3>5. [b \in DOMAIN first |-> Shown(first[b])] = seen
            BY <1>1, <1>5, <3>1, <3>3, SeenBlocks
        <3>6. [b \in DOMAIN second |-> Shown(second[b])] = seen
            BY <1>1, <1>5, <3>1, <3>4, SeenBlocks
        <3>. QED
            BY <3>5, <3>6
    <2>8. [r \in DOMAIN files |-> <<files[r].path, Located(files[r].origin, one.revision)>>]
              = [r \in DOMAIN others |-> <<others[r].path, Located(others[r].origin, two.revision)>>]
        BY <2>4, SeenFiles
    <2>. HIDE DEF body
    <2>9. VisibleFragment(slide.id, Whole(<<title>> \o first, files, reads), one.revision) =
              [id |-> Anonymized(slide.id),
               body |-> <<title, [b \in DOMAIN first |-> Shown(first[b])]>>,
               resources |-> [r \in DOMAIN files |->
                                 <<files[r].path, Located(files[r].origin, one.revision)>>],
               error |-> None]
        BY <2>3, SeenWhole
    <2>10. VisibleFragment(other.id, Whole(<<title>> \o second, others, read), two.revision) =
              [id |-> Anonymized(other.id),
               body |-> <<title, [b \in DOMAIN second |-> Shown(second[b])]>>,
               resources |-> [r \in DOMAIN others |->
                                 <<others[r].path, Located(others[r].origin, two.revision)>>],
               error |-> None]
        BY <2>3, SeenWhole
    <2>11. VisibleFragment(slide.id, Fragment(one, slide), one.revision)
              = VisibleFragment(other.id, Fragment(two, other), two.revision)
        BY <1>7, <2>6, <2>7, <2>8, <2>9, <2>10, Zenon
    <2>. QED
        BY <1>2, <1>3, <1>8, <2>11, Zenon
<1>10. CASE failing # {}
    <2>1. PICK reads, read : /\ reads = ReadsOf(one, slide, references)
                             /\ read = ReadsOf(two, other, references)
        OBVIOUS
    <2>2. PICK fault, error : /\ fault = Fault(one, blocks, references)
                              /\ error = Fault(two, blocks, references)
        OBVIOUS
    <2>3. Fragment(one, slide) = Broken(fault, reads) /\ Fragment(two, other) = Broken(error, read)
        BY <1>1, <1>4, <1>6, <1>10, <2>1, <2>2, FragmentIs
    <2>4. Located(fault, one.revision) = Located(error, two.revision)
        BY <2>2, SeenFault
    <2>5. /\ VisibleFragment(slide.id, Broken(fault, reads), one.revision) =
                 [id |-> Anonymized(slide.id), body |-> <<>>, resources |-> <<>>,
                  error |-> Located(fault, one.revision)]
          /\ VisibleFragment(other.id, Broken(error, read), two.revision) =
                 [id |-> Anonymized(other.id), body |-> <<>>, resources |-> <<>>,
                  error |-> Located(error, two.revision)]
        BY SeenBroken
    <2>6. VisibleFragment(slide.id, Fragment(one, slide), one.revision)
              = VisibleFragment(other.id, Fragment(two, other), two.revision)
        BY <1>7, <2>3, <2>4, <2>5, Zenon
    <2>. QED
        BY <1>2, <1>3, <1>8, <2>6, Zenon
<1>. QED
    BY <1>9, <1>10

\* The slides of a deck as its reader sees them.
SeenSlides(slides, revision) ==
    [s \in DOMAIN slides |-> VisibleFragment(slides[s].id, slides[s].fragment, revision)]

\* As many slides as preparing the snapshot renders.
Complete(snapshot, slides) ==
    RenderedUpTo(snapshot, Len(build_presentation[snapshot.source]), slides)

\* The slides of two decks of one source look the same, one by one.
LEMMA SameSlides ==
    ASSUME NEW one, Faithful(one), NEW two, Faithful(two), one.source = two.source,
           NEW slides, Complete(one, slides),
           NEW others, Complete(two, others)
    PROVE  /\ SeenSlides(slides, one.revision) = SeenSlides(others, two.revision)
           /\ StatusOf(slides) = StatusOf(others)
<1>1. PICK n \in Nat : /\ n = Len(build_presentation[one.source])
                       /\ n = Len(build_presentation[two.source]) /\ DOMAIN one.slides = 1..n
    <2>1. PICK document \in Documents : document = one.source
        BY DEF Faithful, SnapshotSound
    <2>2. PICK laid : laid = build_presentation[document] /\ laid \in Seq(Layouts(document))
        BY PresentationIs
    <2>3. DOMAIN laid = 1..Len(laid) /\ Len(laid) \in Nat
        BY <2>2
    <2>4. DOMAIN one.slides = DOMAIN laid
        BY <2>1, <2>2 DEF Faithful, SnapshotSound
    <2>. QED
        BY <2>1, <2>2, <2>3, <2>4
<1>2. ASSUME NEW k \in 1..n
      PROVE  /\ Ok(one, k) <=> Ok(two, k)
             /\ VisibleFragment(one.slides[k].id, Fragment(one, one.slides[k]), one.revision)
                    = VisibleFragment(two.slides[k].id, Fragment(two, two.slides[k]), two.revision)
    <2>1. k \in DOMAIN one.slides
        BY <1>1
    <2>. QED
        BY <2>1, SameView
<1>3. PICK l \in 0..n : /\ slides = [k \in 1..l |-> Entry(one, k)]
                        /\ \A k \in 1..l : k < l => Ok(one, k)
                        /\ l < n => l > 0 /\ ~ Ok(one, l)
    BY <1>1 DEF Complete, RenderedUpTo
<1>4. PICK m \in 0..n : /\ others = [k \in 1..m |-> Entry(two, k)]
                        /\ \A k \in 1..m : k < m => Ok(two, k)
                        /\ m < n => m > 0 /\ ~ Ok(two, m)
    BY <1>1 DEF Complete, RenderedUpTo
<1>5. l = m
    <2>1. CASE l < m
        <3>1. l < n /\ l \in 1..n /\ l \in 1..m
            BY <1>1, <1>3, <1>4, <2>1
        <3>. QED
            BY <1>2, <1>3, <1>4, <2>1, <3>1
    <2>2. CASE m < l
        <3>1. m < n /\ m \in 1..n /\ m \in 1..l
            BY <1>1, <1>3, <1>4, <2>2
        <3>. QED
            BY <1>2, <1>3, <1>4, <2>2, <3>1
    <2>. QED
        BY <1>1, <2>1, <2>2
<1>6. DOMAIN slides = 1..l /\ DOMAIN others = 1..l
    BY <1>3, <1>4, <1>5
<1>7. ASSUME NEW k \in 1..l
      PROVE  /\ VisibleFragment(slides[k].id, slides[k].fragment, one.revision)
                    = VisibleFragment(others[k].id, others[k].fragment, two.revision)
             /\ slides[k].fragment.ok <=> others[k].fragment.ok
    <2>1. k \in 1..n
        BY <1>1
    <2>2. slides[k].id = one.slides[k].id /\ slides[k].fragment = Fragment(one, one.slides[k])
        BY <1>3 DEF Entry
    <2>3. others[k].id = two.slides[k].id /\ others[k].fragment = Fragment(two, two.slides[k])
        BY <1>4, <1>5 DEF Entry
    <2>. QED
        BY <1>2, <2>1, <2>2, <2>3, Zenon DEF Ok
<1>8. SeenSlides(slides, one.revision) = SeenSlides(others, two.revision)
    BY <1>6, <1>7 DEF SeenSlides
<1>9. StatusOf(slides) = StatusOf(others)
    BY <1>6, <1>7, Zenon DEF StatusOf
<1>. QED
    BY <1>8, <1>9

\* A refused deck as its reader sees it, and one with slides.
RefusedView(codes) == [status |-> "refused", title |-> None, codes |-> codes, slides |-> <<>>]
SlidesView(document, slides, revision) ==
    [status |-> StatusOf(slides), title |-> DeckTitle(document), codes |-> {},
     slides |-> SeenSlides(slides, revision)]

\* A refused deck shows its diagnostics' codes and nothing else.
LEMMA SeenRefused ==
    ASSUME NEW diagnostics, NEW reads, NEW revision
    PROVE  Visible(Refused(diagnostics, reads), revision) = RefusedView({d[1] : d \in diagnostics})
<1>1. PICK deck : deck = Refused(diagnostics, reads)
    OBVIOUS
<1>2. deck.status = "refused" /\ deck.diagnostics = diagnostics /\ deck.slides = <<>>
    BY <1>1, RefusedIs
<1>3. deck.title = None
    BY <1>1 DEF Refused, NoDeck
<1>4. Visible(deck, revision) =
          [status |-> "refused", title |-> None, codes |-> {d[1] : d \in diagnostics},
           slides |-> SeenSlides(<<>>, revision)]
    BY <1>2, <1>3, VisibleIs, Zenon DEF SeenSlides
<1>5. SeenSlides(<<>>, revision) = <<>>
    BY DEF SeenSlides
<1>. QED
    BY <1>1, <1>4, <1>5, Zenon DEF RefusedView

\* The codes of the diagnostics for unavailable results.
LEMMA UnavailableCodes ==
    ASSUME NEW snapshot, NEW mode, EnabledCells(snapshot) # {}
    PROVE  {d[1] : d \in Unavailable(snapshot, mode)} =
               {IF mode THEN "result-unavailable" ELSE "execution-unavailable"}
<1>1. PICK code : code = IF mode THEN "result-unavailable" ELSE "execution-unavailable"
    OBVIOUS
<1>2. Unavailable(snapshot, mode) = {<<code, CellId(snapshot, at)>> : at \in EnabledCells(snapshot)}
    BY <1>1, Zenon DEF Unavailable, EnabledCells
<1>3. \A id : <<code, id>>[1] = code
    OBVIOUS
<1>4. \A d \in Unavailable(snapshot, mode) : d[1] = code
    BY <1>2, <1>3
<1>5. Unavailable(snapshot, mode) # {}
    BY <1>2
<1>. QED
    BY <1>1, <1>4, <1>5

\* A deck prepared with a cache of fragments that rendering gave.
DeckGenuine(snapshot, mode, deck) ==
    \E grounds, cache :
        /\ Grounded(grounds) /\ snapshot \in grounds /\ Genuine(grounds, cache)
        /\ deck = compile_deck(snapshot, mode, cache).deck

\* What such a deck looks like, in each case of its preparation.
DeckViews(snapshot, mode, view) ==
    LET document == snapshot.source
        Codes(diagnostics) == {d[1] : d \in diagnostics}
    IN  \/ inspection[document] # {} /\ view = RefusedView(Codes(inspection[document]))
        \/ /\ inspection[document] = {} /\ DisplayErrors[document] # {}
           /\ view = RefusedView(Codes(DisplayErrors[document]))
        \/ /\ inspection[document] = {} /\ DisplayErrors[document] = {} /\ EnabledCells(snapshot) # {}
           /\ view = RefusedView(Codes(Unavailable(snapshot, mode)))
        \/ /\ inspection[document] = {} /\ DisplayErrors[document] = {} /\ EnabledCells(snapshot) = {}
           /\ \E slides : /\ Complete(snapshot, slides)
                          /\ view = SlidesView(document, slides, snapshot.revision)

\* What a reader sees of a genuine deck, in each of its outcomes.
LEMMA DeckSeen ==
    ASSUME NEW snapshot, Faithful(snapshot), NEW mode, NEW deck, DeckGenuine(snapshot, mode, deck)
    PROVE  DeckViews(snapshot, mode, Visible(deck, snapshot.revision))
<1>1. PICK grounds, cache, made :
          /\ Grounded(grounds) /\ snapshot \in grounds /\ Genuine(grounds, cache)
          /\ made = compile_deck(snapshot, mode, cache) /\ deck = made.deck
    BY DEF DeckGenuine
<1>2. PICK document, view : document = snapshot.source /\ view = Visible(deck, snapshot.revision)
    OBVIOUS
<1>3. DeckCases(snapshot, mode, cache, made)
    BY <1>1, DeckIs
<1>4. CASE inspection[document] # {}
    <2>1. \E reads : deck = Refused(inspection[document], reads)
        BY <1>1, <1>2, <1>3, <1>4 DEF DeckCases
    <2>2. view = RefusedView({d[1] : d \in inspection[document]})
        BY <1>2, <2>1, SeenRefused
    <2>. QED
        BY <1>2, <1>4, <2>2 DEF DeckViews
<1>5. CASE inspection[document] = {} /\ DisplayErrors[document] # {}
    <2>1. \E reads : deck = Refused(DisplayErrors[document], reads)
        BY <1>1, <1>2, <1>3, <1>5 DEF DeckCases
    <2>2. view = RefusedView({d[1] : d \in DisplayErrors[document]})
        BY <1>2, <2>1, SeenRefused
    <2>. QED
        BY <1>2, <1>5, <2>2 DEF DeckViews
<1>6. CASE /\ inspection[document] = {} /\ DisplayErrors[document] = {} /\ EnabledCells(snapshot) # {}
    <2>1. \E reads : deck = Refused(Unavailable(snapshot, mode), reads)
        BY <1>1, <1>2, <1>3, <1>6 DEF DeckCases
    <2>2. view = RefusedView({d[1] : d \in Unavailable(snapshot, mode)})
        BY <1>2, <2>1, SeenRefused
    <2>. QED
        BY <1>2, <1>6, <2>2 DEF DeckViews
<1>7. CASE /\ inspection[document] = {} /\ DisplayErrors[document] = {} /\ EnabledCells(snapshot) = {}
    <2>1. PICK rendered :
              /\ rendered = RenderSlides(snapshot, Policies(snapshot), References[document], cache)
              /\ deck.slides = rendered.slides /\ deck.status = StatusOf(rendered.slides)
              /\ deck.diagnostics = {} /\ deck.title = DeckTitle(document)
        BY <1>1, <1>2, <1>3, <1>7 DEF DeckCases
    <2>2. PICK slides : slides = rendered.slides
        OBVIOUS
    <2>3. Complete(snapshot, slides)
        BY <1>1, <1>2, <2>1, <2>2, SlidesRendered DEF Complete
    <2>4. {d[1] : d \in {}} = {}
        OBVIOUS
    <2>5. view = SlidesView(document, slides, snapshot.revision)
        BY <1>2, <2>1, <2>2, <2>4, VisibleIs, Zenon DEF SlidesView, SeenSlides
    <2>. QED
        BY <1>2, <1>7, <2>3, <2>5 DEF DeckViews
<1>. QED
    BY <1>4, <1>5, <1>6, <1>7

\* Decks of one source in two compilers look the same.
LEMMA SameDecks ==
    ASSUME NEW one, Faithful(one), NEW two, Faithful(two), one.source = two.source, NEW mode,
           NEW deck, DeckGenuine(one, mode, deck), NEW other, DeckGenuine(two, mode, other)
    PROVE  Visible(deck, one.revision) = Visible(other, two.revision)
<1>1. PICK document, here, there :
          /\ document = one.source /\ document = two.source
          /\ here = Visible(deck, one.revision) /\ there = Visible(other, two.revision)
    OBVIOUS
<1>2. DeckViews(one, mode, here) /\ DeckViews(two, mode, there)
    BY <1>1, DeckSeen
<1>3. EnabledCells(one) = EnabledCells(two)
    BY DEF EnabledCells, AllCells
<1>4. EnabledCells(one) # {} =>
          {d[1] : d \in Unavailable(one, mode)} = {d[1] : d \in Unavailable(two, mode)}
    BY <1>3, UnavailableCodes
<1>5. ASSUME NEW slides, Complete(one, slides),
             NEW others, Complete(two, others)
      PROVE  SlidesView(document, slides, one.revision) = SlidesView(document, others, two.revision)
    <2>1. /\ SeenSlides(slides, one.revision) = SeenSlides(others, two.revision)
          /\ StatusOf(slides) = StatusOf(others)
        BY <1>1, <1>5, SameSlides
    <2>. QED
        BY <2>1, Zenon DEF SlidesView
<1>6. CASE inspection[document] # {} \/ DisplayErrors[document] # {}
    BY <1>1, <1>2, <1>6 DEF DeckViews
<1>7. CASE inspection[document] = {} /\ DisplayErrors[document] = {} /\ EnabledCells(one) # {}
    BY <1>1, <1>2, <1>3, <1>4, <1>7 DEF DeckViews
<1>8. CASE inspection[document] = {} /\ DisplayErrors[document] = {} /\ EnabledCells(one) = {}
    BY <1>1, <1>2, <1>3, <1>5, <1>8 DEF DeckViews
<1>. QED
    BY <1>1, <1>6, <1>7, <1>8

-----------------------------------------------------------------------------
(***************************************************************************)
(* Decks and clean builds.                                                 *)
(***************************************************************************)
\* The cache holds only what rendering slides of snapshots handed out gave, and
\* so does every deck.
GenuineDecks ==
    /\ Genuine(Range(snapshots), fragments)
    /\ \A s \in DOMAIN snapshots : \A mode \in Modes :
          html[s][mode] = NoDeck \/ DeckGenuine(snapshots[s], mode, html[s][mode])

\* A genuine cache stays genuine as more snapshots join its grounds.
LEMMA GenuineGrows ==
    ASSUME NEW grounds, NEW more, grounds \subseteq more, NEW cache, Genuine(grounds, cache)
    PROVE  Genuine(more, cache)
BY DEF Genuine

\* Nothing is cached at the start.
LEMMA GenuineInit == Init => GenuineDecks
<1>. SUFFICES ASSUME Init PROVE GenuineDecks
    OBVIOUS
<1>1. \E first : snapshots = <<first>>
    BY DEF Init, CompilerInit
<1>2. html = <<Unrendered>> /\ fragments = <<>>
    BY DEF Init
<1>3. DOMAIN snapshots = {1} /\ html[1] = Unrendered /\ DOMAIN fragments = {}
    BY <1>1, <1>2
<1>4. \A mode \in Modes : Unrendered[mode] = NoDeck
    BY DEF Unrendered
<1>. QED
    BY <1>3, <1>4 DEF GenuineDecks, Genuine

\* Every snapshot can ground cached fragments.
LEMMA AllGrounded ==
    ASSUME RepeatedCellsStandAlone, Lineage, Descent
    PROVE  Grounded(Range(snapshots))
<1>1. \A s \in DOMAIN snapshots : SnapshotSound(snapshots[s]) /\ Distinct(snapshots[s].templates)
    BY DescentDistinct DEF Lineage
<1>. QED
    BY <1>1 DEF Grounded, Range

\* Every step keeps the cache and the decks genuine.
LEMMA GenuineNext ==
    ASSUME RepeatedCellsStandAlone
    PROVE  Lineage /\ Descent /\ Decks /\ GenuineDecks /\ [Next]_vars => GenuineDecks'
<1>. SUFFICES ASSUME Lineage, Descent, Decks, GenuineDecks, [Next]_vars PROVE GenuineDecks'
    OBVIOUS
<1>0. PICK n \in Nat : /\ Len(snapshots) = n /\ DOMAIN snapshots = 1..n
                       /\ Len(html) = n /\ DOMAIN html = 1..n /\ html \in Seq(Range(html))
    <2>1. PICK n \in Nat : Len(snapshots) = n /\ DOMAIN snapshots = 1..n
        BY DEF Lineage, Snapshots
    <2>2. html \in Seq(Range(html)) /\ DOMAIN html = 1..n
        BY <2>1 DEF Decks
    <2>3. Len(html) = n
        BY <2>2
    <2>. QED
        BY <2>1, <2>2, <2>3
<1>1. CASE UNCHANGED vars
    BY <1>1 DEF vars, GenuineDecks, Range
<1>2. ASSUME NEW document \in Documents, Update(document)
      PROVE  GenuineDecks'
    <2>1. PICK next : snapshots' = Append(snapshots, next)
        BY <1>2 DEF Update, update_source_with_changes
    <2>2. html' = Append(html, Unrendered)
        BY <1>2 DEF Update
    <2>3. /\ DOMAIN snapshots' = 1..(n + 1)
          /\ \A i \in 1..n : snapshots'[i] = snapshots[i]
        BY <1>0, <2>1, AppendIs DEF Lineage, Snapshots
    <2>4. /\ html'[n + 1] = Unrendered
          /\ \A i \in 1..n : html'[i] = html[i]
        BY <1>0, <2>2, AppendIs
    <2>5. ASSUME NEW s \in 1..(n + 1), NEW mode \in Modes
          PROVE  html'[s][mode] = NoDeck \/ DeckGenuine(snapshots'[s], mode, html'[s][mode])
        <3>1. CASE s = n + 1
            BY <2>4, <3>1 DEF Unrendered
        <3>2. CASE s # n + 1
            <4>1. s \in 1..n
                BY <3>2
            <4>2. html'[s] = html[s] /\ snapshots'[s] = snapshots[s]
                BY <2>3, <2>4, <4>1
            <4>. QED
                BY <1>0, <4>1, <4>2 DEF GenuineDecks
        <3>. QED
            BY <3>1, <3>2
    <2>6. PICK grounds, more : grounds = Range(snapshots) /\ more = Range(snapshots')
        OBVIOUS
    <2>7. grounds \subseteq more
        BY <1>0, <2>3, <2>6 DEF Range
    <2>8. Genuine(grounds, fragments')
        <3>1. PICK S : fragments' = Restrict(fragments, DOMAIN fragments \cap S)
            BY <1>2 DEF Update
        <3>2. /\ DOMAIN fragments' \subseteq DOMAIN fragments
              /\ \A id \in DOMAIN fragments' : fragments'[id] = fragments[id]
            BY <3>1 DEF Restrict
        <3>. QED
            BY <2>6, <3>2 DEF GenuineDecks, Genuine
    <2>9. Genuine(more, fragments')
        BY <2>7, <2>8, GenuineGrows
    <2>. QED
        BY <2>3, <2>5, <2>6, <2>9 DEF GenuineDecks
<1>3. ASSUME NEW s \in DOMAIN snapshots, NEW mode \in Modes, prepare(s, mode)
      PROVE  GenuineDecks'
    <2>1. PICK made : /\ made = compile_deck(snapshots[s], mode, fragments)
                      /\ html' = [html EXCEPT ![s][mode] = made.deck]
                      /\ fragments' = made.cache /\ snapshots' = snapshots
        BY <1>3 DEF prepare
    <2>2. PICK snapshot, grounds : snapshot = snapshots[s] /\ grounds = Range(snapshots)
        OBVIOUS
    <2>3. Grounded(grounds) /\ snapshot \in grounds /\ Genuine(grounds, fragments)
        BY <2>2, AllGrounded DEF Range, GenuineDecks
    <2>4. Genuine(grounds, made.cache)
        <3>1. PICK rendered : rendered = RenderSlides(snapshot, Policies(snapshot),
                                                      References[snapshot.source], fragments)
            OBVIOUS
        <3>2. DeckCases(snapshot, mode, fragments, made)
            BY <2>1, <2>2, DeckIs
        <3>3. made.cache = fragments \/ made.cache = rendered.cache
            BY <3>1, <3>2 DEF DeckCases
        <3>4. Genuine(grounds, rendered.cache)
            BY <2>3, <3>1, SlidesRendered
        <3>. QED
            BY <2>3, <3>3, <3>4
    <2>5. DeckGenuine(snapshot, mode, made.deck)
        BY <2>1, <2>2, <2>3 DEF DeckGenuine
    <2>6. ASSUME NEW r \in 1..n, NEW m \in Modes
          PROVE  html'[r][m] = html[r][m] \/ (r = s /\ m = mode /\ html'[r][m] = made.deck)
        BY <1>0, <2>1 DEF Decks
    <2>7. ASSUME NEW r \in 1..n, NEW m \in Modes
          PROVE  html'[r][m] = NoDeck \/ DeckGenuine(snapshots[r], m, html'[r][m])
        BY <1>0, <2>2, <2>5, <2>6 DEF GenuineDecks
    <2>. QED
        BY <1>0, <2>1, <2>2, <2>4, <2>7 DEF GenuineDecks
<1>. QED
    BY <1>1, <1>2, <1>3 DEF Next

\* Every deck shown was drawn from a cache whose fragments were each rendered for a slide of some
\* snapshot that is sound and names its handles apart, and so is the cache that the compiler
\* shares between revisions (the inductive invariant of DecksMatchCleanBuilds).
THEOREM DecksAreGenuine ==
    ASSUME RepeatedCellsStandAlone
    PROVE  Spec => []GenuineDecks
BY LineageInit, LineageNext, DescentInit, DescentNext, DecksInit, DecksNext, GenuineInit, GenuineNext,
   PTL DEF Spec

\* Whatever edits and renders came before, of whichever snapshots, a deck is
\* the deck of a clean build of its source, if cells of one text in a document
\* are the only cells of blocks that repeat one text.
THEOREM DecksMatchCleanBuilds ==
    ASSUME RepeatedCellsStandAlone
    PROVE  Spec => []HtmlMatchesCleanBuild
<1>1. ASSUME NEW document \in Documents, NEW mode \in Modes,
             NEW snapshot, Faithful(snapshot), snapshot.source = document,
             NEW deck, DeckGenuine(snapshot, mode, deck)
      PROVE  Visible(deck, snapshot.revision) = CleanBuild[document][mode]
    <2>1. PICK clean : clean = updated(document, 0, NoSnapshot)
        OBVIOUS
    <2>2. Faithful(clean) /\ clean.source = document /\ clean.revision = 0
        BY <2>1, UpdatedFaithful, NoSnapshotUsable, NothingDistinct, NothingApart
    <2>3. PICK other : other = compile_deck(clean, mode, <<>>).deck
        OBVIOUS
    <2>4. DeckGenuine(clean, mode, other)
        <3>1. PICK grounds, cache : grounds = {clean} /\ cache = <<>>
            OBVIOUS
        <3>2. Grounded(grounds) /\ clean \in grounds
            BY <2>2, <3>1 DEF Grounded, Faithful
        <3>3. Genuine(grounds, cache)
            <4>1. DOMAIN cache = {}
                BY <3>1
            <4>. QED
                BY <4>1 DEF Genuine
        <3>. QED
            BY <2>3, <3>1, <3>2, <3>3 DEF DeckGenuine
    <2>5. Visible(deck, snapshot.revision) = Visible(other, clean.revision)
        BY <1>1, <2>2, <2>4, SameDecks
    <2>. QED
        BY <2>1, <2>2, <2>3, <2>5, Zenon DEF CleanBuild
<1>2. Lineage /\ Descent /\ AllSlidesApart /\ GenuineDecks => HtmlMatchesCleanBuild
    <2>. SUFFICES ASSUME Lineage, Descent, AllSlidesApart, GenuineDecks,
                         NEW s \in DOMAIN snapshots, NEW mode \in Modes, html[s][mode] # NoDeck
                  PROVE  Visible(html[s][mode], snapshots[s].revision)
                             = CleanBuild[snapshots[s].source][mode]
        BY Zenon DEF HtmlMatchesCleanBuild
    <2>1. PICK snapshot, deck, document :
              snapshot = snapshots[s] /\ deck = html[s][mode] /\ document = snapshot.source
        OBVIOUS
    <2>2. Faithful(snapshot) /\ document \in Documents
        BY <2>1, AllFaithful DEF Lineage, SnapshotSound
    <2>3. DeckGenuine(snapshot, mode, deck)
        BY <2>1 DEF GenuineDecks
    <2>. QED
        BY <1>1, <2>1, <2>2, <2>3
<1>. QED
    BY <1>2, LineageInit, LineageNext, DescentInit, DescentNext, SlidesApartInit, SlidesApartNext,
       DecksInit, DecksNext, GenuineInit, GenuineNext, PTL DEF Spec
=============================================================================
