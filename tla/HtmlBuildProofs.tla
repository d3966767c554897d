-------------------------- MODULE HtmlBuildProofs --------------------------
(***************************************************************************)
(* Proofs about the publication of HTML decks, for every number of         *)
(* processes and renders, every set of asset paths and every folding of    *)
(* names.                                                                  *)
(***************************************************************************)
EXTENDS HtmlBuild, SequenceTheorems, TLAPS

AssetPaths == Seq(Names) \ {<<>>}

\* A directory this program made.
IsDeck(t) ==
    /\ t = [kind |-> "deck", files |-> t.files, manifest |-> t.manifest, input |-> t.input]
    /\ t.input \in BOOLEAN

IsPlace(t) == t = Absent \/ t = Unrelated \/ IsDeck(t)

VarTypes ==
    /\ folds \in BOOLEAN
    /\ IsPlace(destination)
    /\ at \in [Writers -> {"idle", "read", "assembled", "staging", "inspected", "published",
                           "failing"}]
    /\ build \in [Writers -> Nat]
    /\ deck \in [Writers -> SUBSET AssetPaths]
    /\ unwritten \in [Writers -> SUBSET AssetPaths]
    /\ DOMAIN staging = Writers
    /\ staging = [w \in Writers |-> staging[w]]
    /\ exchange \in [Writers -> BOOLEAN]
    /\ committed \subseteq 1..Len(reports)
    /\ reports \in Seq({"none", "ok", "failed"})
    /\ Len(reports) <= MaxRenders
    /\ request \in [Writers -> Requests \cup {NoRequest}]

\* Every running render has an identity of its own that is not reported yet,
\* and it is committed exactly when its rename is done.
Identities ==
    /\ \A w \in Writers : at[w] # "idle" =>
          /\ build[w] \in 1..Len(reports)
          /\ reports[build[w]] = "none"
          /\ build[w] \in committed <=> at[w] = "published"
    /\ \A v, w \in Writers :
          v # w /\ at[v] # "idle" /\ at[w] # "idle" => build[v] # build[w]
    /\ \A r \in 1..Len(reports) :
          /\ reports[r] = "ok" => r \in committed
          /\ reports[r] = "failed" => r \notin committed

\* What HtmlDirectory::new has checked.
GoodDeck(paths) ==
    /\ <<INDEX>> \in paths
    /\ \A path \in paths : path[1] # MANIFEST /\ Prefixes(path) \cap paths = {}

\* The staged part of a deck.
Staged(w) ==
    LET done == deck[w] \ unwritten[w]
    IN  /\ unwritten[w] \subseteq deck[w] \cup {<<MANIFEST>>}
        /\ DOMAIN staging[w].files = {Found(path) : path \in done}
        /\ \A path \in done : staging[w].files[Found(path)] = <<build[w], path>>
        /\ staging[w].manifest = IF <<MANIFEST>> \in unwritten[w] THEN NoManifest
                                 ELSE [build |-> build[w], files |-> deck[w]]

\* What a writer has in its temporary directory, by where it is.
StagingOf(w) ==
    /\ at[w] \in {"idle", "read", "assembled"} => staging[w] = Absent
    /\ at[w] \in {"staging", "inspected", "failing"} => IsDeck(staging[w]) /\ ~ staging[w].input
    /\ at[w] \in {"assembled", "staging", "inspected"} => GoodDeck(deck[w])
    /\ at[w] = "staging" => Staged(w)
    /\ at[w] = "inspected" =>
          Complete(staging[w]) /\ staging[w].manifest.build = build[w]
    /\ at[w] = "published" =>
          IsPlace(staging[w]) /\ (staging[w].kind = "unrelated" => build[w] \in overtaken)

\* What may be at the destination, and what was there when it was replaced.
DestinationOf(w) ==
    /\ at[w] = "inspected" /\ exchange[w] =>
          destination.kind = "deck" \/ build[w] \in overtaken
    /\ /\ at[w] \in {"assembled", "staging", "inspected"} /\ request[w].inside
       /\ destination.kind = "deck" /\ destination.input
       => build[w] \in unaware
    /\ /\ at[w] = "published" /\ request[w].inside
       /\ staging[w].kind = "deck" /\ staging[w].input
       => build[w] \in unaware

IInv ==
    /\ VarTypes
    /\ Identities
    /\ \A w \in Writers : StagingOf(w) /\ DestinationOf(w)
    /\ destination.kind = "deck" =>
          Complete(destination) /\ destination.manifest.build \in 1..MaxRenders
-----------------------------------------------------------------------------
\* The names of the manifest are no prefix of, and no parent of, an asset path.
LEMMA ManifestIsApart ==
    /\ Prefixes(<<MANIFEST>>) = {}
    /\ \A path \in AssetPaths : path[1] # MANIFEST =>
          path # <<MANIFEST>> /\ <<MANIFEST>> \notin Prefixes(path)
<1>1. Prefixes(<<MANIFEST>>) = {}
  <2>1. Len(<<MANIFEST>>) = 1
    OBVIOUS
  <2>2. 1..(Len(<<MANIFEST>>) - 1) = {}
    BY <2>1
  <2>. QED  BY <2>2 DEF Prefixes
<1>2. ASSUME NEW path \in AssetPaths, path[1] # MANIFEST
      PROVE  path # <<MANIFEST>> /\ <<MANIFEST>> \notin Prefixes(path)
  <2>1. path \in Seq(Names)
    BY DEF AssetPaths
  <2>2. path # <<MANIFEST>>
    BY <1>2
  <2>3. ASSUME NEW n \in 1..(Len(path) - 1)
        PROVE  SubSeq(path, 1, n) # <<MANIFEST>>
    <3>1. Len(path) \in Nat
      BY <2>1, LenProperties
    <3>2. /\ 1 \in 1..Len(path)
          /\ n \in 0..Len(path)
      BY <3>1
    <3>3. SubSeq(path, 1, n)[1] = path[1]
      BY <2>1, <3>1, <3>2
    <3>4. <<MANIFEST>>[1] = MANIFEST
      OBVIOUS
    <3>. QED  BY <3>3, <3>4, <1>2
  <2>. QED  BY <2>2, <2>3 DEF Prefixes
<1>. QED  BY <1>1, <1>2

\* A step that leaves a writer and the destination alone leaves what is known
\* of it.
LEMMA OthersKeep ==
    ASSUME NEW v \in Writers, StagingOf(v), DestinationOf(v),
           folds' = folds, destination' = destination,
           at'[v] = at[v], build'[v] = build[v], deck'[v] = deck[v],
           unwritten'[v] = unwritten[v], staging'[v] = staging[v], exchange'[v] = exchange[v],
           request'[v] = request[v], UNCHANGED userVars
    PROVE  StagingOf(v)' /\ DestinationOf(v)'
<1>1. \A path : Found(path)' = Found(path)
  BY DEF Found
<1>2. \A t : (Complete(t) /\ t = staging[v]) => Complete(staging[v])'
  BY <1>1 DEF Complete, NoManifest
<1>3. Staged(v) => Staged(v)'
  BY <1>1 DEF Staged, NoManifest
<1>4. GoodDeck(deck[v]) => GoodDeck(deck[v])'
  BY DEF GoodDeck
<1>5. IsDeck(staging[v])' <=> IsDeck(staging[v])
  BY DEF IsDeck
<1>6. IsPlace(staging[v])' <=> IsPlace(staging[v])
  BY <1>5 DEF IsPlace, Absent, Unrelated
<1>. QED  BY <1>2, <1>3, <1>4, <1>5, <1>6 DEF StagingOf, DestinationOf, Absent, userVars

\* What is at the destination stays as complete as it is.
LEMMA DestinationKept ==
    ASSUME folds' = folds, destination' = destination
    PROVE  /\ Complete(destination) <=> Complete(destination)'
           /\ IsPlace(destination) <=> IsPlace(destination)'
<1>1. \A path : Found(path)' = Found(path)
  BY DEF Found
<1>. QED  BY <1>1 DEF Complete, NoManifest, IsPlace, IsDeck, Absent, Unrelated

\* Before any render, nothing is staged and the destination is no deck.
THEOREM InitEstablishes == BuildInit => IInv
<1>. SUFFICES ASSUME BuildInit PROVE IInv
  OBVIOUS
<1>. USE DEF BuildInit, DirectoryInit
<1>1. VarTypes
  BY BuildAssumption DEF VarTypes, IsPlace, NoRequest
<1>2. Identities
  BY DEF Identities
<1>3. ASSUME NEW w \in Writers PROVE StagingOf(w) /\ DestinationOf(w)
  BY DEF StagingOf, DestinationOf
<1>4. destination.kind # "deck"
  BY DEF Absent, Unrelated
<1>. QED  BY <1>1, <1>2, <1>3, <1>4 DEF IInv

\* The writers that take no step, and the destination, in a step of writer w
\* that does not touch the destination.
LEMMA QuietStep ==
    ASSUME IInv, NEW w \in Writers, folds' = folds, destination' = destination,
           UNCHANGED userVars,
           \A v \in Writers \ {w} :
              /\ at'[v] = at[v] /\ build'[v] = build[v] /\ deck'[v] = deck[v]
              /\ unwritten'[v] = unwritten[v] /\ staging'[v] = staging[v] /\ exchange'[v] = exchange[v]
              /\ request'[v] = request[v],
           VarTypes', Identities', StagingOf(w)', DestinationOf(w)'
    PROVE  IInv'
<1>1. ASSUME NEW v \in Writers \ {w} PROVE StagingOf(v)' /\ DestinationOf(v)'
  BY <1>1, OthersKeep DEF IInv
<1>2. destination'.kind = "deck" => Complete(destination)' /\ destination'.manifest.build \in 1..MaxRenders
  BY DestinationKept DEF IInv
<1>. QED  BY <1>1, <1>2 DEF IInv

\* A render that gets an identity can be told from all others.
LEMMA ReadPreserves ==
    ASSUME IInv, NEW w \in Writers, NEW r \in Requests, read_inputs(w, r), UNCHANGED userVars
    PROVE  IInv'
<1>. USE DEF IInv
<1>1. /\ reports' \in Seq({"none", "ok", "failed"})
      /\ Len(reports') = Len(reports) + 1
      /\ \A n \in 1..Len(reports) : reports'[n] = reports[n]
      /\ reports'[Len(reports) + 1] = IF at'[w] = "read" THEN "none" ELSE "failed"
      /\ Len(reports) \in Nat
  <2>1. Len(reports) \in Nat /\ reports \in Seq({"none", "ok", "failed"})
    BY DEF VarTypes
  <2>2. PICK outcome \in {"none", "failed"} :
            /\ reports' = Append(reports, outcome)
            /\ outcome = IF at'[w] = "read" THEN "none" ELSE "failed"
    BY DEF read_inputs, VarTypes, To
  <2>. QED  BY <2>1, <2>2
<1>2. VarTypes'
  <2>1. /\ committed' \subseteq 1..Len(reports') /\ Len(reports') <= MaxRenders
    BY <1>1, BuildAssumption DEF VarTypes, read_inputs
  <2>2. /\ at' \in [Writers -> {"idle", "read", "assembled", "staging", "inspected", "published",
                           "failing"}]
        /\ build' \in [Writers -> Nat]
        /\ request' \in [Writers -> Requests \cup {NoRequest}]
    <3>1. CASE UNCHANGED <<at, build, request>>
      BY <3>1 DEF VarTypes
    <3>2. CASE /\ at' = [at EXCEPT ![w] = "read"]
               /\ build' = [build EXCEPT ![w] = Len(reports) + 1]
               /\ request' = [request EXCEPT ![w] = r]
      <4>1. at' \in [Writers -> {"idle", "read", "assembled", "staging", "inspected",
                                 "published", "failing"}]
        BY <3>2 DEF VarTypes
      <4>2. build' \in [Writers -> Nat]
        BY <3>2, <1>1 DEF VarTypes
      <4>3. request' \in [Writers -> Requests \cup {NoRequest}]
        BY <3>2 DEF VarTypes
      <4>. QED  BY <4>1, <4>2, <4>3
    <3>. QED  BY <3>1, <3>2 DEF read_inputs, To
  <2>3. IsPlace(destination)'
    BY DestinationKept DEF VarTypes, read_inputs
  <2>. QED  BY <1>1, <2>1, <2>2, <2>3 DEF VarTypes, read_inputs
<1>3. Identities'
  <2>1. CASE at'[w] # "read"
    <3>1. at' = at /\ build' = build /\ committed' = committed
      BY <2>1 DEF read_inputs, To, VarTypes
    <3>2. Len(reports) + 1 \notin committed
      BY <1>1 DEF VarTypes
    <3>. QED  BY <1>1, <2>1, <3>1, <3>2 DEF Identities
  <2>2. CASE at'[w] = "read"
    <3>1. /\ at' = [at EXCEPT ![w] = "read"]
          /\ build' = [build EXCEPT ![w] = Len(reports) + 1]
          /\ committed' = committed
          /\ at[w] = "idle"
      BY <2>2 DEF read_inputs, To, VarTypes
    <3>2. Len(reports) + 1 \notin committed
      BY <1>1 DEF VarTypes
    <3>3. /\ at'[w] = "read" /\ build'[w] = Len(reports) + 1
          /\ \A v \in Writers : v # w => at'[v] = at[v] /\ build'[v] = build[v]
      BY <3>1 DEF VarTypes
    <3>4. ASSUME NEW v \in Writers, at'[v] # "idle"
          PROVE  /\ build'[v] \in 1..Len(reports')
                 /\ reports'[build'[v]] = "none"
                 /\ build'[v] \in committed' <=> at'[v] = "published"
      BY <1>1, <3>1, <3>2, <3>3, <3>4 DEF Identities
    <3>5. ASSUME NEW u \in Writers, NEW v \in Writers, u # v, at'[u] # "idle", at'[v] # "idle"
          PROVE  build'[u] # build'[v]
      BY <1>1, <3>3, <3>5 DEF Identities
    <3>6. ASSUME NEW n \in 1..Len(reports')
          PROVE  /\ reports'[n] = "ok" => n \in committed'
                 /\ reports'[n] = "failed" => n \notin committed'
      BY <1>1, <2>2, <3>1, <3>2 DEF Identities
    <3>. QED  BY <3>4, <3>5, <3>6 DEF Identities
  <2>. QED  BY <2>1, <2>2
<1>4. StagingOf(w)' /\ DestinationOf(w)'
  <2>1. at'[w] \in {"idle", "read"} /\ staging'[w] = Absent
    BY DEF read_inputs, To, VarTypes, StagingOf
  <2>. QED  BY <2>1 DEF StagingOf, DestinationOf, Absent
<1>. QED
  <2>1. \A v \in Writers \ {w} :
              /\ at'[v] = at[v] /\ build'[v] = build[v] /\ deck'[v] = deck[v]
              /\ unwritten'[v] = unwritten[v] /\ staging'[v] = staging[v] /\ exchange'[v] = exchange[v]
              /\ request'[v] = request[v]
    BY DEF read_inputs, To, VarTypes
  <2>. QED  BY <2>1, <1>2, <1>3, <1>4, QuietStep DEF read_inputs

\* Ending a render with a report, or without one when its process stopped.
LEMMA ReturnPreserves ==
    ASSUME IInv, NEW w \in Writers, at[w] # "idle", Return(w), Forget(w), UNCHANGED userVars,
           UNCHANGED <<folds, destination, committed>>,
           staging' = [staging EXCEPT ![w] = Absent],
           \/ reports' = reports
           \/ Report(w, IF at[w] = "published" THEN "ok" ELSE "failed")
    PROVE  IInv'
<1>. USE DEF IInv
<1>1. build[w] \in 1..Len(reports)
  BY DEF Identities
<1>2. /\ reports' \in Seq({"none", "ok", "failed"})
      /\ Len(reports') = Len(reports)
      /\ \A n \in 1..Len(reports) : n # build[w] => reports'[n] = reports[n]
      /\ \/ reports' = reports
         \/ reports'[build[w]] = IF at[w] = "published" THEN "ok" ELSE "failed"
  <2>1. reports \in Seq({"none", "ok", "failed"}) /\ Len(reports) \in Nat
    BY DEF VarTypes
  <2>2. PICK outcome \in {"ok", "failed"} : outcome = IF at[w] = "published" THEN "ok" ELSE "failed"
    OBVIOUS
  <2>3. CASE reports' = [reports EXCEPT ![build[w]] = outcome]
    <3>1. /\ reports' \in Seq({"none", "ok", "failed"})
          /\ Len(reports') = Len(reports)
          /\ \A n \in 1..Len(reports) :
                reports'[n] = IF n = build[w] THEN outcome ELSE reports[n]
      BY <1>1, <2>1, <2>3, ExceptSeq
    <3>. QED  BY <1>1, <2>2, <3>1
  <2>4. CASE reports' = reports
    BY <2>1, <2>4
  <2>. QED  BY <2>2, <2>3, <2>4 DEF Report
<1>3. /\ at' = [at EXCEPT ![w] = "idle"]
      /\ request' = [request EXCEPT ![w] = NoRequest]
  BY DEF Return, To, Forget, VarTypes
<1>4. VarTypes'
  <2>1. IsPlace(destination)'
    BY DestinationKept DEF VarTypes
  <2>. QED  BY <1>2, <1>3, <2>1 DEF VarTypes, Return
<1>5. Identities'
  <2>1. \A v \in Writers : v # w => at'[v] = at[v] /\ build'[v] = build[v]
    BY <1>3 DEF VarTypes, Return
  <2>2. at'[w] = "idle"
    BY <1>3 DEF VarTypes
  <2>3. ASSUME NEW v \in Writers, at'[v] # "idle"
        PROVE  /\ v # w
               /\ build'[v] \in 1..Len(reports')
               /\ reports'[build'[v]] = "none"
               /\ build'[v] \in committed' <=> at'[v] = "published"
    BY <1>2, <2>1, <2>2, <2>3 DEF Identities
  <2>4. ASSUME NEW u \in Writers, NEW v \in Writers, u # v, at'[u] # "idle", at'[v] # "idle"
        PROVE  build'[u] # build'[v]
    BY <2>1, <2>2, <2>4 DEF Identities
  <2>5. ASSUME NEW n \in 1..Len(reports')
        PROVE  /\ reports'[n] = "ok" => n \in committed'
               /\ reports'[n] = "failed" => n \notin committed'
    BY <1>1, <1>2 DEF Identities
  <2>. QED  BY <2>3, <2>4, <2>5 DEF Identities
<1>6. StagingOf(w)' /\ DestinationOf(w)'
  BY <1>3 DEF StagingOf, DestinationOf, VarTypes
<1>. QED
  <2>1. \A v \in Writers \ {w} :
              /\ at'[v] = at[v] /\ build'[v] = build[v] /\ deck'[v] = deck[v]
              /\ unwritten'[v] = unwritten[v] /\ staging'[v] = staging[v] /\ exchange'[v] = exchange[v]
              /\ request'[v] = request[v]
    BY <1>3 DEF Return, VarTypes
  <2>. QED  BY <2>1, <1>4, <1>5, <1>6, QuietStep

\* An error before anything is staged (build.rs:104) ends the render.
LEMMA FailPreserves ==
    ASSUME IInv, NEW w \in Writers, at[w] \in {"read", "assembled"}, fail(w), Forget(w), UNCHANGED userVars
    PROVE  IInv'
<1>1. staging' = [staging EXCEPT ![w] = Absent]
  BY DEF fail, IInv, StagingOf, VarTypes
<1>. QED  BY <1>1, ReturnPreserves DEF fail

\* The temporary directory goes when write returns (directory.rs:121-126).
LEMMA DropPreserves ==
    ASSUME IInv, NEW w \in Writers, drop(w) \/ crash(w), Forget(w), UNCHANGED userVars
    PROVE  IInv'
BY ReturnPreserves DEF drop, crash, Removed

\* An error inside write leaves the temporary directory to its drop.
LEMMA FailStagedPreserves ==
    ASSUME IInv, NEW w \in Writers, at[w] \in {"staging", "inspected"}, failStaged(w), Forget(w), UNCHANGED userVars
    PROVE  IInv'
<1>. USE DEF IInv
<1>1. /\ at' = [at EXCEPT ![w] = "failing"]
      /\ request' = request
  BY DEF failStaged, To, Forget, VarTypes
<1>2. VarTypes'
  <2>1. IsPlace(destination)'
    BY DestinationKept DEF VarTypes, failStaged
  <2>. QED  BY <1>1, <2>1 DEF VarTypes, failStaged
<1>3. Identities'
  BY <1>1 DEF Identities, VarTypes, failStaged
<1>4. StagingOf(w)' /\ DestinationOf(w)'
  BY <1>1 DEF StagingOf, DestinationOf, VarTypes, failStaged, IsDeck
<1>. QED
  <2>1. \A v \in Writers \ {w} :
              /\ at'[v] = at[v] /\ build'[v] = build[v] /\ deck'[v] = deck[v]
              /\ unwritten'[v] = unwritten[v] /\ staging'[v] = staging[v] /\ exchange'[v] = exchange[v]
              /\ request'[v] = request[v]
    BY <1>1 DEF failStaged, VarTypes
  <2>. QED  BY <2>1, <1>2, <1>3, <1>4, QuietStep DEF failStaged

\* The paths that HtmlDirectory::new accepts make a directory.
LEMMA AcceptedIsGood ==
    ASSUME NEW assets \in Seq(AssetPaths), IsDirectory(assets)
    PROVE  OutputPaths(assets) \subseteq AssetPaths /\ GoodDeck(OutputPaths(assets))
<1>1. \A n \in DOMAIN assets : assets[n] \in AssetPaths
  OBVIOUS
<1>2. /\ <<INDEX>> \in AssetPaths
      /\ <<INDEX>>[1] # MANIFEST
  BY NamesAssumption DEF AssetPaths
<1>3. \A path \in OutputPaths(assets) : path[1] # MANIFEST
  BY <1>2 DEF OutputPaths, IsDirectory, validate_asset_path
<1>. QED  BY <1>1, <1>2, <1>3 DEF OutputPaths, GoodDeck, IsDirectory

\* A render that reaches HtmlDirectory::new uses no file of the output, or
\* there is no output.
LEMMA ProtectPreserves ==
    ASSUME IInv, NEW w \in Writers, protect_inputs(w), UNCHANGED userVars
    PROVE  IInv'
<1>. USE DEF IInv
<1>1. CASE fail(w)
  BY <1>1, FailPreserves DEF protect_inputs
<1>2. CASE ~ fail(w)
  <2>1. /\ at[w] = "read"
        /\ ~ HoldsInput(w)
        /\ IsDirectory(request[w].assets)
        /\ at' = [at EXCEPT ![w] = "assembled"]
        /\ deck' = [deck EXCEPT ![w] = OutputPaths(request[w].assets)]
        /\ UNCHANGED <<folds, destination, build, unwritten, staging, exchange,
                       committed, reports>>
    BY <1>2 DEF protect_inputs, new, To
  <2>2. request' = request
    BY <2>1 DEF protect_inputs, Forget, VarTypes
  <2>3. request[w].assets \in Seq(AssetPaths)
    <3>1. CASE request[w] = NoRequest
      <4>1. request[w].assets = <<>>
        BY <3>1 DEF NoRequest
      <4>. QED  BY <4>1
    <3>2. CASE request[w] \in Requests
      BY <3>2, BuildAssumption DEF AssetPaths
    <3>. QED  BY <3>1, <3>2 DEF VarTypes
  <2>4. OutputPaths(request[w].assets) \subseteq AssetPaths /\ GoodDeck(OutputPaths(request[w].assets))
    BY <2>1, <2>3, AcceptedIsGood
  <2>5. VarTypes'
    <3>1. IsPlace(destination)'
      BY <2>1, DestinationKept DEF VarTypes
    <3>. QED  BY <2>1, <2>2, <2>4, <3>1 DEF VarTypes
  <2>6. Identities'
    BY <2>1 DEF Identities, VarTypes
  <2>7. StagingOf(w)' /\ DestinationOf(w)'
    <3>1. GoodDeck(deck'[w])
      BY <2>1, <2>4 DEF VarTypes
    <3>2. staging'[w] = Absent /\ at'[w] = "assembled"
      BY <2>1 DEF VarTypes, StagingOf
    <3>3. GoodDeck(deck[w])'
      BY <3>1 DEF GoodDeck
    <3>4. request'[w].inside => destination'.kind # "deck"
      BY <2>1, <2>2 DEF HoldsInput, Exists
    <3>. QED  BY <3>2, <3>3, <3>4 DEF StagingOf, DestinationOf
  <2>8. \A v \in Writers \ {w} :
              /\ at'[v] = at[v] /\ build'[v] = build[v] /\ deck'[v] = deck[v]
              /\ unwritten'[v] = unwritten[v] /\ staging'[v] = staging[v] /\ exchange'[v] = exchange[v]
              /\ request'[v] = request[v]
    BY <2>1, <2>2 DEF VarTypes
  <2>. QED  BY <2>1, <2>5, <2>6, <2>7, <2>8, QuietStep
<1>. QED  BY <1>1, <1>2

\* Staging begins with nothing written.
LEMMA MakeStagingPreserves ==
    ASSUME IInv, NEW w \in Writers, make_staging(w), Forget(w), UNCHANGED userVars
    PROVE  IInv'
<1>. USE DEF IInv
<1>1. CASE fail(w)
  BY <1>1, FailPreserves DEF make_staging
<1>2. CASE ~ fail(w)
  <2>1. /\ at[w] = "assembled"
        /\ at' = [at EXCEPT ![w] = "staging"]
        /\ staging' = [staging EXCEPT ![w] = EmptyTree]
        /\ unwritten' = [unwritten EXCEPT ![w] = deck[w] \cup {<<MANIFEST>>}]
        /\ UNCHANGED <<folds, destination, build, deck, exchange, committed, reports>>
    BY <1>2 DEF make_staging, To
  <2>2. request' = request
    BY <2>1 DEF Forget, VarTypes
  <2>3. <<MANIFEST>> \in AssetPaths
    BY NamesAssumption DEF AssetPaths
  <2>5. VarTypes'
    <3>1. IsPlace(destination)'
      BY <2>1, DestinationKept DEF VarTypes
    <3>2. DOMAIN staging' = Writers /\ staging' = [v \in Writers |-> staging'[v]]
      BY <2>1 DEF VarTypes
    <3>3. unwritten' \in [Writers -> SUBSET AssetPaths]
      BY <2>1, <2>3 DEF VarTypes
    <3>. QED  BY <2>1, <2>2, <3>1, <3>2, <3>3 DEF VarTypes
  <2>6. Identities'
    BY <2>1 DEF Identities, VarTypes
  <2>7. StagingOf(w)' /\ DestinationOf(w)'
    <3>1. /\ staging'[w] = EmptyTree /\ at'[w] = "staging" /\ deck'[w] = deck[w]
          /\ unwritten'[w] = deck[w] \cup {<<MANIFEST>>}
      BY <2>1 DEF VarTypes
    <3>2. IsDeck(staging[w])' /\ ~ staging'[w].input
      BY <3>1 DEF IsDeck, EmptyTree
    <3>3. GoodDeck(deck[w])'
      BY <2>1, <3>1 DEF GoodDeck, StagingOf
    <3>4. Staged(w)'
      BY <3>1 DEF Staged, EmptyTree, NoManifest
    <3>5. DestinationOf(w)'
      BY <2>1, <2>2, <3>1 DEF DestinationOf, userVars
    <3>. QED  BY <3>1, <3>2, <3>3, <3>4, <3>5 DEF StagingOf
  <2>8. \A v \in Writers \ {w} :
              /\ at'[v] = at[v] /\ build'[v] = build[v] /\ deck'[v] = deck[v]
              /\ unwritten'[v] = unwritten[v] /\ staging'[v] = staging[v] /\ exchange'[v] = exchange[v]
              /\ request'[v] = request[v]
    BY <2>1, <2>2 DEF VarTypes
  <2>. QED  BY <2>1, <2>5, <2>6, <2>7, <2>8, QuietStep
<1>. QED  BY <1>1, <1>2

\* A file that is created holds its own content and disturbs no other: its
\* path leads nowhere a staged path leads.
LEMMA WriteNewPreserves ==
    ASSUME IInv, NEW w \in Writers, NEW path \in unwritten[w], write_new(w, path), Forget(w), UNCHANGED userVars
    PROVE  IInv'
<1>. USE DEF IInv
<1>1. CASE failStaged(w)
  BY <1>1, FailStagedPreserves DEF write_new
<1>2. CASE ~ failStaged(w)
  <2>. DEFINE tree == IF path = <<MANIFEST>> THEN WithManifest(w) ELSE WithFile(w, path)
  <2>1. /\ at[w] = "staging"
        /\ CanCreate(w, path)
        /\ path = <<MANIFEST>> => unwritten[w] = {<<MANIFEST>>}
        /\ unwritten' = [unwritten EXCEPT ![w] = unwritten[w] \ {path}]
        /\ staging' = [staging EXCEPT ![w] = tree]
        /\ UNCHANGED <<folds, destination, at, build, deck, exchange, committed, reports>>
    BY <1>2 DEF write_new
  <2>2. request' = request
    BY <2>1 DEF Forget, VarTypes
  <2>3. /\ staging'[w] = tree
        /\ unwritten'[w] = unwritten[w] \ {path}
    BY <2>1 DEF VarTypes
  <2>4. IsDeck(staging[w]) /\ Staged(w) /\ GoodDeck(deck[w]) /\ ~ staging[w].input
    BY <2>1 DEF StagingOf
  <2>5. VarTypes'
    <3>1. IsPlace(destination)'
      BY <2>1, DestinationKept DEF VarTypes
    <3>2. DOMAIN staging' = Writers /\ staging' = [v \in Writers |-> staging'[v]]
      BY <2>1 DEF VarTypes
    <3>3. unwritten' \in [Writers -> SUBSET AssetPaths]
      BY <2>1 DEF VarTypes
    <3>. QED  BY <2>1, <2>2, <3>1, <3>2, <3>3 DEF VarTypes
  <2>6. Identities'
    BY <2>1 DEF Identities, VarTypes
  <2>7. IsDeck(staging[w])' /\ ~ staging'[w].input
    BY <2>3, <2>4 DEF IsDeck, WithManifest, WithFile
  <2>8. Staged(w)'
    <3>1. CASE path = <<MANIFEST>>
      <4>1. unwritten'[w] = {} /\ unwritten[w] = {<<MANIFEST>>}
        BY <2>1, <2>3, <3>1
      <4>2. /\ tree.files = staging[w].files
            /\ tree.manifest = [build |-> build[w], files |-> deck[w]]
        BY <2>4, <3>1 DEF WithManifest, IsDeck
      <4>3. <<MANIFEST>> \notin deck[w]
        BY <2>4 DEF GoodDeck
      <4>4. deck[w] \ unwritten[w] = deck[w] /\ deck[w] \ unwritten'[w] = deck[w]
        BY <4>1, <4>3
      <4>5. \A p : Found(p)' = Found(p)
        BY <2>1 DEF Found
      <4>6. /\ deck'[w] = deck[w] /\ build'[w] = build[w] /\ staging'[w] = tree
            /\ <<MANIFEST>> \notin unwritten'[w]
        BY <2>1, <2>3, <4>1
      <4>7. /\ DOMAIN tree.files = {Found(p) : p \in deck[w] \ unwritten'[w]}
            /\ \A p \in deck[w] \ unwritten'[w] : tree.files[Found(p)] = <<build[w], p>>
        BY <2>4, <4>2, <4>4 DEF Staged
      <4>. HIDE DEF tree
      <4>8. /\ DOMAIN staging'[w].files = {Found(p)' : p \in deck'[w] \ unwritten'[w]}
            /\ \A p \in deck'[w] \ unwritten'[w] :
                  staging'[w].files[Found(p)'] = <<build'[w], p>>
        BY <4>5, <4>6, <4>7
      <4>. QED  BY <4>1, <4>2, <4>6, <4>8 DEF Staged
    <3>2. CASE path # <<MANIFEST>>
      <4>1. path \in deck[w]
        BY <2>4, <3>2 DEF Staged
      <4>2. /\ tree.manifest = staging[w].manifest
            /\ DOMAIN tree.files = DOMAIN staging[w].files \cup {Found(path)}
            /\ tree.files[Found(path)] = <<build[w], path>>
            /\ \A found \in DOMAIN staging[w].files :
                  found # Found(path) => tree.files[found] = staging[w].files[found]
        BY <2>4, <3>2 DEF WithFile, IsDeck
      <4>3. Found(path) \notin DOMAIN staging[w].files
        BY <2>1 DEF CanCreate, StagedFiles
      <4>4. deck[w] \ unwritten'[w] = (deck[w] \ unwritten[w]) \cup {path}
        BY <2>3, <4>1
      <4>5. \A p : Found(p)' = Found(p)
        BY <2>1 DEF Found
      <4>6. \A p \in deck[w] \ unwritten[w] :
               Found(p) # Found(path) /\ tree.files[Found(p)] = <<build[w], p>>
        BY <2>4, <4>2, <4>3 DEF Staged
      <4>7. <<MANIFEST>> \in unwritten'[w] <=> <<MANIFEST>> \in unwritten[w]
        BY <2>3, <3>2
      <4>8. DOMAIN tree.files = {Found(p) : p \in deck[w] \ unwritten'[w]}
        BY <2>4, <4>2, <4>4 DEF Staged
      <4>9. \A p \in deck[w] \ unwritten'[w] : tree.files[Found(p)] = <<build[w], p>>
        BY <4>2, <4>4, <4>6
      <4>10. unwritten'[w] \subseteq deck[w] \cup {<<MANIFEST>>}
        BY <2>3, <2>4 DEF Staged
      <4>11. tree.manifest = IF <<MANIFEST>> \in unwritten'[w] THEN NoManifest
                             ELSE [build |-> build[w], files |-> deck[w]]
        BY <2>4, <4>2, <4>7 DEF Staged
      <4>12. /\ deck'[w] = deck[w] /\ build'[w] = build[w] /\ staging'[w] = tree
             /\ NoManifest' = NoManifest
        BY <2>1, <2>3 DEF NoManifest
      <4>. HIDE DEF tree
      <4>13. /\ DOMAIN staging'[w].files = {Found(p)' : p \in deck'[w] \ unwritten'[w]}
             /\ \A p \in deck'[w] \ unwritten'[w] :
                   staging'[w].files[Found(p)'] = <<build'[w], p>>
        BY <4>5, <4>8, <4>9, <4>12
      <4>14. /\ unwritten'[w] \subseteq deck'[w] \cup {<<MANIFEST>>}
             /\ staging'[w].manifest = IF <<MANIFEST>> \in unwritten'[w] THEN NoManifest'
                                       ELSE [build |-> build'[w], files |-> deck'[w]]
        BY <4>10, <4>11, <4>12
      <4>. QED  BY <4>13, <4>14 DEF Staged
    <3>. QED  BY <3>1, <3>2
  <2>9. GoodDeck(deck[w])'
    BY <2>1, <2>4 DEF GoodDeck
  <2>10. StagingOf(w)' /\ DestinationOf(w)'
    BY <2>1, <2>2, <2>7, <2>8, <2>9 DEF StagingOf, DestinationOf, userVars
  <2>11. \A v \in Writers \ {w} :
              /\ at'[v] = at[v] /\ build'[v] = build[v] /\ deck'[v] = deck[v]
              /\ unwritten'[v] = unwritten[v] /\ staging'[v] = staging[v] /\ exchange'[v] = exchange[v]
              /\ request'[v] = request[v]
    BY <2>1, <2>2 DEF VarTypes
  <2>. QED  BY <2>1, <2>5, <2>6, <2>10, <2>11, QuietStep
<1>. QED  BY <1>1, <1>2

\* A deck with nothing left to write is complete.
LEMMA InspectPreserves ==
    ASSUME IInv, NEW w \in Writers, inspect(w), Forget(w), UNCHANGED userVars
    PROVE  IInv'
<1>. USE DEF IInv
<1>1. CASE failStaged(w)
  BY <1>1, FailStagedPreserves DEF inspect
<1>2. CASE ~ failStaged(w)
  <2>1. /\ at[w] = "staging"
        /\ unwritten[w] = {}
        /\ ~ Exists(destination) \/ IsExistingOutput
        /\ at' = [at EXCEPT ![w] = "inspected"]
        /\ exchange' = [exchange EXCEPT ![w] = IsExistingOutput]
        /\ UNCHANGED <<folds, destination, build, deck, unwritten, staging, committed, reports>>
    BY <1>2 DEF inspect, To
  <2>2. request' = request
    BY <2>1 DEF Forget, VarTypes
  <2>3. VarTypes'
    <3>1. IsPlace(destination)'
      BY <2>1, DestinationKept DEF VarTypes
    <3>2. exchange' \in [Writers -> BOOLEAN]
      BY <2>1 DEF VarTypes, IsExistingOutput
    <3>. QED  BY <2>1, <2>2, <3>1, <3>2 DEF VarTypes
  <2>4. Identities'
    BY <2>1 DEF Identities, VarTypes
  <2>5. StagingOf(w)' /\ DestinationOf(w)'
    <3>1. IsDeck(staging[w]) /\ Staged(w) /\ GoodDeck(deck[w]) /\ ~ staging[w].input
      BY <2>1 DEF StagingOf
    <3>2. deck[w] \ unwritten[w] = deck[w]
      BY <2>1
    <3>3. /\ DOMAIN staging[w].files = {Found(p) : p \in deck[w]}
          /\ \A p \in deck[w] : staging[w].files[Found(p)] = <<build[w], p>>
          /\ staging[w].manifest = [build |-> build[w], files |-> deck[w]]
      BY <2>1, <3>1, <3>2 DEF Staged
    <3>4. build[w] # 0
      BY <2>1 DEF Identities
    <3>5. Complete(staging[w]) /\ staging[w].manifest.build = build[w]
      BY <3>1, <3>3, <3>4 DEF Complete, NoManifest, GoodDeck
    <3>6. Complete(staging[w])' /\ staging'[w].manifest.build = build'[w]
      <4>1. \A p : Found(p)' = Found(p)
        BY <2>1 DEF Found
      <4>. QED  BY <2>1, <3>5, <4>1 DEF Complete, NoManifest
    <3>7. GoodDeck(deck[w])' /\ IsDeck(staging[w])' /\ ~ staging'[w].input
      BY <2>1, <3>1 DEF GoodDeck, IsDeck
    <3>8. at'[w] = "inspected" /\ (exchange'[w] => destination'.kind = "deck")
      BY <2>1 DEF VarTypes, IsExistingOutput
    <3>9. DestinationOf(w)'
      BY <2>1, <2>2, <3>8 DEF DestinationOf, userVars
    <3>. QED  BY <3>6, <3>7, <3>8, <3>9 DEF StagingOf
  <2>6. \A v \in Writers \ {w} :
              /\ at'[v] = at[v] /\ build'[v] = build[v] /\ deck'[v] = deck[v]
              /\ unwritten'[v] = unwritten[v] /\ staging'[v] = staging[v] /\ exchange'[v] = exchange[v]
              /\ request'[v] = request[v]
    BY <2>1, <2>2 DEF VarTypes
  <2>. QED  BY <2>1, <2>3, <2>4, <2>5, <2>6, QuietStep
<1>. QED  BY <1>1, <1>2

\* The rename shows a complete deck without inputs and retires an earlier one,
\* or nothing.
LEMMA RenamePreserves ==
    ASSUME IInv, NEW w \in Writers, renameat(w), Forget(w), UNCHANGED userVars
    PROVE  IInv'
<1>. USE DEF IInv
<1>1. CASE failStaged(w)
  BY <1>1, FailStagedPreserves DEF renameat
<1>2. CASE ~ failStaged(w)
  <2>1. /\ at[w] = "inspected"
        /\ at' = [at EXCEPT ![w] = "published"]
        /\ destination' = staging[w]
        /\ staging' = [staging EXCEPT ![w] = destination]
        /\ committed' = committed \cup {build[w]}
        /\ UNCHANGED <<folds, build, deck, unwritten, exchange, reports>>
        /\ CanRename(w)
    BY <1>2 DEF renameat, To
  <2>2. request' = request
    BY <2>1 DEF Forget, VarTypes
  <2>3. /\ IsDeck(staging[w]) /\ ~ staging[w].input
        /\ Complete(staging[w]) /\ staging[w].manifest.build = build[w]
        /\ destination.kind = "unrelated" => build[w] \in overtaken
    BY <2>1 DEF StagingOf, DestinationOf, CanRename, Exists
  <2>4. build[w] \in 1..Len(reports) /\ reports[build[w]] = "none"
    BY <2>1 DEF Identities
  <2>5. \A p : Found(p)' = Found(p)
    BY <2>1 DEF Found
  <2>6. VarTypes'
    <3>1. IsPlace(destination)'
      BY <2>1, <2>3 DEF IsPlace, IsDeck
    <3>2. DOMAIN staging' = Writers /\ staging' = [v \in Writers |-> staging'[v]]
      BY <2>1 DEF VarTypes
    <3>. QED  BY <2>1, <2>2, <2>4, <3>1, <3>2 DEF VarTypes
  <2>7. Identities'
    <3>1. \A v \in Writers : v # w => at'[v] = at[v]
      BY <2>1 DEF VarTypes
    <3>2. at'[w] = "published"
      BY <2>1 DEF VarTypes
    <3>3. ASSUME NEW v \in Writers, at'[v] # "idle"
          PROVE  /\ build'[v] \in 1..Len(reports')
                 /\ reports'[build'[v]] = "none"
                 /\ build'[v] \in committed' <=> at'[v] = "published"
      BY <2>1, <2>4, <3>1, <3>2, <3>3 DEF Identities
    <3>4. ASSUME NEW u \in Writers, NEW v \in Writers, u # v, at'[u] # "idle", at'[v] # "idle"
          PROVE  build'[u] # build'[v]
      BY <2>1, <3>1, <3>4 DEF Identities
    <3>5. ASSUME NEW n \in 1..Len(reports')
          PROVE  /\ reports'[n] = "ok" => n \in committed'
                 /\ reports'[n] = "failed" => n \notin committed'
      BY <2>1, <2>4 DEF Identities
    <3>. QED  BY <3>3, <3>4, <3>5 DEF Identities
  <2>8. StagingOf(w)' /\ DestinationOf(w)'
    <3>1. at'[w] = "published" /\ staging'[w] = destination
      BY <2>1 DEF VarTypes
    <3>2. /\ IsPlace(staging[w])'
          /\ staging'[w].kind = "unrelated" => build'[w] \in overtaken'
      BY <2>1, <2>3, <3>1 DEF VarTypes, IsPlace, IsDeck, Absent, Unrelated, userVars
    <3>3. request'[w].inside /\ staging'[w].kind = "deck" /\ staging'[w].input =>
             build'[w] \in unaware'
      BY <2>1, <2>2, <3>1 DEF DestinationOf, userVars
    <3>. QED  BY <3>1, <3>2, <3>3 DEF StagingOf, DestinationOf
  <2>9. ASSUME NEW v \in Writers \ {w} PROVE StagingOf(v)' /\ DestinationOf(v)'
    <3>1. /\ at'[v] = at[v] /\ build'[v] = build[v] /\ deck'[v] = deck[v]
          /\ unwritten'[v] = unwritten[v] /\ staging'[v] = staging[v] /\ exchange'[v] = exchange[v]
          /\ request'[v] = request[v]
      BY <2>1, <2>2, <2>9 DEF VarTypes
    <3>2. StagingOf(v)'
      <4>1. StagingOf(v)
        BY <2>9
      <4>2. Complete(staging[v]) => Complete(staging[v])'
        BY <2>5, <3>1 DEF Complete, NoManifest
      <4>3. Staged(v) => Staged(v)'
        BY <2>5, <3>1 DEF Staged, NoManifest
      <4>4. GoodDeck(deck[v]) => GoodDeck(deck[v])'
        BY <3>1 DEF GoodDeck
      <4>5. IsDeck(staging[v])' <=> IsDeck(staging[v])
        BY <3>1 DEF IsDeck
      <4>6. IsPlace(staging[v])' <=> IsPlace(staging[v])
        BY <3>1, <4>5 DEF IsPlace, Absent, Unrelated
      <4>. QED  BY <3>1, <4>1, <4>2, <4>3, <4>4, <4>5, <4>6 DEF StagingOf, Absent, userVars
    <3>3. DestinationOf(v)'
      <4>1. destination'.kind = "deck" /\ ~ destination'.input
        BY <2>1, <2>3 DEF IsDeck
      <4>2. DestinationOf(v)
        BY <2>9
      <4>. QED  BY <3>1, <4>1, <4>2 DEF DestinationOf, userVars
    <3>. QED  BY <3>2, <3>3
  <2>10. Complete(destination)' /\ destination'.manifest.build \in 1..MaxRenders
    <3>1. build[w] \in 1..MaxRenders
      BY <2>4, BuildAssumption DEF VarTypes
    <3>2. Complete(destination)'
      BY <2>1, <2>3, <2>5 DEF Complete, NoManifest
    <3>. QED  BY <2>1, <2>3, <3>1, <3>2
  <2>. QED  BY <2>6, <2>7, <2>8, <2>9, <2>10
<1>. QED  BY <1>1, <1>2

\* What the user does to the output.
LEMMA UserPreserves ==
    ASSUME IInv, replace_output \/ save_input
    PROVE  IInv'
<1>. USE DEF IInv
<1>1. UNCHANGED <<folds, at, build, deck, unwritten, staging, exchange, committed, reports, request>>
  BY DEF replace_output, save_input
<1>2. \A p : Found(p)' = Found(p)
  BY <1>1 DEF Found
<1>3. Identities'
  BY <1>1 DEF Identities
<1>h. overtaken \subseteq overtaken' /\ unaware \subseteq unaware'
  BY DEF replace_output, save_input
<1>4. ASSUME NEW v \in Writers PROVE StagingOf(v)'
  <2>1. StagingOf(v)
    BY <1>4
  <2>2. Complete(staging[v]) => Complete(staging[v])'
    BY <1>1, <1>2 DEF Complete, NoManifest
  <2>3. Staged(v) => Staged(v)'
    BY <1>1, <1>2 DEF Staged, NoManifest
  <2>4. GoodDeck(deck[v]) => GoodDeck(deck[v])'
    BY <1>1 DEF GoodDeck
  <2>5. IsDeck(staging[v])' <=> IsDeck(staging[v])
    BY <1>1 DEF IsDeck
  <2>6. IsPlace(staging[v])' <=> IsPlace(staging[v])
    BY <1>1, <2>5 DEF IsPlace, Absent, Unrelated
  <2>. QED  BY <1>1, <1>h, <2>1, <2>2, <2>3, <2>4, <2>5, <2>6 DEF StagingOf, Absent
<1>5. CASE replace_output
  <2>1. destination' = Absent \/ destination' = Unrelated
    BY <1>5 DEF replace_output
  <2>2. VarTypes'
    BY <1>1, <2>1 DEF VarTypes, IsPlace, Absent, Unrelated
  <2>3. ASSUME NEW v \in Writers PROVE DestinationOf(v)'
    <3>1. at'[v] = "inspected" /\ exchange'[v] => build'[v] \in overtaken'
      BY <1>1, <1>5 DEF replace_output
    <3>2. destination'.kind # "deck"
      BY <2>1 DEF Absent, Unrelated
    <3>3. DestinationOf(v)
      OBVIOUS
    <3>. QED  BY <1>1, <1>h, <3>1, <3>2, <3>3 DEF DestinationOf
  <2>. QED  BY <1>3, <1>4, <2>1, <2>2, <2>3 DEF Absent, Unrelated
<1>6. CASE save_input
  <2>1. /\ destination.kind = "deck"
        /\ destination' = [destination EXCEPT !.input = TRUE]
        /\ \A v \in Writers :
              at[v] \in {"assembled", "staging", "inspected"} => build[v] \in unaware'
    BY <1>6 DEF save_input
  <2>2. IsDeck(destination)
    BY <2>1 DEF VarTypes, IsPlace, Absent, Unrelated
  <2>3. /\ IsDeck(destination)'
        /\ destination'.kind = "deck"
        /\ destination'.files = destination.files
        /\ destination'.manifest = destination.manifest
    BY <2>1, <2>2 DEF IsDeck
  <2>4. VarTypes'
    BY <1>1, <2>3 DEF VarTypes, IsPlace
  <2>5. ASSUME NEW v \in Writers PROVE DestinationOf(v)'
    <3>1. DestinationOf(v)
      OBVIOUS
    <3>. QED  BY <1>1, <1>h, <2>1, <2>3, <3>1 DEF DestinationOf
  <2>6. Complete(destination)' /\ destination'.manifest.build \in 1..MaxRenders
    BY <1>2, <2>1, <2>3 DEF Complete, NoManifest
  <2>. QED  BY <1>3, <1>4, <2>4, <2>5, <2>6
<1>. QED  BY <1>5, <1>6

\* Every step of a render, a crash or the user preserves the invariant.
LEMMA StepPreserves == IInv /\ [BuildNext]_buildVars => IInv'
<1>. SUFFICES ASSUME IInv, [BuildNext]_buildVars PROVE IInv'
  OBVIOUS
<1>1. ASSUME NEW w \in Writers, NEW r \in Requests, read_inputs(w, r), UNCHANGED userVars
      PROVE  IInv'
  BY <1>1, ReadPreserves
<1>2. ASSUME NEW w \in Writers, protect_inputs(w), UNCHANGED userVars PROVE IInv'
  BY <1>2, ProtectPreserves
<1>3. ASSUME NEW w \in Writers, Write(w), Forget(w), UNCHANGED userVars PROVE IInv'
  <2>1. CASE make_staging(w)
    BY <1>3, <2>1, MakeStagingPreserves
  <2>2. ASSUME NEW path \in unwritten[w], write_new(w, path) PROVE IInv'
    BY <1>3, <2>2, WriteNewPreserves
  <2>3. CASE inspect(w)
    BY <1>3, <2>3, InspectPreserves
  <2>4. CASE renameat(w)
    BY <1>3, <2>4, RenamePreserves
  <2>5. CASE drop(w)
    BY <1>3, <2>5, DropPreserves
  <2>. QED  BY <1>3, <2>1, <2>2, <2>3, <2>4, <2>5 DEF Write
<1>4. ASSUME NEW w \in Writers, crash(w), Forget(w), UNCHANGED userVars PROVE IInv'
  BY <1>4, DropPreserves
<1>5. CASE replace_output \/ save_input
  BY <1>5, UserPreserves
<1>6. CASE UNCHANGED buildVars
  <2>1. UNCHANGED <<folds, destination, at, build, deck, unwritten, staging, exchange,
                    committed, reports, request, userVars>>
    BY <1>6 DEF buildVars, directoryVars
  <2>2. ASSUME NEW v \in Writers PROVE StagingOf(v)' /\ DestinationOf(v)'
    BY <2>1, OthersKeep DEF IInv
  <2>3. VarTypes'
    BY <2>1, DestinationKept DEF IInv, VarTypes
  <2>4. Identities'
    BY <2>1 DEF IInv, Identities
  <2>5. destination'.kind = "deck" =>
            Complete(destination)' /\ destination'.manifest.build \in 1..MaxRenders
    BY <2>1, DestinationKept DEF IInv
  <2>. QED  BY <2>2, <2>3, <2>4, <2>5 DEF IInv
<1>. QED  BY <1>1, <1>2, <1>3, <1>4, <1>5, <1>6 DEF BuildNext

\* The invariant of rendering to a directory (build.rs:62, directory.rs:111).
THEOREM Invariance == BuildSpec => []IInv
BY InitEstablishes, StepPreserves, PTL DEF BuildSpec

\* The type invariant: a temporary directory exists exactly while write is in
\* its scope, and a running render is one that has reported nothing.
THEOREM TypeCorrect == BuildSpec => []HtmlTypeOK
<1>1. IInv => HtmlTypeOK
  <2>. SUFFICES ASSUME IInv PROVE HtmlTypeOK
    OBVIOUS
  <2>1. destination.kind \in {"absent", "unrelated", "deck"}
    BY DEF IInv, VarTypes, IsPlace, IsDeck, Absent, Unrelated
  <2>2. \A w \in Writers : IsDeck(staging[w]) => staging[w].kind = "deck"
    BY DEF IsDeck
  <2>. QED  BY <2>1, <2>2 DEF IInv, VarTypes, Identities, StagingOf, HtmlTypeOK
<1>. QED  BY <1>1, Invariance, PTL

\* No render removes what no render made, but what took the place of a deck it
\* had already found (publish, directory.rs:274).
THEOREM UnrelatedSurvives == BuildSpec => []UnrelatedIsKept
<1>1. IInv => UnrelatedIsKept
  BY DEF IInv, StagingOf, UnrelatedIsKept, Unrelated
<1>. QED  BY <1>1, Invariance, PTL

\* No render removes a file it was made from, but one that was saved into the
\* output after it looked (protect_inputs, build.rs:107).
THEOREM InputsSurvive == BuildSpec => []InputsAreKept
<1>1. IInv => InputsAreKept
  BY DEF IInv, DestinationOf, InputsAreKept
<1>. QED  BY <1>1, Invariance, PTL

\* What HtmlDirectory::new accepts can be staged where names are not folded.
THEOREM AcceptedStages == BuildSpec => []AcceptedPathsStage
<1>1. IInv => AcceptedPathsStage
  <2>. SUFFICES ASSUME IInv, NEW w \in Writers, ~ folds, at[w] = "staging",
                       NEW path \in unwritten[w]
                PROVE  CanCreate(w, path)
    BY DEF AcceptedPathsStage
  <2>1. Staged(w) /\ GoodDeck(deck[w])
    BY DEF IInv, StagingOf
  <2>2. \A p : Found(p) = p
    BY DEF Found
  <2>3. deck[w] \subseteq AssetPaths /\ path \in AssetPaths
    BY DEF IInv, VarTypes
  <2>4. DOMAIN staging[w].files = deck[w] \ unwritten[w]
    BY <2>1, <2>2 DEF Staged
  <2>5. \A p \in deck[w] :
           p # <<MANIFEST>> /\ <<MANIFEST>> \notin Prefixes(p) /\ Prefixes(p) \cap deck[w] = {}
    BY <2>1, <2>3, ManifestIsApart DEF GoodDeck
  <2>6. StagedFiles(w) \subseteq (deck[w] \cup {<<MANIFEST>>}) \ unwritten[w]
    BY <2>1, <2>2, <2>4, <2>5 DEF StagedFiles, Staged, NoManifest
  <2>7. path \in deck[w] \/ path = <<MANIFEST>>
    BY <2>1 DEF Staged
  <2>8. Prefixes(path) \cap StagedFiles(w) = {}
    BY <2>5, <2>6, <2>7, ManifestIsApart
  <2>9. \A staged \in StagedFiles(w) : path \notin Prefixes(staged)
    BY <2>5, <2>6, <2>7, ManifestIsApart
  <2>. QED  BY <2>2, <2>6, <2>8, <2>9 DEF CanCreate
<1>. QED  BY <1>1, Invariance, PTL
-----------------------------------------------------------------------------
\* What a reader sees and what the renders reported, in a step that touches
\* neither.
LEMMA NothingShown ==
    ASSUME UNCHANGED <<folds, destination, committed, reports>>, UNCHANGED userVars
    PROVE  UNCHANGED Output!outputVars
<1>1. \A p : Found(p)' = Found(p)
  BY DEF Found
<1>2. Visible' = Visible
  BY <1>1, DestinationKept DEF Visible, Complete, NoManifest
<1>3. \A r : StatusOf(r)' = StatusOf(r)
  BY DEF StatusOf
<1>. QED  BY <1>2, <1>3 DEF Output!outputVars, userVars

\* One render's report changes; all other renders keep their status.
LEMMA OneReport ==
    ASSUME IInv, NEW b \in 1..Len(reports), reports[b] = "none", committed' = committed,
           NEW outcome \in {"ok", "failed"}, reports' = [reports EXCEPT ![b] = outcome]
    PROVE  /\ b \in 1..MaxRenders
           /\ StatusOf(b) = IF b \in committed THEN "published" ELSE "rendering"
           /\ StatusOf(b)' = IF outcome = "ok" THEN "succeeded" ELSE "failed"
           /\ \A r \in 1..MaxRenders \ {b} : StatusOf(r)' = StatusOf(r)
<1>1. reports \in Seq({"none", "ok", "failed"}) /\ Len(reports) \in Nat /\ Len(reports) <= MaxRenders
  BY DEF IInv, VarTypes
<1>2. DOMAIN reports = 1..Len(reports) /\ DOMAIN reports' = 1..Len(reports)
  BY <1>1
<1>3. b \in 1..MaxRenders
  BY <1>1, BuildAssumption
<1>4. StatusOf(b) = IF b \in committed THEN "published" ELSE "rendering"
  BY <1>2 DEF StatusOf
<1>5. reports'[b] = outcome /\ \A r \in DOMAIN reports : r # b => reports'[r] = reports[r]
  BY <1>1, <1>2
<1>6. StatusOf(b)' = IF outcome = "ok" THEN "succeeded" ELSE "failed"
  BY <1>2, <1>5 DEF StatusOf
<1>7. ASSUME NEW r \in 1..MaxRenders \ {b} PROVE StatusOf(r)' = StatusOf(r)
  <2>1. CASE r \in DOMAIN reports
    <3>1. reports'[r] = reports[r]
      BY <1>5, <2>1
    <3>2. r \in DOMAIN reports'
      BY <1>2, <2>1
    <3>3. reports[r] \in {"none", "ok", "failed"}
      BY <1>1, <1>2, <2>1
    <3>4. CASE reports[r] = "none"
      BY <2>1, <3>1, <3>2, <3>4 DEF StatusOf
    <3>5. CASE reports[r] = "ok"
      BY <2>1, <3>1, <3>2, <3>5 DEF StatusOf
    <3>6. CASE reports[r] = "failed"
      BY <2>1, <3>1, <3>2, <3>6 DEF StatusOf
    <3>. QED  BY <3>3, <3>4, <3>5, <3>6
  <2>2. CASE r \notin DOMAIN reports
    BY <1>2, <2>2 DEF StatusOf
  <2>. QED  BY <2>1, <2>2
<1>. QED  BY <1>3, <1>4, <1>6, <1>7

\* A render that ends reports its failure, or the success it had.
LEMMA ReportRefines ==
    ASSUME IInv, NEW w \in Writers, at[w] # "idle",
           UNCHANGED <<folds, destination, committed>>, UNCHANGED userVars,
           Report(w, IF at[w] = "published" THEN "ok" ELSE "failed")
    PROVE  Output!OutputNext
<1>b. PICK b : b = build[w]
  OBVIOUS
<1>1. /\ b \in 1..Len(reports)
      /\ reports[b] = "none"
      /\ b \in committed <=> at[w] = "published"
  BY <1>b DEF IInv, Identities
<1>2. PICK outcome \in {"ok", "failed"} :
         /\ outcome = IF at[w] = "published" THEN "ok" ELSE "failed"
         /\ reports' = [reports EXCEPT ![b] = outcome]
  BY <1>b DEF Report
<1>3. Visible' = Visible
  <2>1. \A p : Found(p)' = Found(p)
    BY DEF Found
  <2>. QED  BY <2>1, DestinationKept DEF Visible, Complete, NoManifest
<1>4. /\ b \in 1..MaxRenders
      /\ StatusOf(b) = IF b \in committed THEN "published" ELSE "rendering"
      /\ StatusOf(b)' = IF outcome = "ok" THEN "succeeded" ELSE "failed"
      /\ \A r \in 1..MaxRenders \ {b} : StatusOf(r)' = StatusOf(r)
  BY <1>1, <1>2, OneReport
<1>5. CASE at[w] = "published"
  <2>1. Output!Succeed(b)
    BY <1>1, <1>2, <1>3, <1>4, <1>5 DEF Output!Succeed, userVars
  <2>. QED  BY <1>4, <2>1 DEF Output!OutputNext
<1>6. CASE at[w] # "published"
  <2>1. Output!Fail(b)
    BY <1>1, <1>2, <1>3, <1>4, <1>6 DEF Output!Fail, userVars
  <2>. QED  BY <1>4, <2>1 DEF Output!OutputNext
<1>. QED  BY <1>5, <1>6

\* A new render is rendering, as it was before anybody knew of it, or fails
\* at once.
LEMMA ReadRefines ==
    ASSUME IInv, NEW w \in Writers, NEW r \in Requests, read_inputs(w, r), UNCHANGED userVars
    PROVE  [Output!OutputNext]_Output!outputVars
<1>b. PICK b : b = Len(reports) + 1
  OBVIOUS
<1>1. /\ reports \in Seq({"none", "ok", "failed"})
      /\ Len(reports) \in Nat
      /\ b \in 1..MaxRenders
      /\ b \notin committed
      /\ UNCHANGED <<folds, destination, committed>>
  BY <1>b, BuildAssumption DEF IInv, VarTypes, read_inputs
<1>2. Visible' = Visible
  <2>1. \A p : Found(p)' = Found(p)
    BY <1>1 DEF Found
  <2>. QED  BY <1>1, <2>1, DestinationKept DEF Visible, Complete, NoManifest
<1>3. PICK outcome \in {"none", "failed"} : reports' = Append(reports, outcome)
  BY DEF read_inputs
<1>4. /\ DOMAIN reports = 1..Len(reports)
      /\ DOMAIN reports' = 1..b
      /\ reports'[b] = outcome
      /\ \A n \in 1..Len(reports) : reports'[n] = reports[n]
  BY <1>b, <1>1, <1>3
<1>5. StatusOf(b) = "rendering"
  BY <1>b, <1>1, <1>4 DEF StatusOf
<1>6. StatusOf(b)' = IF outcome = "none" THEN "rendering" ELSE "failed"
  BY <1>b, <1>1, <1>4 DEF StatusOf
<1>7. ASSUME NEW n \in 1..MaxRenders \ {b} PROVE StatusOf(n)' = StatusOf(n)
  <2>1. CASE n \in 1..Len(reports)
    <3>1. reports'[n] = reports[n] /\ n \in 1..b
      BY <1>b, <1>1, <1>4, <2>1
    <3>. QED  BY <1>b, <1>1, <1>4, <2>1, <3>1 DEF StatusOf
  <2>2. CASE n \notin 1..Len(reports)
    <3>1. n \notin 1..b
      BY <1>b, <1>1, <2>2
    <3>. QED  BY <1>4, <2>2, <3>1 DEF StatusOf
  <2>. QED  BY <2>1, <2>2
<1>8. CASE outcome = "none"
  <2>1. \A n \in 1..MaxRenders : StatusOf(n)' = StatusOf(n)
    BY <1>5, <1>6, <1>7, <1>8
  <2>. QED  BY <1>2, <2>1 DEF Output!outputVars, userVars
<1>9. CASE outcome = "failed"
  <2>1. Output!Fail(b)
    BY <1>1, <1>2, <1>5, <1>6, <1>7, <1>9 DEF Output!Fail, userVars
  <2>. QED  BY <1>1, <2>1 DEF Output!OutputNext
<1>. QED  BY <1>8, <1>9

\* The rename makes the render's deck what a reader sees.
LEMMA RenameRefines ==
    ASSUME IInv, NEW w \in Writers, renameat(w), ~ failStaged(w), UNCHANGED userVars
    PROVE  Output!OutputNext
<1>b. PICK b : b = build[w]
  OBVIOUS
<1>1. /\ at[w] = "inspected"
      /\ destination' = staging[w]
      /\ committed' = committed \cup {b}
      /\ folds' = folds /\ reports' = reports
      /\ CanRename(w)
  BY <1>b DEF renameat
<1>2. /\ IsDeck(staging[w]) /\ Complete(staging[w])
      /\ staging[w].manifest.build = b
      /\ destination.kind = "unrelated" => b \in overtaken
  BY <1>b, <1>1 DEF IInv, StagingOf, DestinationOf, CanRename, Exists
<1>3. /\ b \in 1..Len(reports) /\ reports[b] = "none" /\ b \notin committed
  BY <1>b, <1>1 DEF IInv, Identities
<1>4. DOMAIN reports = 1..Len(reports) /\ b \in 1..MaxRenders
  BY <1>3, BuildAssumption DEF IInv, VarTypes
<1>5. Visible' = b
  <2>1. Complete(destination)'
    BY <1>1, <1>2 DEF Complete, Found, NoManifest
  <2>2. destination'.kind = "deck" /\ destination'.manifest.build = b
    BY <1>1, <1>2 DEF IsDeck
  <2>. QED  BY <2>1, <2>2 DEF Visible
<1>6. Visible = Foreign => b \in overtaken
  <2>1. CASE destination.kind = "absent"
    BY <2>1, BuildAssumption DEF Visible
  <2>2. CASE destination.kind = "deck"
    BY <2>2, BuildAssumption DEF Visible, IInv
  <2>. QED  BY <1>2, <2>1, <2>2 DEF IInv, VarTypes, IsPlace, IsDeck, Absent, Unrelated
<1>7. StatusOf(b) = "rendering" /\ StatusOf(b)' = "published"
  BY <1>1, <1>3, <1>4 DEF StatusOf
<1>8. \A n \in 1..MaxRenders \ {b} : StatusOf(n)' = StatusOf(n)
  BY <1>1, <1>4 DEF StatusOf
<1>9. Output!Publish(b)
  BY <1>4, <1>5, <1>6, <1>7, <1>8 DEF Output!Publish, userVars
<1>. QED  BY <1>4, <1>9 DEF Output!OutputNext

\* What the user does at the output path is a Replace, or is not seen.
LEMMA UserRefines ==
    ASSUME IInv, replace_output \/ save_input
    PROVE  [Output!OutputNext]_Output!outputVars
<1>1. \A n : StatusOf(n)' = StatusOf(n)
  <2>1. reports' = reports /\ committed' = committed
    BY DEF replace_output, save_input
  <2>. QED  BY <2>1 DEF StatusOf
<1>2. CASE replace_output
  <2>1. Visible' \in {Nothing, Foreign}
    BY <1>2 DEF Visible, replace_output, Absent, Unrelated
  <2>. DEFINE found == {build[w] : w \in {v \in Writers : at[v] = "inspected" /\ exchange[v]}}
  <2>2. ASSUME NEW w \in Writers, at[w] = "inspected" PROVE build[w] \in 1..MaxRenders
                                                       /\ StatusOf(build[w]) = "rendering"
    <3>1. /\ build[w] \in 1..Len(reports) /\ reports[build[w]] = "none"
          /\ build[w] \notin committed
      BY <2>2 DEF IInv, Identities
    <3>2. DOMAIN reports = 1..Len(reports) /\ build[w] \in 1..MaxRenders
      BY <3>1, BuildAssumption DEF IInv, VarTypes
    <3>. QED  BY <3>1, <3>2 DEF StatusOf
  <2>3. found \in SUBSET {r \in 1..MaxRenders :
                            [n \in 1..MaxRenders |-> StatusOf(n)][r] = "rendering"}
    BY <2>2
  <2>4. found \subseteq overtaken \/ Visible \in 1..MaxRenders
    <3>1. CASE destination.kind = "deck"
      BY <3>1 DEF IInv, Visible
    <3>2. CASE destination.kind # "deck"
      BY <3>2 DEF IInv, DestinationOf
    <3>. QED  BY <3>1, <3>2
  <2>5. overtaken' = overtaken \cup found
    BY <1>2 DEF replace_output
  <2>6. Output!Replace
    BY <1>1, <2>1, <2>3, <2>4, <2>5 DEF Output!Replace
  <2>. QED  BY <2>6 DEF Output!OutputNext
<1>3. CASE save_input
  <2>1. \A p : Found(p)' = Found(p)
    BY <1>3 DEF Found, save_input
  <2>2. IsDeck(destination) /\ destination' = [destination EXCEPT !.input = TRUE]
    BY <1>3 DEF save_input, IInv, VarTypes, IsPlace, Absent, Unrelated
  <2>3. /\ destination'.kind = destination.kind
        /\ destination'.files = destination.files
        /\ destination'.manifest = destination.manifest
    BY <2>2 DEF IsDeck
  <2>4. Visible' = Visible
    BY <2>1, <2>3 DEF Visible, Complete, NoManifest
  <2>5. overtaken' = overtaken
    BY <1>3 DEF save_input
  <2>. QED  BY <1>1, <2>4, <2>5 DEF Output!outputVars
<1>. QED  BY <1>2, <1>3

\* Every step is a step of AtomicOutput or shows nothing.
LEMMA StepRefines ==
    IInv /\ [BuildNext]_buildVars => [Output!OutputNext]_Output!outputVars
<1>. SUFFICES ASSUME IInv, [BuildNext]_buildVars
              PROVE  [Output!OutputNext]_Output!outputVars
  OBVIOUS
<1>1. ASSUME NEW w \in Writers, NEW r \in Requests, read_inputs(w, r), UNCHANGED userVars
      PROVE  [Output!OutputNext]_Output!outputVars
  BY <1>1, ReadRefines
<1>2. ASSUME NEW w \in Writers, fail(w), at[w] \in {"read", "assembled"}, UNCHANGED userVars
      PROVE  Output!OutputNext
  BY <1>2, ReportRefines DEF fail
<1>3. ASSUME NEW w \in Writers, protect_inputs(w), UNCHANGED userVars
      PROVE  [Output!OutputNext]_Output!outputVars
  <2>1. CASE fail(w)
    BY <1>2, <1>3, <2>1 DEF protect_inputs
  <2>2. CASE ~ fail(w)
    BY <1>3, <2>2, NothingShown DEF protect_inputs, new
  <2>. QED  BY <2>1, <2>2
<1>4. ASSUME NEW w \in Writers, Write(w), UNCHANGED userVars
      PROVE  [Output!OutputNext]_Output!outputVars
  <2>1. CASE failStaged(w)
    BY <1>4, <2>1, NothingShown DEF failStaged
  <2>2. CASE make_staging(w)
    BY <1>2, <1>4, <2>2, NothingShown DEF make_staging
  <2>3. ASSUME NEW path \in unwritten[w], write_new(w, path), ~ failStaged(w)
        PROVE  [Output!OutputNext]_Output!outputVars
    BY <1>4, <2>3, NothingShown DEF write_new
  <2>4. CASE inspect(w) /\ ~ failStaged(w)
    BY <1>4, <2>4, NothingShown DEF inspect
  <2>5. CASE renameat(w) /\ ~ failStaged(w)
    BY <1>4, <2>5, RenameRefines
  <2>6. CASE drop(w)
    <3>1. at[w] # "idle"
      BY <2>6 DEF drop
    <3>. QED  BY <1>4, <2>6, <3>1, ReportRefines DEF drop
  <2>. QED  BY <1>4, <2>1, <2>2, <2>3, <2>4, <2>5, <2>6 DEF Write
<1>5. ASSUME NEW w \in Writers, crash(w), UNCHANGED userVars
      PROVE  [Output!OutputNext]_Output!outputVars
  BY <1>5, NothingShown DEF crash
<1>6. CASE replace_output \/ save_input
  BY <1>6, UserRefines
<1>7. CASE UNCHANGED buildVars
  BY <1>7, NothingShown DEF buildVars, directoryVars
<1>. QED  BY <1>1, <1>3, <1>4, <1>5, <1>6, <1>7 DEF BuildNext

\* Rendering implements atomic output: complete decks only, in one step, and
\* reports that agree with them.
THEOREM Atomicity == BuildSpec => PublishesAtomically
<1>1. BuildInit => Output!OutputInit
  <2>. SUFFICES ASSUME BuildInit PROVE Output!OutputInit
    OBVIOUS
  <2>1. Visible \in {Nothing, Foreign}
    BY DEF BuildInit, DirectoryInit, Visible, Absent, Unrelated
  <2>2. \A r \in 1..MaxRenders : StatusOf(r) = "rendering"
    BY DEF BuildInit, DirectoryInit, StatusOf
  <2>. QED  BY <2>1, <2>2 DEF Output!OutputInit, BuildInit
<1>. QED  BY <1>1, StepRefines, Invariance, PTL
          DEF BuildSpec, PublishesAtomically, Output!OutputSpec
=============================================================================
