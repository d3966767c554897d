--------------------------- MODULE HtmlDirectory ---------------------------
(***************************************************************************)
(* A complete HTML deck and its publication: the checks that make it, its  *)
(* staging one file at a time beside the destination, the inspection of    *)
(* what is at the destination, and the one rename that publishes it.       *)
(* Several processes may write to one destination and each may stop at any *)
(* point; every file operation may fail.                                   *)
(*                                                                         *)
(* A path is a sequence of names.  A file system may fold names, so that   *)
(* different paths lead to one file.                                       *)
(***************************************************************************)
EXTENDS Naturals, Sequences, FiniteSets

CONSTANTS
    Writers,    \* processes that render to the destination
    Names,      \* names of files and directories
    Fold,       \* the name a folding file system takes a name for
    Unsafe,     \* names no asset path may contain, as ".."
    INDEX,      \* the name index.html
    MANIFEST    \* the name manifest.json

ASSUME NamesAssumption ==
    /\ {INDEX, MANIFEST} \subseteq Names
    /\ INDEX # MANIFEST
    /\ Fold \in [Names -> Names]

VARIABLES
    folds,          \* whether the file system folds names
    destination,    \* what is at the output path
    at,             \* where each writer is
    build,          \* the render each writer works on
    deck,           \* the paths of the HtmlDirectory in memory
    unwritten,      \* paths that are still to be staged
    staging,        \* what is at each writer's staging path
    exchange,       \* whether the rename is to exchange or not to replace
    committed,      \* renders whose deck was published
    reports         \* what each finished render reported

directoryVars == <<folds, destination, at, build, deck, unwritten, staging, exchange,
                   committed, reports>>

Absent == [kind |-> "absent"]

\* A file, a symlink or a directory without a manifest of this program.
Unrelated == [kind |-> "unrelated"]

NoManifest == [build |-> 0, files |-> {}]

EmptyTree == [kind |-> "deck", files |-> <<>>, manifest |-> NoManifest, input |-> FALSE]

Exists(place) == place.kind # "absent"

\* The parent directories of a path.
Prefixes(path) == {SubSeq(path, 1, n) : n \in 1..(Len(path) - 1)}

\* Where a path leads.
Found(path) == IF folds THEN [n \in DOMAIN path |-> Fold[path[n]]] ELSE path

DirectoryInit ==
    /\ folds \in BOOLEAN
    /\ destination \in {Absent, Unrelated}
    /\ at = [w \in Writers |-> "idle"]
    /\ build = [w \in Writers |-> 0]
    /\ deck = [w \in Writers |-> {}]
    /\ unwritten = [w \in Writers |-> {}]
    /\ staging = [w \in Writers |-> Absent]
    /\ exchange = [w \in Writers |-> FALSE]
    /\ committed = {}
    /\ reports = <<>>

To(w, step) == at' = [at EXCEPT ![w] = step]

Report(w, outcome) == reports' = [reports EXCEPT ![build[w]] = outcome]

\* The render is over, and its locals with it.
Return(w) ==
    /\ To(w, "idle")
    /\ build' = [build EXCEPT ![w] = 0]
    /\ deck' = [deck EXCEPT ![w] = {}]
    /\ unwritten' = [unwritten EXCEPT ![w] = {}]
    /\ exchange' = [exchange EXCEPT ![w] = FALSE]

\* It returns an error with nothing on disk.
fail(w) ==
    /\ Return(w)
    /\ Report(w, "failed")
    /\ UNCHANGED <<folds, destination, staging, committed>>

\* It returns an error and its temporary directory is dropped.
failStaged(w) ==
    /\ To(w, "failing")
    /\ UNCHANGED <<folds, destination, build, deck, unwritten, staging, exchange,
                   committed, reports>>

(***************************************************************************)
(* HtmlDirectory::new.                                                     *)
(***************************************************************************)
validate_asset_path(path) ==
    /\ \A n \in DOMAIN path : path[n] \notin Unsafe
    /\ path[1] # MANIFEST

OutputPaths(assets) == {<<INDEX>>} \cup {assets[n] : n \in DOMAIN assets}

\* The assets can be files of one directory.
IsDirectory(assets) ==
    /\ \A n \in DOMAIN assets : validate_asset_path(assets[n])
    /\ Cardinality(OutputPaths(assets)) = Len(assets) + 1
    /\ \A path \in OutputPaths(assets) : Prefixes(path) \cap OutputPaths(assets) = {}

new(w, assets) ==
    IF IsDirectory(assets)
    THEN /\ To(w, "assembled")
         /\ deck' = [deck EXCEPT ![w] = OutputPaths(assets)]
         /\ UNCHANGED <<folds, destination, build, unwritten, staging, exchange,
                        committed, reports>>
    ELSE fail(w)

(***************************************************************************)
(* HtmlDirectory::write.                                                   *)
(***************************************************************************)
\* Resolve the parent of the destination and make a staging directory there.
make_staging(w) ==
    /\ at[w] = "assembled"
    /\ \/ fail(w)
       \/ /\ To(w, "staging")
          /\ staging' = [staging EXCEPT ![w] = EmptyTree]
          /\ unwritten' = [unwritten EXCEPT ![w] = deck[w] \cup {<<MANIFEST>>}]
          /\ UNCHANGED <<folds, destination, build, deck, exchange, committed, reports>>

StagedFiles(w) ==
    DOMAIN staging[w].files
        \cup (IF staging[w].manifest = NoManifest THEN {} ELSE {Found(<<MANIFEST>>)})

\* Mutant: a file is created whether or not it exists.
OverwritesFile(w, path) ==
    /\ Prefixes(Found(path)) \cap StagedFiles(w) = {}
    /\ \A staged \in StagedFiles(w) : Found(path) \notin Prefixes(staged)

\* The parents can be created, and no file or directory is in the way.
CanCreate(w, path) ==
    /\ Found(path) \notin StagedFiles(w)
    /\ Prefixes(Found(path)) \cap StagedFiles(w) = {}
    /\ \A staged \in StagedFiles(w) : Found(path) \notin Prefixes(staged)

WithFile(w, path) ==
    [staging[w] EXCEPT !.files =
        [found \in DOMAIN staging[w].files \cup {Found(path)} |->
            IF found = Found(path) THEN <<build[w], path>> ELSE staging[w].files[found]]]

WithManifest(w) ==
    [staging[w] EXCEPT !.manifest = [build |-> build[w], files |-> deck[w]]]

\* Write one file, in an order that decides nothing, and the manifest last.
\* The write can fail before or after it creates the file.
write_new(w, path) ==
    /\ at[w] = "staging"
    /\ path \in unwritten[w]
    /\ path = <<MANIFEST>> => unwritten[w] = {<<MANIFEST>>}
    /\ \/ failStaged(w)
       \/ /\ CanCreate(w, path)
          /\ unwritten' = [unwritten EXCEPT ![w] = @ \ {path}]
          /\ staging' = [staging EXCEPT ![w] =
                IF path = <<MANIFEST>> THEN WithManifest(w) ELSE WithFile(w, path)]
          /\ UNCHANGED <<folds, destination, at, build, deck, exchange, committed, reports>>

\* A real directory whose manifest names this program.
IsExistingOutput == destination.kind = "deck"

inspect(w) ==
    /\ at[w] = "staging"
    /\ unwritten[w] = {}
    /\ IF Exists(destination) /\ ~ IsExistingOutput THEN failStaged(w)
       ELSE \/ failStaged(w)
            \/ /\ To(w, "inspected")
               /\ exchange' = [exchange EXCEPT ![w] = IsExistingOutput]
               /\ UNCHANGED <<folds, destination, build, deck, unwritten, staging,
                              committed, reports>>

\* Mutant: what appeared since the inspection is replaced.
RenamesAnyway(w) == TRUE

\* An exchange needs something at the path, the other rename a path that is
\* still free.
CanRename(w) == Exists(destination) <=> exchange[w]

renameat(w) ==
    /\ at[w] = "inspected"
    /\ \/ failStaged(w)
       \/ /\ CanRename(w)
          /\ To(w, "published")
          /\ destination' = staging[w]
          /\ staging' = [staging EXCEPT ![w] = destination]
          /\ committed' = committed \cup {build[w]}
          /\ UNCHANGED <<folds, build, deck, unwritten, exchange, reports>>

Removed(w) == staging' = [staging EXCEPT ![w] = Absent]

\* The temporary directory goes: a half-written deck, or the retired output.
\* Its removal may stop half-way without a report.
drop(w) ==
    /\ at[w] \in {"failing", "published"}
    /\ Return(w)
    /\ Report(w, IF at[w] = "published" THEN "ok" ELSE "failed")
    /\ Removed(w)
    /\ UNCHANGED <<folds, destination, committed>>

\* The process stops; what it staged stays where nobody looks for it.
crash(w) ==
    /\ at[w] # "idle"
    /\ Return(w)
    /\ staging' = [staging EXCEPT ![w] = Absent]
    /\ UNCHANGED <<folds, destination, committed, reports>>

Write(w) ==
    \/ make_staging(w)
    \/ \E path \in unwritten[w] : write_new(w, path)
    \/ inspect(w)
    \/ renameat(w)
    \/ drop(w)
=============================================================================
