----------------------------- MODULE HtmlBuild -----------------------------
(***************************************************************************)
(* One-shot renders: each reads its source and resources, refuses an       *)
(* output directory that holds one of them, and publishes a deck.          *)
(***************************************************************************)
EXTENDS HtmlDirectory

CONSTANTS
    Requests,   \* what may be rendered: where the inputs are, the asset paths
    MaxRenders, \* bound on the renders
    Nothing,    \* what a reader sees where there is nothing
    Foreign     \* and where there is something unrelated

ASSUME BuildAssumption ==
    /\ MaxRenders \in Nat
    /\ {Nothing, Foreign} \cap (0..MaxRenders) = {}
    /\ Nothing # Foreign
    /\ \A r \in Requests :
          /\ r.inside \in BOOLEAN
          /\ r.assets \in Seq(Seq(Names) \ {<<>>})

VARIABLES
    request,    \* what each writer renders
    overtaken,  \* history: renders that found a deck which the user replaced
    unaware     \* history: renders that had looked for inputs in the output
                \* when the user saved one there

userVars == <<overtaken, unaware>>

buildVars == <<directoryVars, request, userVars>>

NoRequest == [inside |-> FALSE, assets |-> <<>>]

BuildInit ==
    /\ DirectoryInit
    /\ request = [w \in Writers |-> NoRequest]
    /\ overtaken = {}
    /\ unaware = {}

\* A render that returned has forgotten its inputs.
Forget(w) == request' = [request EXCEPT ![w] = IF at'[w] = "idle" THEN NoRequest ELSE @]

\* An input can be read from inside the output directory.
InputIsInside == Exists(destination) /\ (destination.kind = "deck" => destination.input)

\* Read the source, compile it and read its resources.  Any of it may fail.
read_inputs(w, r) ==
    /\ at[w] = "idle"
    /\ Len(reports) < MaxRenders
    /\ \/ /\ r.inside => InputIsInside
          /\ To(w, "read")
          /\ build' = [build EXCEPT ![w] = Len(reports) + 1]
          /\ request' = [request EXCEPT ![w] = r]
          /\ reports' = Append(reports, "none")
       \/ /\ reports' = Append(reports, "failed")
          /\ UNCHANGED <<at, build, request>>
    /\ UNCHANGED <<folds, destination, deck, unwritten, staging, exchange, committed>>

\* Mutant: the output directory may hold inputs.
AcceptsInputs(w) == FALSE

\* The output directory, as it is now, holds an input, or held it when the
\* input was read: one that has gone cannot be resolved.
HoldsInput(w) == Exists(destination) /\ request[w].inside

protect_inputs(w) ==
    /\ at[w] = "read"
    /\ \/ fail(w)
       \/ ~ HoldsInput(w) /\ new(w, request[w].assets)
    /\ Forget(w)

\* At any time the user removes the output or puts something else in its
\* place, or saves an input in the output.
replace_output ==
    /\ destination' \in {Absent, Unrelated} \ {destination}
    /\ overtaken' = overtaken \cup
           {build[w] : w \in {v \in Writers : at[v] = "inspected" /\ exchange[v]}}
    /\ UNCHANGED <<folds, at, build, deck, unwritten, staging, exchange, committed,
                   reports, request, unaware>>

save_input ==
    /\ destination.kind = "deck"
    /\ destination' = [destination EXCEPT !.input = TRUE]
    /\ unaware' = unaware \cup
           {build[w] : w \in {v \in Writers : at[v] \in {"assembled", "staging", "inspected"}}}
    /\ UNCHANGED <<folds, at, build, deck, unwritten, staging, exchange, committed,
                   reports, request, overtaken>>

BuildNext ==
    \/ /\ \E w \in Writers :
             \/ \E r \in Requests : read_inputs(w, r)
             \/ protect_inputs(w)
             \/ (Write(w) \/ crash(w)) /\ Forget(w)
       /\ UNCHANGED userVars
    \/ replace_output
    \/ save_input

\* Nothing obliges a process to go on.
BuildSpec == BuildInit /\ [][BuildNext]_buildVars
-----------------------------------------------------------------------------
\* A writer has a temporary directory exactly while write is in its scope:
\* every way out of a render removes it.
HtmlTypeOK ==
    /\ destination.kind \in {"absent", "unrelated", "deck"}
    /\ \A w \in Writers :
        /\ at[w] \in {"read", "assembled", "staging", "inspected", "published", "failing", "idle"}
        /\ at[w] \in {"idle", "read", "assembled"} => staging[w] = Absent
        /\ at[w] \in {"staging", "inspected", "failing"} => staging[w].kind = "deck"
        /\ at[w] # "idle" => build[w] \in 1..Len(reports) /\ reports[build[w]] = "none"
    /\ \A v, w \in Writers :
        v # w /\ at[v] # "idle" /\ at[w] # "idle" => build[v] # build[w]

\* What a published render is about to remove with its temporary directory is
\* not something unrelated (directory.rs: "unrelated paths and symlinks are
\* rejected"), whenever it was put there and whoever else publishes, unless
\* it took the place of the very deck that the render found and exchanges.
UnrelatedIsKept ==
    \A w \in Writers :
        at[w] = "published" /\ staging[w] = Unrelated => build[w] \in overtaken

\* A render removes its own source or resources with the output it replaces
\* only if they were saved there after it looked for them: that other renders
\* publish, or the user clears the output, in between does no harm.
InputsAreKept ==
    \A w \in Writers :
        /\ at[w] = "published" /\ request[w].inside
        /\ staging[w].kind = "deck" /\ staging[w].input
        => build[w] \in unaware

\* Without folding, paths that HtmlDirectory::new accepts never get in each
\* other's way while they are staged, in whatever order.
AcceptedPathsStage ==
    \A w \in Writers :
        ~ folds /\ at[w] = "staging" => \A path \in unwritten[w] : CanCreate(w, path)

\* Every file the manifest names is there, with its own content, and no other.
Complete(tree) ==
    /\ tree.manifest # NoManifest
    /\ <<INDEX>> \in tree.manifest.files
    /\ DOMAIN tree.files = {Found(path) : path \in tree.manifest.files}
    /\ \A path \in tree.manifest.files :
          tree.files[Found(path)] = <<tree.manifest.build, path>>

Visible ==
    CASE destination.kind = "absent" -> Nothing
      [] destination.kind = "unrelated" -> Foreign
      [] OTHER -> IF Complete(destination) THEN destination.manifest.build ELSE 0

StatusOf(r) ==
    IF r \notin DOMAIN reports THEN "rendering"
    ELSE CASE reports[r] = "ok" -> "succeeded"
           [] reports[r] = "failed" -> "failed"
           [] reports[r] = "none" -> IF r \in committed THEN "published" ELSE "rendering"

Output == INSTANCE AtomicOutput WITH
    Renders <- 1..MaxRenders, None <- Nothing, Unrelated <- Foreign,
    visible <- Visible,
    status <- [r \in 1..MaxRenders |-> StatusOf(r)]

\* Readers see complete decks only, failures leave the output as it was, and
\* success is reported only for a deck that appeared: with several writers,
\* crashes, failing file operations and a file system that folds names.
PublishesAtomically == Output!OutputSpec
=============================================================================
