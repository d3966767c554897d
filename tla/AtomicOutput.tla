---------------------------- MODULE AtomicOutput ----------------------------
(***************************************************************************)
(* What rendering to a directory promises: somebody who opens the output   *)
(* sees nothing, something unrelated, or one complete deck; a deck appears *)
(* in one step, and in the place of something unrelated only if the user   *)
(* put it where the render had found a deck; a render reports success      *)
(* after its deck appeared, and failure only if its deck never did.        *)
(***************************************************************************)
EXTENDS Naturals

CONSTANTS
    Renders,    \* identities of renders
    None,       \* nothing at the output path
    Unrelated   \* something no render made

VARIABLES
    visible,    \* None, Unrelated, or the render whose deck is there
    status,     \* of each render
    overtaken   \* renders that found a deck which the user replaced

outputVars == <<visible, status, overtaken>>

OutputInit ==
    /\ visible \in {None, Unrelated}
    /\ status = [r \in Renders |-> "rendering"]
    /\ overtaken = {}

Publish(r) ==
    /\ status[r] = "rendering"
    /\ visible = Unrelated => r \in overtaken
    /\ visible' = r
    /\ status' = [status EXCEPT ![r] = "published"]
    /\ UNCHANGED overtaken

Succeed(r) ==
    /\ status[r] = "published"
    /\ status' = [status EXCEPT ![r] = "succeeded"]
    /\ UNCHANGED <<visible, overtaken>>

Fail(r) ==
    /\ status[r] = "rendering"
    /\ status' = [status EXCEPT ![r] = "failed"]
    /\ UNCHANGED <<visible, overtaken>>

\* The user removes the output or puts something else there.
Replace ==
    /\ visible' \in {None, Unrelated}
    /\ \E found \in SUBSET {r \in Renders : status[r] = "rendering"} :
          /\ found \subseteq overtaken \/ visible \in Renders
          /\ overtaken' = overtaken \cup found
    /\ UNCHANGED status

OutputNext ==
    \/ \E r \in Renders : Publish(r) \/ Succeed(r) \/ Fail(r)
    \/ Replace

OutputSpec == OutputInit /\ [][OutputNext]_outputVars
=============================================================================
