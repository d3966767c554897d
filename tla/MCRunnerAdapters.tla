-------------------------- MODULE MCRunnerAdapters --------------------------
(* Two attempts, scripts that block, deliver, ignore interruption and crash, *)
(* and three evaluations of one bridge.                                      *)
EXTENDS RunnerAdapters

SomeScripts ==
    {[steps |-> <<"Output", "Block", "Output">>, completion |-> "Success", ignore_interrupt |-> TRUE],
     [steps |-> <<"Block", "Artifact", "Output">>, completion |-> "Failure", ignore_interrupt |-> FALSE],
     [steps |-> <<"Block">>, completion |-> "Crash", ignore_interrupt |-> TRUE]}
=============================================================================
