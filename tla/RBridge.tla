------------------------------ MODULE RBridge ------------------------------
(***************************************************************************)
(* The synchronous R bridge: a host that starts R, negotiates with the     *)
(* shim, evaluates one request after another and kills R when the bridge   *)
(* is dropped, and the R process that runs the shim.  They share a control *)
(* connection and the files behind the standard streams, which are one     *)
(* here.  Any R code may end the process or leave the shim silent.         *)
(***************************************************************************)
EXTENDS Naturals, Sequences

CONSTANTS
    MaxRequests,    \* bound on the evaluations of one bridge
    Replies         \* what an evaluation may end with: "ok", "error",
                    \* "undecodable" (not UTF-8) and "oversized" messages

VARIABLES
    host,       \* where the host is in start, evaluate or drop
    child,      \* the R process
    pending,    \* a connection waits to be accepted
    commands,   \* frames on the way to the shim
    replies,    \* frames on the way to the host
    aligned,    \* the host's next read begins at a frame
    serving,    \* the request the shim works on, 0 for none
    output,     \* requests whose output is in the stream files
    calls,      \* evaluate calls so far
    ended,      \* what each request really ended with, in order of their end
    returned    \* what evaluate returned, by call

bridgeVars == <<host, child, pending, commands, replies, aligned, serving, output, calls,
                ended, returned>>

Alive == child \in {"starting", "connected", "listening", "silent"}

BridgeInit ==
    /\ host = "unstarted"
    /\ child = "none"
    /\ pending = FALSE
    /\ commands = <<>>
    /\ replies = <<>>
    /\ aligned = TRUE
    /\ serving = 0
    /\ output = <<>>
    /\ calls = 0
    /\ ended = <<>>
    /\ returned = <<>>

(***************************************************************************)
(* RBridge::start.                                                         *)
(***************************************************************************)
\* Bind a listener, stage the shim and spawn R; what fails before the spawn
\* leaves nothing behind.
spawn ==
    /\ host = "unstarted"
    /\ host' = "accepting"
    /\ child' = "starting"
    /\ UNCHANGED <<pending, commands, replies, aligned, serving, output, calls, ended, returned>>

accept ==
    /\ host = "accepting"
    /\ pending
    /\ host' = "negotiating"
    /\ pending' = FALSE
    /\ UNCHANGED <<child, commands, replies, aligned, serving, output, calls, ended, returned>>

kill_and_wait == child' = "reaped"

\* Mutant: a child that did not connect in time is not waited for.
give_upUnreaped ==
    /\ host = "accepting"
    /\ host' = "failed"
    /\ UNCHANGED <<child, pending, commands, replies, aligned, serving, output, calls, ended, returned>>

\* The child exited without connecting, or the deadline passed, or accept failed.
give_up ==
    /\ host = "accepting"
    /\ host' = "failed"
    /\ kill_and_wait
    /\ UNCHANGED <<pending, commands, replies, aligned, serving, output, calls, ended, returned>>

\* The listener cannot be made nonblocking, or the child cannot be asked
\* whether it exited: start returns at once, and R runs on with nobody to kill
\* it or to wait for it.
abandon ==
    /\ host = "accepting"
    /\ host' = "abandoned"
    /\ UNCHANGED <<child, pending, commands, replies, aligned, serving, output, calls, ended, returned>>

\* Mutant: the handshake has no read timeout.
CannotWaitForever == replies = <<>> /\ ~ Alive

\* The stream ended, or nothing came before the read timeout.
CannotWait == replies = <<>>

\* Read the shim's greeting, or drop the half-made bridge, which kills and
\* reaps R.
negotiate ==
    /\ host = "negotiating"
    /\ \/ /\ replies # <<>>
          /\ replies' = Tail(replies)
          /\ host' = "ready"
          /\ UNCHANGED child
       \/ /\ CannotWait
          /\ host' = "failed"
          /\ kill_and_wait
          /\ UNCHANGED replies
    /\ UNCHANGED <<pending, commands, aligned, serving, output, calls, ended, returned>>

\* The read timeout cannot be set or lifted.
drop_unfinished ==
    /\ host = "negotiating"
    /\ host' = "failed"
    /\ kill_and_wait
    /\ UNCHANGED <<pending, commands, replies, aligned, serving, output, calls, ended, returned>>

(***************************************************************************)
(* RBridge::evaluate.                                                      *)
(***************************************************************************)
\* A request that is too long, or a write that fails, ends the call at once.
write_frame ==
    /\ host = "ready"
    /\ calls < MaxRequests
    /\ calls' = calls + 1
    /\ \/ host' = "reading" /\ commands' = Append(commands, calls') /\ UNCHANGED returned
       \/ UNCHANGED <<host, commands>> /\ returned' = Append(returned, [ok |-> FALSE])
    /\ UNCHANGED <<child, pending, replies, aligned, serving, output, ended>>

\* The call ends with an error before it reads the streams.
Fails(stays) ==
    /\ returned' = Append(returned, [ok |-> FALSE])
    /\ aligned' = stays
    /\ UNCHANGED output

\* The streams cannot be read or emptied: the reply is gone, the text may be too.
FailsToDrain ==
    /\ returned' = Append(returned, [ok |-> FALSE])
    /\ output' \in {output, <<>>}
    /\ UNCHANGED aligned

\* Mutant: a reply that reports an error leaves the streams for the next call.
DrainedAfterSuccess(reply) == IF reply = "ok" THEN <<>> ELSE output

Drained(reply) == <<>>

\* Mutant: a call may give up on a reply that is still to come.
StreamMayEnd == replies = <<>>

StreamEnds == replies = <<>> /\ ~ Alive

\* Wait for a frame, without a deadline, and drain the streams after a valid
\* one.  An undecodable message is consumed; of an oversized frame only the
\* length is, and what follows is not a valid length either.  Errors return
\* before the streams are read, or while they are.
read_frame ==
    /\ host = "reading"
    /\ host' = "ready"
    /\ \/ aligned /\ StreamEnds /\ Fails(TRUE) /\ UNCHANGED replies
       \/ ~ aligned /\ Fails(FALSE) /\ UNCHANGED replies
       \/ /\ aligned
          /\ replies # <<>>
          /\ replies' = Tail(replies)
          /\ LET reply == Head(replies)
             IN  IF reply \in {"ok", "error"}
                 THEN \/ /\ returned' = Append(returned,
                                        [ok |-> TRUE, reply |-> reply, output |-> output])
                         /\ output' = Drained(reply)
                         /\ UNCHANGED aligned
                      \/ FailsToDrain
                 ELSE Fails(reply # "oversized")
    /\ UNCHANGED <<child, pending, commands, serving, calls, ended>>

drop ==
    /\ host = "ready"
    /\ host' = "dropped"
    /\ kill_and_wait
    /\ UNCHANGED <<pending, commands, replies, aligned, serving, output, calls, ended, returned>>

(***************************************************************************)
(* The shim.                                                               *)
(***************************************************************************)
connect ==
    /\ child = "starting"
    /\ host = "accepting"
    /\ child' = "connected"
    /\ pending' = TRUE
    /\ UNCHANGED <<host, commands, replies, aligned, serving, output, calls, ended, returned>>

greet ==
    /\ child = "connected"
    /\ child' = "listening"
    /\ replies' = Append(replies, "hello")
    /\ UNCHANGED <<host, pending, commands, aligned, serving, output, calls, ended, returned>>

\* R ends for any reason, or says nothing any more.
exit ==
    /\ Alive
    /\ child' = "exited"
    /\ serving' = 0
    /\ UNCHANGED <<host, pending, commands, replies, aligned, output, calls, ended, returned>>

hang ==
    /\ child \in {"starting", "connected", "listening"}
    /\ child' = "silent"
    /\ UNCHANGED <<host, pending, commands, replies, aligned, serving, output, calls, ended, returned>>

receive ==
    /\ child = "listening"
    /\ serving = 0
    /\ commands # <<>>
    /\ serving' = Head(commands)
    /\ commands' = Tail(commands)
    /\ UNCHANGED <<host, child, pending, replies, aligned, output, calls, ended, returned>>

\* Code that prints; the streams are flushed before the reply.
print ==
    /\ child = "listening"
    /\ serving # 0
    /\ \A n \in DOMAIN output : output[n] # serving
    /\ output' = Append(output, serving)
    /\ UNCHANGED <<host, child, pending, commands, replies, aligned, serving, calls, ended, returned>>

send(reply) ==
    /\ child = "listening"
    /\ serving # 0
    /\ replies' = Append(replies, reply)
    /\ ended' = Append(ended, <<serving, reply>>)
    /\ serving' = 0
    /\ UNCHANGED <<host, child, pending, commands, aligned, output, calls, returned>>

StartStep == accept \/ give_up \/ negotiate
HostNext == spawn \/ StartStep \/ abandon \/ drop_unfinished \/ write_frame \/ read_frame \/ drop
ShimNext == connect \/ greet \/ exit \/ hang \/ receive \/ print \/ \E reply \in Replies : send(reply)

BridgeNext == HostNext \/ ShimNext

\* The waits of start have deadlines, evaluate has none; no system call has to
\* fail.
BridgeSpec == BridgeInit /\ [][BridgeNext]_bridgeVars /\ WF_bridgeVars(StartStep)
=============================================================================
