--------------------------- MODULE ExecutionStore ---------------------------
(***************************************************************************)
(* The project-local execution cache: objects addressed by the digest of   *)
(* their bytes, and one record per execution key that refers to them.      *)
(* One process at a time holds the writer lock; it stages objects, and     *)
(* publishes a record by one rename after checking what it refers to.      *)
(*                                                                         *)
(* Steps of a call are separate, because between any two of them the       *)
(* process may die, the machine may lose power, or something outside the   *)
(* store may damage a file.  SHA-256 is taken to be injective; bytes are   *)
(* one of Contents or Torn, which stands for anything else.                *)
(***************************************************************************)
EXTENDS Naturals, Sequences

CONSTANTS
    Processes,
    Keys,          \* execution keys
    Contents,      \* artifact bytes
    Aliases,       \* attempt-local artifact ids
    Outcomes,      \* what runners deliver: outcomes with their artifacts
    Absent,        \* no file
    Torn,          \* a file whose bytes match no digest
    Miss,          \* load returns None
    Unknown,       \* no statement is made about this key
    NoExecution,
    MaxFaults      \* bound on damage and power losses

ContentId(bytes) == <<"sha256", bytes>>
ContentIds == {ContentId(bytes) : bytes \in Contents}
Ids == Aliases \cup ContentIds

\* The object path of a content address, named by the bytes it belongs to.
ObjectPath(id) == id[2]

Executions ==
    [key : Keys, valid : BOOLEAN,
     artifacts : UNION {[ids -> Contents \cup {Torn}] : ids \in SUBSET Ids},
     shows : Seq(Ids)]

\* A record file: an execution without its bytes, in some schema.
Records ==
    [compatible : BOOLEAN, key : Keys, valid : BOOLEAN, ids : SUBSET Ids, shows : Seq(Ids)]

ASSUME StoreAssumption ==
    /\ Outcomes \subseteq
          {x \in Executions : x.artifacts \in
              UNION {[ids -> Contents] : ids \in SUBSET Aliases}}
    /\ Absent \notin Contents /\ Torn \notin Contents
    /\ {Absent, Torn} \cap Records = {}
    /\ {Miss, Unknown, NoExecution} \cap Executions = {}
    /\ Miss # Unknown
    /\ Aliases \cap ContentIds = {}
    /\ MaxFaults \in Nat

VARIABLES
    open,       \* the processes with a handle on the store
    op,         \* process -> the call it is in
    objects,    \* content -> what reading its object path yields
    records,    \* key -> what reading its record path yields
    durable,    \* what is left of both after a power loss
    faults,
    accepted,   \* history: key -> the executions ever committed
    latest      \* history: key -> what load must return, if that is known

diskVars == <<objects, records>>
historyVars == <<accepted, latest>>
vars == <<open, op, diskVars, durable, faults, historyVars>>

\* The phase of a call, what it was given and works on, the artifact bytes it
\* still has to write, check or read, and the phases in which something was
\* damaged (history).
Idle ==
    [phase |-> "idle", outcome |-> NoExecution, execution |-> NoExecution,
     todo |-> {}, disturbed |-> {}]

Init ==
    /\ open = {}
    /\ op = [p \in Processes |-> Idle]
    /\ objects = [c \in Contents |-> Absent]
    /\ records = [k \in Keys |-> Absent]
    /\ durable = [objects |-> objects, records |-> records]
    /\ faults = 0
    /\ accepted = [k \in Keys |-> {}]
    /\ latest = [k \in Keys |-> Miss]

-----------------------------------------------------------------------------
(***************************************************************************)
(* Records and what they refer to.                                         *)
(***************************************************************************)
\* validate_references: every display resolves to an artifact.
ValidReferences(x) == \A i \in DOMAIN x.shows : x.shows[i] \in DOMAIN x.artifacts

\* The artifacts under their content addresses; equal bytes become one.
Addressed(artifacts) ==
    [id \in {ContentId(artifacts[a]) : a \in DOMAIN artifacts} |-> ObjectPath(id)]

\* Mutant: display bundles keep the aliases.
NormalizedArtifactsOnly(x) ==
    [key |-> x.key, valid |-> x.valid, artifacts |-> Addressed(x.artifacts), shows |-> x.shows]

\* prepare: aliases become content addresses, in artifacts and displays alike.
Normalized(x) ==
    [key |-> x.key, valid |-> x.valid, artifacts |-> Addressed(x.artifacts),
     shows |-> [i \in DOMAIN x.shows |-> ContentId(x.artifacts[x.shows[i]])]]

\* What a reader of the execution is shown.
Rendered(x) == [i \in DOMAIN x.shows |-> x.artifacts[x.shows[i]]]

\* commit: the record has the metadata of the artifacts, not their bytes.
RecordOf(x) ==
    [compatible |-> TRUE, key |-> x.key, valid |-> x.valid,
     ids |-> DOMAIN x.artifacts, shows |-> x.shows]

\* The execution a record stands for, complete with bytes.
Denoted(r) ==
    [key |-> r.key, valid |-> r.valid,
     artifacts |-> [id \in r.ids |-> ObjectPath(id)], shows |-> r.shows]

\* Mutant: the key inside the record is not compared.
ReadableAnyKey(r, key) ==
    /\ r \notin {Absent, Torn}
    /\ r.compatible /\ r.valid
    /\ r.ids \subseteq ContentIds

\* What load accepts of the record file of key before it reads any object.
Readable(r, key) ==
    /\ r \notin {Absent, Torn}
    /\ r.compatible /\ r.key = key /\ r.valid
    /\ r.ids \subseteq ContentIds

Intact(contents) == \A c \in contents : objects[c] = c

\* What an undisturbed load of key returns.
Visible(key) ==
    LET r == records[key]
    IN  IF Readable(r, key) /\ Intact({ObjectPath(id) : id \in r.ids})
           /\ ValidReferences(Denoted(r))
        THEN Denoted(r) ELSE Miss

-----------------------------------------------------------------------------
(***************************************************************************)
(* Opening and closing.                                                    *)
(***************************************************************************)
LockFree == open = {}

Open(p) ==
    /\ p \notin open
    /\ LockFree
    /\ open' = open \cup {p}
    /\ UNCHANGED <<op, diskVars, durable, faults, historyVars>>

\* Mutant: writing in place, which a stop leaves half done.
TornByStop(file) == Torn

\* atomic_write up to the rename touches a temporary file only.
BeforeRename(file) == file

\* The call of p ends early, while writing a file or between files.
Stops(p) ==
    /\ IF op[p].phase = "prepare" /\ op[p].todo # {}
       THEN \E c \in op[p].todo : objects' = [objects EXCEPT ![c] = BeforeRename(@)]
       ELSE UNCHANGED objects
    /\ IF op[p].phase = "commit" /\ op[p].todo = {}
       THEN records' = [records EXCEPT ![op[p].execution.key] = BeforeRename(@)]
       ELSE UNCHANGED records
    /\ op' = [op EXCEPT ![p] = Idle]
    /\ UNCHANGED <<durable, faults, historyVars>>

\* The handle is dropped, or its process dies in the middle of a call.
Close(p) ==
    /\ p \in open
    /\ Stops(p)
    /\ open' = open \ {p}

\* A file operation fails: the call returns Err, and the attempt is rejected.
CallFails(p) ==
    /\ p \in open
    /\ op[p].phase # "idle"
    /\ Stops(p)
    /\ UNCHANGED open

-----------------------------------------------------------------------------
(***************************************************************************)
(* stage, prepare, commit: called by the coordinator.                      *)
(***************************************************************************)
\* Mutant: an object that exists is taken to be intact.
StagedUnlessPresent(c) == IF objects[c] = Absent THEN c ELSE objects[c]

\* What staging leaves at an object path: an equal file is kept, any other replaced.
Staged(c) == c

\* An artifact event is staged when it arrives, whatever becomes of its attempt.
StageArtifact(p, c) ==
    /\ p \in open /\ op[p].phase = "idle"
    /\ objects' = [objects EXCEPT ![c] = Staged(c)]
    /\ UNCHANGED <<open, op, records, durable, faults, historyVars>>

\* Outcomes that fail validation are refused without any effect.
BeginPrepare(p, x) ==
    /\ p \in open /\ op[p].phase = "idle"
    /\ x.valid /\ ValidReferences(x)
    /\ op' = [op EXCEPT ![p] =
                [phase |-> "prepare", outcome |-> x, execution |-> Normalized(x),
                 todo |-> {x.artifacts[a] : a \in DOMAIN x.artifacts},
                 disturbed |-> {}]]
    /\ UNCHANGED <<open, diskVars, durable, faults, historyVars>>

PrepareObject(p, c) ==
    /\ p \in open /\ op[p].phase = "prepare" /\ c \in op[p].todo
    /\ objects' = [objects EXCEPT ![c] = Staged(c)]
    /\ op' = [op EXCEPT ![p].todo = @ \ {c}]
    /\ UNCHANGED <<open, records, durable, faults, historyVars>>

\* Between prepare and commit the coordinator asks the runner; the attempt may
\* still be rejected, or be a replay or volatile: then the call just ends.
BeginCommit(p) ==
    /\ p \in open /\ op[p].phase = "prepare" /\ op[p].todo = {}
    /\ op[p].execution.valid /\ ValidReferences(op[p].execution)
    /\ op' = [op EXCEPT ![p] =
                [op[p] EXCEPT !.phase = "commit",
                              !.todo = {ObjectPath(id) : id \in DOMAIN op[p].execution.artifacts}]]
    /\ UNCHANGED <<open, diskVars, durable, faults, historyVars>>

\* An object that changed is an error: that is a CallFails.
CheckObject(p, c) ==
    /\ p \in open /\ op[p].phase = "commit" /\ c \in op[p].todo
    /\ objects[c] = c
    /\ op' = [op EXCEPT ![p].todo = @ \ {c}]
    /\ UNCHANGED <<open, diskVars, durable, faults, historyVars>>

\* Mutant: the record is renamed into place before all objects are checked.
CheckedSome(p) == TRUE

Checked(p) == op[p].todo = {}

PublishRecord(p) ==
    /\ p \in open /\ op[p].phase = "commit"
    /\ Checked(p)
    /\ LET x == op[p].execution
       IN  /\ records' = [records EXCEPT ![x.key] = RecordOf(x)]
           /\ accepted' = [accepted EXCEPT ![x.key] = @ \cup {x}]
           /\ latest' = [latest EXCEPT ![x.key] = IF "commit" \in op[p].disturbed
                                                   THEN Unknown ELSE x]
    /\ op' = [op EXCEPT ![p] = Idle]
    /\ UNCHANGED <<open, objects, durable, faults>>

-----------------------------------------------------------------------------
(***************************************************************************)
(* load: misses change nothing and are not steps.                          *)
(***************************************************************************)
BeginLoad(p, key) ==
    /\ p \in open /\ op[p].phase = "idle"
    /\ Readable(records[key], key)
    /\ op' = [op EXCEPT ![p] =
                [phase |-> "load", outcome |-> NoExecution,
                 execution |-> [key |-> key, valid |-> TRUE, artifacts |-> <<>>,
                                shows |-> records[key].shows],
                 todo |-> {ObjectPath(id) : id \in records[key].ids},
                 disturbed |-> {}]]
    /\ UNCHANGED <<open, diskVars, durable, faults, historyVars>>

\* Mutant: object digests are not verified.
ObjectExists(c) == objects[c] # Absent

DigestMatches(c) == objects[c] = c

\* The execution once bytes have been read for the object of c.
WithArtifact(x, c, bytes) ==
    [key |-> x.key, valid |-> x.valid, shows |-> x.shows,
     artifacts |-> [id \in DOMAIN x.artifacts \cup {ContentId(c)} |->
                      IF id = ContentId(c) THEN bytes ELSE x.artifacts[id]]]

LoadObject(p, c) ==
    /\ p \in open /\ op[p].phase = "load" /\ c \in op[p].todo
    /\ DigestMatches(c)
    /\ op' = [op EXCEPT ![p] =
                [op[p] EXCEPT !.todo = op[p].todo \ {c},
                              !.execution = WithArtifact(op[p].execution, c, objects[c])]]
    /\ UNCHANGED <<open, diskVars, durable, faults, historyVars>>

\* load is about to return op[p].execution.
Returns(p) ==
    /\ op[p].phase = "load" /\ op[p].todo = {}
    /\ ValidReferences(op[p].execution)

FinishLoad(p) ==
    /\ p \in open /\ Returns(p)
    /\ op' = [op EXCEPT ![p] = Idle]
    /\ UNCHANGED <<open, diskVars, durable, faults, historyVars>>

-----------------------------------------------------------------------------
(***************************************************************************)
(* The environment.                                                        *)
(***************************************************************************)
Disturbed ==
    [p \in Processes |->
        IF op[p] = Idle THEN Idle
        ELSE [op[p] EXCEPT !.disturbed = @ \cup {op[p].phase}]]
NothingKnown == [k \in Keys |-> Unknown]

\* Something outside the store removes or overwrites an object.
DamageObject(c, bytes) ==
    /\ faults < MaxFaults
    /\ objects' = [objects EXCEPT ![c] = bytes]
    /\ op' = Disturbed /\ latest' = NothingKnown
    /\ faults' = faults + 1
    /\ UNCHANGED <<open, records, durable, accepted>>

\* Or a record: lost, torn, another key's, or one the checks of load refuse.
DamagedRecords(key) ==
    {Absent, Torn} \cup {records[k] : k \in Keys}
    \cup IF records[key] \in {Absent, Torn} THEN {}
         ELSE {[records[key] EXCEPT !.compatible = FALSE],
               [records[key] EXCEPT !.valid = FALSE]}
              \cup IF records[key].shows = <<>> THEN {}
                   ELSE {[records[key] EXCEPT !.ids = {}]}

DamageRecord(key, r) ==
    /\ faults < MaxFaults
    /\ records' = [records EXCEPT ![key] = r]
    /\ op' = Disturbed /\ latest' = NothingKnown
    /\ faults' = faults + 1
    /\ UNCHANGED <<open, objects, durable, accepted>>

\* The directory entry of a renamed file reaches the disk, in any order.
FlushObject(c) ==
    /\ durable' = [durable EXCEPT !.objects[c] = objects[c]]
    /\ UNCHANGED <<open, op, diskVars, faults, historyVars>>

FlushRecord(key) ==
    /\ durable' = [durable EXCEPT !.records[key] = records[key]]
    /\ UNCHANGED <<open, op, diskVars, faults, historyVars>>

\* Renames that did not reach the disk are undone.
PowerLoss ==
    /\ faults < MaxFaults
    /\ open' = {} /\ op' = [p \in Processes |-> Idle]
    /\ objects' = durable.objects /\ records' = durable.records
    /\ latest' = NothingKnown
    /\ faults' = faults + 1
    /\ UNCHANGED <<durable, accepted>>

-----------------------------------------------------------------------------
Call(p) ==
    \/ \E c \in Contents : StageArtifact(p, c)
    \/ \E x \in Outcomes : BeginPrepare(p, x)
    \/ \E c \in Contents : PrepareObject(p, c)
    \/ BeginCommit(p)
    \/ \E c \in Contents : CheckObject(p, c)
    \/ PublishRecord(p)
    \/ \E key \in Keys : BeginLoad(p, key)
    \/ \E c \in Contents : LoadObject(p, c)
    \/ FinishLoad(p)
    \/ CallFails(p)

Damage ==
    \/ \E c \in Contents : \E bytes \in Contents \cup {Absent, Torn} : DamageObject(c, bytes)
    \/ \E key \in Keys : \E r \in DamagedRecords(key) : DamageRecord(key, r)

Next ==
    \/ \E p \in Processes : Open(p) \/ Close(p) \/ Call(p)
    \/ \E c \in Contents : FlushObject(c)
    \/ \E key \in Keys : FlushRecord(key)
    \/ Damage
    \/ PowerLoss

Spec == Init /\ [][Next]_vars

-----------------------------------------------------------------------------
(***************************************************************************)
(* What the store promises.                                                *)
(***************************************************************************)
Phases == {"idle", "prepare", "commit", "load"}

Calls ==
    [phase : Phases,
     outcome : Outcomes \cup {NoExecution}, execution : Executions \cup {NoExecution},
     todo : SUBSET Contents, disturbed : SUBSET Phases]

Objects == [Contents -> Contents \cup {Absent, Torn}]
RecordFiles == [Keys -> Records \cup {Absent, Torn}]

\* Types; a process without a handle is in no call.
TypeOK ==
    /\ open \subseteq Processes
    /\ op \in [Processes -> Calls]
    /\ \A p \in Processes \ open : op[p] = Idle
    /\ objects \in Objects /\ records \in RecordFiles
    /\ durable \in [objects : Objects, records : RecordFiles]
    /\ faults \in 0..MaxFaults
    /\ accepted \in [Keys -> SUBSET Executions]
    /\ latest \in [Keys -> Executions \cup {Miss, Unknown}]

\* Whatever was damaged, lost or interrupted, also while load reads: what it
\* returns was committed under the key that was asked for, to the last byte
\* (store.rs:74-105).
LoadReturnsCommitted ==
    \A p \in Processes :
        Returns(p) => op[p].execution \in accepted[op[p].execution.key]

\* Unless something was damaged after it began to commit, load returns exactly
\* the last committed execution: it appears at once and complete, interrupted
\* and failed calls of any attempt change nothing, and damage done before the
\* commit is repaired or refused (store.rs:107-176, atomic_write).
LatestIsVisible ==
    \A key \in Keys : latest[key] # Unknown => Visible(key) = latest[key]

\* An attempt is refused at publication because of an artifact only if the
\* artifact changed after the attempt was prepared (commit's read of objects):
\* staging repairs every object that is missing or damaged before.
CommitNotRefused ==
    \A p \in Processes :
        op[p].phase = "commit" /\ op[p].disturbed = {} => Intact(op[p].todo)

\* What prepare returns is as good as what it was given: it merges aliases with
\* equal bytes without changing what any display shows, leaves no reference
\* that commit or load would refuse, and its objects stay fit for publication
\* unless somebody damages them in the meantime.
PreparedFaithful ==
    /\ CommitNotRefused
    /\ \A p \in Processes :
          op[p].phase \in {"prepare", "commit"} =>
              /\ ValidReferences(op[p].execution)
              /\ Rendered(op[p].execution) = Rendered(op[p].outcome)

\* While a process holds the store, records change only by its own commits,
\* the environment's damage aside (writer.lock).
SingleWriter ==
    [][\A p \in open \cap open' :
          records' # records /\ faults' = faults =>
              /\ op[p].phase = "commit"
              /\ records' = [records EXCEPT ![op[p].execution.key] = RecordOf(op[p].execution)]]_vars
=============================================================================
