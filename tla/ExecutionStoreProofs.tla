------------------------ MODULE ExecutionStoreProofs ------------------------
(***************************************************************************)
(* Theorems about ExecutionStore, for any number of processes, keys,       *)
(* contents and faults.                                                    *)
(***************************************************************************)
EXTENDS ExecutionStore, SequenceTheorems, TLAPS

-----------------------------------------------------------------------------
(***************************************************************************)
(* Executions, addresses and records.                                      *)
(***************************************************************************)
\* A content address names the bytes it was computed from.
LEMMA AddressNamesBytes ==
    ASSUME NEW c
    PROVE  ObjectPath(ContentId(c)) = c
  BY DEF ObjectPath, ContentId

\* The bytes of an address determine it.
LEMMA AddressOfBytes ==
    ASSUME NEW id \in ContentIds
    PROVE  ObjectPath(id) \in Contents /\ ContentId(ObjectPath(id)) = id
  BY DEF ObjectPath, ContentId, ContentIds

\* An execution is the record of its fields.
LEMMA ExecutionFields ==
    ASSUME NEW x \in Executions
    PROVE  x = [key |-> x.key, valid |-> x.valid, artifacts |-> x.artifacts, shows |-> x.shows]
  BY DEF Executions

\* The artifacts and displays of an execution have ids, bytes and indices.
LEMMA ExecutionParts ==
    ASSUME NEW x \in Executions
    PROVE  /\ x.key \in Keys /\ x.valid \in BOOLEAN /\ x.shows \in Seq(Ids)
           /\ DOMAIN x.artifacts \subseteq Ids
           /\ x.artifacts \in [DOMAIN x.artifacts -> Contents \cup {Torn}]
  <1>1. PICK ids \in SUBSET Ids : x.artifacts \in [ids -> Contents \cup {Torn}]
    BY DEF Executions
  <1>2. DOMAIN x.artifacts = ids
    BY <1>1
  <1> QED BY <1>1, <1>2 DEF Executions

\* What a runner delivers is an execution whose artifacts have bytes.
LEMMA OutcomeParts ==
    ASSUME NEW x \in Outcomes
    PROVE  /\ x \in Executions
           /\ \A a \in DOMAIN x.artifacts : x.artifacts[a] \in Contents
  <1>1. x \in Executions
        /\ x.artifacts \in UNION {[ids -> Contents] : ids \in SUBSET Aliases}
    BY StoreAssumption
  <1>2. PICK ids \in SUBSET Aliases : x.artifacts \in [ids -> Contents]
    BY <1>1
  <1> QED BY <1>1, <1>2

\* Addressing artifacts keeps bytes and gives every byte string its address.
LEMMA AddressedParts ==
    ASSUME NEW x \in Outcomes
    PROVE  /\ DOMAIN Addressed(x.artifacts) \subseteq ContentIds
           /\ \A a \in DOMAIN x.artifacts :
                 /\ ContentId(x.artifacts[a]) \in DOMAIN Addressed(x.artifacts)
                 /\ Addressed(x.artifacts)[ContentId(x.artifacts[a])] = x.artifacts[a]
           /\ \A id \in DOMAIN Addressed(x.artifacts) :
                 Addressed(x.artifacts)[id] = ObjectPath(id)
           /\ {ObjectPath(id) : id \in DOMAIN Addressed(x.artifacts)}
                 = {x.artifacts[a] : a \in DOMAIN x.artifacts}
  <1>1. \A a \in DOMAIN x.artifacts : ContentId(x.artifacts[a]) \in ContentIds
    BY OutcomeParts DEF ContentIds
  <1>2. DOMAIN Addressed(x.artifacts) = {ContentId(x.artifacts[a]) : a \in DOMAIN x.artifacts}
    BY DEF Addressed
  <1>3. \A id \in DOMAIN Addressed(x.artifacts) : Addressed(x.artifacts)[id] = ObjectPath(id)
    BY DEF Addressed
  <1>4. \A a \in DOMAIN x.artifacts : ObjectPath(ContentId(x.artifacts[a])) = x.artifacts[a]
    BY AddressNamesBytes
  <1> QED BY <1>1, <1>2, <1>3, <1>4

\* Normalizing a valid outcome yields an execution that shows the same.
LEMMA NormalizedFaithful ==
    ASSUME NEW x \in Outcomes, ValidReferences(x)
    PROVE  /\ Normalized(x) \in Executions
           /\ ValidReferences(Normalized(x))
           /\ Rendered(Normalized(x)) = Rendered(x)
  <1>0. x \in Executions /\ x.key \in Keys /\ x.valid \in BOOLEAN /\ x.shows \in Seq(Ids)
    BY OutcomeParts, ExecutionParts
  <1>1. \A i \in DOMAIN x.shows : x.shows[i] \in DOMAIN x.artifacts
    BY DEF ValidReferences
  <1>2. \A i \in DOMAIN x.shows : x.artifacts[x.shows[i]] \in Contents
    BY <1>1, OutcomeParts
  <1>3. DOMAIN Normalized(x).shows = DOMAIN x.shows
        /\ \A i \in DOMAIN x.shows : Normalized(x).shows[i] = ContentId(x.artifacts[x.shows[i]])
    BY DEF Normalized
  <1>4. ValidReferences(Normalized(x))
    BY <1>1, <1>3, AddressedParts DEF ValidReferences, Normalized
  <1>5. Rendered(Normalized(x)) = Rendered(x)
    BY <1>1, <1>3, AddressedParts DEF Rendered, Normalized
  <1>6. Normalized(x).shows \in Seq(Ids)
    <2>1. PICK n \in Nat : DOMAIN x.shows = 1..n
      BY <1>0
    <2>2. \A i \in 1..n : ContentId(x.artifacts[x.shows[i]]) \in Ids
      BY <1>2, <2>1 DEF Ids, ContentIds
    <2> QED BY <2>1, <2>2, SeqDef DEF Normalized
  <1>7. Addressed(x.artifacts) \in [DOMAIN Addressed(x.artifacts) -> Contents \cup {Torn}]
        /\ DOMAIN Addressed(x.artifacts) \in SUBSET Ids
    BY AddressedParts, AddressOfBytes DEF Addressed, Ids
  <1>8. Normalized(x) \in Executions
    BY <1>0, <1>6, <1>7 DEF Executions, Normalized
  <1> QED BY <1>4, <1>5, <1>8

\* An execution put together from parts of the right kind.
LEMMA MakeExecution ==
    ASSUME NEW key \in Keys, NEW valid \in BOOLEAN, NEW shows \in Seq(Ids),
           NEW artifacts, DOMAIN artifacts \subseteq Ids,
           artifacts \in [DOMAIN artifacts -> Contents \cup {Torn}]
    PROVE  [key |-> key, valid |-> valid, artifacts |-> artifacts, shows |-> shows] \in Executions
  BY DEF Executions

\* What a normalized outcome's record stands for is that outcome.
LEMMA RecordDenotes ==
    ASSUME NEW x \in Outcomes, ValidReferences(x)
    PROVE  /\ RecordOf(Normalized(x)) \in Records
           /\ RecordOf(Normalized(x)) \notin {Absent, Torn}
           /\ RecordOf(Normalized(x)).ids \subseteq ContentIds
           /\ Denoted(RecordOf(Normalized(x))) = Normalized(x)
  <1> DEFINE n == Normalized(x)
  <1>1. n \in Executions /\ n.key \in Keys /\ n.valid \in BOOLEAN /\ n.shows \in Seq(Ids)
    BY NormalizedFaithful, ExecutionParts
  <1>2. DOMAIN n.artifacts \subseteq ContentIds
    BY AddressedParts DEF Normalized
  <1>3. RecordOf(n) \in Records
    BY <1>1, <1>2 DEF RecordOf, Records, Ids
  <1>4. Addressed(x.artifacts) = [id \in DOMAIN Addressed(x.artifacts) |-> ObjectPath(id)]
    BY DEF Addressed
  <1>5. Denoted(RecordOf(n)) = n
    BY <1>4 DEF Denoted, RecordOf, Normalized
  <1> QED BY <1>2, <1>3, <1>5, StoreAssumption DEF RecordOf

-----------------------------------------------------------------------------
(***************************************************************************)
(* Type correctness.                                                       *)
(***************************************************************************)
\* A call in progress is about a proper execution; prepare and commit are about
\* the normalized form of a valid outcome.
CallsTyped ==
    /\ \A p \in Processes : op[p].phase # "idle" => op[p].execution \in Executions
    /\ \A p \in Processes : op[p].phase \in {"prepare", "commit"} =>
          /\ op[p].outcome \in Outcomes
          /\ op[p].outcome.valid /\ ValidReferences(op[p].outcome)
          /\ op[p].execution = Normalized(op[p].outcome)

\* A call that stops leaves every file as it was.
LEMMA StopsTouchesNothing ==
    ASSUME TypeOK, NEW p \in Processes, Stops(p)
    PROVE  /\ objects' = objects /\ records' = records
           /\ op' = [op EXCEPT ![p] = Idle]
           /\ UNCHANGED <<durable, faults, accepted, latest>>
  <1>1. objects' = objects
    BY DEF Stops, BeforeRename, TypeOK, Objects
  <1>2. records' = records
    BY DEF Stops, BeforeRename, TypeOK, RecordFiles
  <1> QED BY <1>1, <1>2 DEF Stops, historyVars

\* The idle call is a call.
LEMMA IdleTyped == Idle \in Calls /\ Idle.phase = "idle"
  BY DEF Idle, Calls, Phases

\* A damaged record file holds a record, or nothing that can be read.
LEMMA DamagedTyped ==
    ASSUME records \in RecordFiles, NEW key \in Keys, NEW r \in DamagedRecords(key)
    PROVE  r \in Records \cup {Absent, Torn}
  BY DEF DamagedRecords, RecordFiles, Records

\* The invariant of this section is inductive.
LEMMA TypesStep ==
    ASSUME TypeOK, CallsTyped, [Next]_vars
    PROVE  TypeOK' /\ CallsTyped'
  <1> USE DEF TypeOK, CallsTyped
  <1>1. CASE UNCHANGED vars
    BY <1>1 DEF vars, diskVars, historyVars
  <1>2. ASSUME NEW p \in Processes, Open(p) PROVE TypeOK' /\ CallsTyped'
    BY <1>2 DEF Open, diskVars, historyVars
  <1>3. ASSUME NEW p \in Processes, p \in open, Stops(p), open' \in {open, open \ {p}}
        PROVE TypeOK' /\ CallsTyped'
    BY <1>3, StopsTouchesNothing, IdleTyped
  <1>4. ASSUME NEW p \in Processes, NEW c \in Contents, StageArtifact(p, c)
        PROVE TypeOK' /\ CallsTyped'
    BY <1>4 DEF StageArtifact, Staged, Objects, historyVars
  <1>5. ASSUME NEW p \in Processes, NEW x \in Outcomes, BeginPrepare(p, x)
        PROVE TypeOK' /\ CallsTyped'
    <2> DEFINE new == [phase |-> "prepare", outcome |-> x, execution |-> Normalized(x),
                       todo |-> {x.artifacts[a] : a \in DOMAIN x.artifacts}, disturbed |-> {}]
    <2>1. Normalized(x) \in Executions
      BY <1>5, NormalizedFaithful DEF BeginPrepare
    <2>2. new \in Calls
      BY <2>1, OutcomeParts DEF Calls, Phases
    <2>3. op' = [op EXCEPT ![p] = new] /\ p \in open
      BY <1>5 DEF BeginPrepare
    <2> QED BY <1>5, <2>1, <2>2, <2>3 DEF BeginPrepare, diskVars, historyVars
  <1>6. ASSUME NEW p \in Processes, NEW c \in Contents, PrepareObject(p, c)
        PROVE TypeOK' /\ CallsTyped'
    BY <1>6 DEF PrepareObject, Staged, Objects, Calls, historyVars
  <1>7. ASSUME NEW p \in Processes, BeginCommit(p) PROVE TypeOK' /\ CallsTyped'
    <2>1. op[p].outcome \in Outcomes /\ op[p].execution = Normalized(op[p].outcome)
      BY <1>7 DEF BeginCommit
    <2>2. {ObjectPath(id) : id \in DOMAIN op[p].execution.artifacts} \subseteq Contents
      BY <2>1, AddressedParts, AddressOfBytes DEF Normalized
    <2> DEFINE new == [op[p] EXCEPT !.phase = "commit",
                        !.todo = {ObjectPath(id) : id \in DOMAIN op[p].execution.artifacts}]
    <2>3. op' = [op EXCEPT ![p] = new] /\ p \in open /\ op[p] \in Calls
          /\ op[p].phase = "prepare"
          /\ UNCHANGED <<open, objects, records, durable, faults, accepted, latest>>
      BY <1>7 DEF BeginCommit, diskVars, historyVars
    <2>4. new \in Calls /\ new.outcome = op[p].outcome /\ new.execution = op[p].execution
      BY <2>2, <2>3 DEF Calls, Phases
    <2> HIDE DEF new
    <2>5. op' \in [Processes -> Calls] /\ op'[p] = new
          /\ \A q \in Processes \ {p} : op'[q] = op[q]
      BY <2>3, <2>4
    <2> QED BY <2>3, <2>4, <2>5
  <1>8. ASSUME NEW p \in Processes, NEW c \in Contents, CheckObject(p, c)
        PROVE TypeOK' /\ CallsTyped'
    BY <1>8 DEF CheckObject, Calls, diskVars, historyVars
  <1>9. ASSUME NEW p \in Processes, PublishRecord(p) PROVE TypeOK' /\ CallsTyped'
    <2> DEFINE x == op[p].execution
    <2>1. p \in open /\ op' = [op EXCEPT ![p] = Idle]
          /\ x = Normalized(op[p].outcome) /\ op[p].outcome \in Outcomes
          /\ ValidReferences(op[p].outcome) /\ x \in Executions
      BY <1>9 DEF PublishRecord
    <2>2. RecordOf(x) \in Records /\ x.key \in Keys
      BY <2>1, RecordDenotes, ExecutionParts
    <2>3. records' = [records EXCEPT ![x.key] = RecordOf(x)]
          /\ accepted' = [accepted EXCEPT ![x.key] = @ \cup {x}]
          /\ latest' = [latest EXCEPT ![x.key] =
                          IF "commit" \in op[p].disturbed THEN Unknown ELSE x]
          /\ UNCHANGED <<open, objects, durable, faults>>
      BY <1>9 DEF PublishRecord
    <2> HIDE DEF x
    <2>4. records' \in RecordFiles
      BY <2>2, <2>3 DEF RecordFiles
    <2>5. accepted' \in [Keys -> SUBSET Executions]
          /\ latest' \in [Keys -> Executions \cup {Miss, Unknown}]
      BY <2>1, <2>2, <2>3
    <2>6. CallsTyped' /\ op' \in [Processes -> Calls]
          /\ \A q \in Processes \ open' : op'[q] = Idle
      BY <2>1, <2>3, IdleTyped
    <2> QED BY <2>3, <2>4, <2>5, <2>6
  <1>10. ASSUME NEW p \in Processes, NEW key \in Keys, BeginLoad(p, key)
         PROVE TypeOK' /\ CallsTyped'
    <2> DEFINE r == records[key]
               x == [key |-> key, valid |-> TRUE, artifacts |-> <<>>, shows |-> r.shows]
               new == [phase |-> "load", outcome |-> NoExecution, execution |-> x,
                       todo |-> {ObjectPath(id) : id \in r.ids}, disturbed |-> {}]
    <2>1. r \in Records /\ r.ids \subseteq ContentIds
      BY <1>10 DEF BeginLoad, Readable, RecordFiles
    <2>2. r.shows \in Seq(Ids)
      BY <2>1 DEF Records
    <2>3. DOMAIN <<>> = {} /\ <<>> \in [{} -> Contents \cup {Torn}]
      OBVIOUS
    <2>4. x \in Executions
      BY <2>2, <2>3, MakeExecution
    <2>5. {ObjectPath(id) : id \in r.ids} \subseteq Contents
      BY <2>1, AddressOfBytes
    <2>6. new \in Calls
      BY <2>4, <2>5 DEF Calls, Phases
    <2>7. p \in open /\ op' = [op EXCEPT ![p] = new]
          /\ UNCHANGED <<open, objects, records, durable, faults, accepted, latest>>
      BY <1>10 DEF BeginLoad, diskVars, historyVars
    <2> QED BY <2>4, <2>6, <2>7
  <1>11. ASSUME NEW p \in Processes, NEW c \in Contents, LoadObject(p, c)
         PROVE TypeOK' /\ CallsTyped'
    <2> DEFINE x == op[p].execution
    <2>1. x \in Executions /\ p \in open /\ objects[c] = c
          /\ op' = [op EXCEPT ![p] = [op[p] EXCEPT !.todo = @ \ {c},
                                       !.execution = WithArtifact(x, c, c)]]
          /\ op[p].phase = "load" /\ op[p] \in Calls
          /\ UNCHANGED <<open, objects, records, durable, faults, accepted, latest>>
      BY <1>11 DEF LoadObject, DigestMatches, diskVars, historyVars
    <2>2. WithArtifact(x, c, c) \in Executions
      <3> DEFINE new == [id \in DOMAIN x.artifacts \cup {ContentId(c)} |->
                           IF id = ContentId(c) THEN c ELSE x.artifacts[id]]
      <3>1. x.key \in Keys /\ x.valid \in BOOLEAN /\ x.shows \in Seq(Ids)
            /\ DOMAIN x.artifacts \subseteq Ids
            /\ x.artifacts \in [DOMAIN x.artifacts -> Contents \cup {Torn}]
        BY <2>1, ExecutionParts
      <3>2. ContentId(c) \in Ids
        BY DEF Ids, ContentIds
      <3>3. DOMAIN new \subseteq Ids /\ new \in [DOMAIN new -> Contents \cup {Torn}]
        BY <3>1, <3>2
      <3> HIDE DEF new
      <3>4. [key |-> x.key, valid |-> x.valid, artifacts |-> new, shows |-> x.shows] \in Executions
        BY <3>1, <3>3, MakeExecution
      <3> QED BY <3>4 DEF WithArtifact, new
    <2> DEFINE new == [op[p] EXCEPT !.todo = @ \ {c}, !.execution = WithArtifact(x, c, c)]
    <2>a. new \in Calls /\ new.phase = "load" /\ new.execution \in Executions
      BY <2>1, <2>2 DEF Calls
    <2> HIDE DEF new
    <2>3. op' \in [Processes -> Calls] /\ op'[p] = new
      BY <2>1, <2>a DEF new
    <2>4. \A q \in Processes \ open' : op'[q] = Idle
      BY <2>1
    <2>5. op'[p].execution \in Executions /\ op'[p].phase = "load"
      BY <2>3, <2>a
    <2>6. \A q \in Processes \ {p} : op'[q] = op[q]
      BY <2>1
    <2>7. CallsTyped'
      BY <2>5, <2>6
    <2> QED BY <2>1, <2>3, <2>4, <2>7
  <1>12. ASSUME NEW p \in Processes, FinishLoad(p) PROVE TypeOK' /\ CallsTyped'
    BY <1>12, IdleTyped DEF FinishLoad, diskVars, historyVars
  <1>13. ASSUME NEW c \in Contents, FlushObject(c) PROVE TypeOK' /\ CallsTyped'
    BY <1>13 DEF FlushObject, Objects, diskVars, historyVars
  <1>14. ASSUME NEW key \in Keys, FlushRecord(key) PROVE TypeOK' /\ CallsTyped'
    BY <1>14 DEF FlushRecord, RecordFiles, diskVars, historyVars
  <1>15. ASSUME op' = Disturbed
         PROVE /\ op' \in [Processes -> Calls] /\ CallsTyped'
               /\ \A q \in Processes \ open : op'[q] = Idle
    BY <1>15, IdleTyped DEF Disturbed, Calls, Phases
  <1>16. ASSUME NEW c \in Contents, NEW bytes \in Contents \cup {Absent, Torn},
                DamageObject(c, bytes)
         PROVE TypeOK' /\ CallsTyped'
    BY <1>15, <1>16, StoreAssumption DEF DamageObject, Objects, NothingKnown
  <1>17. ASSUME NEW key \in Keys, NEW r \in DamagedRecords(key), DamageRecord(key, r)
         PROVE TypeOK' /\ CallsTyped'
    BY <1>15, <1>17, DamagedTyped, StoreAssumption DEF DamageRecord, RecordFiles, NothingKnown
  <1>18. CASE PowerLoss
    BY <1>18, IdleTyped, StoreAssumption DEF PowerLoss, NothingKnown
  <1>19. ASSUME NEW p \in Processes, Close(p) \/ CallFails(p)
         PROVE TypeOK' /\ CallsTyped'
    BY <1>3, <1>19 DEF Close, CallFails
  <1> QED
    BY <1>1, <1>2, <1>4, <1>5, <1>6, <1>7, <1>8, <1>9, <1>10, <1>11, <1>12, <1>13, <1>14,
       <1>16, <1>17, <1>18, <1>19 DEF Next, Call, Damage

-----------------------------------------------------------------------------
(***************************************************************************)
(* Record files are genuine: whatever load would accept of one, given its  *)
(* objects, was committed.                                                 *)
(***************************************************************************)
Acceptable(r) ==
    /\ r \notin {Absent, Torn}
    /\ r.compatible /\ r.valid
    /\ r.ids \subseteq ContentIds
    /\ ValidReferences(Denoted(r))

Genuine(r, history) == Acceptable(r) => Denoted(r) \in history[r.key]

RecordsGenuine ==
    \A k \in Keys : Genuine(records[k], accepted) /\ Genuine(durable.records[k], accepted)

\* Commits are never forgotten by the history.
LEMMA HistoryGrows ==
    ASSUME TypeOK, [Next]_vars
    PROVE  \A k \in Keys : accepted[k] \subseteq accepted'[k]
  <1>1. ASSUME NEW p \in Processes, PublishRecord(p)
        PROVE  \A k \in Keys : accepted[k] \subseteq accepted'[k]
    BY <1>1 DEF PublishRecord, TypeOK
  <1>2. CASE UNCHANGED accepted
    BY <1>2
  <1> QED
    BY <1>1, <1>2 DEF Next, Call, Damage, vars, historyVars, Open, Close, CallFails, Stops,
       StageArtifact, BeginPrepare, PrepareObject, BeginCommit, CheckObject, BeginLoad,
       LoadObject, FinishLoad, FlushObject, FlushRecord, DamageObject, DamageRecord, PowerLoss

\* A record stays genuine as the history grows.
LEMMA StaysGenuine ==
    ASSUME NEW r \in Records \cup {Absent, Torn}, NEW old, NEW new,
           \A k \in Keys : old[k] \subseteq new[k], Genuine(r, old)
    PROVE  Genuine(r, new)
  <1>1. r \in Records => r.key \in Keys
    BY DEF Records
  <1> QED BY <1>1 DEF Genuine, Acceptable

\* Damage never forges a record that load would accept.
LEMMA DamageIsDetected ==
    ASSUME TypeOK, RecordsGenuine, NEW key \in Keys, NEW r \in DamagedRecords(key)
    PROVE  Genuine(r, accepted)
  <1>1. CASE r \in {Absent, Torn}
    BY <1>1 DEF Genuine, Acceptable
  <1>2. CASE \E k \in Keys : r = records[k]
    BY <1>2 DEF RecordsGenuine
  <1>3. ASSUME records[key] \notin {Absent, Torn},
               r \in {[records[key] EXCEPT !.compatible = FALSE],
                      [records[key] EXCEPT !.valid = FALSE]}
        PROVE Genuine(r, accepted)
    <2>1. records[key] \in Records
      BY <1>3 DEF TypeOK, RecordFiles
    <2>2. ~ r.compatible \/ ~ r.valid
      BY <1>3, <2>1 DEF Records
    <2> QED BY <2>2 DEF Genuine, Acceptable
  <1>4. ASSUME records[key] \notin {Absent, Torn}, records[key].shows # <<>>,
               r = [records[key] EXCEPT !.ids = {}]
        PROVE Genuine(r, accepted)
    <2>1. records[key] \in Records
      BY <1>4 DEF TypeOK, RecordFiles
    <2>2. r.ids = {} /\ r.shows = records[key].shows /\ r.shows \in Seq(Ids)
      BY <1>4, <2>1 DEF Records
    <2>3. 1 \in DOMAIN r.shows
      BY <1>4, <2>2
    <2>4. DOMAIN Denoted(r).artifacts = {} /\ Denoted(r).shows = r.shows
      BY <2>2 DEF Denoted
    <2> QED BY <2>3, <2>4 DEF Genuine, Acceptable, ValidReferences
  <1> QED BY <1>1, <1>2, <1>3, <1>4 DEF DamagedRecords

\* Every step keeps the record files genuine, on the disk too.
LEMMA RecordsStep ==
    ASSUME TypeOK, CallsTyped, RecordsGenuine, [Next]_vars
    PROVE  RecordsGenuine'
  <1>a. \A k \in Keys : accepted[k] \subseteq accepted'[k]
    BY HistoryGrows
  <1>b. \A k \in Keys : /\ records[k] \in Records \cup {Absent, Torn}
                         /\ durable.records[k] \in Records \cup {Absent, Torn}
    BY DEF TypeOK, RecordFiles
  <1>c. \A k \in Keys : Genuine(records[k], accepted') /\ Genuine(durable.records[k], accepted')
    BY <1>a, <1>b, StaysGenuine DEF RecordsGenuine
  <1>1. CASE UNCHANGED <<records, durable>>
    BY <1>1, <1>c DEF RecordsGenuine
  <1>2. ASSUME NEW p \in Processes, PublishRecord(p) PROVE RecordsGenuine'
    <2> DEFINE x == op[p].execution
    <2>1. /\ op[p].outcome \in Outcomes /\ ValidReferences(op[p].outcome)
          /\ x = Normalized(op[p].outcome) /\ x \in Executions
      BY <1>2 DEF PublishRecord, CallsTyped
    <2>2. x.key \in Keys /\ Denoted(RecordOf(x)) = x /\ RecordOf(x).key = x.key
      BY <2>1, RecordDenotes, ExecutionParts DEF RecordOf
    <2>3. /\ records' = [records EXCEPT ![x.key] = RecordOf(x)]
          /\ accepted' = [accepted EXCEPT ![x.key] = @ \cup {x}]
          /\ durable' = durable
      BY <1>2 DEF PublishRecord
    <2> HIDE DEF x
    <2>4. x \in accepted'[x.key]
      BY <2>2, <2>3 DEF TypeOK
    <2>5. Genuine(RecordOf(x), accepted')
      BY <2>2, <2>4 DEF Genuine
    <2>6. \A k \in Keys : records'[k] \in {records[k], RecordOf(x)}
      BY <2>2, <2>3 DEF TypeOK, RecordFiles
    <2> QED BY <2>3, <2>5, <2>6, <1>c DEF RecordsGenuine
  <1>3. ASSUME NEW key \in Keys, FlushRecord(key) PROVE RecordsGenuine'
    <2>1. records' = records
          /\ \A k \in Keys : durable'.records[k] \in {records[k], durable.records[k]}
      BY <1>3 DEF FlushRecord, diskVars, TypeOK, RecordFiles
    <2> QED BY <2>1, <1>c DEF RecordsGenuine
  <1>4. ASSUME NEW c \in Contents, FlushObject(c) PROVE RecordsGenuine'
    <2>1. records' = records /\ durable'.records = durable.records
      BY <1>4 DEF FlushObject, diskVars, TypeOK
    <2> QED BY <2>1, <1>c DEF RecordsGenuine
  <1>5. ASSUME NEW key \in Keys, NEW r \in DamagedRecords(key), DamageRecord(key, r)
        PROVE RecordsGenuine'
    <2>1. durable' = durable /\ accepted' = accepted
          /\ \A k \in Keys : records'[k] \in {records[k], r}
      BY <1>5 DEF DamageRecord, TypeOK, RecordFiles
    <2>2. Genuine(r, accepted)
      BY DamageIsDetected
    <2> QED BY <2>1, <2>2, <1>c DEF RecordsGenuine
  <1>6. CASE PowerLoss
    BY <1>6, <1>c DEF PowerLoss, RecordsGenuine
  <1>7. ASSUME NEW p \in Processes, Stops(p) PROVE RecordsGenuine'
    BY <1>7, <1>1, StopsTouchesNothing
  <1> QED
    BY <1>1, <1>2, <1>3, <1>4, <1>5, <1>6, <1>7 DEF Next, Call, Damage, vars, diskVars,
       Open, Close, CallFails, StageArtifact, BeginPrepare, PrepareObject, BeginCommit,
       CheckObject, BeginLoad, LoadObject, FinishLoad, DamageObject

-----------------------------------------------------------------------------
(***************************************************************************)
(* Loads: what a load will return, once it has read its objects.           *)
(***************************************************************************)
Awaited(call) == DOMAIN call.execution.artifacts \cup {ContentId(c) : c \in call.todo}

Loading(call) ==
    [key |-> call.execution.key, valid |-> TRUE,
     artifacts |-> [id \in Awaited(call) |-> ObjectPath(id)],
     shows |-> call.execution.shows]

LoadSound(call, history) ==
    /\ call.execution.valid = TRUE
    /\ \A id \in DOMAIN call.execution.artifacts :
          call.execution.artifacts[id] = ObjectPath(id)
    /\ ValidReferences(Loading(call)) => Loading(call) \in history[call.execution.key]

LoadsSound == \A p \in Processes : op[p].phase = "load" => LoadSound(op[p], accepted)

\* Every step keeps loads in progress on their way to a committed execution.
LEMMA LoadsStep ==
    ASSUME TypeOK, CallsTyped, RecordsGenuine, LoadsSound, [Next]_vars
    PROVE  LoadsSound'
  <1>a. \A k \in Keys : accepted[k] \subseteq accepted'[k]
    BY HistoryGrows
  <1>b. \A q \in Processes : op[q].phase = "load" => LoadSound(op[q], accepted')
    BY <1>a, ExecutionParts DEF LoadsSound, LoadSound, CallsTyped
  <1>c. ASSUME \A q \in Processes : op'[q].phase = "load" => op'[q] = op[q]
        PROVE  LoadsSound'
    BY <1>b, <1>c DEF LoadsSound
  <1>1. ASSUME NEW p \in Processes, Stops(p) PROVE LoadsSound'
    BY <1>1, <1>c, StopsTouchesNothing, IdleTyped DEF TypeOK
  <1>2. ASSUME NEW p \in Processes, NEW x \in Outcomes, BeginPrepare(p, x) PROVE LoadsSound'
    BY <1>2, <1>c DEF BeginPrepare, TypeOK
  <1>3. ASSUME NEW p \in Processes, NEW c \in Contents, PrepareObject(p, c) PROVE LoadsSound'
    BY <1>3, <1>c DEF PrepareObject, TypeOK, Calls
  <1>4. ASSUME NEW p \in Processes, BeginCommit(p) PROVE LoadsSound'
    BY <1>4, <1>c DEF BeginCommit, TypeOK, Calls
  <1>5. ASSUME NEW p \in Processes, NEW c \in Contents, CheckObject(p, c) PROVE LoadsSound'
    BY <1>5, <1>c DEF CheckObject, TypeOK, Calls
  <1>6. ASSUME NEW p \in Processes, PublishRecord(p) PROVE LoadsSound'
    BY <1>6, <1>c, IdleTyped DEF PublishRecord, TypeOK
  <1>7. ASSUME NEW p \in Processes, NEW key \in Keys, BeginLoad(p, key) PROVE LoadsSound'
    <2> DEFINE r == records[key]
               x == [key |-> key, valid |-> TRUE, artifacts |-> <<>>, shows |-> r.shows]
               new == [phase |-> "load", outcome |-> NoExecution, execution |-> x,
                       todo |-> {ObjectPath(id) : id \in r.ids}, disturbed |-> {}]
    <2>1. /\ r \in Records /\ r \notin {Absent, Torn} /\ r.ids \subseteq ContentIds
          /\ r.key = key /\ r.compatible /\ r.valid = TRUE
      BY <1>7 DEF BeginLoad, Readable, TypeOK, RecordFiles, Records
    <2>2. op' = [op EXCEPT ![p] = new] /\ accepted' = accepted
      BY <1>7 DEF BeginLoad, historyVars
    <2>3. Awaited(new) = r.ids
      <3>1. {ContentId(c) : c \in new.todo} = r.ids
        BY <2>1, AddressOfBytes
      <3>2. DOMAIN new.execution.artifacts = {}
        OBVIOUS
      <3> QED BY <3>1, <3>2 DEF Awaited
    <2>4. Loading(new) = Denoted(r)
      BY <2>1, <2>3 DEF Loading, Denoted
    <2>5. LoadSound(new, accepted')
      BY <2>1, <2>2, <2>4 DEF LoadSound, RecordsGenuine, Genuine, Acceptable
    <2> HIDE DEF new
    <2> QED BY <2>2, <2>5, <1>b DEF LoadsSound, TypeOK
  <1>8. ASSUME NEW p \in Processes, NEW c \in Contents, LoadObject(p, c) PROVE LoadsSound'
    <2> DEFINE x == op[p].execution
               new == [op[p] EXCEPT !.todo = op[p].todo \ {c},
                                    !.execution = WithArtifact(x, c, c)]
    <2>1. /\ op[p].phase = "load" /\ op[p] \in Calls /\ c \in op[p].todo
          /\ op' = [op EXCEPT ![p] = new] /\ accepted' = accepted
      BY <1>8 DEF LoadObject, DigestMatches, historyVars, TypeOK
    <2>2. LoadSound(op[p], accepted')
      BY <1>b, <2>1
    <2>3. new.execution = WithArtifact(x, c, c) /\ new.todo = op[p].todo \ {c}
      BY <2>1 DEF Calls
    <2>4. /\ DOMAIN new.execution.artifacts = DOMAIN x.artifacts \cup {ContentId(c)}
          /\ new.execution.valid = x.valid /\ new.execution.key = x.key
          /\ new.execution.shows = x.shows
          /\ \A id \in DOMAIN x.artifacts \cup {ContentId(c)} :
                new.execution.artifacts[id] = IF id = ContentId(c) THEN c ELSE x.artifacts[id]
      BY <2>3 DEF WithArtifact
    <2> HIDE DEF new
    <2>5. Awaited(new) = Awaited(op[p])
      BY <2>1, <2>3, <2>4 DEF Awaited
    <2>6. Loading(new) = Loading(op[p])
      BY <2>4, <2>5 DEF Loading
    <2>7. LoadSound(new, accepted')
      BY <2>2, <2>4, <2>6, AddressNamesBytes DEF LoadSound
    <2> QED BY <2>1, <2>7, <1>b DEF LoadsSound, TypeOK
  <1>9. ASSUME NEW p \in Processes, FinishLoad(p) PROVE LoadsSound'
    BY <1>9, <1>c, IdleTyped DEF FinishLoad, TypeOK
  <1>10. CASE op' = Disturbed
    <2>1. \A q \in Processes : op'[q].phase = "load" =>
             /\ op[q].phase = "load"
             /\ op'[q].execution = op[q].execution /\ op'[q].todo = op[q].todo
      BY <1>10, IdleTyped DEF Disturbed, TypeOK, Calls
    <2> QED BY <2>1, <1>b DEF LoadsSound, LoadSound, Loading, Awaited
  <1>11. CASE PowerLoss
    BY <1>11, <1>c, IdleTyped DEF PowerLoss
  <1>12. CASE UNCHANGED op
    BY <1>12, <1>c
  <1> QED
    BY <1>1, <1>2, <1>3, <1>4, <1>5, <1>6, <1>7, <1>8, <1>9, <1>10, <1>11, <1>12
    DEF Next, Call, Damage, vars, Open, Close, CallFails, StageArtifact, FlushObject,
        FlushRecord, DamageObject, DamageRecord

-----------------------------------------------------------------------------
(***************************************************************************)
(* Objects: what prepare staged and commit checked stays intact unless it  *)
(* is damaged, and so does what the last commit of a key refers to.        *)
(***************************************************************************)
Bytes(x) == {x.artifacts[a] : a \in DOMAIN x.artifacts}

ObjectsSound(call) ==
    /\ call.todo \subseteq Bytes(call.outcome)
    /\ call.disturbed = {} /\ call.phase = "prepare" => Intact(Bytes(call.outcome) \ call.todo)
    /\ call.disturbed = {} /\ call.phase = "commit" => Intact(Bytes(call.outcome))
    /\ "commit" \notin call.disturbed /\ call.phase = "commit" =>
          Intact(Bytes(call.outcome) \ call.todo)

AttemptsSound ==
    \A p \in Processes : op[p].phase \in {"prepare", "commit"} => ObjectsSound(op[p])

\* The record of key is readable, complete, and stands for x.
Holds(key, x) ==
    /\ Readable(records[key], key)
    /\ Intact({ObjectPath(id) : id \in records[key].ids})
    /\ ValidReferences(Denoted(records[key]))
    /\ Denoted(records[key]) = x

LatestSound ==
    \A k \in Keys :
        /\ latest[k] = Miss => records[k] = Absent
        /\ latest[k] \notin {Miss, Unknown} => Holds(k, latest[k])

\* The store repairs objects, it never spoils one.
OnlyRepairs == \A c \in Contents : objects'[c] \in {objects[c], c}

\* Intact objects stay intact in every step but damage.
LEMMA RepairsKeepIntact ==
    ASSUME OnlyRepairs, NEW S \in SUBSET Contents, Intact(S)
    PROVE  Intact(S)'
  BY DEF OnlyRepairs, Intact

\* The bytes of an attempt have object paths.
LEMMA BytesTyped ==
    ASSUME NEW x \in Outcomes
    PROVE  Bytes(x) \subseteq Contents
  BY OutcomeParts DEF Bytes

\* Calls that keep their attempt keep what is known of its objects.
LEMMA AttemptKept ==
    ASSUME TypeOK, CallsTyped, AttemptsSound, OnlyRepairs, NEW p \in Processes,
           op'[p] = op[p], op[p].phase \in {"prepare", "commit"}
    PROVE  ObjectsSound(op[p])'
  <1> DEFINE B == Bytes(op[p].outcome)
  <1>1. B \subseteq Contents
    BY BytesTyped DEF CallsTyped
  <1>2. ObjectsSound(op[p])
    BY DEF AttemptsSound
  <1>3. Bytes(op[p].outcome)' = B
    BY DEF Bytes
  <1>4. (Intact(B \ op[p].todo) => Intact(B \ op[p].todo)') /\ (Intact(B) => Intact(B)')
    BY <1>1 DEF OnlyRepairs, Intact, Bytes
  <1> QED BY <1>2, <1>3, <1>4 DEF ObjectsSound

\* Every step but damage keeps the last commits in place.
LEMMA HeldKept ==
    ASSUME TypeOK, LatestSound, OnlyRepairs, NEW k \in Keys,
           latest'[k] = latest[k], records'[k] = records[k]
    PROVE  /\ latest'[k] = Miss => records'[k] = Absent
           /\ latest'[k] \notin {Miss, Unknown} => Holds(k, latest[k])'
  <1> SUFFICES ASSUME latest[k] \notin {Miss, Unknown}
               PROVE  Holds(k, latest[k])'
    BY DEF LatestSound
  <1> DEFINE S == {ObjectPath(id) : id \in records[k].ids}
  <1>1. Holds(k, latest[k])
    BY DEF LatestSound
  <1>2. S \subseteq Contents /\ Intact(S)
    BY <1>1, AddressOfBytes DEF Holds, Readable
  <1>3. \A c \in S : objects'[c] = c
    BY <1>2 DEF OnlyRepairs, Intact
  <1> QED BY <1>1, <1>3 DEF Holds, Readable, Intact, Denoted, ValidReferences

\* A commit that found its objects intact holds once its record is in place.
LEMMA PublishedHolds ==
    ASSUME NEW x \in Outcomes, x.valid, ValidReferences(x), NEW key, key = x.key,
           \A c \in Bytes(x) : objects'[c] = c,
           records'[key] = RecordOf(Normalized(x))
    PROVE  Holds(key, Normalized(x))'
  <1> DEFINE n == Normalized(x)
  <1>1. /\ RecordOf(n) \notin {Absent, Torn} /\ RecordOf(n).ids \subseteq ContentIds
        /\ Denoted(RecordOf(n)) = n
    BY RecordDenotes
  <1>2. RecordOf(n).compatible /\ RecordOf(n).key = key /\ RecordOf(n).valid
        /\ RecordOf(n).ids = DOMAIN Addressed(x.artifacts)
    BY DEF RecordOf, Normalized
  <1>3. {ObjectPath(id) : id \in RecordOf(n).ids} = Bytes(x)
    BY <1>2, AddressedParts DEF Bytes
  <1>4. ValidReferences(n)
    BY NormalizedFaithful
  <1> HIDE DEF n
  <1>5. Readable(records[key], key)'
    BY <1>1, <1>2 DEF Readable, n
  <1>6. Intact({ObjectPath(id) : id \in records[key].ids})'
    BY <1>3 DEF Intact, n
  <1>7. Denoted(records[key])' = n
    BY <1>1 DEF Denoted, n
  <1>8. ValidReferences(Denoted(records[key]))'
    BY <1>4, <1>7 DEF ValidReferences
  <1> QED BY <1>5, <1>6, <1>7, <1>8 DEF Holds, n

\* Every step keeps what is known of objects.
LEMMA ObjectsStep ==
    ASSUME TypeOK, CallsTyped, AttemptsSound, LatestSound, [Next]_vars
    PROVE  AttemptsSound' /\ LatestSound'
  <1> DEFINE Busy(q) == op[q].phase \in {"prepare", "commit"}
             Others(p) == \A q \in Processes \ {p} : op'[q] = op[q]
  <1>a. ASSUME OnlyRepairs, UNCHANGED <<records, latest>> PROVE LatestSound'
    BY <1>a, HeldKept DEF LatestSound
  <1>b. ASSUME OnlyRepairs, NEW p \in Processes, Others(p),
               op'[p].phase \in {"prepare", "commit"} => ObjectsSound(op[p])'
        PROVE  AttemptsSound'
    <2> SUFFICES ASSUME NEW q \in Processes, op'[q].phase \in {"prepare", "commit"}
                 PROVE  ObjectsSound(op[q])'
      BY DEF AttemptsSound
    <2>1. CASE q = p
      BY <1>b, <2>1
    <2>2. CASE q # p
      BY <1>b, <2>2, AttemptKept
    <2> QED BY <2>1, <2>2
  <1>c. ASSUME OnlyRepairs, UNCHANGED op PROVE AttemptsSound'
    BY <1>c, AttemptKept DEF AttemptsSound
  <1>d. UNCHANGED objects => OnlyRepairs
    BY DEF OnlyRepairs
  <1>e. ASSUME NEW c \in Contents, objects' = [objects EXCEPT ![c] = Staged(c)]
        PROVE  OnlyRepairs /\ objects'[c] = c
    BY <1>e DEF OnlyRepairs, Staged, TypeOK, Objects
  <1>1. ASSUME NEW p \in Processes, Stops(p) PROVE AttemptsSound' /\ LatestSound'
    <2>1. UNCHANGED <<objects, records, latest>> /\ op' = [op EXCEPT ![p] = Idle]
      BY <1>1, StopsTouchesNothing
    <2>2. Others(p) /\ op'[p].phase = "idle"
      BY <2>1, IdleTyped DEF TypeOK
    <2> QED BY <2>1, <2>2, <1>a, <1>b, <1>d
  <1>2. ASSUME NEW p \in Processes, NEW c \in Contents, StageArtifact(p, c)
        PROVE AttemptsSound' /\ LatestSound'
    BY <1>2, <1>a, <1>c, <1>e DEF StageArtifact, historyVars
  <1>3. ASSUME NEW p \in Processes, NEW x \in Outcomes, BeginPrepare(p, x)
        PROVE AttemptsSound' /\ LatestSound'
    <2>1. /\ op'[p] = [phase |-> "prepare", outcome |-> x, execution |-> Normalized(x),
                       todo |-> {x.artifacts[a] : a \in DOMAIN x.artifacts}, disturbed |-> {}]
          /\ Others(p) /\ UNCHANGED <<objects, records, latest>>
      BY <1>3 DEF BeginPrepare, diskVars, historyVars, TypeOK
    <2>2. op'[p].todo = Bytes(x) /\ op'[p].outcome = x /\ op'[p].phase = "prepare"
      BY <2>1 DEF Bytes
    <2>3. ObjectsSound(op[p])'
      BY <2>2 DEF ObjectsSound, Intact, Bytes
    <2> QED BY <2>1, <2>3, <1>a, <1>b, <1>d
  <1>4. ASSUME NEW p \in Processes, NEW c \in Contents, PrepareObject(p, c)
        PROVE AttemptsSound' /\ LatestSound'
    <2> DEFINE o == op[p].outcome
    <2>1. /\ op[p].phase = "prepare" /\ c \in op[p].todo /\ Others(p)
          /\ op'[p] = [op[p] EXCEPT !.todo = op[p].todo \ {c}] /\ op[p] \in Calls
          /\ UNCHANGED <<records, latest>> /\ OnlyRepairs /\ objects'[c] = c
      BY <1>4, <1>e DEF PrepareObject, historyVars, TypeOK
    <2>2. /\ op'[p].phase = "prepare" /\ op'[p].outcome = o
          /\ op'[p].disturbed = op[p].disturbed /\ op'[p].todo = op[p].todo \ {c}
      BY <2>1 DEF Calls
    <2>3. ObjectsSound(op[p]) /\ Bytes(o) \subseteq Contents
      BY <2>1, BytesTyped DEF AttemptsSound, CallsTyped
    <2>4. op[p].disturbed = {} => \A b \in Bytes(o) \ (op[p].todo \ {c}) : objects'[b] = b
      BY <2>1, <2>3 DEF ObjectsSound, Intact, OnlyRepairs
    <2>5. ObjectsSound(op[p])'
      BY <2>2, <2>3, <2>4 DEF ObjectsSound, Intact, Bytes
    <2> QED BY <2>1, <2>5, <1>a, <1>b
  <1>5. ASSUME NEW p \in Processes, BeginCommit(p) PROVE AttemptsSound' /\ LatestSound'
    <2> DEFINE o == op[p].outcome
    <2>1. /\ op[p].phase = "prepare" /\ op[p].todo = {} /\ Others(p) /\ op[p] \in Calls
          /\ op'[p] = [op[p] EXCEPT !.phase = "commit",
                !.todo = {ObjectPath(id) : id \in DOMAIN op[p].execution.artifacts}]
          /\ UNCHANGED <<objects, records, latest>>
      BY <1>5 DEF BeginCommit, diskVars, historyVars, TypeOK
    <2>2. o \in Outcomes /\ op[p].execution = Normalized(o) /\ ObjectsSound(op[p])
      BY <2>1 DEF CallsTyped, AttemptsSound
    <2>3. {ObjectPath(id) : id \in DOMAIN op[p].execution.artifacts} = Bytes(o)
      <3>1. op[p].execution.artifacts = Addressed(o.artifacts)
        BY <2>2 DEF Normalized
      <3>2. {ObjectPath(id) : id \in DOMAIN Addressed(o.artifacts)} = Bytes(o)
        BY <2>2, AddressedParts DEF Bytes
      <3> QED BY <3>1, <3>2
    <2>4. /\ op'[p].phase = "commit" /\ op'[p].outcome = o /\ op'[p].todo = Bytes(o)
          /\ op'[p].disturbed = op[p].disturbed
      BY <2>1, <2>3 DEF Calls
    <2>5. op[p].disturbed = {} => \A b \in Bytes(o) : objects'[b] = b
      BY <2>1, <2>2 DEF ObjectsSound, Intact
    <2>6. ObjectsSound(op[p])'
      BY <2>4, <2>5 DEF ObjectsSound, Intact, Bytes
    <2> QED BY <2>1, <2>6, <1>a, <1>b, <1>d
  <1>6. ASSUME NEW p \in Processes, NEW c \in Contents, CheckObject(p, c)
        PROVE AttemptsSound' /\ LatestSound'
    <2> DEFINE o == op[p].outcome
    <2>1. /\ op[p].phase = "commit" /\ c \in op[p].todo /\ Others(p) /\ objects[c] = c
          /\ op'[p] = [op[p] EXCEPT !.todo = op[p].todo \ {c}] /\ op[p] \in Calls
          /\ UNCHANGED <<objects, records, latest>>
      BY <1>6 DEF CheckObject, diskVars, historyVars, TypeOK
    <2>2. /\ op'[p].phase = "commit" /\ op'[p].outcome = o
          /\ op'[p].disturbed = op[p].disturbed /\ op'[p].todo = op[p].todo \ {c}
      BY <2>1 DEF Calls
    <2>3. ObjectsSound(op[p])
      BY <2>1 DEF AttemptsSound
    <2>4. ObjectsSound(op[p])'
      BY <2>1, <2>2, <2>3 DEF ObjectsSound, Intact, Bytes
    <2> QED BY <2>1, <2>4, <1>a, <1>b, <1>d
  <1>7. ASSUME NEW p \in Processes, PublishRecord(p) PROVE AttemptsSound' /\ LatestSound'
    <2>0. PICK o, x, known : /\ o = op[p].outcome /\ x = op[p].execution
                             /\ known = (IF "commit" \in op[p].disturbed THEN Unknown ELSE x)
      OBVIOUS
    <2>1. /\ op[p].phase = "commit" /\ op[p].todo = {} /\ objects' = objects
          /\ op' = [op EXCEPT ![p] = Idle]
          /\ records' = [records EXCEPT ![x.key] = RecordOf(x)]
          /\ latest' = [latest EXCEPT ![x.key] = known]
      BY <1>7, <2>0 DEF PublishRecord, Checked
    <2>2. /\ o \in Outcomes /\ o.valid /\ ValidReferences(o) /\ x = Normalized(o)
          /\ ObjectsSound(op[p]) /\ x \in Executions
      BY <2>0, <2>1 DEF CallsTyped, AttemptsSound
    <2>3. x.key \in Keys /\ o.key = x.key
      BY <2>2, ExecutionParts DEF Normalized
    <2>4. "commit" \notin op[p].disturbed => \A b \in Bytes(o) : objects'[b] = b
      BY <2>0, <2>1, <2>2 DEF ObjectsSound, Intact
    <2>5. Others(p) /\ op'[p].phase = "idle"
      BY <2>1, IdleTyped DEF TypeOK
    <2>6. records'[x.key] = RecordOf(Normalized(o)) /\ latest'[x.key] = known
          /\ \A k \in Keys \ {x.key} : records'[k] = records[k] /\ latest'[k] = latest[k]
      BY <2>1, <2>2, <2>3 DEF TypeOK, RecordFiles
    <2>7. ASSUME "commit" \notin op[p].disturbed PROVE Holds(x.key, x)'
      BY <2>7, <2>2, <2>3, <2>4, <2>6, PublishedHolds
    <2>8. /\ latest'[x.key] # Miss
          /\ latest'[x.key] \notin {Miss, Unknown} => Holds(x.key, latest[x.key])'
      <3>1. CASE "commit" \in op[p].disturbed
        BY <3>1, <2>0, <2>6, StoreAssumption
      <3>2. CASE "commit" \notin op[p].disturbed
        <4>1. latest'[x.key] = x
          BY <3>2, <2>0, <2>6
        <4>2. x # Miss
          BY <2>2, StoreAssumption
        <4>3. Holds(x.key, latest[x.key])'
          BY <3>2, <2>7, <4>1 DEF Holds
        <4> QED BY <4>1, <4>2, <4>3
      <3> QED BY <3>1, <3>2
    <2>9. ASSUME NEW k \in Keys, k # x.key
          PROVE  /\ latest'[k] = Miss => records'[k] = Absent
                 /\ latest'[k] \notin {Miss, Unknown} => Holds(k, latest[k])'
      BY <2>1, <2>6, <2>9, <1>d, HeldKept
    <2>10. LatestSound'
      BY <2>8, <2>9 DEF LatestSound
    <2>11. AttemptsSound'
      BY <2>1, <2>5, <1>b, <1>d
    <2> QED BY <2>10, <2>11
  <1>8. ASSUME NEW p \in Processes, NEW key \in Keys, BeginLoad(p, key)
        PROVE AttemptsSound' /\ LatestSound'
    <2>1. Others(p) /\ op'[p].phase = "load" /\ UNCHANGED <<objects, records, latest>>
      BY <1>8 DEF BeginLoad, diskVars, historyVars, TypeOK
    <2> QED BY <2>1, <1>a, <1>b, <1>d
  <1>9. ASSUME NEW p \in Processes, NEW c \in Contents, LoadObject(p, c)
        PROVE AttemptsSound' /\ LatestSound'
    <2>1. Others(p) /\ op'[p].phase = "load" /\ UNCHANGED <<objects, records, latest>>
      BY <1>9 DEF LoadObject, diskVars, historyVars, TypeOK, Calls
    <2> QED BY <2>1, <1>a, <1>b, <1>d
  <1>10. ASSUME NEW p \in Processes, FinishLoad(p) PROVE AttemptsSound' /\ LatestSound'
    <2>1. Others(p) /\ op'[p].phase = "idle" /\ UNCHANGED <<objects, records, latest>>
      BY <1>10, IdleTyped DEF FinishLoad, diskVars, historyVars, TypeOK
    <2> QED BY <2>1, <1>a, <1>b, <1>d
  <1>11. CASE op' = Disturbed /\ latest' = NothingKnown
    <2>1. LatestSound'
      BY <1>11, StoreAssumption DEF LatestSound, NothingKnown
    <2>2. \A q \in Processes : op'[q].phase \in {"prepare", "commit"} =>
             /\ op'[q].phase = op[q].phase /\ op'[q].phase \in op'[q].disturbed
             /\ op'[q].todo = op[q].todo /\ op'[q].outcome = op[q].outcome
      BY <1>11, IdleTyped DEF Disturbed, TypeOK, Calls
    <2>3. ASSUME NEW q \in Processes, op'[q].phase \in {"prepare", "commit"}
          PROVE  ObjectsSound(op[q])'
      <3>1. ObjectsSound(op[q])
        BY <2>2, <2>3 DEF AttemptsSound
      <3>2. op'[q].disturbed # {} /\ (op'[q].phase = "commit" => "commit" \in op'[q].disturbed)
        BY <2>2, <2>3
      <3>3. op'[q].todo \subseteq Bytes(op'[q].outcome)
        BY <2>2, <2>3, <3>1 DEF ObjectsSound
      <3> QED BY <3>2, <3>3 DEF ObjectsSound, Bytes
    <2>4. AttemptsSound'
      BY <2>3 DEF AttemptsSound
    <2> QED BY <2>1, <2>4
  <1>12. CASE PowerLoss
    BY <1>12, IdleTyped, StoreAssumption DEF PowerLoss, LatestSound, AttemptsSound, NothingKnown
  <1>13. CASE UNCHANGED <<op, objects, records, latest>>
    BY <1>13, <1>a, <1>c, <1>d
  <1> QED
    BY <1>1, <1>2, <1>3, <1>4, <1>5, <1>6, <1>7, <1>8, <1>9, <1>10, <1>11, <1>12, <1>13
    DEF Next, Call, Damage, vars, diskVars, historyVars, Open, Close, CallFails,
        FlushObject, FlushRecord, DamageObject, DamageRecord

-----------------------------------------------------------------------------
(***************************************************************************)
(* The inductive invariant and the theorems.                               *)
(***************************************************************************)
IInv ==
    /\ TypeOK /\ CallsTyped
    /\ RecordsGenuine /\ LoadsSound
    /\ AttemptsSound /\ LatestSound

\* At most one handle is open.
OneWriter == \A p, q \in open : p = q

\* The invariant holds before anything was opened.
LEMMA InitInvariant == Init => IInv /\ OneWriter
  <1> SUFFICES ASSUME Init PROVE IInv /\ OneWriter
    OBVIOUS
  <1>1. TypeOK
    BY IdleTyped, StoreAssumption DEF Init, TypeOK, Objects, RecordFiles
  <1>2. \A p \in Processes : op[p].phase = "idle"
    BY IdleTyped DEF Init
  <1>3. \A k \in Keys : records[k] = Absent /\ durable.records[k] = Absent /\ latest[k] = Miss
    BY DEF Init
  <1>4. CallsTyped /\ LoadsSound /\ AttemptsSound
    BY <1>2 DEF CallsTyped, LoadsSound, AttemptsSound
  <1>5. RecordsGenuine
    BY <1>3 DEF RecordsGenuine, Genuine, Acceptable
  <1>6. LatestSound
    BY <1>3 DEF LatestSound
  <1>7. OneWriter
    BY DEF Init, OneWriter
  <1> QED BY <1>1, <1>4, <1>5, <1>6, <1>7 DEF IInv

\* The inductive invariant of the store holds in every reachable state.
THEOREM Invariance == Spec => []IInv
  <1>1. Init => IInv
    BY InitInvariant
  <1>2. IInv /\ [Next]_vars => IInv'
    <2> SUFFICES ASSUME IInv, [Next]_vars PROVE IInv'
      OBVIOUS
    <2>1. TypeOK' /\ CallsTyped'
      BY TypesStep DEF IInv
    <2>2. RecordsGenuine' /\ LoadsSound'
      BY RecordsStep, LoadsStep DEF IInv
    <2>3. AttemptsSound' /\ LatestSound'
      BY ObjectsStep DEF IInv
    <2> QED BY <2>1, <2>2, <2>3 DEF IInv
  <1> QED BY <1>1, <1>2, PTL DEF Spec

\* The store's variables keep their types.
THEOREM TypeCorrect == Spec => []TypeOK
  <1>1. IInv => TypeOK
    BY DEF IInv
  <1> QED BY <1>1, Invariance, PTL

\* After any crash, power loss and damage, load returns only what was committed.
THEOREM LoadsCorrect == Spec => []LoadReturnsCommitted
  <1>1. IInv => LoadReturnsCommitted
    <2> SUFFICES ASSUME IInv, NEW p \in Processes, Returns(p)
                 PROVE  op[p].execution \in accepted[op[p].execution.key]
      BY DEF LoadReturnsCommitted
    <2> DEFINE x == op[p].execution
    <2>1. LoadSound(op[p], accepted) /\ op[p].todo = {} /\ ValidReferences(x) /\ x \in Executions
      BY DEF IInv, LoadsSound, CallsTyped, Returns
    <2>2. Awaited(op[p]) = DOMAIN x.artifacts
      BY <2>1 DEF Awaited
    <2>3. x.artifacts = [id \in DOMAIN x.artifacts |-> ObjectPath(id)]
      BY <2>1, ExecutionParts DEF LoadSound
    <2>4. Loading(op[p]) = x
      BY <2>1, <2>2, <2>3, ExecutionFields DEF Loading, LoadSound
    <2> QED BY <2>1, <2>4 DEF LoadSound
  <1> QED BY <1>1, Invariance, PTL

\* The last commit of every key is what load returns, unless it was damaged.
THEOREM LatestCorrect == Spec => []LatestIsVisible
  <1>1. IInv => LatestIsVisible
    <2> SUFFICES ASSUME IInv, NEW k \in Keys, latest[k] # Unknown
                 PROVE  Visible(k) = latest[k]
      BY DEF LatestIsVisible
    <2>1. CASE latest[k] = Miss
      BY <2>1 DEF IInv, LatestSound, Visible, Readable
    <2>2. CASE latest[k] # Miss
      BY <2>2 DEF IInv, LatestSound, Holds, Visible
    <2> QED BY <2>1, <2>2
  <1> QED BY <1>1, Invariance, PTL

\* Normalizing an attempt changes nothing that a display shows, and an attempt
\* whose objects nobody damaged is never refused at publication.
THEOREM PreparesCorrect == Spec => []PreparedFaithful
  <1>1. IInv => CommitNotRefused
    BY DEF IInv, AttemptsSound, ObjectsSound, CommitNotRefused, Intact
  <1>2. IInv /\ CommitNotRefused => PreparedFaithful
    BY NormalizedFaithful DEF IInv, CallsTyped, PreparedFaithful
  <1> QED BY <1>1, <1>2, Invariance, PTL

\* A process that holds the store is the only one to change its records.
THEOREM WritersExclude == Spec => SingleWriter
  <1> DEFINE Alone == \A p \in open \cap open' :
                records' # records /\ faults' = faults =>
                  /\ op[p].phase = "commit"
                  /\ records' = [records EXCEPT ![op[p].execution.key] = RecordOf(op[p].execution)]
  <1>1. Init => OneWriter
    BY InitInvariant
  <1>2. IInv /\ OneWriter /\ [Next]_vars => OneWriter'
    <2> SUFFICES ASSUME IInv, OneWriter, [Next]_vars PROVE OneWriter'
      OBVIOUS
    <2>1. \/ open' \subseteq open
          \/ \E p \in Processes : open = {} /\ open' = {p}
      BY DEF Next, Call, Damage, vars, Open, LockFree, Close, CallFails, StageArtifact,
         BeginPrepare, PrepareObject, BeginCommit, CheckObject, PublishRecord, BeginLoad,
         LoadObject, FinishLoad, FlushObject, FlushRecord, DamageObject, DamageRecord, PowerLoss
    <2> QED BY <2>1 DEF OneWriter
  <1>3. IInv /\ OneWriter /\ [Next]_vars => [Alone]_vars
    <2> SUFFICES ASSUME IInv, OneWriter, Next, NEW p \in open, records' # records,
                        faults' = faults
                 PROVE  /\ op[p].phase = "commit"
                        /\ records' = [records EXCEPT ![op[p].execution.key] =
                                         RecordOf(op[p].execution)]
      BY DEF Alone
    <2>1. faults \in Nat
      BY StoreAssumption DEF IInv, TypeOK
    <2>2. ~ Damage /\ ~ PowerLoss
      BY <2>1 DEF Damage, DamageObject, DamageRecord, PowerLoss
    <2>3. ASSUME NEW q \in Processes, Stops(q) PROVE FALSE
      BY <2>3, StopsTouchesNothing DEF IInv
    <2>4. PICK q \in Processes : PublishRecord(q)
      BY <2>2, <2>3 DEF Next, Call, diskVars, Open, Close, CallFails, StageArtifact,
         BeginPrepare, PrepareObject, BeginCommit, CheckObject, BeginLoad, LoadObject,
         FinishLoad, FlushObject, FlushRecord
    <2>5. q = p
      BY <2>4 DEF PublishRecord, OneWriter
    <2> QED BY <2>4, <2>5 DEF PublishRecord
  <1>4. Spec => [](IInv /\ OneWriter)
    BY <1>1, <1>2, Invariance, PTL DEF Spec
  <1>5. Spec => [][Alone]_vars
    BY <1>3, <1>4, PTL DEF Spec
  <1> QED BY <1>5 DEF SingleWriter
=============================================================================
