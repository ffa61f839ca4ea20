------------------------------ MODULE Remember ------------------------------
(***************************************************************************)
(* POST /v1/memories/remember (src/app/api_v1.py): the write of module     *)
(* Writeback, then the audit of its result, saved in one transaction of an *)
(* SQL database (src/infra/db/audit_repo.py, src/infra/db/session.py).     *)
(*                                                                         *)
(* The handler writes memory first and audits it afterwards, in a session  *)
(* of its own: nothing keeps the two in step.  db.merge looks a row up by  *)
(* its key and decides there between INSERT and UPDATE; the statements are *)
(* sent at commit (autoflush is off).  So an audit has two steps: Lookup   *)
(* finds the rows, Commit or Rollback sends them, all or none.             *)
(*                                                                         *)
(* A row of memory_records and one of review_candidates hold the item and  *)
(* the request it came from.  Operations get fresh identifiers: the pair   *)
(* of the request and the position.  policy_decisions, keyed in the same   *)
(* way, only repeat what the operations say and are left out.              *)
(***************************************************************************)
EXTENDS Writeback

CONSTANT DbFails   \* may the database refuse a transaction by itself?

ASSUME DbFailsType == DbFails \in BOOLEAN

VARIABLES records,     \* memory_records: id -> row or None
          operations,  \* memory_operations: ids
          reviews,     \* review_candidates: id (without "review_") -> row or None
          stage,       \* per request: where its handler is
          known,       \* per request: the keys its merges found
          together     \* history: pairs of requests whose handlers overlapped

database == <<records, operations, reviews>>
rememberVars == <<vars, database, stage, known, together>>

OperationIds == Requests \X (Nat \ {0})
Rows == [by : Requests, item : Items]
Candidates == [by : Requests, item : Items, operation : OperationIds]
Keys == {"record", "review"} \X Ids

ASSUME RowsAreData == None \notin Rows \cup Candidates

RememberTypeOK ==
  /\ TypeOK
  /\ records \in [Ids -> Rows \cup {None}]
  /\ operations \subseteq OperationIds
  /\ reviews \in [Ids -> Candidates \cup {None}]
  /\ stage \in [Requests -> {"write", "commit", "persisted", "failed"}]
  /\ known \in [Requests -> SUBSET Keys]
  /\ together \subseteq Requests \X Requests

RememberInit ==
  /\ Init
  /\ records = [i \in Ids |-> None]
  /\ operations = {}
  /\ reviews = [i \in Ids |-> None]
  /\ stage = [r \in Requests |-> "write"]
  /\ known = [r \in Requests |-> {}]
  /\ together = {}

-------------------------------------------------------------------------------
(* The result of a request, as the audit reads it.                         *)

Positions(r) == 1..Len(outcome[r])

\* result.saved: add_saved is called for dry runs, too.
Saved(r) == {k \in Positions(r) : outcome[r][k].status \in {"saved", "accepted"}}

ForReview(r) == {k \in Positions(r) : outcome[r][k].reason = "requires_review"}

\* The positions in ks that are about memory i.
About(r, ks, i) == {k \in ks : batch[r][k].id = i}

Last(ks) == CHOOSE k \in ks : \A l \in ks : l <= k
First(ks) == CHOOSE k \in ks : \A l \in ks : k <= l

\* A defect: the candidate names the first operation of the result.
OperationAny(r, i) == <<r, 1>>

\* _operation_id_for_memory: the first operation with the memory's id; an item
\* that could not be converted has an operation without one.
Converted(r) == {k \in Positions(r) : batch[r][k].flaw # "malformed"}
OperationFor(r, i) == <<r, First(About(r, Converted(r), i))>>

-------------------------------------------------------------------------------
Present == {<<"record", i>> : i \in {j \in Ids : records[j] # None}} \cup
           {<<"review", i>> : i \in {j \in Ids : reviews[j] # None}}

Wanted(r) == {<<"record", batch[r][k].id>> : k \in Saved(r)} \cup
             {<<"review", batch[r][k].id>> : k \in ForReview(r)}

\* Requests whose handler has a thread of the pool.
Handled == {r \in Requests : pc[r] # "new" /\ stage[r] \in {"write", "commit"}}

Receive(r, b) ==
  /\ Cardinality(Handled) < Workers
  /\ Begin(r, b)
  /\ together' = together \cup (Handled \X {r}) \cup ({r} \X Handled)
  /\ UNCHANGED <<database, stage, known>>

Write(r) == Step(r) /\ UNCHANGED <<database, stage, known, together>>

Lookup(r) ==
  /\ pc[r] = "done" /\ stage[r] = "write"
  /\ known' = [known EXCEPT ![r] = Wanted(r) \cap Present]
  /\ stage' = [stage EXCEPT ![r] = "commit"]
  /\ UNCHANGED <<vars, database, together>>

\* Merging an absent row twice in a session makes two INSERTs.
Repeated(r) ==
  {<<"record", i>> : i \in {j \in Ids : Cardinality(About(r, Saved(r), j)) > 1}} \cup
  {<<"review", i>> : i \in {j \in Ids : Cardinality(About(r, ForReview(r), j)) > 1}}

\* A defect: rows are inserted without looking.
ClashBlind(r) == Wanted(r) \cap (Repeated(r) \cup Present) # {}

\* An INSERT finds its key taken: within the session, or by another one that
\* committed after the lookup.
Clash(r) == (Wanted(r) \ known[r]) \cap (Repeated(r) \cup Present) # {}

\* Defects: the row does not say whose it is; a row that exists stays.
RecordBare(r, i) ==
  LET ks == About(r, Saved(r), i)
  IN  IF ks = {} THEN records[i] ELSE batch[r][Last(ks)]

RecordKept(r, i) ==
  LET ks == About(r, Saved(r), i)
  IN  IF ks = {} \/ records[i] # None THEN records[i]
      ELSE [by |-> r, item |-> batch[r][Last(ks)]]

\* The rows under key i after the commit; a later item overrides an earlier one.
Record(r, i) ==
  LET ks == About(r, Saved(r), i)
  IN  IF ks = {} THEN records[i] ELSE [by |-> r, item |-> batch[r][Last(ks)]]

Review(r, i) ==
  LET ks == About(r, ForReview(r), i)
  IN  IF ks = {} THEN reviews[i]
      ELSE [by |-> r, item |-> batch[r][Last(ks)], operation |-> OperationFor(r, i)]

Commit(r) ==
  /\ stage[r] = "commit"
  /\ ~Clash(r)
  /\ records' = [i \in Ids |-> Record(r, i)]
  /\ operations' = operations \cup {<<r, k>> : k \in Positions(r)}
  /\ reviews' = [i \in Ids |-> Review(r, i)]
  /\ stage' = [stage EXCEPT ![r] = "persisted"]
  /\ UNCHANGED <<vars, known, together>>

\* The transaction is rolled back; the answer names the error, the write stays.
Rollback(r) ==
  /\ stage[r] = "commit"
  /\ Clash(r) \/ DbFails
  /\ stage' = [stage EXCEPT ![r] = "failed"]
  /\ UNCHANGED <<vars, database, known, together>>

RememberNext ==
  \E r \in Requests :
    \/ \E b \in Batches : Receive(r, b)
    \/ Write(r) \/ Lookup(r) \/ Commit(r) \/ Rollback(r)

RememberSpec == RememberInit /\ [][RememberNext]_rememberVars

-------------------------------------------------------------------------------
(* Properties.                                                             *)

\* When the request that wrote a fact has been audited, the record of the
\* identifier tells what the store holds, unless a request whose handler ran
\* at the same time, a dry run or an item of another kind put its own there.
RecordTellsStore ==
  \A i \in Stored :
    LET w == writer[i]
        v == records[i].by
        said == records[i].item
    IN  stage[w] = "persisted" =>
          /\ records[i] # None
          /\ \/ /\ said.kind = "fact"
                /\ said.slot = facts[i].slot /\ said.value = facts[i].value
             \/ <<v, w>> \in together
             \/ dry[v]
             \/ said.kind # "fact"

\* An audit is lost only when the database fails, when the request itself is
\* about one identifier twice, or when one that ran at the same time was about
\* an identifier of this one: a write that is alone with its identifiers is
\* always audited.
LossExplained ==
  \A r \in Requests : stage[r] = "failed" =>
    \/ DbFails
    \/ Repeated(r) # {}
    \/ \E q \in Requests : <<q, r>> \in together /\ Wanted(q) \cap Wanted(r) # {}

\* A candidate for review was rejected for it, in the request it names; its
\* operation is about the same memory and in the database, and is the one that
\* was rejected unless the request was about that memory before.
ReviewsTraceable ==
  \A i \in Ids : reviews[i] # None =>
    LET r == reviews[i].by
        o == reviews[i].operation
    IN  /\ o \in operations /\ o[1] = r
        /\ batch[r][o[2]].id = i
        /\ \E k \in ForReview(r) :
             /\ batch[r][k] = reviews[i].item /\ reviews[i].item.id = i
             /\ o[2] # k => Cardinality(About(r, Positions(r), i)) > 1
==============================================================================
