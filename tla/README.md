# omni-memory: a verification project

omni-memory is a memory service for agents, in Python: notes, facts, episodes,
decisions and experiences are written through policies, kept in five
repositories, retrieved for a question and assembled into a context of limited
size. It runs as an HTTP server (`app/main.py`, `app/api_v1.py`), as a command
line over a directory, and as an MCP server over the same directory
(`app/cli.py`, `app/mcp_server.py`).

This directory holds TLA+ models of its parts, what TLC checks of small
instances and what TLAPS proves for all of them. Paths are relative to the
repository.

## 1. The system

| part | state | operations | what is hard |
|---|---|---|---|
| vector repository, `infra/repo/vector_repo.py` | FAISS rows, identifiers, objects, two signature tables | save_object (dedup by text, refresh), search, gc_expired, clear, save, load | five structures in step; no lock; capacity |
| its snapshot, `infra/repo/persistent_vector_repo.py` | four files | rewritten by each call, read at start | kills between and within files |
| fact repository, `infra/repo/graph_repo.py` | multigraph, one edge per fact | save_fact, remove_fact, query, gc_expired, clear | an identifier is not the key of an edge |
| fact maintenance, `app/fact_maintenance.py` | none | list, get, patch, retract, supersede, hard_delete | chains of supersession; two saves |
| consistency engine, `infra/consistency.py` | none | detect_conflicts, build_fact_beliefs | two notions of conflict |
| writeback, `app/writeback/*.py`, `domain/writeback.py` | per request: item, context, result | write: convert, six policies, save, for each item | check, then act, without a lock; failures in the middle of a batch |
| audit, `infra/db/*.py` | four SQL tables | save_writeback_result | a second transaction after the write; merge and commit |
| retrieval, `app/retriever.py`, `app/memory_planner.py`, `app/orchestrator.py` | none | plan_retrieval (two hops), assemble_context | spelling variants |
| context, `app/context_builder.py` | none | build_context | budgets at their boundary |
| budget, `app/main.py`, `app/api_v1.py`, `app/services/answer_chain.py` | `settings.context_max_tokens`, global | replaced and restored by a request | requests share it |
| local directory, `infra/repo/persistent_fact_repo.py`, `decision_repo.py`, `experience_repo.py`, `app/cli.py` | three JSON files; a copy in each process | every change rewrites a file | several processes; kills; no lock |
| episodes, `infra/repo/episodic_repo.py` | two SQLite tables, one connection | save_episode, search, gc_expired, clear | threads share one transaction |
| administration, `app/admin.py`, `app/export_import.py` | none | reset, gc, export, import, vector save and load | reaches into the repositories of a running server; an archive is read and written beside its clients |
| facade, `app/memory.py`, `app/memory_repositories.py` | the repositories and the turns | writes, maintenance, clears | maintenance and clears go past the policies |
| session, `app/memory.py`, `app/session_distillation.py`, `infra/distillers/session_llm.py` | turns of a dialogue | ingest_turn, commit_session, clear_session | a commit takes seconds, and turns are said meanwhile |
| rate limit, `app/ratelimit.py` | a token bucket for each address | allow | fractions of tokens, rounded waits |
| middlewares, metrics | counters | per request | small; under locks |
| models, embeddings, prompts, configuration | settings | calls to the outside | not behaviour of this program |

How they interact: a request enters through an endpoint (a plain function, so it
runs in a thread of the server's pool), an MCP tool or a command (one at a
time). A write goes through `OmniMemory` to `WriteBackService.write`, which
queries the fact and vector repositories in its policies and then saves in one
of the five; `/v1/memories/remember` audits the result in a database. A question
goes to the retriever, which reads the repositories, and the context builder,
which reads the global budget. Nothing but the metrics registry and the token
buckets takes a lock: shared state is the repositories, the settings, the SQLite
connection and the files.

What makes each part correct is listed as its properties in section 3, and the
hazards of the code, with the line of each and the properties against it, in
`PROJECT.json`.

## 2. The modules

| module | models | extends |
|---|---|---|
| `NoteMap` | abstract: a vector repository is a map from texts to notes | |
| `VectorStore` | `VectorStoreRepo`, one call at a time, with `POST /admin/reset` | implements `NoteMap` |
| `VectorThreads` | `save_object` statement by statement, in several threads | `VectorStore` |
| `VectorSnapshot` | `PersistentVectorRepo`: files, processes, kills | `VectorStore` |
| `FactMap` | abstract: a fact repository is a map from identifiers to facts | |
| `FactStore` | `GraphRepo`, fact maintenance, consistency engine | implements `FactMap` |
| `Writeback` | `WriteBackService.write` and its policies, requests interleaved | |
| `Remember` | `/v1/memories/remember`: the write, then its audit | `Writeback`, and implements it |
| `Answer` | retrieval, context, the global budget | |
| `LocalFiles` | `.omni-memory`: JSON files and processes | |
| `EpisodeStore` | `EpisodicRepo` on one connection shared by threads | |
| `RateLimit` | `RateLimitMiddleware`: buckets, the clock, clients that wait | |
| `Memory` | `OmniMemory` over facts, notes and episodes: policies, maintenance, clears | |
| `Session` | turns, a commit with its distiller and validator | `Memory` |
| `Archive` | export, import, `/admin/reset` and restarts of the server | `Memory` |
| `Programs` | the programs around the facade: an agent, a strict one, the server | composes `Session` and `Archive` |

Every module a run checks has an `MC...` module with the values of its constants
(`Writeback` is checked in `Remember`; `Memory`, `Session` and `Archive` in
`Programs`), and eight have a `...Proofs` module. A definition with a comment that
begins "A defect:", like `SkipSaveAsSaved`, is a plausible mistake in the code; no
specification uses it, and put in the place of the definition after it, it makes
the property it is aimed at fail.

How state and actions correspond to the code:

* **VectorStore.** `index`, `ids`, `store`, `sigs`, `sigIndex` are the fields
  `_index`, `_ids`, `_store`, `_sigs`, `_sig_index`. A row of the index is an
  embedding of a text and is represented by that text; two texts are one member
  of `Texts` when their signatures agree. `SaveObject` has three outcomes
  (refused when full, refresh of a duplicate, a new note); a refresh whose object
  is gone is the result "error" (KeyError). `GcExpired` rebuilds all five
  structures from the rows it keeps, and reads `_ids` by position as the code
  does.
* **VectorThreads.** One action per statement of `save_object` that touches
  shared state (`LookUp`, `Refresh`, `Claim`, `Sign`, `AddRow`, `AddId`, `Put`).
  A thread may be descheduled between any two.
* **VectorSnapshot.** A call changes memory and then writes the four files in the
  order of `save()`; each is truncated and then filled. `Kill` may come at any
  step, at most `MaxKills` times; `Stop` only between calls. `Start` reads the
  files as `_load_if_exists` and `load` do, and cannot if one is torn.
* **FactStore.** `edges` is the set of edges; `Put` is `save_fact`, which removes
  the edge that has the identifier at other ends. Maintenance comes from the MCP
  server, one tool at a time, so each operation is a step; `Write` is the save of
  a fact that passed the policies of writeback. The engine's readings are
  operators (`Conflicted`, `Believable`, `BeliefStatus`), with canonical names
  given by `Canon`. The trust score is left out: every believable fact may rank
  first.
* **Writeback.** A step of a request is what it does between two accesses to a
  repository: `Convert`, then the query of `ConflictPolicy`, then that of
  `DedupPolicy`, then the save, each with the outcomes of the code. A note has
  two texts, the one `DedupPolicy` reads (with the summary) and the one the
  vector repository files it under (without). The repositories are what modules
  `FactStore` and `VectorStore` show them to be: maps. Decisions stand for the
  three kinds of object that are only kept by identifier.
* **Remember.** After the write, `Lookup` is the reads of `db.merge`, `Commit` or
  `Rollback` the end of the session; `autoflush` is off, so the statements of one
  audit are sent together. `together` records which handlers overlapped.
* **Answer.** `Plan`, `SaveLimit`, `SetLimit`, `Assemble`, `RestoreLimit` are the
  accesses of a request to `settings.context_max_tokens`; the retrieval and the
  assembly are operators (`FirstHop`, `SecondHop`, `Take`, `Handle`, `Context`)
  over data that does not change. A line is its number of words.
* **LocalFiles.** A process loads the files one after the other, then runs
  commands: lists of repository calls, each of which changes its copy, empties
  the file (`Apply`) and fills it (`Finish`). Patch and retract of an open fact
  are a `Save`, of a closed one a `Rewrite`, which writes the file again with its
  successor kept (a patch whose own `meta` names another successor is left out:
  no caller in the repository sends one). `Exit` is the end of a process, at
  any step. Two processes may write one file; the second may leave it torn.
* **EpisodeStore.** A call is a program of statements inside
  `with self._conn`. `view` is what statements see, `stored` what is committed,
  `open` whether the connection is in a transaction. `Look`, `Begin`, `Run`,
  `Commit` and the rollback in `Fail` follow the `sqlite3` module, where looking
  for a transaction and beginning or ending one are two steps. That threads meet
  between them was confirmed with CPython's `sqlite3`: saves from several threads
  over one connection raise "cannot start a transaction within a transaction" and
  "cannot commit - no transaction is active", and lose episodes.
* **RateLimit.** Time is in ticks, a token a number of units; `tokens` and
  `earned` are what the field `tokens` held at `ts` and what has come in since.
  `Serve` and `Refuse` are the two results of `allow`, with the answer of
  `dispatch`; the lookup of the bucket belongs to the same step, as nothing is
  awaited in between. A client in `Polite` asks again when the `Retry-After` it
  was told is over; the others ask when they like.
* **Memory.** A step takes one item through the policies and saves it (what
  happens between the two is the subject of `Writeback`). `Holders` and `Rivals`
  are the queries of dedup and conflict, over facts of any status. Notes have
  two tables, `notes` for the objects and `signatures` for the texts that dedup
  asks: they are cleared together, but not reset together, and an identifier
  saved with another text changes one of them only. `Refusable` are the contents
  that policies refuse for themselves. `promised` is what clients were told is
  saved, or known.
* **Session.** `Commit` is `commit_session` up to the write: the turns as they
  are then, the distiller's answer (any set in `Distillations`, or nothing, when
  the answer cannot be read), the validator. `Handle` writes one item of it,
  `EndCommit` clears the buffer. A turn is marked `heard` when a commit distilled
  it and `during` when it was said while one was under way.
* **Archive.** The three lists of `export_memory` are read in three steps,
  `import_memory` is a request whose items go in by kinds, facts first, and
  clients write in between. `Reset` and `Restart` are `/admin/reset` and the end of
  the process.

Variables marked "history" record what happened, for properties; no action reads
them in a guard.

## 3. What is checked

All twelve runs are exhaustive; two end in a violation, the others pass. Every property of a passing run has a mutant, a defect
put into one definition, that TLC finds with it.

| run | instance | distinct states | shows |
|---|---|---|---|
| `VectorStoreCore` | 4 identifiers, 3 texts, two identifiers with one text, 2 expiries, capacity 2 | 213 | tables, rows and objects agree after every save, refresh, collection and clear (`SignaturesCoherent`, `RowsAligned`); the repository implements `NoteMap` |
| `VectorStoreReset` | the same with `/admin/reset` | violation | after a reset a text saved before cannot be saved (`NoLookupFailure`) |
| `VectorThreads` | 2 threads, 3 identifiers of one text and one of another, capacity 2 | 46 489 | the capacity is exceeded by at most one row for each other thread (`CapacityOvershoot`); when all is quiet the rows are those of the stored texts (`QuietRowsBacked`); a failed refresh and a text stored twice need two threads at once (`AnomaliesNeedRace`) |
| `VectorSnapshot` | 3 identifiers, 2 texts, capacity 2, one kill | 46 176 | without kills the disk is the memory and loads as a coherent repository; a kill costs the call it met, or the start of later processes |
| `VectorSnapshotDedup` | the same, without kills | violation | a process does not recognise the texts it loaded (`StoredTextIsKnown`) |
| `FactStore` | 3 identifiers, one slot in two spellings, three spellings of two values, two instants | 5 170 | one edge per identifier, `FactMap` is implemented, histories end, superseding brings no new conflict, both engines see each dispute |
| `Remember` | 2 requests of 14 batches of up to three items, 2 identifiers, three modes, dry runs | 565 533 | a duplicate fact or an unrecorded contradiction only comes from overlapping requests; every reported fate is true; what a memory record and a review candidate may say, and why an audit may be lost |
| `Answer` | 2 requests, 8 questions, all graphs of up to 3 of 6 facts with two spellings of two names | 99 115 | whose budget a context has, that it holds, what gives way first, what two hops find |
| `LocalFiles` | 2 processes, facts and one other file, 2 identifiers | 371 266 | undisturbed files hold what the calls that returned left; successors are kept |
| `EpisodeStore` | 2 threads, 2 episodes in 2 versions, one expiring | 1 667 677 | episodes no other call interferes with are whole and committed; when nothing runs nothing is pending |
| `RateLimit` | a polite client alone, one that shares its address with an impatient one; burst 2, 1 1/3 tokens a second, half-second ticks | 85 428 | no stretch of time sees more served than a burst and the rate; a client that comes back when told is at most half a second early, and is served in the end |
| `Programs` | 2 identifiers each of facts and notes, 1 of episodes, 2 values of a slot, 3 texts, 2 turns, 3 distillations, an agent, a strict agent and the server | 385 278 | nothing is stored twice, what clients were promised is held, an archive comes back whole, no turn is dropped unheard |

Why these bounds are enough: the interesting cases are meetings of two actors
over one or two identifiers, so two threads, requests or processes and two or
three identifiers reach every ordered pair of steps; a third identifier of one
text in `VectorThreads` lets a text be stored more often than there are threads,
if the code did that. Capacity 2 is reached and exceeded. In `RateLimit` a tick
brings two thirds of a token, so that waits are rounded down, up and not at all,
and three ticks of observation are longer than a bucket takes to fill. In
`Programs` the identifiers are as many as the contents, so that identifiers are
used again for other contents and contents come back under other identifiers. Budgets in `Answer`
end within a line, between lines and between sections, and at zero. Three facts
make a chain of two hops with a variant on the way.

Types: `VectorSnapshot`, `EpisodeStore`, `VectorThreads` and `Programs` state the
types of their variables in a definition that no run lists; those are proved
(section 4). The types of the other modules are checked, proved, or both.

Bounds in the models: `MaxTurns` in `Session` (turns in the buffer: one before
and one during a commit); one commit at a time in `Session`, one administrator,
who waits for the answer of an export or an import, in `Archive`; in `Memory`
nothing expires and no capacity is reached (`VectorStore` has both); `Window`
in `RateLimit`; `MaxKills` in `VectorSnapshot` (a second kill
starts from the same torn files); the constraint `FactsUndisturbed` of
`LocalFiles` (both properties of `facts.json` are void once a kill or a second
process disturbed it, so exploration stops there; decisions stand for
experiences); the constraint `OneUnspoiled` of `EpisodeStore` (nothing is said
when both identifiers are spoiled). `Nows` of `FactStore` has one instant, so
that what a change stamps is known, while reading happens at two. The flaw
"meta" of `EpisodeStore` is not in the instance: it fails at the first
statement, where a clash of transactions fails too.

`CHECK_DEADLOCK FALSE` stands in the runs of `Remember` and `Answer`, where each
request is sent once: all of them answered is the end.

Fairness: `RateLimit` assumes that time goes on (`WF_vars(Tick)`; the clock is
monotonic and asks nobody) and that a polite client that was refused asks again
once its wait is over (weak fairness of that request; this is what being
polite means, and the middleware itself schedules nothing). Nothing is assumed
of the impatient clients: they may ask at every instant, or never.
`RefusedThenServed` claims progress only for a client with an address of its own,
because the impatient one can take every token of an address they share. The
other runs assume no fairness: nothing in those parts waits, except for the
thread pool, and a promise that a request is answered would restate that a
thread runs.

### Deviations found

Two are runs that end in a violation, listed under "findings" in
`PROJECT.json`: the failed refresh after a reset and duplicates after a restart.
A third is left to the proofs: two strict requests that overlap can store a
contradiction, which `AnomaliesNeedOverlap` allows and `RememberProofs` shows to
need two workers (`SerialNoContradictions`). The passing properties are stated so that
the exceptions they name are the deviations. In words:

* *vectors*: an identifier saved with another text keeps the row of the old one
  (`vector_repo.py:126-128`; `omni-memory load-notes` numbers
  the notes of each file from n1, `cli.py:86`). Two saves can append rows and identifiers in different orders
  (126-127), so that a search answers with another note. A kill leaves files of
  two calls, or one no process can load (162-186). A note that differs only in
  its summary passes dedup and is reported as saved, though the repository only
  refreshed the other (`service.py:365-386`).
* *audit*: a dry run leaves a `memory_records` row with status "saved"
  (`service.py:386`, `audit_repo.py:26`; `docs/memory_persistence.md:51` says
  "saved memory objects"). A batch that names a new identifier twice inserts it
  twice and loses its whole audit (`audit_repo.py:43`, `session.py`). Two
  candidates for one identifier overwrite each other, and a candidate may name an
  operation that was not rejected (188-192). Records are never updated by
  maintenance, collections or resets.
* *facts*: policies look at facts of any status (`memory_policies.py:241`, 346),
  so a retracted or superseded fact cannot be asserted again, and strict mode
  rejects what contradicts one. A fact retracted after it was superseded still
  counts as history (`consistency.py:97`, 184-188). A query can meet a save in
  another thread and raise (`graph_repo.py:98-107`).
* *budget*: requests overlap in `settings.context_max_tokens` (`main.py:171-181`,
  194-203, `api_v1.py:62-68`, `answer_chain.py:74-80`), and can leave it changed
  for good. A section that follows an exactly exhausted budget is left out
  without an advisory (`context_builder.py:134`, 147, 163, 183); the ellipsis of
  a cut line is not counted (38).
* *retrieval*: the second hop looks a name up in the spelling met first, and
  passes over it if another spelling was a seed (`retriever.py:138-149`).
* *files*: a kill in `write_text` empties the file or stops every later start
  (`persistent_fact_repo.py:79`, 64); two processes overwrite each other;
  superseding is two saves (`fact_maintenance.py:179-180`).
* *episodes*: threads commit, roll back and interleave in one transaction
  (`episodic_repo.py:60`, 76); a collection deletes an episode saved again since
  it was read (230-238); a reset replaces the database file by one in memory
  (`admin.py:47`), so that the episodes return with the next start and later ones
  are lost. The command line keeps episodes in memory by default
  (`memory_repositories.py:132`, `config.py:57`), so they end with the command
  that reported them saved. The dry run of `/admin/gc` fails on any episode
  (`admin.py:137`: `_jload` misses its second argument).
* *session*: no program of the repository configures a distiller, so
  `omni_memory_session_commit` raises (`memory.py:413`); a user of the library may. A commit clears the buffer, not what it distilled: turns said while it ran
  go unheard (`memory.py:441`). It clears it too when the distiller's answer could
  not be read (`session_llm.py:65`) and when all its items were refused.
* *archive*: after `/admin/reset` the notes of an archive are refused as known
  (`admin.py:42`, `vector_repo.py:117`), so that a reset followed by an import
  loses them. Of a note only the identifier and the text return: its meta, expiry
  and kind do not (`export_import.py:40-49`). An archive imported into a memory
  that is in use can replace a fact that has one of its identifiers.
* *rate limit*: `Retry-After` is rounded, and may tell a client to come back up
  to half a second too early, at 0 even at once (`ratelimit.py:49`); a burst of 0
  serves nobody, ever; a bucket is kept for every address ever seen (38).

## 4. What is proved

The theorems hold for every value of the constants that satisfies the named
assumptions (identifiers, texts, requests, processes, batches, capacity and
budgets of any number). The assumptions only say what kind of value a constant
has, and that the markers (`None`, `Absent`, `Torn`...) are no data; a theorem
that needs more says so.

* `VectorStoreProofs`: types, and that each row has its object, under every use
  including resets. With one text per identifier (`OneTextPerId`) and no reset:
  `SignaturesCoherent`, `RowsAligned` and `ImplementsNoteMap`. The invariant is
  `Coherent`, the two properties together with `TextsAllowed`: an object carries a
  text its identifier stands for, without which a save of a new text could meet
  an identifier in use. The refinement maps each save, refresh, collection and
  clear to a step of `NoteMap`, a refusal to a stutter.
  Of `VectorThreads`, for any finite set of threads (`ThreadsConstants`), any
  capacity and any texts: types, `CapacityOvershoot`, `AnomaliesNeedRace` and
  `QuietRowsBacked`. The invariants count. `RoomLeft`: a thread that has passed
  the test of the capacity counts as the row it will add. `ClaimInv` and
  `HoldersBounded`: a signature that is taken is stored or about to be, and the
  threads that found a text missing, with those that hold it already, are never
  more than all threads. `RowsCounted` and `RowsNamed`: the rows that are ahead
  of their objects are those of threads between the two statements.
  Of `VectorSnapshot`, for any number of restarts and killed processes: types,
  `SnapshotBacked`, `DiskIsMemory` and `KillCostsOneCall`. Of the four files a
  save writes the invariant says that they are written in order (`Ordered`: those
  before the one being written are the memory's) and which objects `store.json`
  may hold (`ObjectsKept`: those of the last call that returned or of the one that
  is writing, from the moment the snapshot is complete). As long as no process was
  killed (`Unharmed`) no file is torn but the one that is being written, files and
  memory agree between calls, and a process that starts from them has
  `RowsBacked`.
* `RememberProofs`, of `Writeback`: `AnomaliesNeedOverlap`, for any number of
  requests and workers. The invariant follows an item from its queries to its save: what a
  query did not see was saved by a request that overlapped, and the conflicts it
  found are those it will record. Two corollaries for one worker: without
  overlap no duplicates and, without permissive requests, no contradictions.
  `FatesTruthful`, for any batches and workers: what the repositories hold they
  keep (`Grow`), a text that was seen in the batch was written with an earlier
  item or is about to be with the present one (`SeenWritten`), and as many items
  have a fate as were handled (`Progress`).
* `FactStoreProofs`: `OneEdgePerId`, `HistoryNeverLoops`, `ImplementsFactMap`,
  `EnginesAgree`, `SupersedeKeepsPeace`. A set of edges is tidy when it has one per
  identifier; putting a fact into a tidy set is replacing one value of a map. That
  histories end needs no order on identifiers: a fact that is closed had no
  successor or keeps its own, and its new successor has none, so a set closed
  under succession was closed before. The engines agree because in a tidy set two
  facts that disagree have two identifiers, and a belief holds one of them.
  `SupersedeOpens`: what superseding leaves open is the new fact and what was open
  under other identifiers.
* `RememberProofs`, of `Remember`: types, that the endpoint implements `Writeback`
  (so the theorems above hold of it), `LossExplained`, `ReviewsTraceable` and
  `RecordTellsStore`. The invariant of the losses (`Overtaken`) is about the time
  between lookup and commit: a key that has appeared since was put there by a
  request in `together`. What the tables say rests on `RowsInv` (a row is what its
  request, which has ended, reported), `WroteLast` (the request that wrote a fact
  last reported it) and `TakenOver` (a request that began when another had ended
  has replaced, in the store, what it will replace in the records), and on the
  assumption `RowsAreData`. The first and the last item about a memory are taken
  from the well-foundedness of the naturals.
* `AnswerProofs`: `LimitExplained`. Not inductive as it stands: it says nothing
  of what a request will restore. `Alone` (two requests that replaced the setting
  are tangled) and `OldKept` (what will be restored is what is configured) make it
  so.
  `BudgetHolds`, `PriorityKept` and `TwoHopsOnly`, for any questions, lines and
  budgets and for any finite graph. In the states the invariant (`RInv`) only
  records what was computed; the work is about the computation. A recursive
  function over 0..n has a run and no other (`RunExists`, `SameRuns`), and what
  holds at 0 and is kept by each step holds at n; both by the least number where
  it would fail, which the well-foundedness of the naturals gives. `FitsIsLesser`:
  the search by halves is a minimum. `TakeIs`: a section is whole, or uses up the
  room with one word to spare for the ellipsis. Along the sections of a profile
  `Fine` holds: words used and words left make the budget until a line is cut
  (`Balanced`), what was shown makes the whole (`Complete`), and where a line is
  missing nothing follows (`Ended`). Of the two hops, the order of a finite set of
  facts lists all of them, and of the ends with one lower case form the first one
  is looked up (`FirstIsLookedUp`), whatever the order.
* `LocalFilesProofs`: `CallsDurable` and `SuccessorKept`. `Intact` adds what holds
  while a file is being written (its writer is alone with a copy of it, which is
  what the calls left and the one in progress), `Linked` says of the history
  variable `truth` what `SuccessorKept` says of the disk.
* `EpisodeStoreProofs`: types, `EpisodesKept` and `QuietMeansCommitted`, for any
  threads, identifiers and versions. `EpisodesKept` speaks of identifiers that no
  call is about, so it says nothing of a call before it ends. `Progress` does: of a
  save, which of its statements were executed and what the tables hold for them;
  of a deletion, that each identifier is still to be deleted or gone; both as long
  as no other call about it overlapped and none rolled back. That a rollback
  returns to what is due needs `AloneInv` (nothing of a call that is alone is
  committed) and `Noticed` (a call that is not alone knows). `QuietMeansCommitted`
  is `Responsible`: an open transaction has a call that will end it, or was left
  by one that ran across a reset. The identifiers may be infinitely many: only the
  rows are finite (`RowsFinite`).
* `RateLimitProofs`: types (no bucket below zero), `NeverMoreThanRate` and
  `ToldWithinHalfSecond`, for any rate, burst, clients, addresses and length of a
  tick. The invariant of the first is `Covered`: what was served and what the
  bucket still holds is never more than what the observer saw come in. The second
  follows a wait through its ticks: each takes as much from the wait as it brings,
  up to a full bucket. That a refused client is served in the end is liveness and
  stays with TLC.
* `ProgramsProofs`: the four properties of the run and the types. `NothingTwice`:
  every note is filed under its signature (`NotesFiled`). `AcceptedIsHeld`: a
  signature that was not left behind tells where its text is (`SignaturesTrue`),
  without which a note refused as known might be nowhere. `DroppedWasHeard`:
  while a commit that will clear is under way each turn was heard or said since
  (`TurnsHeard`). `RestoreComplete`: what the server exports holds nothing its
  policies would refuse and nothing twice (`ServerClean`, `ArchiveClean`), and
  while an import is alone each item is held as archived or still to come
  (`Importing`).

Only model-checked: the liveness property `RefusedThenServed`, because what holds
under fairness is beyond the provers at hand, and the two runs that end in a
violation. Every invariant and action property of a passing run is stated by a
theorem. Two things were changed in the models to reason about them, with the
same reachable states: the sums, searches and chains of `Answer` are recursive
functions where they were folds, and a collection that aborts in
`VectorSnapshot` keeps positions (a mask, as in `VectorStore`) where it filtered a
sequence.

## 5. What is not modelled

The older write path of `app/writeback_legacy.py` (no program constructs it),
middlewares and metrics, language models and embeddings, semantic ranking and
entity extraction, the rule-based distiller of single texts (nothing calls it),
configuration, migrations, benchmarks and evaluation; of the administration, saving
and loading vectors on a running server and profiling: see "components" in
`PROJECT.json`, each with its reason. Searches are steps of their own only where they decide
something (policies, retrieval); a search that runs beside a writer is not
followed statement by statement.

## 6. Plan

Done, in this order: `VectorStore` with `NoteMap`, `VectorThreads`,
`VectorSnapshot`; `Writeback`; `FactStore` with `FactMap`; `Remember`; `Answer`;
`LocalFiles`; `EpisodeStore`; `RateLimit`; `Memory`, `Session`, `Archive` and
`Programs`, which join the policies with maintenance, sessions and
administration; the proofs after each.

Next, the most important first:

1. Readers beside writers: `semantic_search` and `GraphRepo.query` statement by
   statement, searches of episodes that see what is later rolled back,
   `/admin/vector/load` on a running server.
2. Maintenance between the queries and the save of one request: `Writeback` over
   facts with a status.
3. Two commits at once over one buffer of turns.

Proofs: that `VectorThreads` run by one thread implements `VectorStore`; a
refinement of `EpisodeStore` by a map from identifiers to versions when calls
exclude each other.
