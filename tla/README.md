# A verification of cpp-mcp

cpp-mcp is an MCP server that answers questions about C++ sources with libclang, writes what it
finds to a graph database (Neo4j or IndraDB), and queries that graph. These modules model its core
logic in TLA+. TLC checks them on small instances, and TLAPS proves the safety properties of the passing runs for
every instance. Paths are relative to `src/src/cpp_mcp/` unless they start with `src/`.

## Inventory

| Component | State | Operations | What is hard |
|---|---|---|---|
| TU cache, `core/tu_cache.py` | an OrderedDict of entries (TU, mtime), hit, miss and eviction counters | `get_or_parse`, `invalidate`, `clear` | the lock is free during the parse; the file changes at any time |
| Session, `core/clang_session.py`, and the tools that submit to it | one worker, its queue, futures, the cache | submit, `parse`, timeout, cancel, `aclose` | a late answer after a timeout or cancel, shutdown with work queued, a database that holds the worker |
| `tools/ingest_code.py`, `graphdb/*_driver.py` | totals, errors, the graph | connect, per file: parse, extract, upsert nodes, upsert edges | failure or crash between any two records; two servers on one graph |
| `graphdb/exporter.py` | nodes, edges, symbols and types seen, in one recursive walk | one branch per kind of cursor | redeclarations, cursors of headers, shared type nodes |
| `tools/describe_graph_schema.py`, `graphdb/schema_introspector.py` | a thread pool per call, a connection | connect, describe, timeout, close | reads of a graph that is being written; a thread that outlives its caller |
| `tools/query_graphdb.py`, `graphdb/*_query_executor.py` | one connection per call | seven JSON verbs, or EXPLAIN and a Cypher query | one query is several requests |
| `tools/get_ast.py`, `core/ast_walker.py` | a budget, ids, nodes | two recursive walks | a budget spent anywhere in the recursion |
| `tools/get_preprocessor_state.py` | a stack of open branches | a scan by line | the file read again after the parse; unbalanced directives |
| `tools/get_{definition,references,type_info}.py`, `core/cursor.py` | the references found so far | parse, count the lines, measure the line, locate the cursor, walk | the file is read twice or more after the parse, while an editor saves it |
| `tools/get_header_info.py` | sets of files and names, in one walk | includes, orphans, exported symbols | what counts as a use of a header |
| `core/compile_db.py`, `core/path_guard.py`, `server/config.py`, `core/query_config.py` | none (the environment) | conversions of strings and paths | - |
| `core/error_envelope.py` | none | an exception becomes an error code | - |
| `graphdb/cognee_driver.py` | a transport | upserts | not reachable from a tool |
| `server/app.py`, `core/deps.py` | the registered tools, the session | open and close the session | the order of the shutdown |

How they interact. fastmcp calls each tool on a thread of its own. All tools but
`describe_graph_schema` submit one job to the session's only worker and wait for its future, only
`query_graphdb` for a limited time. Jobs that need a translation unit get it from the cache, which
parses on the same worker; the cache's lock also protects it from callers that bypass the worker.
`ingest_code` hands each TU to the exporter and each batch to a driver. The database is shared with
other servers (each client starts one), so a query or an ingest sees a graph that others write.

What makes each correct:

- cache: bounded, least recently used, counters that add up, a hit that is current;
- session: every caller is answered if the databases answer; nothing survives the shutdown; nothing is
  parsed that is cached;
- ingest: what it reports is what is stored; every file is accounted for; repeating adds the edges that
  were dropped, and no others;
- exporter: one record per symbol, edges that start at a node of the batch, no symbol left out;
- describe and query: answers that are true of the graph, though it changes between requests; a
  query that changes nothing;
- `get_ast`: the beginning of the whole walk, and a mark wherever something is left out;
- conditionals: exactly the branches of the file; true of those that were entered, false of none in which
  something was compiled;
- symbol tools: a position is refused exactly when it is not in the file, the answer is about the cursor
  there (both hold of plain text only), a reference is a use of that symbol.

## Plan

In order, with the state of each:

1. `TUCache` with `LRU`, its abstract specification, and its proofs: done.
2. `ClangSession`, which composes the worker with an instance of `TUCache`: done.
3. `IngestCode` (loop and drivers), `SymbolGraph`, which it implements, and `Exporter` (what a file
   yields, and the assumption that `IngestCode` makes of it): done.
4. `DescribeSchema` and `GraphQuery`, the readers of a graph that changes, for both databases: done.
5. `AstWalker`, `Preprocessor`, `SymbolTools`, and `SourceTools`, which composes them: done.
6. Proofs of the safety properties of each, in the order of their weight: done for all that the passing
   runs check, and for both refinements. Liveness stays with TLC.
7. Left to model: the list of macros (the first definition of each name in the walk), and the Cognee
   driver, should a scheme ever select it.

Modules to be proved about declare no RECURSIVE operator, name their assumptions on constants, and
have one action per operation.

## Modules

**TUCache.** `store` is the OrderedDict's mapping, `older[k]` the keys before k in its order, and each thread
has a program counter with the places where the lock is free: `idle` (before and after the call),
`parse`, `stat`, `insert`. `Hit` and `Miss` are the first locked section, `ParseDone`/`ParseRaises`,
`StatAfterParse` and `Insert` (with its eviction loop) the rest; `Invalidate` and `Clear` are the
other methods. A file has a version, which is its mtime; `Edit`, `Restore` and `Delete` are the
world's. The content of a TU is the version it was parsed from. An entry's `raced` is history: the
file was written while the entry was made.

**LRU** is what the cache promises: a store of keys in the order of their use, with the operations use,
fail, add, discard and clear. An operation says which keys leave and which comes to the end
(`Rearrange`). **TUCacheLRU** makes of TUCache's order a sequence (`Sorted`: a key stands after as many keys as are
older), and states that each section under the lock, of whichever thread, is one operation of that
sequential store on the same key (`IsLRU`).

**ClangSession.** `queue` and `job` are the executor; `call[c]` is what the future of c has for its
caller; `todo` are the files the job has yet to get. `Take` drops a cancelled job, as
`set_running_or_notify_cancel` does. The cache is an instance of TUCache with `Worker` as
its only thread, whose steps are steps of the job. `BeginClose`, `Drained`, `EndClose` are the
lifespan's end: no new jobs, `shutdown(wait=True)`, `clear()`. `step` is where the job is with its database:
a query asks it once; `ingest_code` connects, exports file by file, and closes. While a job is in such a
call the worker is blocked, and only the database can move it (`QueryReturns`, `ConnectReturns`,
`ExportReturns`, `CloseReturns`).

**IngestCode.** A file is the sets of nodes and edges it yields. `File`, `StartFile`, `FileFails` and `BatchDone` are the
loop with its `except`; `Transact` is one `execute_write` of Neo4j, which may commit and still be
reported as failed; `Check` and `Create` are IndraDB's two requests per record. `Crash` ends a run
between any two. `writer[x]` says which run made record x.

**SymbolGraph** is what `ingest_code` promises whatever database it writes to: a set of records to which
some are added, edges after or with their ends, and reports of files that are all there. IngestCode maps its
records in the database to `graph` and the files it counted as processed to `reported`; a failed
transaction, a lost answer and a crash are steps that add some records or none.

**Exporter.** A translation unit is a sequence of cursors in the order of the walk, and the walk a set of
pending calls, so that a step is one call of `_walk_cursor` up to its children. Records are symbols
(USRs) and triples. `NewTypes` is the chain that one `_get_or_create_type` follows: the least set that has the type
and, of each of its members, the pointee, up to what was seen. Its invariant `SourcesInBatch` discharges `ExtractionAssumption` of IngestCode:
an edge that a file yields starts at a node that it yields.

**DescribeSchema.** The caller's thread (`stage`), the pool's thread (`worker`) and other servers that
write File vertices and INCLUDES edges. On IndraDB `Upsert` makes the vertex first and sets `schema_version` third, and
describe() is `ReadVertices`, `ReadEdges` and `ReadProperties` of one vertex after another. On
Neo4j `Upsert` is one transaction, and describe() is `ListLabels`, `CountNodes`, `ListTypes`,
`CountEdges`, a query each. `LeavePool` is the exit of the `with` block. `began` is history: the graph when
the call began.

**GraphQuery.** One query, one request per step, with `Upsert` by others in between. A request is
assumed to see the graph of one moment. An operator of a Cypher plan has a kind of name and does or does not write, and
neither follows from the other: `Permitted` refuses by name, as `_walk_plan` does, and lets other
names pass, while `Effects` goes by what the operators do. `always` and `ever` are history: the items that
have satisfied the query ever since it began, and at some time since.

**SourceTools** is the server as its tools that answer from a translation unit see it: one call of one of
them runs on the worker (ClangSession shows that it is one). It instantiates the three modules that follow, with the
`status` of the call in common, and takes a step of the one that was called.

**AstWalker.** The trees are as in Exporter. `Omit`, `Emit` and `Stop` are the three ways
a call ends: out of range, emitted, budget spent.

**Preprocessor.** `Parse`, `Edit` by an editor, `Read`, then `Line` by line. `Starts`, `Bound` and
`Entered` say what the directives of a file mean without a stack, for the properties.

**SymbolTools.** A program is one state of the source file with what libclang makes of it. Its text is lines of bytes, as
libclang has them, each with its line break; `LineCount`, `LineLength` and `Snippet` are what
`str.splitlines()` and `len()` make of it, where a byte may end a line for Python alone (a form feed) or be part of
a character that has begun. `CursorAt` takes the numbers so checked for libclang's own, as the code does. `Edit` is the
editor. After `Parse`, `CountLines`, `Measure` and `Locate` are the steps of `cursor_at`, of which the first two
read the file, each perhaps another state of it; `Define`, `DescribeType` and `Visit` are the tools at that
cursor, and the last opens the file of each reference again to quote it. `InspectHeader` is
`get_header_info`.
`seen` is history: the states that the file had since the call first read it.

## Runs

| Run | Bounds | Shows |
|---|---|---|
| TUCache | 2 threads, files with 2 versions, capacity 1 less than the keys | `SizeBound`, `LRUOrder`, `StatsLedger`, `FreshHits` under every interleaving; the LRU refinement |
| Session | 3 calls of any tool, 2 files, capacity 1 | no waiting call loses its job, shutdown leaves nothing, `ParseIsNeeded` |
| SessionLive | 2 calls | everyone is answered if the databases answer; if not, a query's caller is answered by its timeout, and whoever else is not waits while a job stays in a call of its database |
| Ingest | 2 runs over 2 files that refer to each other's symbols, either database | reports match the graph, files are accounted for, counts are of what the run created, repeats add the edges that were dropped and no others; `GrowsAsPromised`, the refinement of SymbolGraph |
| IngestAtomic | the same | violated, see below |
| DescribeSchema | 1 call, 2 File vertices that include each other, either database | connection and thread gone when the caller is answered; counts and notes true of the graph; every call answered if the database answers |
| DescribeTimeout | the same | violated, see below |
| Exporter | every unit of few cursors, one symbol that may be redeclared, a header, a pointer type | one record per symbol, sources in the batch, the walk misses nothing |
| ExporterCalls | the same | violated, see below |
| Tools | `get_ast`: every tree of up to 4 cursors on 2 lines, 5 ranges, 5 budgets, 3 formats. `get_preprocessor_state`: every file of up to 5 lines, every truth of its conditions, a line inserted or deleted. Symbol tools: 4 saved states of a program with 3 headers, one with a form feed and a character of two bytes, every position in and around them, at most 1 reference | `get_ast` emits the beginning of the walk, as a tree, with its omissions marked; branches found, results that follow what was compiled; positions of plain text judged right, references uses |
| HeaderExports | the same, files of 1 line | violated, see below |
| GraphQuery | 2 vertices, 3 edges of which 2 are parallel, every verb, limits 1 and 2, 5 plans | rows answer the query; a plan is not run when its writing operators have listed names, at any depth |

Why the bounds are enough. A race in the cache needs two threads, one key they share and one more to
evict; a third thread repeats what the second does. The worker is one, so three calls give one that
runs, one that waits and one that gives up. A forward edge needs two files and a duplicate count two
runs. Budgets of 2 nodes or 3 bytes are spent at each depth of a tree of four. Parallel edges,
and a limit below their number, are what the keys and cuts of GraphQuery can get wrong. Five lines hold a nested
`#if`, a chain of three branches, and one directive too many or too few. The first three states of the program
differ in what a line number means and whether the line is there at all, so that a call can see one
before, one between and one after its readings; in the fourth Python and libclang disagree on lines and columns. Calls of `describe_graph_schema` share nothing but
the graph, which they only read, so one call with other writers shows what several do. Counters (`MaxVersion`,
`MaxLookups`) are capped in guards and named in the configurations.

Deadlock is checked for the cache and the session, which serve on. It is off where a finished
computation is the end: in the Ingest, Describe, Exporter, Tools and GraphQuery runs and those that
go with them.

### Fairness

The worker's steps and the parser's are weakly fair: a thread that can run is scheduled and libclang
returns. The timer of a timed wait fires. That a database answers, a query or the connection, the writes and the
close of an ingest, is assumed nowhere but where a property says so (`BackendAnswers` in its
antecedent): neither driver has a deadline in the code. Calls, edits,
cancellations and shutdown are never forced.

### Where the code and its documents differ

Runs that TLC must find violated, each with the sentence it refutes:

- IngestAtomic. `graphdb/neo4j_driver.py:11-12` promises a file's nodes and edges in a single
  transaction; `export_file` calls `upsert_nodes` and `upsert_edges`, a transaction each.
- DescribeTimeout. `tools/describe_graph_schema.py:11` and `src/README.md:92` promise an answer when the
  time is up; the exit of `with ThreadPoolExecutor` waits for the thread.
- ExporterCalls. `graphdb/exporter.py:47` says that a CALL_EXPR yields a CALLS edge; the block is
  inside the branch of cursors that get a node, which a CALL_EXPR is not.
- HeaderExports. `tools/get_header_info.py:52` and `src/REQUIREMENTS.md:30` promise the exported symbols of the
  file; the walk begins at the TRANSLATION_UNIT, takes it for a symbol that is not exported, and ends
  there (line 86), so the list is always empty.

Met while modelling, without a run of their own. The first four are in the model, and the properties that
hold beside them say so: where they apply, the property claims less than the document.

- The check of a Cypher plan is fail-closed and no mutation is ever performed (`src/README.md:224-225` and
  178), but `_walk_plan` refuses the prefixes it lists and lets any other name pass. Operators such as
  SetProperties or SetNodePropertiesFromMap begin with none of them, and the session is not opened
  for reading only. `ListedWritesNeverRun` is about plans whose writing operators are all listed.
- `core/cursor.py:3-7` says when a position is invalid. Lines and columns are counted by `splitlines()` and
  `len()`, and then handed to libclang, whose columns are bytes and whose lines end at line breaks
  only. Behind a character of several bytes, or a form feed, a position of the file may be refused, or
  another symbol answered with, though nobody edits it. `PlainIsExact` is about text without them.
- Conditionals are reported "as seen by the compiler" (`src/REQUIREMENTS.md:32`, and `src/README.md:154` the
  like), but a branch that was entered is given as false when no cursor begins in it, as in one that is
  empty or has only comments. `ResultsFollowTheCode` claims false only of branches where nothing was compiled.
- QUERY_TIMEOUT means "execution exceeds resolved timeout" (`tools/query_graphdb.py:10`), but the wait
  includes the queue, so a query that never ran may be answered with it.
- "orphaned = no symbol from include used in current TU" (`tools/get_header_info.py:4`). Only uses in the
  main file count, so a header whose symbols another header uses is listed. So is one that is needed for what
  it includes or for its macros, once it also declares something: an orphan is not one that may be
  left out, and no property says so.
- "A repeated upsert ... returns 0" (`graphdb/driver.py:82-83`): a repeated ingest adds the edges whose end
  was not stored the first time. `RepeatAddsOnlyForwardEdges` says that it adds no others.
- Notes are for a graph that was "ingested under an older writer schema" (`src/CHANGELOG.md:17`), but
  one stamped File vertex silences the note for all unstamped ones, and during a first ingest a File
  vertex that has its path and no stamp yet gives a false "pre-v6" note.
- "Active macros" (`src/README.md:154`): the first definition of each name is listed, also after
  an `#undef` or a redefinition.
- A reference or an inclusion in a header is attributed to the main file, because the exporter handles both
  before it compares the cursor's file.
- `get_references` at a use has no USR to look for, and answers that there are no references;
  `get_definition` of a symbol that is used there but defined nowhere answers with an empty USR.
- An include that libclang first met through another header is not among the direct ones.
- On Neo4j `describe_graph_schema` never gives a version note (`_build_notes`), which `src/CHANGELOG.md:17` and
  `src/README.md:162` promise without a restriction.
- "Every successful response includes `request_id`" (`src/README.md`), but `get_header_info` and
  `get_preprocessor_state` return none.
- `CogneeDriver.upsert_nodes` documents that "no duplicate upload occurs"; it uploads each record
  whether or not it is in its index.

## Proofs

`TUCacheProofs` proves, for any sets of threads and keys, any capacity and any bounds:

- `Invariance`: the invariant `Inv == TypeOK /\ LRUOrder /\ SizeBound /\ CleanEntries /\
  CleanCalls`;
- from it `TypeCorrect`, `OrderCorrect`, `SizeCorrect` and, as an action property, `FreshHitsCorrect`;
- `LedgerCorrect`, with the sizes of finite sets;
- `ImplementsLRU`, the refinement of LRU.

The assumptions are those of TUCache on its constants: capacity is positive, the sets are
what they should be, `Threads` is finite. Why the invariant is stronger than the properties: that a hit is current
(`FreshHits`) rests on the entry's mtime being that of the version parsed (`CleanEntries`), which
rests on the same of the entry that a thread still holds (`CleanCalls`); and that an insertion keeps
the size bound rests on the order being total (`LRUOrder`), since the loop evicts as many of the oldest as
are too many. Each action has a step of its own in `NextInv`, with lemmas for what the loop leaves and
for what a touch does to the order. For the refinement, the numbers of older keys
of a finite total order are different and leave no gap (`Ranks`), so the sequence exists and has each key once
(`OrderIs`), and one that has the same keys in the same order is the same. Then it is enough to see what
each section does to the order of two keys (`RearrangeStep`), and that the loop, which never finds more than one key
too many, evicts the first of the sequence (`SurplusDisplaced`).

`IngestCodeProofs` proves, for any finite set of records and any runs, files and inputs:

- `Invariance`: `Inv == TypeOK /\ ProcessedIsStored /\ \A r \in Runs : Pending(r)`;
- from it `TypeCorrect` and `ProcessedCorrect`.

It assumes what IngestCode does of its constants: that an edge a file yields starts at a node it
yields (checked of Exporter by `SourcesInBatch`), that inputs are sequences of different files (what
`collect_cpp_files` returns is sorted from a set), that node
and edge records differ, and that the records are finitely many (for the counts alone).
`ProcessedIsStored` is not inductive: nothing in it says that an empty batch of
edges means that the edges are there. `Pending(r)` does: while r writes its nodes, each node of the file is
stored or in the batch; while it writes its edges, all of the nodes are stored, so that no edge between
them is refused, and each such edge is stored or in the batch. That other runs write meanwhile only adds
to what is stored (`OthersPending`).

`IngestGraphProofs` proves `Refinement`: IngestCode implements SymbolGraph, on either database and whatever
fails. Every step of any run adds yielded records with their ends, reports a file that is all there,
or stutters. To `Inv` the argument adds `MissingIsLeft`: what a run found missing, and is about to create, is
still a record of its batch; between the check and the create other runs may have created it.

The same module proves `FilesAreAccounted`, `RepeatsAddForwardEdges` and `CountsAreCorrect`, which speak of what
is over when a run returns, and so need an invariant that remembers. `History` says of each run that the
files behind it are the first of its input and each is processed or an error, not both (`InOrder`: no
file comes twice); that while none has failed all nodes of the files behind are there, and all their
edges to a node of the same file or one before (`Reached`); and that what the run created is of a file it
was asked for, and none of it is what a successful run before it reached (`OwnRecords`). A repeat begins when all of that is there, so what is left
for it to create leads forward. `AllCounts` compares what a run has counted, its total and the file under way,
with the records that bear its name: no step of a run changes another's, unless on IndraDB two
overlap, and runs that overlapped once always have (`OverlapStays`).

`SecondRunLinks` proves `LinksToKnownFiles` there: what a run has processed is linked to all that runs before it had
processed, also those that failed later or crashed. The nodes of a processed file are stored and stay, so when
the later run comes to an edge to one of them it finds both ends; the invariant says so of the files behind
it and of the edges of the file under way that are no longer in the batch (`LinkedSoFar`).

`ExporterProofs` proves `UsrsAreUnique` and `SourcesAreYielded` for any translation unit. The invariant adds `Contexts`:
a pending call was handed a scope and a function that have a record, from which the edges to come
will start. The second theorem is `ExtractionAssumption` of IngestCode, so what `IngestCodeProofs`
assumes of the files is proved of the code that reads them. That parameters of one function
have different USRs rests on their index (`IndexIsInjective`).

The same module proves `NothingIsLeftOut` and `ChainsAreWhole`. `WalkIsComplete` says what the batch has
when the walk is over, and `YieldInv` says it of each moment: the records are those of the cursors that no
pending call is for or above (`Behind`), and a pending call was handed the scope and the function that
the tree has above its cursor (`Due`). What a step adds for one cursor is then what that cursor
yields, and its children take its place (`Advance`). The assumption on the units is what libclang gives: cursors
numbered depth first, where only an inclusion refers to a file. Chains of types may have any length and may
meet one another; that they are whole is kept because `NewTypes` adds whatever is missing below the type.

`ClangSessionProofs` proves `NoCallIsLost`, `NothingAfterClose` and `ParsesAreNeeded` for any number of calls, requests and files. The properties are not inductive: a call gets a place
of its own in the queue because no job is of a call yet to be made (`JobsAreOfCalls`), and nothing
comes out of the drain because a worker without a job is not in the cache (`WorkerRests`). By the lemma
`UsesTheCache` each step is a step of TUCache with one thread or leaves the cache alone, so the theorems
of `TUCacheProofs` hold of the session's cache: the module takes them with `INSTANCE`, the worker being the only
thread, and draws from them `TypesAreCorrect` and `SessionHitsAreFresh`. For that, `CacheAssumption` repeats
what TUCache assumes of its constants.

`DescribeSchemaProofs` proves `NothingIsLeft`, `FreshCounts` and `NoFalseNote` for any number of calls and any
includes. The invariant ties the caller's thread to the pool's (`Control`), says what has been read
by when (`Counted`, `Observed`), and that vertices, edges and stamps of this version stay
(`Grown`), so that what is read late is no less than what was there at the beginning.

`GraphQueryProofs` proves `RefusedNeverRuns`, the action property `ListedWritesNeverRun`, for any graph and any
plans. Its invariant is `RunIsPermitted`: the query reaches the stage at which it is sent only
when its plan was walked to the end and no name in it is refused. It is as good as the list of names: that
every writing operator is on it is the condition of the property.

`RowsCorrect` is proved there too, for any finite graph whose vertices and edges differ. Others only add to the graph (`Grown`), so what
satisfies the query at any moment has all of `always` and is in `ever` (`Tracked`). `ItemsListed` carries
that over from the moment of the listing to the last request: the listed items are all of `always` unless they
were cut to the limit, and the verbs that compare a value do so only with what the last request reads.

`SourceToolsProofs` proves all that the Tools run checks, by five arguments. `PositionsWereInRange` and
`UneditedCallsAreExact`, for any file, any series of saves and any position, are about
`cursor_at`'s two readings: the line is in the state that the first one read; if the second one has the
line too, the column is checked against it, and if not only the first column passes, which every
line has. That `INVALID_POSITION` is exact is shown first in the lines and characters of the check
(`JudgedRight`), for any text; in text where each byte is a character, and Python ends no line of its own,
these are libclang's lines and columns (`PlainLines`), and only there is the property claimed.

`NodesAreATree`, for any tree of cursors and any budget, rests on what the calls to come know: each is for a
cursor after those that are emitted, with the id of the node of its parent (`Walked`, `ToCome`).

`EmitsBeginning` and `NothingIsCutInSilence` look at the path above a cursor. Until a budget is spent, what is due
and not yet emitted is waiting or below a cursor that waits (`Covered`), so when nothing waits nothing due is
missing. What the limit of depth leaves out is below a node that has children and whose path is as long
as the limit allows, and such a node is marked (`CutsAreMarked`).

`ScanFindsBranches` and `GuessesAreRight` compare the scanner's stack with counting, for any file; the second says of one that was not saved since the parse that what the guess calls true was
entered, and that it calls nothing false in which there was code. A branch with k others above it on the
stack is one after which the lines so far have k more `#if`s than `#endif`s (`Going`), every `#if` is closed or
has such a branch (`Kept`), and what is recorded are the branches that have ended (`Recorded`). The file, parsed or edited, is assumed to be a sequence of lines.

`ListsEachUseOnce` is about the walk of `get_references`: the places it listed are those of the uses among the
cursors visited so far, each once, with a line that the file had (`Visited`). It assumes that a cursor
refers to a cursor of the program or to none (a declaration that the compiler adds, which the walk
does not visit, counts as none).

Model-checked only: liveness, which is beyond the prover. `EveryCallAnswered` and `OnlyBackendsBlock` of the session
and `EveryCallAnswered` of `describe_graph_schema` speak of fairness and of what eventually happens. The four
runs that TLC finds violated have of course no theorem.

## Not modelled

- Headers and compile_commands.json as a reason for a stale cache entry: the code looks at neither. Other flags
  are another key of the cache.
- The text of nodes, types, locations, messages; properties of graph records beyond one value; coercion of
  rows; the property keys that the introspectors sample; diagnostics, and the `missing_includes` that are
  taken from their text. No property is about them.
- Labels and types whose names the Neo4j introspector skips: this writer makes none.
- The list of macros of `get_preprocessor_state`, a filter of one walk without a choice in it.
- Configuration, path and flag handling, which convert strings and keep nothing; registration.
- `CogneeDriver`: no URI scheme of `select_driver` leads to it, and a test says so
  (`src/tests/unit/test_driver_dispatch.py:85`).
- Fallbacks for the tests' fake IndraDB client, and for a scan for conditionals that raises.
