---------------------------- MODULE ClangSession ----------------------------
(***************************************************************************)
(* The session of core/clang_session.py with the tools that use it: many   *)
(* calls, each in a thread of its own, submit jobs to one executor with a  *)
(* single worker thread and wait for the result, and the lifespan of       *)
(* server/app.py drains the executor and clears the cache at exit.         *)
(*                                                                         *)
(* The jobs run against the cache of TUCache, instantiated with the worker *)
(* as its only thread.  A call stands for one tool invocation:             *)
(*   "get"     get_ast, get_definition, ... : one file, no timeout         *)
(*   "parse"   ClangSession.parse: one file, its caller may be cancelled   *)
(*   "ingest"  ingest_code: a sequence of files and a database, no timeout *)
(*   "query"   query_graphdb: a database and no file, the caller waits a   *)
(*             limited time                                                *)
(* The worker is blocked while a database does not answer its job, be it   *)
(* a query or the connect, an export or the close of an ingest.            *)
(***************************************************************************)
EXTENDS Integers, Sequences, FiniteSets

CONSTANTS
    Calls,      \* tool invocations, each of them made at most once
    Worker,     \* the executor's thread
    Requests,   \* what they may ask: records [tool, files]
    Nobody,     \* no job on the worker
    Files, Builds, NoBuild, Flags, Keys, Capacity, MaxVersion, MaxLookups

Tools == {"get", "parse", "ingest", "query"}

ASSUME RequestsAssumption ==
    /\ Requests \subseteq [tool : Tools, files : Seq(Keys)] /\ Requests # {}
    /\ \A r \in Requests : /\ r.tool \in {"get", "parse"} => Len(r.files) = 1
                           /\ r.tool = "query" => r.files = <<>>
ASSUME NobodyAssumption == Nobody \notin Calls

VARIABLES
    disk, newest, store, older, pc, key, new, hits, misses, evictions,
    request,    \* request[c]: what call c asked for
    call,       \* call[c]: "new", "waiting", or what the caller was answered
    queue,      \* the executor's queue of jobs, by their calls
    job,        \* the call whose job is on the worker, or Nobody
    step,       \* where that job is: "begun", before its database is called;
                \* "loop", at its files; or in a call of the database
    todo,       \* the files that job has yet to parse
    phase       \* "open", "draining" (in aclose) or "closed"

Cache == INSTANCE TUCache WITH Threads <- {Worker}

(* What TUCache assumes of its constants. *)
ASSUME CacheAssumption ==
    /\ Keys \subseteq Cache!CacheKey /\ Keys # {}
    /\ Capacity \in Nat \ {0}
    /\ MaxVersion \in Nat \ {0} /\ MaxLookups \in Nat

cacheVars   == <<disk, newest, store, older, pc, key, new,
                 hits, misses, evictions>>
sessionVars == <<request, call, queue, job, step, todo, phase>>
vars == <<cacheVars, sessionVars>>

Answers == {"ok", "error", "QUERY_TIMEOUT", "INTERNAL_ERROR", "cancelled"}

DatabaseCalls == {"query", "connect", "export", "close"}

NoRequest == CHOOSE r \in Requests : TRUE

Init ==
    /\ Cache!Init
    /\ request = [c \in Calls |-> NoRequest]
    /\ call = [c \in Calls |-> "new"]
    /\ queue = <<>> /\ job = Nobody /\ step = "loop" /\ todo = <<>>
    /\ phase = "open"

-----------------------------------------------------------------------------
(* The callers. *)

(* executor.submit, then result(); once aclose has begun submit raises and *)
(* wrap_tool makes INTERNAL_ERROR of it.                                   *)
Submit(c, r) ==
    /\ call[c] = "new"
    /\ request' = [request EXCEPT ![c] = r]
    /\ IF phase = "open"
       THEN /\ call' = [call EXCEPT ![c] = "waiting"]
            /\ queue' = Append(queue, c)
       ELSE /\ call' = [call EXCEPT ![c] = "INTERNAL_ERROR"]
            /\ UNCHANGED queue
    /\ UNCHANGED <<cacheVars, job, step, todo, phase>>

(* Mutants of Timeout: an error code of its own; the timer stops when the  *)
(* job starts.                                                             *)
TimeoutUnmapped(c) ==
    /\ call[c] = "waiting" /\ request[c].tool = "query"
    /\ call' = [call EXCEPT ![c] = "TimeoutError"]
    /\ UNCHANGED <<cacheVars, request, queue, job, step, todo, phase>>

TimeoutInQueue(c) ==
    /\ call[c] = "waiting" /\ request[c].tool = "query" /\ job # c
    /\ call' = [call EXCEPT ![c] = "QUERY_TIMEOUT"]
    /\ UNCHANGED <<cacheVars, request, queue, job, step, todo, phase>>

(* result(timeout=...) gives up.  The job stays where it is.  Only         *)
(* query_graphdb waits for a limited time.                                 *)
Timeout(c) ==
    /\ call[c] = "waiting" /\ request[c].tool = "query"
    /\ call' = [call EXCEPT ![c] = "QUERY_TIMEOUT"]
    /\ UNCHANGED <<cacheVars, request, queue, job, step, todo, phase>>

(* The task awaiting parse() is cancelled, and the future with it: a job   *)
(* still in the queue will be skipped, a running one goes on.              *)
Cancel(c) ==
    /\ call[c] = "waiting" /\ request[c].tool = "parse"
    /\ call' = [call EXCEPT ![c] = "cancelled"]
    /\ UNCHANGED <<cacheVars, request, queue, job, step, todo, phase>>

-----------------------------------------------------------------------------
(* The worker thread. *)

(* A job that needs a database checks its arguments first.                 *)
FirstStep(c) == IF request[c].tool \in {"ingest", "query"} THEN "begun" ELSE "loop"

(* Mutants of Take: a cancelled job takes the queue with it; the shutdown  *)
(* leaves the queue alone.                                                 *)
TakeCancelsAll ==
    /\ job = Nobody /\ queue # <<>>
    /\ LET c == Head(queue) IN
       IF call[c] = "cancelled"
       THEN queue' = <<>> /\ UNCHANGED <<job, step, todo>>
       ELSE /\ queue' = Tail(queue)
            /\ job' = c /\ step' = FirstStep(c)
            /\ todo' = request[c].files
    /\ UNCHANGED <<cacheVars, request, call, phase>>

TakeWhileOpen ==
    /\ job = Nobody /\ queue # <<>> /\ phase = "open"
    /\ queue' = Tail(queue)
    /\ job' = Head(queue) /\ step' = FirstStep(Head(queue))
    /\ todo' = request[Head(queue)].files
    /\ UNCHANGED <<cacheVars, request, call, phase>>

Take ==
    /\ job = Nobody /\ queue # <<>>
    /\ queue' = Tail(queue)
    /\ LET c == Head(queue) IN
       IF call[c] = "cancelled"
       THEN UNCHANGED <<job, step, todo>>
       ELSE /\ job' = c /\ step' = FirstStep(c)
            /\ todo' = request[c].files
    /\ UNCHANGED <<cacheVars, request, call, phase>>

(* The job ends with a: its future gets the result, and the caller has it  *)
(* if it is still waiting.                                                 *)
Finish(a) ==
    /\ job' = Nobody /\ step' = "loop" /\ todo' = <<>>
    /\ call' = IF call[job] = "waiting" THEN [call EXCEPT ![job] = a] ELSE call
    /\ UNCHANGED <<request, queue, phase>>

GoesTo(s)   == step' = s /\ UNCHANGED <<request, call, queue, job, todo, phase>>
InFile      == UNCHANGED sessionVars
FileDone    == /\ step' = "loop" /\ todo' = Tail(todo)
               /\ UNCHANGED <<request, call, queue, job, phase>>
HasTool(ts) == job # Nobody /\ request[job].tool \in ts
InLoop      == job # Nobody /\ step = "loop" /\ pc[Worker] = "idle"

(* With the translation unit get_or_parse returned an ingest goes to the   *)
(* database; the other tools are done with their file.                     *)
Parsed == IF HasTool({"ingest"}) THEN GoesTo("export") ELSE FileDone

(* get_or_parse on the next file. *)
Lookup ==
    /\ InLoop /\ todo # <<>>
    /\ \/ Cache!Hit(Worker, Head(todo)) /\ Parsed
       \/ Cache!Miss(Worker, Head(todo)) /\ InFile

Parse ==
    \/ Cache!ParseDone(Worker) /\ InFile
    \/ Cache!StatAfterParse(Worker) /\ InFile
    \/ Cache!Insert(Worker) /\ Parsed

(* A parser exception ends the job, but ingest_code counts it as one       *)
(* file's error and goes on with the next file.                            *)
ParseFails ==
    /\ Cache!ParseRaises(Worker)
    /\ IF HasTool({"ingest"}) THEN FileDone ELSE Finish("error")

(* After its arguments a job calls its database. *)
CallsBackend ==
    /\ job # Nobody /\ step = "begun"
    /\ GoesTo(IF HasTool({"query"}) THEN "query" ELSE "connect")
    /\ UNCHANGED cacheVars

(* A check of the arguments raises, or what a tool does with its file; of  *)
(* ingest_code's loop only what comes before the first file raises out.    *)
JobRaises ==
    /\ \/ job # Nobody /\ step = "begun"
       \/ InLoop /\ (HasTool({"ingest"}) => todo = request[job].files)
    /\ Finish("error")
    /\ UNCHANGED cacheVars

(* validate_path or resolve_flags fails on one file.                       *)
FileRaises ==
    /\ InLoop /\ todo # <<>> /\ HasTool({"ingest"})
    /\ FileDone
    /\ UNCHANGED cacheVars

(* All files are done; ingest_code closes its connection first.            *)
JobReturns ==
    /\ InLoop /\ todo = <<>>
    /\ IF HasTool({"ingest"}) THEN GoesTo("close") ELSE Finish("ok")
    /\ UNCHANGED cacheVars

(* A database answers or raises, its own timeout included.  Until it does  *)
(* the worker is blocked.                                                  *)
QueryReturns ==
    /\ job # Nobody /\ step = "query"
    /\ \E a \in {"ok", "error", "QUERY_TIMEOUT"} : Finish(a)
    /\ UNCHANGED cacheVars

ConnectReturns ==
    /\ job # Nobody /\ step = "connect"
    /\ GoesTo("loop") \/ Finish("error")
    /\ UNCHANGED cacheVars

(* The file is exported, or it has failed; the close never raises.         *)
ExportReturns ==
    /\ job # Nobody /\ step = "export"
    /\ FileDone
    /\ UNCHANGED cacheVars

CloseReturns ==
    /\ job # Nobody /\ step = "close"
    /\ Finish("ok")
    /\ UNCHANGED cacheVars

-----------------------------------------------------------------------------
(* aclose(): executor.shutdown(wait=True) refuses new jobs and waits for   *)
(* the queue to be worked off; then the cache is cleared.                  *)

BeginClose ==
    /\ phase = "open"
    /\ phase' = "draining"
    /\ UNCHANGED <<cacheVars, request, call, queue, job, step, todo>>

Drained == queue = <<>> /\ job = Nobody

(* Mutant of EndClose: shutdown(wait=False). *)
EndCloseAtOnce ==
    /\ phase = "draining"
    /\ Cache!Clear
    /\ phase' = "closed"
    /\ UNCHANGED <<request, call, queue, job, step, todo>>

EndClose ==
    /\ phase = "draining" /\ Drained
    /\ Cache!Clear
    /\ phase' = "closed"
    /\ UNCHANGED <<request, call, queue, job, step, todo>>

FileChanges ==
    /\ \E f \in Files : \/ Cache!Edit(f) \/ Cache!Delete(f)
                        \/ \E v \in 1..MaxVersion : Cache!Restore(f, v)
    /\ UNCHANGED sessionVars

WorkerOwn ==        \* what only the worker's own scheduling decides
    \/ Take \/ Lookup \/ Parse \/ ParseFails
    \/ CallsBackend \/ JobRaises \/ FileRaises \/ JobReturns
Backend ==          \* what a database decides
    QueryReturns \/ ConnectReturns \/ ExportReturns \/ CloseReturns

Next ==
    \/ \E c \in Calls : Timeout(c) \/ Cancel(c) \/ \E r \in Requests : Submit(c, r)
    \/ WorkerOwn \/ Backend
    \/ BeginClose \/ EndClose
    \/ FileChanges

Spec == Init /\ [][Next]_vars

(* The worker thread is scheduled and the parser terminates, the waiting   *)
(* caller's timer fires, aclose goes on when the worker thread has ended.  *)
(* Nothing makes a database answer: the clients have no deadline, and no   *)
(* step of a job that is in a call of its database is the worker's own.    *)
Fairness ==
    /\ WF_vars(WorkerOwn)
    /\ \A c \in Calls : WF_vars(Timeout(c))
    /\ WF_vars(EndClose)

FairSpec == Spec /\ Fairness

BackendAnswers == WF_vars(Backend)

-----------------------------------------------------------------------------
TypeOK ==
    /\ Cache!TypeOK
    /\ request \in [Calls -> Requests]
    /\ call \in [Calls -> {"new", "waiting"} \cup Answers]
    /\ queue \in Seq(Calls)
    /\ job \in Calls \cup {Nobody}
    /\ step \in {"begun", "loop"} \cup DatabaseCalls
    /\ todo \in Seq(Keys)
    /\ phase \in {"open", "draining", "closed"}

Queued == {queue[i] : i \in DOMAIN queue}

(* No caller waits for a job that is nowhere: a waiting call's job is in   *)
(* the queue, once, or on the worker, and never both, also while the       *)
(* executor drains.                                                        *)
WaitingHasJob ==
    /\ \A c \in Calls : call[c] = "waiting" => c \in Queued \cup {job}
    /\ \A i, j \in DOMAIN queue : i # j => queue[i] # queue[j]
    /\ job \notin Queued

(* After aclose nothing is left behind: no job comes out of the drain late *)
(* and puts a translation unit back into the cleared cache.                *)
ClosedIsEmpty ==
    phase = "closed" => Drained /\ Cache!Cached = {} /\ pc[Worker] = "idle"

(* With one worker no translation unit is made while another is there: a   *)
(* parse only goes on for a key that is not in the cache, so an insertion  *)
(* replaces nothing and evicts only for room.  Two threads that miss one   *)
(* key at the same time break both.                                        *)
ParseIsNeeded == pc[Worker] # "idle" => key[Worker] \notin Cache!Cached

(* If the databases answer, queries and ingests, every call is answered,   *)
(* those that the shutdown finds in the queue too, and aclose() ends.      *)
EveryCallAnswered ==
    BackendAnswers =>
        /\ \A c \in Calls : call[c] = "waiting" ~> call[c] \in Answers
        /\ phase = "draining" ~> phase = "closed"

(* When a database may never answer, a query's caller is answered all the  *)
(* same; any other caller is, unless a job, perhaps its own, stays in a    *)
(* call of a database for ever.                                            *)
OnlyBackendsBlock ==
    \A c \in Calls :
        /\ call[c] = "waiting" /\ request[c].tool = "query" ~> call[c] \in Answers
        /\ call[c] = "waiting" ~>
              (call[c] \in Answers \/ [](job # Nobody /\ step \in DatabaseCalls))
=============================================================================
