-------------------------- MODULE ClangSessionProofs --------------------------
(***************************************************************************)
(* For any number of calls, requests and files: no call of the session is  *)
(* lost, shutdown leaves nothing, and a parse goes on only for a key that  *)
(* is not cached.  The session's cache is TUCache with one thread, so that *)
(* the theorems of TUCacheProofs hold of it.                               *)
(*                                                                         *)
(* Why the invariant is more than the properties: a call that is submitted *)
(* gets a place of its own because no job is of a call yet to be made      *)
(* (JobsAreOfCalls), and nothing comes out of the drain because a worker   *)
(* without a job is not in the cache (WorkerRests).                        *)
(***************************************************************************)
EXTENDS ClangSession, FiniteSetTheorems, TLAPS

Types ==
    /\ DOMAIN pc = {Worker} /\ DOMAIN key = {Worker}
    /\ request \in [Calls -> Requests \cup {NoRequest}]
    /\ call \in [Calls -> {"new", "waiting"} \cup Answers]
    /\ queue \in Seq(Calls)
    /\ job \in Calls \cup {Nobody}
    /\ step \in {"begun", "loop"} \cup DatabaseCalls
    /\ todo \in Seq(Keys)
    /\ phase \in {"open", "draining", "closed"}

(* A job is of a call that was made. *)
JobsAreOfCalls ==
    \A c \in Calls :
        /\ c \in Queued \cup {job} => call[c] # "new"
        /\ call[c] # "new" => request[c] \in Requests

(* The worker is in the cache, and its job exports, only for a file.       *)
WorkerRests ==
    /\ pc[Worker] # "idle" => job # Nobody /\ step = "loop" /\ todo # <<>>
    /\ step = "export" => todo # <<>>

Inv == /\ Types /\ JobsAreOfCalls /\ WorkerRests
       /\ WaitingHasJob /\ ClosedIsEmpty /\ ParseIsNeeded

LEMMA InitInv == Init => Inv
<1> SUFFICES ASSUME Init PROVE Inv
  OBVIOUS
<1>1. DOMAIN pc = {Worker} /\ DOMAIN key = {Worker} /\ pc[Worker] = "idle"
  BY DEF Init, Cache!Init
<1>2. queue \in Seq(Calls) /\ todo \in Seq(Keys) /\ Queued = {}
  BY DEF Init, Queued
<1>3. Types
  BY <1>1, <1>2 DEF Init, Types
<1>4. \A c \in Calls : call[c] = "new" /\ c # job
  BY NobodyAssumption DEF Init
<1>5. JobsAreOfCalls /\ WorkerRests
  BY <1>1, <1>2, <1>4 DEF Init, JobsAreOfCalls, WorkerRests
<1>6. WaitingHasJob /\ ClosedIsEmpty /\ ParseIsNeeded
  BY <1>1, <1>2, <1>4 DEF Init, WaitingHasJob, ClosedIsEmpty, ParseIsNeeded
<1> QED BY <1>3, <1>5, <1>6 DEF Inv

-----------------------------------------------------------------------------
(* The queue. *)

LEMMA QueueAppends ==
  ASSUME Types, WaitingHasJob, NEW c \in Calls, c \notin Queued, queue' = Append(queue, c)
  PROVE  /\ queue' \in Seq(Calls) /\ Queued' = Queued \cup {c}
         /\ \A i, j \in DOMAIN queue' : i # j => queue'[i] # queue'[j]
<1>1. queue \in Seq(Calls) /\ Len(queue) \in Nat /\ DOMAIN queue = 1..Len(queue)
  BY DEF Types
<1>2. /\ queue' \in Seq(Calls) /\ DOMAIN queue' = 1..(Len(queue) + 1)
      /\ \A i \in 1..Len(queue) : queue'[i] = queue[i]
      /\ queue'[Len(queue) + 1] = c
  BY <1>1
<1>3. \A i, j \in DOMAIN queue : i # j => queue[i] # queue[j]
  BY DEF WaitingHasJob
<1>4. \A i \in DOMAIN queue : queue[i] # c
  BY DEF Queued
<1>5. Queued' = Queued \cup {c}
  BY <1>1, <1>2 DEF Queued
<1> QED BY <1>1, <1>2, <1>3, <1>4, <1>5

LEMMA QueueTail ==
  ASSUME Types, WaitingHasJob, queue # <<>>, queue' = Tail(queue)
  PROVE  /\ queue' \in Seq(Calls) /\ Head(queue) \in Queued
         /\ Queued' = Queued \ {Head(queue)} /\ Head(queue) \in Calls
         /\ \A i, j \in DOMAIN queue' : i # j => queue'[i] # queue'[j]
<1>1. queue \in Seq(Calls) /\ Len(queue) \in Nat \ {0} /\ DOMAIN queue = 1..Len(queue)
  BY DEF Types
<1>2. /\ queue' \in Seq(Calls) /\ DOMAIN queue' = 1..(Len(queue) - 1)
      /\ \A i \in 1..(Len(queue) - 1) : queue'[i] = queue[i + 1]
      /\ Head(queue) = queue[1]
  BY <1>1
<1>3. \A i, j \in DOMAIN queue : i # j => queue[i] # queue[j]
  BY DEF WaitingHasJob
<1>4. Queued' = Queued \ {Head(queue)}
  <2>1. ASSUME NEW c \in Queued' PROVE c \in Queued \ {Head(queue)}
    <3>1. PICK i \in 1..(Len(queue) - 1) : c = queue[i + 1]
      BY <1>2 DEF Queued
    <3>2. i + 1 \in DOMAIN queue /\ 1 \in DOMAIN queue /\ i + 1 # 1
      BY <1>1
    <3> QED BY <1>2, <1>3, <3>1, <3>2 DEF Queued
  <2>2. ASSUME NEW c \in Queued \ {Head(queue)} PROVE c \in Queued'
    <3>1. PICK i \in 1..Len(queue) : c = queue[i] /\ i # 1
      BY <1>1, <1>2 DEF Queued
    <3>2. i - 1 \in 1..(Len(queue) - 1) /\ queue'[i - 1] = queue[i]
      BY <1>1, <1>2, <3>1
    <3> QED BY <1>2, <3>1, <3>2 DEF Queued
  <2> QED BY <2>1, <2>2
<1>5. Head(queue) \in Queued /\ Head(queue) \in Calls
  BY <1>1, <1>2 DEF Queued
<1>6. \A i, j \in DOMAIN queue' : i # j => queue'[i] # queue'[j]
  <2> SUFFICES ASSUME NEW i \in DOMAIN queue', NEW j \in DOMAIN queue', i # j
               PROVE  queue'[i] # queue'[j]
    OBVIOUS
  <2>1. i + 1 \in DOMAIN queue /\ j + 1 \in DOMAIN queue /\ i + 1 # j + 1
    BY <1>1, <1>2
  <2> QED BY <1>2, <1>3, <2>1
<1> QED BY <1>2, <1>4, <1>5, <1>6

-----------------------------------------------------------------------------
(* What each step of the cache does to its worker and its keys. *)
LEMMA CacheSteps ==
  ASSUME DOMAIN pc = {Worker}, DOMAIN key = {Worker}
  PROVE  /\ \A k : Cache!Hit(Worker, k) =>
                   UNCHANGED <<pc, key, store>>
         /\ \A k : Cache!Miss(Worker, k) =>
                   /\ pc[Worker] = "idle" /\ pc'[Worker] = "parse"
                   /\ key'[Worker] = k /\ Cache!Cached' = Cache!Cached \ {k}
                   /\ DOMAIN pc' = {Worker} /\ DOMAIN key' = {Worker}
         /\ Cache!ParseDone(Worker) \/ Cache!StatAfterParse(Worker) =>
                   /\ pc[Worker] # "idle" /\ UNCHANGED <<key, store>>
                   /\ DOMAIN pc' = {Worker}
         /\ Cache!ParseRaises(Worker) \/ Cache!Insert(Worker) =>
                   /\ pc[Worker] # "idle" /\ pc'[Worker] = "idle"
                   /\ DOMAIN pc' = {Worker} /\ DOMAIN key' = {Worker}
  BY DEF Cache!Hit, Cache!Miss, Cache!ParseDone, Cache!StatAfterParse, Cache!ParseRaises,
         Cache!Insert, Cache!Return, Cache!diskVars, Cache!threadVars, Cache!cacheVars,
         Cache!Cached, Cache!Drop

(* The callers. *)
LEMMA CallerSteps ==
  ASSUME Inv, NEW c \in Calls,
         Timeout(c) \/ Cancel(c) \/ \E r \in Requests : Submit(c, r)
  PROVE  Inv'
<1> USE DEF Inv, cacheVars
<1>1. UNCHANGED <<pc, key, store, job, step, todo, phase>>
  BY DEF Timeout, Cancel, Submit
<1>2. WorkerRests' /\ ParseIsNeeded'
  BY <1>1 DEF WorkerRests, ParseIsNeeded, Cache!Cached
<1>3. CASE Timeout(c) \/ Cancel(c)
  <2>1. /\ UNCHANGED <<request, queue>> /\ call[c] = "waiting"
        /\ \E a \in Answers : call' = [call EXCEPT ![c] = a]
    BY <1>3 DEF Timeout, Cancel, Answers
  <2>2. Types' /\ Queued' = Queued
    BY <1>1, <2>1 DEF Types, Queued
  <2>3. \A d \in Calls : /\ call'[d] = "waiting" => call[d] = "waiting"
                         /\ call'[d] = "new" <=> call[d] = "new"
    BY <2>1 DEF Types, Answers
  <2> QED BY <1>1, <1>2, <2>1, <2>2, <2>3 DEF JobsAreOfCalls, WaitingHasJob, ClosedIsEmpty,
                                              Drained, Cache!Cached
<1>4. ASSUME NEW r \in Requests, Submit(c, r) PROVE Inv'
  <2>1. /\ call[c] = "new" /\ c \notin Queued /\ c # job
        /\ request' = [request EXCEPT ![c] = r]
    BY <1>4 DEF Submit, JobsAreOfCalls
  <2>2. CASE phase = "open"
    <3>1. call' = [call EXCEPT ![c] = "waiting"] /\ queue' = Append(queue, c)
      BY <1>4, <2>2 DEF Submit
    <3>2. /\ queue' \in Seq(Calls) /\ Queued' = Queued \cup {c}
          /\ \A i, j \in DOMAIN queue' : i # j => queue'[i] # queue'[j]
      BY <2>1, <3>1, QueueAppends
    <3>3. Types'
      BY <1>1, <2>1, <3>1, <3>2 DEF Types
    <3>4. JobsAreOfCalls'
      BY <1>1, <2>1, <3>1, <3>2 DEF Types, JobsAreOfCalls
    <3>5. WaitingHasJob'
      BY <1>1, <2>1, <3>1, <3>2 DEF Types, WaitingHasJob
    <3>6. ClosedIsEmpty'
      BY <1>1, <2>2 DEF ClosedIsEmpty
    <3> QED BY <1>2, <3>3, <3>4, <3>5, <3>6
  <2>3. CASE phase # "open"
    <3>1. call' = [call EXCEPT ![c] = "INTERNAL_ERROR"] /\ queue' = queue /\ Queued' = Queued
      BY <1>4, <2>3 DEF Submit, Queued
    <3>2. Types'
      BY <1>1, <2>1, <3>1 DEF Types, Answers
    <3>3. JobsAreOfCalls' /\ WaitingHasJob'
      BY <1>1, <2>1, <3>1 DEF Types, JobsAreOfCalls, WaitingHasJob
    <3>4. ClosedIsEmpty'
      BY <1>1, <3>1 DEF ClosedIsEmpty, Drained, Cache!Cached
    <3> QED BY <1>2, <3>2, <3>3, <3>4
  <2> QED BY <2>2, <2>3
<1> QED BY <1>3, <1>4

(* A job begins, or is skipped. *)
LEMMA TakeStep ==
  ASSUME Inv, Take
  PROVE  Inv'
<1> USE DEF Inv, cacheVars
<1> DEFINE c == Head(queue)
<1>1. /\ UNCHANGED <<pc, key, store, request, call, phase>>
      /\ queue # <<>> /\ queue' = Tail(queue) /\ job = Nobody
  BY DEF Take
<1>2. /\ queue' \in Seq(Calls) /\ c \in Queued /\ Queued' = Queued \ {c} /\ c \in Calls
      /\ \A i, j \in DOMAIN queue' : i # j => queue'[i] # queue'[j]
  BY <1>1, QueueTail
<1>3. pc[Worker] = "idle" /\ phase # "closed"
  BY <1>1 DEF WorkerRests, ClosedIsEmpty, Drained
<1>4. request[c].files \in Seq(Keys)
  BY <1>2, RequestsAssumption DEF JobsAreOfCalls
<1>5. \/ call[c] = "cancelled" /\ UNCHANGED <<job, todo>>
      \/ job' = c /\ todo' = request[c].files
  BY DEF Take
<1>a. /\ step' \in {"begun", "loop"} \cup DatabaseCalls
      /\ step' = "export" => step = "export" /\ todo' = todo
  BY DEF Take, FirstStep, Types
<1> HIDE DEF c
<1>6. Types'
  BY <1>1, <1>2, <1>4, <1>5, <1>a DEF Types
<1>7. JobsAreOfCalls'
  BY <1>1, <1>2, <1>5 DEF JobsAreOfCalls
<1>8. WaitingHasJob'
  <2>1. \A d \in Calls : call[d] = "waiting" => d \in Queued
    BY <1>1, NobodyAssumption DEF WaitingHasJob
  <2>2. job \notin Queued
    BY DEF WaitingHasJob
  <2>3. \A d \in Calls : call'[d] = "waiting" => d \in Queued' \cup {job'}
    BY <1>1, <1>2, <1>5, <2>1
  <2>4. job' \notin Queued'
    BY <1>1, <1>2, <1>5, <2>2
  <2> QED BY <1>2, <2>3, <2>4 DEF WaitingHasJob
<1>9. WorkerRests' /\ ParseIsNeeded' /\ ClosedIsEmpty'
  BY <1>1, <1>3, <1>a DEF WorkerRests, ParseIsNeeded, ClosedIsEmpty
<1> QED BY <1>6, <1>7, <1>8, <1>9

(* A job ends. *)
LEMMA FinishStep ==
  ASSUME Inv, NEW a \in Answers, job # Nobody, Finish(a), pc'[Worker] = "idle",
         DOMAIN pc' = {Worker}, DOMAIN key' = {Worker}
  PROVE  Inv'
<1> USE DEF Inv
<1>1. /\ UNCHANGED <<request, queue, phase>> /\ job' = Nobody /\ step' = "loop" /\ todo' = <<>>
      /\ call' = IF call[job] = "waiting" THEN [call EXCEPT ![job] = a] ELSE call
  BY DEF Finish
<1>2. job \in Calls /\ a # "waiting" /\ a # "new" /\ Queued' = Queued /\ Queued \subseteq Calls
  BY <1>1 DEF Types, Answers, Queued
<1>3. todo' \in Seq(Keys)
  BY <1>1
<1>4. Types'
  BY <1>1, <1>2, <1>3 DEF Types
<1>5. \A d \in Calls : /\ call'[d] = "waiting" => call[d] = "waiting" /\ d # job
                       /\ call'[d] = "new" <=> call[d] = "new"
  BY <1>1, <1>2 DEF Types
<1>6. JobsAreOfCalls' /\ WaitingHasJob'
  BY <1>1, <1>2, <1>5, NobodyAssumption DEF JobsAreOfCalls, WaitingHasJob
<1>7. WorkerRests' /\ ParseIsNeeded' /\ ClosedIsEmpty'
  BY <1>1 DEF WorkerRests, ParseIsNeeded, ClosedIsEmpty, Drained
<1> QED BY <1>4, <1>6, <1>7

(* A job goes on: nothing of the session changes but where it is and what  *)
(* is to do.                                                               *)
LEMMA JobStep ==
  ASSUME Inv, job # Nobody, UNCHANGED <<request, call, queue, job, phase>>,
         todo' \in Seq(Keys), step' \in {"begun", "loop"} \cup DatabaseCalls,
         DOMAIN pc' = {Worker}, DOMAIN key' = {Worker},
         step' = "export" => todo' # <<>>,
         pc'[Worker] # "idle" =>
             step' = "loop" /\ todo' # <<>> /\ key'[Worker] \notin Cache!Cached'
  PROVE  Inv'
<1> USE DEF Inv
<1>1. Types' /\ Queued' = Queued
  BY DEF Types, Queued
<1>2. JobsAreOfCalls' /\ WaitingHasJob'
  BY <1>1 DEF JobsAreOfCalls, WaitingHasJob
<1>3. WorkerRests' /\ ParseIsNeeded' /\ ClosedIsEmpty'
  BY DEF WorkerRests, ParseIsNeeded, ClosedIsEmpty, Drained
<1> QED BY <1>1, <1>2, <1>3

(* The job leaves its file, or the worker is not in the cache.             *)
LEMMA AtRest ==
  ASSUME Inv, job # Nobody, pc'[Worker] = "idle", DOMAIN pc' = {Worker}, DOMAIN key' = {Worker},
         \/ FileDone /\ todo # <<>>
         \/ \E st \in {"begun", "loop"} \cup DatabaseCalls :
                GoesTo(st) /\ (st = "export" => todo # <<>>)
         \/ \E a \in Answers : Finish(a)
  PROVE  Inv'
<1>1. todo \in Seq(Keys)
  BY DEF Inv, Types
<1>2. CASE FileDone /\ todo # <<>>
  <2>1. Tail(todo) \in Seq(Keys)
    BY <1>1, <1>2
  <2> QED BY <1>2, <2>1, JobStep DEF FileDone
<1>3. ASSUME NEW st \in {"begun", "loop"} \cup DatabaseCalls, GoesTo(st),
             st = "export" => todo # <<>>
      PROVE  Inv'
  BY <1>1, <1>3, JobStep DEF GoesTo
<1>4. ASSUME NEW a \in Answers, Finish(a) PROVE Inv'
  BY <1>4, FinishStep
<1> QED BY <1>2, <1>3, <1>4

LEMMA WorkerSteps ==
  ASSUME Inv, WorkerOwn \/ Backend
  PROVE  Inv'
<1>1. /\ DOMAIN pc = {Worker} /\ DOMAIN key = {Worker} /\ todo \in Seq(Keys)
      /\ pc[Worker] # "idle" => job # Nobody /\ step = "loop" /\ todo # <<>>
      /\ pc[Worker] # "idle" => key[Worker] \notin Cache!Cached
  BY DEF Inv, Types, WorkerRests, ParseIsNeeded
<1>2. Parsed => FileDone \/ \E st \in {"begun", "loop"} \cup DatabaseCalls : GoesTo(st)
  BY DEF Parsed, DatabaseCalls
<1>3. CASE Lookup
  <2>1. job # Nobody /\ todo # <<>> /\ pc[Worker] = "idle" /\ step = "loop"
    BY <1>3 DEF Lookup, InLoop
  <2>2. CASE Cache!Hit(Worker, Head(todo)) /\ Parsed
    <3>1. pc' = pc /\ key' = key
      BY <1>1, <2>2, CacheSteps
    <3> QED BY <1>1, <1>2, <2>1, <2>2, <3>1, AtRest
  <2>3. CASE Cache!Miss(Worker, Head(todo)) /\ InFile
    <3>1. /\ pc'[Worker] = "parse" /\ key'[Worker] \notin Cache!Cached'
          /\ DOMAIN pc' = {Worker} /\ DOMAIN key' = {Worker}
      BY <1>1, <2>3, CacheSteps
    <3> QED BY <1>1, <2>1, <2>3, <3>1, JobStep DEF InFile, sessionVars
  <2> QED BY <1>3, <2>2, <2>3 DEF Lookup
<1>4. CASE Parse
  <2>1. CASE (Cache!ParseDone(Worker) \/ Cache!StatAfterParse(Worker)) /\ InFile
    <3>1. pc[Worker] # "idle" /\ UNCHANGED <<key, store>> /\ DOMAIN pc' = {Worker}
      BY <1>1, <2>1, CacheSteps
    <3>2. key'[Worker] \notin Cache!Cached'
      BY <1>1, <3>1 DEF Cache!Cached
    <3> QED BY <1>1, <2>1, <3>1, <3>2, JobStep DEF InFile, sessionVars
  <2>2. CASE Cache!Insert(Worker) /\ Parsed
    <3>1. /\ pc[Worker] # "idle" /\ pc'[Worker] = "idle"
          /\ DOMAIN pc' = {Worker} /\ DOMAIN key' = {Worker}
      BY <1>1, <2>2, CacheSteps
    <3> QED BY <1>1, <1>2, <2>2, <3>1, AtRest
  <2> QED BY <1>4, <2>1, <2>2 DEF Parse
<1>5. CASE ParseFails
  <2>1. /\ pc[Worker] # "idle" /\ pc'[Worker] = "idle"
        /\ DOMAIN pc' = {Worker} /\ DOMAIN key' = {Worker}
    BY <1>1, <1>5, CacheSteps DEF ParseFails
  <2>2. FileDone \/ Finish("error")
    BY <1>5 DEF ParseFails
  <2> QED BY <1>1, <2>1, <2>2, AtRest DEF Answers
<1>6. CASE FileRaises
  BY <1>1, <1>6, AtRest DEF FileRaises, InLoop, cacheVars
<1>7. CASE CallsBackend \/ JobRaises \/ JobReturns
  <2>1. job # Nobody /\ pc[Worker] = "idle" /\ UNCHANGED <<pc, key>>
    BY <1>1, <1>7 DEF CallsBackend, JobRaises, JobReturns, InLoop, cacheVars
  <2>2. \/ \E st \in {"begun", "loop"} \cup DatabaseCalls : GoesTo(st) /\ st # "export"
        \/ \E a \in Answers : Finish(a)
    BY <1>7 DEF CallsBackend, JobRaises, JobReturns, Answers, DatabaseCalls
  <2> QED BY <1>1, <2>1, <2>2, AtRest
<1>8. CASE QueryReturns \/ ConnectReturns \/ CloseReturns
  <2>1. job # Nobody /\ pc[Worker] = "idle" /\ UNCHANGED <<pc, key>>
    BY <1>1, <1>8 DEF QueryReturns, ConnectReturns, CloseReturns, cacheVars
  <2>2. \/ \E st \in {"begun", "loop"} \cup DatabaseCalls : GoesTo(st) /\ st # "export"
        \/ \E a \in Answers : Finish(a)
    BY <1>8 DEF QueryReturns, ConnectReturns, CloseReturns, Answers
  <2> QED BY <1>1, <2>1, <2>2, AtRest
<1>9. CASE ExportReturns
  <2>1. job # Nobody /\ pc[Worker] = "idle" /\ UNCHANGED <<pc, key>> /\ FileDone
    BY <1>1, <1>9 DEF ExportReturns, cacheVars
  <2> QED BY <1>1, <1>9, <2>1, AtRest DEF Inv, WorkerRests, ExportReturns
<1> QED BY <1>3, <1>4, <1>5, <1>6, <1>7, <1>8, <1>9, TakeStep DEF WorkerOwn, Backend

(* aclose(), and the world's changes to the files. *)
LEMMA OtherSteps ==
  ASSUME Inv, BeginClose \/ EndClose \/ FileChanges \/ UNCHANGED vars
  PROVE  Inv'
<1> USE DEF Inv
<1>1. UNCHANGED <<pc, key, request, call, queue, job, step, todo>> /\ Queued' = Queued
  BY DEF BeginClose, EndClose, FileChanges, vars, cacheVars, sessionVars, Queued,
         Cache!Clear, Cache!Edit, Cache!Delete, Cache!Restore, Cache!threadVars, Cache!diskVars
<1>2. Types'
  BY <1>1 DEF Types, BeginClose, EndClose, FileChanges, vars, sessionVars
<1>3. JobsAreOfCalls' /\ WorkerRests' /\ WaitingHasJob'
  BY <1>1 DEF JobsAreOfCalls, WorkerRests, WaitingHasJob
<1>4. CASE EndClose
  <2>1. Drained /\ store' = [k \in {} |-> 0] /\ pc[Worker] = "idle"
    BY <1>4 DEF EndClose, Cache!Clear, Drained, WorkerRests
  <2>2. Cache!Cached' = {}
    BY <2>1 DEF Cache!Cached
  <2> QED BY <1>1, <1>2, <1>3, <2>1, <2>2 DEF ClosedIsEmpty, ParseIsNeeded, Drained
<1>5. CASE BeginClose \/ FileChanges \/ UNCHANGED vars
  <2>1. UNCHANGED store /\ (phase' = "closed" => phase = "closed")
    BY <1>5 DEF BeginClose, FileChanges, vars, cacheVars, sessionVars,
                Cache!Edit, Cache!Delete, Cache!Restore, Cache!cacheVars
  <2> QED BY <1>1, <1>2, <1>3, <2>1 DEF ClosedIsEmpty, ParseIsNeeded, Drained, Cache!Cached
<1> QED BY <1>4, <1>5

LEMMA NextInv == Inv /\ [Next]_vars => Inv'
  BY CallerSteps, WorkerSteps, OtherSteps DEF Next

LEMMA Invariance == Spec => []Inv
  BY InitInv, NextInv, PTL DEF Spec

-----------------------------------------------------------------------------
(* No call waits for a job that has got lost, whoever gives up meanwhile.  *)
THEOREM NoCallIsLost == Spec => []WaitingHasJob
  BY Invariance, PTL DEF Inv

(* Nothing comes out of the drain after the cache has been cleared.        *)
THEOREM NothingAfterClose == Spec => []ClosedIsEmpty
  BY Invariance, PTL DEF Inv

(* One worker never parses what is in the cache.                           *)
THEOREM ParsesAreNeeded == Spec => []ParseIsNeeded
  BY Invariance, PTL DEF Inv

(* The session uses its cache as TUCache lets its one thread: each step is *)
(* one of the cache's, or leaves it alone.                                 *)
LEMMA UsesTheCache == Spec => Cache!Spec
<1>1. Init => Cache!Init
  BY DEF Init
<1>2. Inv /\ [Next]_vars => [Cache!Next]_(Cache!vars)
  <2> SUFFICES ASSUME Inv, [Next]_vars, ~ UNCHANGED Cache!vars PROVE Cache!Next
    OBVIOUS
  <2>1. ~ UNCHANGED cacheVars
    BY DEF Cache!vars, cacheVars
  <2>2. todo # <<>> => Head(todo) \in Keys
    BY DEF Inv, Types
  <2>3. CASE Lookup
    BY <2>2, <2>3 DEF Lookup, Cache!Next, Cache!Call
  <2>4. CASE Parse \/ ParseFails
    BY <2>4 DEF Parse, ParseFails, Cache!Next, Cache!Call
  <2>5. CASE EndClose
    BY <2>5 DEF EndClose, Cache!Next
  <2>6. CASE FileChanges
    BY <2>6 DEF FileChanges, Cache!Next, Cache!Version
  <2>7. CASE Lookup \/ Parse \/ ParseFails \/ EndClose \/ FileChanges
    BY <2>3, <2>4, <2>5, <2>6, <2>7
  <2> QED BY <2>1, <2>7 DEF Next, Timeout, Cancel, Submit, WorkerOwn, Backend, Take, CallsBackend,
                            FileRaises, JobRaises, JobReturns, QueryReturns, ConnectReturns,
                            ExportReturns, CloseReturns, BeginClose, vars
<1> QED BY <1>1, <1>2, Invariance, PTL DEF Spec, Cache!Spec

-----------------------------------------------------------------------------
(* The theorems of TUCacheProofs, of a cache whose one thread is the       *)
(* worker: the instance of TUCache that the session has is the one that    *)
(* they are about, definition by definition.                               *)
LRUCache == INSTANCE TUCacheProofs WITH Threads <- {Worker}

LEMMA SameCache == Cache!Spec => LRUCache!Spec
<1>1. Cache!Init => LRUCache!Init
  BY DEF Cache!Init, LRUCache!Init, Cache!AnyKey, LRUCache!AnyKey,
         Cache!Blank, LRUCache!Blank, Cache!NoStat, LRUCache!NoStat
<1>2. Cache!Next => LRUCache!Next
  BY DEF Cache!Next, LRUCache!Next, Cache!Call, LRUCache!Call,
         Cache!Hit, LRUCache!Hit, Cache!Miss, LRUCache!Miss,
         Cache!ParseDone, LRUCache!ParseDone, Cache!ParseRaises, LRUCache!ParseRaises,
         Cache!StatAfterParse, LRUCache!StatAfterParse, Cache!Insert, LRUCache!Insert,
         Cache!Invalidate, LRUCache!Invalidate, Cache!Clear, LRUCache!Clear,
         Cache!Edit, LRUCache!Edit, Cache!Delete, LRUCache!Delete,
         Cache!Restore, LRUCache!Restore, Cache!Return, LRUCache!Return,
         Cache!MarkRaced, LRUCache!MarkRaced, Cache!Matching, LRUCache!Matching,
         Cache!Drop, LRUCache!Drop, Cache!DropOrder, LRUCache!DropOrder,
         Cache!Put, LRUCache!Put, Cache!Touch, LRUCache!Touch,
         Cache!Surplus, LRUCache!Surplus, Cache!Cached, LRUCache!Cached,
         Cache!Valid, LRUCache!Valid, Cache!Gone, LRUCache!Gone,
         Cache!NoStat, LRUCache!NoStat, Cache!AnyKey, LRUCache!AnyKey,
         Cache!Blank, LRUCache!Blank, Cache!Version, LRUCache!Version,
         Cache!cacheVars, LRUCache!cacheVars, Cache!threadVars, LRUCache!threadVars,
         Cache!diskVars, LRUCache!diskVars, Cache!Cardinality, LRUCache!Cardinality
<1>3. [Cache!Next]_(Cache!vars) => [LRUCache!Next]_(LRUCache!vars)
  BY <1>2 DEF Cache!vars, LRUCache!vars
<1> QED BY <1>1, <1>3, PTL DEF Cache!Spec, LRUCache!Spec

LEMMA CacheAssumed ==
  /\ MaxVersion \in Nat \ {0} /\ MaxLookups \in Nat /\ Capacity \in Nat \ {0}
  /\ LRUCache!IsFiniteSet({Worker})
  /\ Keys \subseteq LRUCache!CacheKey /\ Keys # {}
<1>1. LRUCache!IsFiniteSet({Worker})
  BY FS_Singleton DEF IsFiniteSet, LRUCache!IsFiniteSet
<1> QED BY <1>1, CacheAssumption DEF Cache!CacheKey, LRUCache!CacheKey

(* Whatever the calls ask for and whenever the session is closed, its      *)
(* variables and those of its cache have their types.                      *)
THEOREM TypesAreCorrect == Spec => []TypeOK
<1>1. LRUCache!Spec => []LRUCache!TypeOK
  BY CacheAssumed, LRUCache!TypeCorrect
<1>2. LRUCache!TypeOK => Cache!TypeOK
  BY DEF LRUCache!TypeOK, Cache!TypeOK, LRUCache!Version, Cache!Version,
         LRUCache!Cached, Cache!Cached, LRUCache!Entry, Cache!Entry, LRUCache!Gone, Cache!Gone,
         LRUCache!NoStat, Cache!NoStat, LRUCache!IsFiniteSet, Cache!IsFiniteSet
<1>3. NoRequest \in Requests
  BY RequestsAssumption DEF NoRequest
<1>4. Inv /\ Cache!TypeOK => TypeOK
  BY <1>3 DEF Inv, Types, TypeOK
<1> QED BY <1>1, <1>2, <1>4, Invariance, UsesTheCache, SameCache, PTL

(* The session's cache never holds more than its capacity, and no call is  *)
(* answered from a translation unit of another version of its file, unless *)
(* the file was written between the parser's read and the stat after it.   *)
THEOREM SessionHitsAreFresh == Spec => []Cache!SizeBound /\ Cache!FreshHits
<1>1. LRUCache!Spec => []LRUCache!SizeBound
  BY CacheAssumed, LRUCache!SizeCorrect
<1>2. LRUCache!Spec => LRUCache!FreshHits
  BY CacheAssumed, LRUCache!FreshHitsCorrect
<1>3. LRUCache!SizeBound => Cache!SizeBound
  BY DEF LRUCache!SizeBound, Cache!SizeBound, LRUCache!Cached, Cache!Cached,
         LRUCache!Cardinality, Cache!Cardinality
<1>4. [\A t \in {Worker}, k \in Keys :
          LRUCache!Hit(t, k) /\ ~ store[k].raced => store[k].tu = disk[k.file]]_(LRUCache!vars)
      => [\A t \in {Worker}, k \in Keys :
             Cache!Hit(t, k) /\ ~ store[k].raced => store[k].tu = disk[k.file]]_(Cache!vars)
  BY DEF LRUCache!Hit, Cache!Hit, LRUCache!Valid, Cache!Valid, LRUCache!Touch, Cache!Touch,
         LRUCache!Cached, Cache!Cached, LRUCache!diskVars, Cache!diskVars,
         LRUCache!threadVars, Cache!threadVars, LRUCache!vars, Cache!vars
<1> QED BY <1>1, <1>2, <1>3, <1>4, UsesTheCache, SameCache, PTL
        DEF LRUCache!FreshHits, Cache!FreshHits
=============================================================================
