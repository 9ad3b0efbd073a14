-------------------------------- MODULE Async --------------------------------
(***************************************************************************)
(* The asynchronous work pool of libre (re/src/async/async.c) on top of    *)
(* the ESP32 message queue (re/src/mqueue/mqueue.c).                       *)
(*                                                                         *)
(* Client threads hand jobs to re_async; worker threads take them off      *)
(* workl, run the work handler and push the work item on a FreeRTOS queue; *)
(* the task of that queue (mqueue_task) calls the callback and returns the *)
(* work item to freel.  A critical section of async->mtx in which nothing  *)
(* blocks is one step; the two in which a thread blocks while it holds the *)
(* mutex (mqueue_push on a full queue, re_async_cancel waiting for a work  *)
(* mutex) hold `mtx' over several steps.                                   *)
(***************************************************************************)
EXTENDS Naturals, Sequences, FiniteSets, Functions

CONSTANTS
    Workers,      \* the worker threads of re_async_alloc
    Clients,      \* threads other than the re main thread that call re_async
    Main,         \* the re main thread: re_async, re_async_cancel, the timer
    Mq,           \* the FreeRTOS task of the message queue
    Works,        \* the async_work structures
    Prealloc,     \* the ones re_async_alloc allocates, in the order of freel
    Jobs,         \* one element per call of re_async (a bound on the calls)
    JobId,        \* the `id' argument of each call
    WorkJobs,     \* the calls that pass a work handler
    CbJobs,       \* the calls that pass a callback
    Nested,       \* Nested[j]: the call of re_async that the callback of j makes
                  \* (once: a bound)
    MqSize,       \* queue_size of mqueue_alloc (16)
    MayClose,     \* does the program call re_thread_async_close
    None

Threads == Workers \cup Clients \cup {Main, Mq}

ASSUME AsyncAssumption ==
    /\ MqSize \in Nat \ {0}
    /\ JobId \in [Jobs -> Nat]
    /\ WorkJobs \subseteq Jobs
    /\ CbJobs \subseteq Jobs
    /\ DOMAIN Nested \subseteq CbJobs
    /\ Range(Nested) \subseteq Jobs
    /\ Prealloc \in Seq(Works) /\ IsInjective(Prealloc)
    /\ MayClose \in BOOLEAN
    /\ None \notin Threads \cup Works \cup Jobs
    /\ Main # Mq
    /\ Main \notin Workers \cup Clients
    /\ Mq \notin Workers \cup Clients
    /\ Workers \cap Clients = {}
    /\ Workers # {}

VARIABLES
    run,     \* async->run
    mtx,     \* holder of async->mtx across steps
    freel,   \* async->freel
    workl,   \* async->workl
    curl,    \* async->curl
    work,    \* the async_work structures; a handler is named by its job
    wmtx,    \* holder of each work->mtx
    mqueue,  \* the FreeRTOS queue
    pc,      \* where each thread is
    cur,     \* the work item each thread has in its local variable; that of
             \* the main thread is le of async_destructor
    given,   \* what the main thread's call was given: the id re_async_cancel
             \* looks for, the job whose callback async_destructor runs
    todo,    \* re_async_cancel: the items left to visit
    job      \* history: what happened to each call of re_async

vars == <<run, mtx, freel, workl, curl, work, wmtx, mqueue, pc, cur, given, todo, job>>

lists == <<freel, workl, curl>>

NewJob == [st |-> "new", ran |-> 0, called |-> 0, got |-> "none", released |-> 0]

FreshWork == [workh |-> None, cb |-> None, arg |-> None, err |-> None, id |-> 0]

Init ==
    /\ run = TRUE
    /\ mtx = None
    /\ freel = Prealloc
    /\ workl = <<>>
    /\ curl = <<>>
    /\ work = [w \in Works |-> FreshWork]
    /\ wmtx = [w \in Works |-> None]
    /\ mqueue = <<>>
    /\ pc = [t \in Threads |-> IF t \in Workers THEN "top"
                               ELSE IF t = Mq THEN "recv" ELSE "idle"]
    /\ cur = [t \in Threads |-> None]
    /\ given = 0
    /\ todo = {}
    /\ job = [j \in Jobs |-> NewJob]

\* list_unlink of the i-th element
Unlink(s, i) == [k \in 1..(Len(s) - 1) |-> IF k < i THEN s[k] ELSE s[k + 1]]

\* list_unlink of w from the list s, if that is the list it is in
Without(s, w) ==
    IF w \in Range(s) THEN Unlink(s, CHOOSE i \in DOMAIN s : s[i] = w) ELSE s

Goto(t, l) == pc' = [pc EXCEPT ![t] = l]

Waiting == {t \in Workers : pc[t] = "wait"}

(***************************************************************************)
(* worker_thread                                                           *)
(***************************************************************************)

\* list_head(&a->workl), list_move(le, &a->curl)
TakeHead(t) ==
    /\ cur' = [cur EXCEPT ![t] = Head(workl)]
    /\ curl' = Append(curl, Head(workl))
    /\ workl' = Tail(workl)
    /\ Goto(t, "got")
    /\ UNCHANGED freel

worker_top(t) ==
    /\ pc[t] = "top"
    /\ mtx = None
    /\ \/ ~run /\ Goto(t, "exit") /\ UNCHANGED <<lists, cur>>
       \/ run /\ workl = <<>> /\ Goto(t, "wait") /\ UNCHANGED <<lists, cur>>
       \/ run /\ workl # <<>> /\ TakeHead(t)
    /\ UNCHANGED <<run, mtx, work, wmtx, mqueue, todo, job, given>>

\* cnd_wait may return without a signal
worker_spurious(t) ==
    /\ pc[t] = "wait"
    /\ Goto(t, "woken")
    /\ UNCHANGED <<run, mtx, lists, work, wmtx, mqueue, cur, todo, job, given>>

\* cnd_wait has returned: the emptiness test of line 59
worker_woken(t) ==
    /\ pc[t] = "woken"
    /\ mtx = None
    /\ IF workl = <<>> \/ ~run
       THEN Goto(t, "top") /\ UNCHANGED <<lists, cur>>
       ELSE TakeHead(t)
    /\ UNCHANGED <<run, mtx, work, wmtx, mqueue, todo, job, given>>

\* mtx_lock(work->mtx) and the call of the work handler
worker_work(t) ==
    /\ pc[t] = "got"
    /\ wmtx[cur[t]] = None
    /\ wmtx' = [wmtx EXCEPT ![cur[t]] = t]
    /\ LET j == work[cur[t]].workh
       IN  job' = IF j = None THEN job ELSE [job EXCEPT ![j].ran = @ + 1]
    /\ Goto(t, "work")
    /\ UNCHANGED <<run, mtx, lists, work, mqueue, cur, todo, given>>

\* Mutant: the result of the work handler is dropped
worker_done_noerr(t) ==
    /\ pc[t] = "work"
    /\ work' = [work EXCEPT ![cur[t]].workh = None]
    /\ wmtx' = [wmtx EXCEPT ![cur[t]] = None]
    /\ Goto(t, "done")
    /\ UNCHANGED <<run, mtx, lists, mqueue, cur, todo, job, given>>

\* the work handler returns; its result is named by its job
worker_done(t) ==
    /\ pc[t] = "work"
    /\ work' = [work EXCEPT ![cur[t]].err = IF work[cur[t]].workh = None
                                           THEN @ ELSE work[cur[t]].workh,
                           ![cur[t]].workh = None]
    /\ wmtx' = [wmtx EXCEPT ![cur[t]] = None]
    /\ Goto(t, "done")
    /\ UNCHANGED <<run, mtx, lists, mqueue, cur, todo, job, given>>

worker_lock(t) ==
    /\ pc[t] = "done"
    /\ mtx = None
    /\ mtx' = t
    /\ Goto(t, "push")
    /\ UNCHANGED <<run, lists, work, wmtx, mqueue, cur, todo, job, given>>

\* Mutant: mqueue_push does not wait for room
mqueue_push_noroom(t) ==
    /\ pc[t] = "push"
    /\ mqueue' = Append(mqueue, cur[t])
    /\ mtx' = None
    /\ cur' = [cur EXCEPT ![t] = None]
    /\ Goto(t, "top")
    /\ UNCHANGED <<run, lists, work, wmtx, todo, job, given>>

\* mqueue_push blocks (portMAX_DELAY) while the queue is full
mqueue_push(t) ==
    /\ pc[t] = "push"
    /\ Len(mqueue) < MqSize
    /\ mqueue' = Append(mqueue, cur[t])
    /\ mtx' = None
    /\ cur' = [cur EXCEPT ![t] = None]
    /\ Goto(t, "top")
    /\ UNCHANGED <<run, lists, work, wmtx, todo, job, given>>

(***************************************************************************)
(* re_async                                                                *)
(***************************************************************************)

\* Mutant: no cnd_signal
Signal_none(t, l) == Goto(t, l)

\* cnd_signal wakes one waiter, if there is one
Signal(t, l) ==
    IF Waiting = {}
    THEN Goto(t, l)
    ELSE \E w \in Waiting : pc' = [pc EXCEPT ![w] = "woken", ![t] = l]

\* Work item w carries job j; err keeps what its last use left there
Enqueue(t, j, w, l) ==
    /\ freel' = Without(freel, w)
    /\ work' = [work EXCEPT ![w].workh = IF j \in WorkJobs THEN j ELSE None,
                           ![w].cb    = IF j \in CbJobs THEN j ELSE None,
                           ![w].arg   = j,
                           ![w].id    = JobId[j]]
    /\ workl' = Append(workl, w)
    /\ Signal(t, l)
    /\ job' = [job EXCEPT ![j].st = "pending"]

Allocated == Range(freel) \cup Range(workl) \cup Range(curl)

\* The item is the head of freel or, when freel is empty, what work_alloc
\* returns; work_alloc may fail.  The caller t continues at l.
re_async(t, j, l) ==
    /\ mtx = None
    /\ job[j].st = "new"
    /\ \/ \E w \in (IF freel = <<>> THEN Works \ Allocated ELSE {Head(freel)}) :
             Enqueue(t, j, w, l)
       \/ /\ freel = <<>>
          /\ job' = [job EXCEPT ![j].st = "refused"]
          /\ Goto(t, l)
          /\ UNCHANGED <<freel, workl, work>>
    /\ UNCHANGED <<run, mtx, curl, wmtx, mqueue, cur, todo, given>>

(***************************************************************************)
(* re_async_cancel, called by the re main thread                           *)
(***************************************************************************)

\* The lists do not change while mtx is held, so the items the two loops
\* visit are known here.
cancel_lock(id) ==
    /\ pc[Main] = "idle"
    /\ mtx = None
    /\ mtx' = Main
    /\ todo' = {w \in Range(workl) \cup Range(curl) : work[w].id = id}
    /\ given' = id
    /\ Goto(Main, "cancel")
    /\ UNCHANGED <<run, lists, work, wmtx, mqueue, cur, job>>

\* What re_async_cancel does to a matching item, but for the lists.  mem_deref
\* of the argument is the job's `released'.
Cleared(w) ==
    /\ work' = [work EXCEPT ![w].id = 0, ![w].workh = None, ![w].cb = None,
                            ![w].arg = None]
    /\ LET j == work[w].arg
       IN  job' = IF j = None THEN job
                  ELSE [job EXCEPT ![j].released = @ + 1,
                                   ![j].st = IF @ = "pending" THEN "cancelled" ELSE @]
    /\ todo' = todo \ {w}
    /\ UNCHANGED <<run, mtx, wmtx, mqueue, pc, cur, given>>

\* list_move from workl to freel
ToFree(w) ==
    \E i \in DOMAIN workl : /\ workl[i] = w
                            /\ workl' = Unlink(workl, i)
                            /\ freel' = Append(freel, w)
                            /\ UNCHANGED curl

\* The item that the loop over workl and then the loop over curl meets next
Visited == Head(SelectSeq(workl \o curl, LAMBDA v : v \in todo))

\* Mutant: an item on curl is moved to freel as well
cancel_item_free(w) ==
    /\ pc[Main] = "cancel" /\ w \in todo /\ w = Visited
    /\ wmtx[w] = None
    /\ Cleared(w)
    /\ \/ /\ w \in Range(curl)
          /\ curl' = Without(curl, w) /\ freel' = Append(freel, w) /\ UNCHANGED workl
       \/ ToFree(w)

\* Mutant: w->mtx is not taken
cancel_item_nolock(w) ==
    /\ pc[Main] = "cancel" /\ w \in todo /\ w = Visited
    /\ Cleared(w)
    /\ (w \in Range(curl) /\ UNCHANGED lists) \/ ToFree(w)

\* One match: w->mtx may be held by a worker or by the queue task
cancel_item(w) ==
    /\ pc[Main] = "cancel" /\ w \in todo /\ w = Visited
    /\ wmtx[w] = None
    /\ Cleared(w)
    /\ (w \in Range(curl) /\ UNCHANGED lists) \/ ToFree(w)

cancel_unlock ==
    /\ pc[Main] = "cancel"
    /\ todo = {}
    /\ mtx' = None
    /\ Goto(Main, "idle")
    /\ UNCHANGED <<run, lists, work, wmtx, mqueue, cur, todo, job, given>>

\* The timer of the re main thread: every 100 ms
worker_check ==
    /\ pc[Main] = "idle"
    /\ mtx = None
    /\ workl # <<>>
    /\ Cardinality(Workers) # Len(curl)
    /\ pc' = [t \in Threads |-> IF t \in Waiting THEN "woken" ELSE pc[t]]
    /\ UNCHANGED <<run, mtx, lists, work, wmtx, mqueue, cur, todo, job, given>>

(***************************************************************************)
(* mqueue_task and its handler queueh                                      *)
(***************************************************************************)

mqueue_task ==
    /\ pc[Mq] = "recv"
    /\ mqueue # <<>>
    /\ cur' = [cur EXCEPT ![Mq] = Head(mqueue)]
    /\ mqueue' = Tail(mqueue)
    /\ Goto(Mq, "got")
    /\ UNCHANGED <<run, mtx, lists, work, wmtx, todo, job, given>>

Called(j, got) ==
    [job EXCEPT ![j].called = @ + 1, ![j].got = got,
                ![j].st = IF @ = "pending" THEN "called" ELSE @]

\* Does the callback of job j call re_async?
Calls(j) == j \in DOMAIN Nested /\ job[Nested[j]].st = "new"

\* What the callback of job j is told when err holds the result of job e
Outcome(j, e) == CASE e = None -> "zero" [] e = j -> "own" [] OTHER -> "stale"

\* mtx_lock(work->mtx) and the call of the callback, if there still is one
queueh_cb ==
    /\ pc[Mq] = "got"
    /\ wmtx[cur[Mq]] = None
    /\ wmtx' = [wmtx EXCEPT ![cur[Mq]] = Mq]
    /\ LET w == work[cur[Mq]]
       IN  IF w.cb = None
           THEN Goto(Mq, "cbret") /\ UNCHANGED job
           ELSE /\ job' = Called(w.cb, Outcome(w.cb, w.err))
                /\ Goto(Mq, IF Calls(w.cb) THEN "cbcall" ELSE "cbret")
    /\ UNCHANGED <<run, mtx, lists, work, mqueue, cur, todo, given>>

\* the callback returns
queueh_ret ==
    /\ pc[Mq] = "cbret"
    /\ work' = [work EXCEPT ![cur[Mq]].cb = None]
    /\ wmtx' = [wmtx EXCEPT ![cur[Mq]] = None]
    /\ Goto(Mq, "move")
    /\ UNCHANGED <<run, mtx, lists, mqueue, cur, todo, job, given>>

\* list_move to freel, from whatever list the item is in
queueh_move ==
    /\ pc[Mq] = "move"
    /\ mtx = None
    /\ curl' = Without(curl, cur[Mq])
    /\ freel' = Append(freel, cur[Mq])
    /\ cur' = [cur EXCEPT ![Mq] = None]
    /\ Goto(Mq, "recv")
    /\ UNCHANGED <<run, mtx, workl, work, wmtx, mqueue, todo, job, given>>

(***************************************************************************)
(* async_destructor, called by the re main thread                          *)
(***************************************************************************)

close_stop ==
    /\ MayClose
    /\ pc[Main] = "idle"
    /\ mtx = None
    /\ run' = FALSE
    /\ pc' = [t \in Threads |-> CASE t \in Waiting -> "woken"
                                  [] t = Main -> "join"
                                  [] OTHER -> pc[t]]
    /\ UNCHANGED <<mtx, lists, work, wmtx, mqueue, cur, todo, job, given>>

\* list_head
First(s) == IF s = <<>> THEN None ELSE Head(s)

\* le->next, in whatever list the item is by now
Following(w) ==
    LET after == UNION {{s[i + 1] : i \in {i \in 1..(Len(s) - 1) : s[i] = w}}
                        : s \in {freel, workl, curl}}
    IN  IF after = {} THEN None ELSE CHOOSE v \in after : TRUE

\* Mutant: the loop over workl is missing
close_joined_curl ==
    /\ pc[Main] = "join"
    /\ \A t \in Workers : pc[t] = "exit"
    /\ cur' = [cur EXCEPT ![Main] = First(curl)]
    /\ Goto(Main, "curl")
    /\ UNCHANGED <<run, mtx, lists, work, wmtx, mqueue, todo, job, given>>

close_joined ==
    /\ pc[Main] = "join"
    /\ \A t \in Workers : pc[t] = "exit"
    /\ cur' = [cur EXCEPT ![Main] = First(workl)]
    /\ Goto(Main, "workl")
    /\ UNCHANGED <<run, mtx, lists, work, wmtx, mqueue, todo, job, given>>

(***************************************************************************)
(* The two loops hold neither mutex while the queue's task calls the same  *)
(* callbacks and moves the same items.  At the head of the loop over l the *)
(* main thread is at l; it has called the callback at Ret(l) and goes to   *)
(* the next item at Step(l).                                               *)
(***************************************************************************)
Call(l) == IF l = "workl" THEN "workl_call" ELSE "curl_call"
Ret(l)  == IF l = "workl" THEN "workl_ret" ELSE "curl_ret"
Step(l) == IF l = "workl" THEN "workl_step" ELSE "curl_step"

\* The callback with ECANCELED
close_notify(l) ==
    /\ pc[Main] = l
    /\ cur[Main] # None
    /\ LET j == work[cur[Main]].cb
       IN  IF j = None
           THEN Goto(Main, Step(l)) /\ UNCHANGED <<job, given>>
           ELSE /\ job' = Called(j, "ECANCELED")
                /\ given' = j
                /\ Goto(Main, IF Calls(j) THEN Call(l) ELSE Ret(l))
    /\ UNCHANGED <<run, mtx, lists, work, wmtx, mqueue, cur, todo>>

close_clear(l) ==
    /\ pc[Main] = Ret(l)
    /\ work' = [work EXCEPT ![cur[Main]].cb = None]
    /\ Goto(Main, Step(l))
    /\ UNCHANGED <<run, mtx, lists, wmtx, mqueue, cur, todo, job, given>>

close_step(l) ==
    /\ pc[Main] = Step(l)
    /\ cur' = [cur EXCEPT ![Main] = Following(cur[Main])]
    /\ Goto(Main, l)
    /\ UNCHANGED <<run, mtx, lists, work, wmtx, mqueue, todo, job, given>>

\* workl has been walked
close_curl ==
    /\ pc[Main] = "workl"
    /\ cur[Main] = None
    /\ cur' = [cur EXCEPT ![Main] = First(curl)]
    /\ Goto(Main, "curl")
    /\ UNCHANGED <<run, mtx, lists, work, wmtx, mqueue, todo, job, given>>

\* the lists are flushed; the queue's task is not stopped
close_flush ==
    /\ pc[Main] = "curl"
    /\ cur[Main] = None
    /\ freel' = <<>> /\ workl' = <<>> /\ curl' = <<>>
    /\ Goto(Main, "closed")
    /\ UNCHANGED <<run, mtx, work, wmtx, mqueue, cur, todo, job, given>>

Worker(t) ==
    \/ worker_top(t) \/ worker_woken(t) \/ worker_work(t)
    \/ worker_done(t) \/ worker_lock(t) \/ mqueue_push(t)

Queueh == mqueue_task \/ queueh_cb \/ queueh_ret \/ queueh_move

Ids == {JobId[j] : j \in Jobs} \ {0}

\* The callback of job j, which thread t is running, calls re_async itself and
\* returns at l.
Submit(t, j, l) ==
    IF Calls(j) THEN re_async(t, Nested[j], l)
    ELSE Goto(t, l) /\ UNCHANGED <<run, mtx, lists, work, wmtx, mqueue, cur, todo, job, given>>

queueh_nested ==
    /\ pc[Mq] = "cbcall"
    /\ Submit(Mq, work[cur[Mq]].arg, "cbret")

close_nested(l) ==
    /\ pc[Main] = Call(l)
    /\ Submit(Main, given, Ret(l))

\* A client's call; client threads are stopped before the pool is closed
client_async(t, j) ==
    /\ pc[t] = "idle"
    /\ run
    /\ j \notin Range(Nested)
    /\ re_async(t, j, "idle")

Cancel == \/ \E w \in Works : cancel_item(w)
          \/ cancel_unlock

Close == \/ close_joined
         \/ \E l \in {"workl", "curl"} :
               close_notify(l) \/ close_nested(l) \/ close_clear(l) \/ close_step(l)
         \/ close_curl
         \/ close_flush

\* Once async_destructor has freed everything, what a task that still uses it
\* does is undefined: the model stops there.
Alive == pc[Main] # "closed"

Next ==
    /\ Alive
    /\ \/ \E t \in Workers : Worker(t) \/ worker_spurious(t)
       \/ Queueh
       \/ queueh_nested
       \/ \E t \in Clients \cup {Main}, j \in Jobs : client_async(t, j)
       \/ \E id \in Ids : cancel_lock(id)
       \/ Cancel
       \/ worker_check
       \/ close_stop
       \/ Close

Spec == Init /\ [][Next]_vars

(***************************************************************************)
(* Every handler returns and a FreeRTOS mutex goes to a thread that waits  *)
(* for it, so each thread that is infinitely often able to step does.      *)
(* Nothing forces a client to call, a timer to run or cnd_wait to return.  *)
(***************************************************************************)
Fairness ==
    /\ \A t \in Workers : SF_vars(Worker(t))
    /\ SF_vars(Alive /\ (Queueh \/ queueh_nested))
    /\ WF_vars(Cancel \/ Close)

FairSpec == Spec /\ Fairness

(***************************************************************************)
(* Properties                                                              *)
(***************************************************************************)

WorkType == [workh : Jobs \cup {None}, cb : Jobs \cup {None},
             arg : Jobs \cup {None}, err : Jobs \cup {None}, id : Nat]

JobType == [st : {"new", "refused", "pending", "called", "cancelled"},
            ran : Nat, called : Nat, released : Nat,
            got : {"none", "zero", "own", "stale", "ECANCELED"}]

WorkerPc == {"top", "wait", "woken", "got", "work", "done", "push", "exit"}
MqPc     == {"recv", "got", "cbcall", "cbret", "move"}
MainPc   == {"idle", "cancel", "join", "workl", "workl_call", "workl_ret", "workl_step",
             "curl", "curl_call", "curl_ret", "curl_step", "closed"}

CtlOK ==
    /\ run \in BOOLEAN
    /\ mtx \in Workers \cup {Main, None}
    /\ wmtx \in [Works -> Workers \cup {Mq, None}]
    /\ pc \in [Threads -> WorkerPc \cup MqPc \cup MainPc]
    /\ \A t \in Workers : pc[t] \in WorkerPc
    /\ \A t \in Clients : pc[t] = "idle"
    /\ pc[Mq] \in MqPc
    /\ pc[Main] \in MainPc
    /\ cur \in [Threads -> Works \cup {None}]

ListsOK ==
    /\ freel \in Seq(Works) /\ workl \in Seq(Works) /\ curl \in Seq(Works)
    /\ mqueue \in Seq(Works) /\ Len(mqueue) <= MqSize
    /\ given \in Jobs \cup Nat /\ todo \subseteq Works

WorkOK == work \in [Works -> WorkType]

JobOK == job \in [Jobs -> JobType]

\* The state has the shape async.c gives it, and the message queue never holds
\* more than queue_size messages.
TypeOK == CtlOK /\ ListsOK /\ WorkOK /\ JobOK

\* The threads, other than a closing main thread, that work on an item.
Users == Workers \cup {Mq}

Held(w) == \E t \in Users : cur[t] = w
Queued(w) == w \in Range(mqueue)

\* An item on freel or workl is referenced by no worker, no queued message and
\* not by queueh, an item on curl by exactly one of them.  So re_async may reuse
\* the head of freel, no item is lost, and (the comment in re_async_cancel)
\* every item on curl still has its queueh to come.
NoStaleReference ==
    pc[Main] # "closed" =>
       /\ Range(freel) \cap Range(curl) = {}
       /\ Range(workl) \cap (Range(freel) \cup Range(curl)) = {}
       /\ \A w \in Works : w \in Range(curl) <=> Held(w) \/ Queued(w)
       /\ \A w \in Works : ~(Held(w) /\ Queued(w))
       /\ \A t, u \in Users : t # u /\ cur[t] = cur[u] => cur[t] = None
       /\ \A s \in {mqueue, freel, workl, curl} : IsInjective(s)

\* A job's work handler runs at most once. Its callback is called at most once
\* while the pool runs; async_destructor, which takes no work->mtx, may call it once
\* more, not oftener. The callback of a job with a work handler is told ECANCELED by
\* async_destructor or, after the handler has returned, the handler's own result:
\* what an item's previous job left in err, which re_async does not reset, is told
\* only to a job without work handler (those of rtprecv.c ignore it).
CalledOnceAfterWork ==
    \A j \in Jobs :
        /\ job[j].ran <= 1
        /\ job[j].called <= IF run THEN 1 ELSE 2
        /\ run => job[j].got # "ECANCELED"
        /\ job[j].got \notin {"none", "ECANCELED"} /\ j \in WorkJobs =>
              /\ job[j].ran = 1
              /\ job[j].got = "own"
              /\ \A w \in Works : work[w].workh # j

\* Neither handler of a cancelled job starts after re_async_cancel cleared it,
\* a handler that runs keeps its argument, and when re_async_cancel returns no
\* job with that id is pending and no handler with such an argument is running:
\* the receiver that rtprecv frees next is not used.
CancelQuiesces ==
    [][/\ \A j \in Jobs : job[j].released > 0 =>
             job'[j].ran = job[j].ran /\ job'[j].called = job[j].called
       /\ \A w \in Works : wmtx[w] # None => work'[w].arg = work[w].arg
       /\ pc[Main] = "cancel" /\ pc'[Main] = "idle" =>
             \A j \in Jobs : JobId[j] = given =>
                /\ job[j].st # "pending"
                /\ \A w \in Works : wmtx[w] # None => work[w].arg # j
      ]_vars

\* No lost wakeup: while work is pending and the pool runs, some worker is
\* not asleep in cnd_wait.  worker_check's broadcast is not what ensures it.
NoLostWakeup ==
    run /\ workl # <<>> => \E t \in Workers : pc[t] # "wait"

\* Every job that re_async accepts gets its callback, is cancelled, or the pool
\* comes to be closed: no job waits for ever, and async_destructor returns
\* although the queue's task moves the items it walks over.
JobServed ==
    \A j \in CbJobs :
        job[j].st = "pending" ~> job[j].st \in {"called", "cancelled"} \/ pc[Main] = "closed"

\* When async_destructor has returned, the only jobs of clients without their
\* callback are those whose item is still on its way to queueh: no job that
\* waited in workl is dropped in silence.
ClosedTold ==
    pc[Main] = "closed" =>
        \A j \in CbJobs \ Range(Nested) :
            job[j].st = "pending" =>
                \E w \in Works : work[w].cb = j /\ (Queued(w) \/ cur[Mq] = w)

\* The documentation of re_async_cancel: it cancels "pending" work and
\* callbacks.  The argument that a callback was given is not released again.
CancelOnlyPending ==
    \A j \in Jobs : job[j].released + job[j].called <= 1

\* The comment on queueh: it is "called by re main event loop".  So when
\* async_destructor has freed the pool, nothing is left that uses it.
ClosedIsQuiet ==
    pc[Main] = "closed" => mqueue = <<>> /\ pc[Mq] = "recv"
=============================================================================
