----------------------------- MODULE AsyncProofs -----------------------------
(***************************************************************************)
(* Proofs about Async, for any number of threads, work items, jobs and any *)
(* capacity of the message queue: the steps that move work items between   *)
(* the lists, and the theorems.                                            *)
(***************************************************************************)
EXTENDS AsyncInv

USE Identities DEF Threads, Users

\* A worker that moves the head of workl to curl preserves the invariant.
LEMMA Ind_TakeHead ==
    ASSUME IndInv, Alive, NEW t \in Workers, pc[t] \in {"top", "woken"},
           mtx = None, workl # <<>>, TakeHead(t),
           UNCHANGED <<run, mtx, work, wmtx, mqueue, given, todo, job>>
    PROVE  IndInv'
<1> DEFINE w == Head(workl)
<1>0. /\ w \in Works
      /\ workl' \in Seq(Works)
      /\ Range(workl) = {w} \cup Range(workl')
      /\ IsInjective(workl') /\ w \notin Range(workl')
      /\ w \notin Range(freel) /\ w \notin Range(curl)
      /\ curl' \in Seq(Works)
      /\ Range(curl') = Range(curl) \cup {w}
      /\ IsInjective(curl')
  <2>1. /\ workl \in Seq(Works) /\ IsInjective(workl) /\ workl' = Tail(workl)
        /\ curl \in Seq(Works) /\ IsInjective(curl) /\ curl' = Append(curl, w)
    BY DEF IndInv, TypeOK, CtlOK, ListsOK, NoStaleReference, Alive, TakeHead
  <2>2. /\ w \in Works
        /\ Tail(workl) \in Seq(Works)
        /\ Range(workl) = {w} \cup Range(Tail(workl))
        /\ IsInjective(Tail(workl)) /\ w \notin Range(Tail(workl))
    BY <2>1, TailItems
  <2>3. w \notin Range(freel) /\ w \notin Range(curl)
    BY <2>1, <2>2 DEF IndInv, NoStaleReference, Alive
  <2> QED BY <2>1, <2>2, <2>3, AppendItems
<1>a. /\ pc' = [pc EXCEPT ![t] = "got"]
      /\ cur' = [cur EXCEPT ![t] = w]
      /\ freel' = freel
  BY DEF TakeHead, Goto
<1>b. cur[t] = None BY DEF IndInv, CurInv
<1> HIDE DEF w
<1>1. TypeOK'
  <2>1. CtlOK' BY <1>0, <1>a DEF IndInv, TypeOK, CtlOK, WorkerPc, MqPc, MainPc
  <2>2. ListsOK' BY <1>0, <1>a DEF IndInv, TypeOK, ListsOK
  <2>3. WorkOK' /\ JobOK' BY <1>0, <1>a DEF IndInv, TypeOK, WorkOK, JobOK
  <2> QED BY <2>1, <2>2, <2>3 DEF TypeOK
<1>3. CurInv' BY <1>0, <1>a DEF IndInv, TypeOK, CtlOK, CurInv
<1>4. MtxInv' BY <1>0, <1>a DEF IndInv, TypeOK, CtlOK, MtxInv
<1>5. WmtxInv' BY <1>0, <1>a, <1>b DEF IndInv, TypeOK, CtlOK, WmtxInv
<1>6. TodoInv' BY <1>0, <1>a DEF IndInv, TypeOK, CtlOK, TodoInv
<1>7. NoStaleReference'
  <2>1. /\ Range(freel) \cap Range(curl') = {}
        /\ Range(workl') \cap (Range(freel) \cup Range(curl')) = {}
    BY <1>0, <1>a DEF IndInv, NoStaleReference, Alive
  <2>2. ~Held(w) /\ ~Queued(w) BY <1>0 DEF IndInv, NoStaleReference, Alive
  <2>3. \A v \in Works : Held(v)' <=> Held(v) \/ v = w
    BY <1>0, <1>a, <1>b DEF IndInv, TypeOK, CtlOK, Held
  <2>4. \A v \in Works : Queued(v)' <=> Queued(v) BY DEF Queued
  <2>5. \A u, v \in Users : u # v /\ cur'[u] = cur'[v] => cur'[u] = None
    BY <1>0, <1>a, <2>2 DEF IndInv, TypeOK, CtlOK, NoStaleReference, Held, Alive
  <2>6. \A v \in Works : v \in Range(curl') <=> Held(v)' \/ Queued(v)'
    BY <2>3, <2>4, <1>0 DEF IndInv, NoStaleReference, Alive
  <2>7. \A v \in Works : ~(Held(v)' /\ Queued(v)')
    BY <2>2, <2>3, <2>4 DEF IndInv, NoStaleReference, Alive
  <2> QED BY <1>0, <1>a, <2>1, <2>5, <2>6, <2>7 DEF IndInv, NoStaleReference, Alive
<1> QED BY <1>1, <1>3, <1>4, <1>5, <1>6, <1>7 DEF IndInv

\* The top of the worker's loop preserves the invariant.
LEMMA Ind_worker_top ==
    ASSUME IndInv, Alive, NEW t \in Workers, worker_top(t)
    PROVE  IndInv'
<1>1. CASE workl # <<>> /\ TakeHead(t)
  BY <1>1, Ind_TakeHead DEF worker_top
<1>2. CASE Goto(t, "exit") /\ UNCHANGED <<lists, cur>>
  BY Zenon, <1>2, Ind_idle DEF worker_top, Goto, lists
<1>3. CASE Goto(t, "wait") /\ UNCHANGED <<lists, cur>>
  BY Zenon, <1>3, Ind_idle DEF worker_top, Goto, lists
<1> QED BY <1>1, <1>2, <1>3 DEF worker_top

\* A spurious return of cnd_wait preserves the invariant.
LEMMA Ind_worker_spurious ==
    ASSUME IndInv, Alive, NEW t \in Workers, worker_spurious(t)
    PROVE  IndInv'
BY Zenon, Ind_idle DEF worker_spurious, Goto, lists

\* A worker woken by a signal preserves the invariant.
LEMMA Ind_worker_woken ==
    ASSUME IndInv, Alive, NEW t \in Workers, worker_woken(t)
    PROVE  IndInv'
<1>1. CASE workl = <<>> \/ ~run
  BY <1>1, Ind_idle DEF worker_woken, Goto, lists
<1>2. CASE ~(workl = <<>> \/ ~run)
  BY <1>2, Ind_TakeHead DEF worker_woken
<1> QED BY <1>1, <1>2

\* The push of a finished item to the message queue preserves the invariant.
LEMMA Ind_mqueue_push ==
    ASSUME IndInv, Alive, NEW t \in Workers, mqueue_push(t)
    PROVE  IndInv'
<1> DEFINE w == cur[t]
<1>a. /\ pc' = [pc EXCEPT ![t] = "top"]
      /\ cur' = [cur EXCEPT ![t] = None]
      /\ mtx' = None
      /\ mqueue' = Append(mqueue, w)
      /\ UNCHANGED <<run, freel, workl, curl, work, wmtx, todo, job, given>>
      /\ pc[t] = "push" /\ mtx = t
  BY DEF mqueue_push, Goto, lists, IndInv, MtxInv
<1>b. w \in Works /\ w # None BY <1>a DEF IndInv, TypeOK, CtlOK, CurInv
<1>c. Held(w) /\ ~Queued(w) /\ w \in Range(curl)
  BY <1>b DEF IndInv, NoStaleReference, Held, Alive
<1>0. /\ mqueue' \in Seq(Works)
      /\ Len(mqueue') <= MqSize
      /\ Range(mqueue') = Range(mqueue) \cup {w}
      /\ IsInjective(mqueue')
  <2>1. mqueue \in Seq(Works) /\ IsInjective(mqueue) /\ Len(mqueue) < MqSize
    BY DEF IndInv, TypeOK, CtlOK, ListsOK, WorkOK, JobOK, NoStaleReference, Alive, mqueue_push
  <2>2. Len(mqueue') = Len(mqueue) + 1 BY <2>1, <1>a, <1>b, AppendProperties
  <2>3. Len(mqueue) \in Nat BY <2>1, LenProperties
  <2>4. /\ Append(mqueue, w) \in Seq(Works)
        /\ Range(Append(mqueue, w)) = Range(mqueue) \cup {w}
        /\ IsInjective(Append(mqueue, w))
    BY <2>1, <1>b, <1>c, AppendItems DEF Queued
  <2> QED BY AsyncAssumption, <2>1, <2>2, <2>3, <2>4, <1>a
<1> HIDE DEF w
<1>1. TypeOK'
  <2>1. CtlOK' BY <1>0, <1>a DEF IndInv, TypeOK, CtlOK, WorkerPc, MqPc, MainPc
  <2>2. ListsOK' BY <1>0, <1>a DEF IndInv, TypeOK, ListsOK
  <2>3. WorkOK' /\ JobOK' BY <1>0, <1>a DEF IndInv, TypeOK, WorkOK, JobOK
  <2> QED BY <2>1, <2>2, <2>3 DEF TypeOK
<1>3. CurInv' BY <1>a DEF IndInv, TypeOK, CtlOK, CurInv
<1>4. MtxInv' BY <1>a DEF IndInv, TypeOK, CtlOK, MtxInv
<1>5. WmtxInv' BY <1>a DEF IndInv, TypeOK, CtlOK, WmtxInv
<1>6. TodoInv' BY <1>a DEF IndInv, TypeOK, CtlOK, TodoInv
<1>7. NoStaleReference'
  <2>1. \A v \in Works : Held(v)' <=> Held(v) /\ v # w
    BY <1>a, <1>b DEF IndInv, TypeOK, CtlOK, NoStaleReference, Held, Alive, w
  <2>2. \A v \in Works : Queued(v)' <=> Queued(v) \/ v = w BY <1>0 DEF Queued
  <2>3. \A u, v \in Users : u # v /\ cur'[u] = cur'[v] => cur'[u] = None
    BY <1>a DEF IndInv, TypeOK, CtlOK, ListsOK, WorkOK, JobOK, NoStaleReference, Alive
  <2> QED BY <1>0, <1>a, <1>c, <2>1, <2>2, <2>3 DEF IndInv, NoStaleReference, Alive
<1> QED BY <1>1, <1>3, <1>4, <1>5, <1>6, <1>7 DEF IndInv

\* The task that takes an item off the message queue preserves the invariant.
LEMMA Ind_mqueue_task ==
    ASSUME IndInv, Alive, mqueue_task
    PROVE  IndInv'
<1> DEFINE w == Head(mqueue)
<1>a. /\ pc' = [pc EXCEPT ![Mq] = "got"]
      /\ cur' = [cur EXCEPT ![Mq] = w]
      /\ mqueue' = Tail(mqueue)
      /\ UNCHANGED <<run, mtx, freel, workl, curl, work, wmtx, todo, job, given>>
      /\ pc[Mq] = "recv" /\ mqueue # <<>>
  BY DEF mqueue_task, Goto, lists
<1>b. cur[Mq] = None BY <1>a DEF IndInv, CurInv
<1>0. /\ w \in Works
      /\ mqueue' \in Seq(Works)
      /\ Len(mqueue') <= MqSize
      /\ Range(mqueue) = Range(mqueue') \cup {w}
      /\ IsInjective(mqueue') /\ w \notin Range(mqueue')
  <2>1. mqueue \in Seq(Works) /\ IsInjective(mqueue) /\ Len(mqueue) <= MqSize
    BY DEF IndInv, TypeOK, CtlOK, ListsOK, WorkOK, JobOK, NoStaleReference, Alive
  <2>2. /\ w \in Works
        /\ Tail(mqueue) \in Seq(Works)
        /\ Len(Tail(mqueue)) = Len(mqueue) - 1
        /\ Range(mqueue) = {w} \cup Range(Tail(mqueue))
        /\ IsInjective(Tail(mqueue)) /\ w \notin Range(Tail(mqueue))
    BY <2>1, <1>a, TailItems
  <2>3. Len(mqueue) \in Nat BY <2>1, LenProperties
  <2> QED BY AsyncAssumption, <2>1, <2>2, <2>3, <1>a
<1>c. ~Held(w) /\ Queued(w) /\ w # None
  BY <1>0 DEF IndInv, NoStaleReference, Queued, Alive
<1> HIDE DEF w
<1>1. TypeOK'
  <2>1. CtlOK' BY <1>0, <1>a DEF IndInv, TypeOK, CtlOK, WorkerPc, MqPc, MainPc
  <2>2. ListsOK' BY <1>0, <1>a DEF IndInv, TypeOK, ListsOK
  <2>3. WorkOK' /\ JobOK' BY <1>0, <1>a DEF IndInv, TypeOK, WorkOK, JobOK
  <2> QED BY <2>1, <2>2, <2>3 DEF TypeOK
<1>3. CurInv' BY <1>a, <1>c DEF IndInv, TypeOK, CtlOK, CurInv
<1>4. MtxInv' BY <1>a DEF IndInv, TypeOK, CtlOK, MtxInv
<1>5. WmtxInv' BY <1>a, <1>b DEF IndInv, TypeOK, CtlOK, WmtxInv
<1>6. TodoInv' BY <1>a DEF IndInv, TypeOK, CtlOK, TodoInv
<1>7. NoStaleReference'
  <2>1. \A v \in Works : Held(v)' <=> Held(v) \/ v = w
    BY <1>a, <1>b DEF IndInv, TypeOK, CtlOK, Held
  <2>2. \A v \in Works : Queued(v)' <=> Queued(v) /\ v # w BY <1>0 DEF Queued
  <2>3. \A u, v \in Users : u # v /\ cur'[u] = cur'[v] => cur'[u] = None
    BY <1>a, <1>c DEF IndInv, TypeOK, CtlOK, NoStaleReference, Held, Alive
  <2> QED BY <1>0, <1>a, <1>c, <2>1, <2>2, <2>3 DEF IndInv, NoStaleReference, Alive
<1> QED BY <1>1, <1>3, <1>4, <1>5, <1>6, <1>7 DEF IndInv

\* queueh, which moves the item back to freel, preserves the invariant.
LEMMA Ind_queueh_move ==
    ASSUME IndInv, Alive, queueh_move
    PROVE  IndInv'
<1> DEFINE w == cur[Mq]
<1>a. /\ pc' = [pc EXCEPT ![Mq] = "recv"]
      /\ cur' = [cur EXCEPT ![Mq] = None]
      /\ curl' = Without(curl, w)
      /\ freel' = Append(freel, w)
      /\ UNCHANGED <<run, mtx, workl, work, wmtx, mqueue, todo, job, given>>
      /\ pc[Mq] = "move" /\ mtx = None
  BY DEF queueh_move, Goto
<1>b. w \in Works /\ w # None BY <1>a DEF IndInv, TypeOK, CtlOK, CurInv
<1>c. Held(w) /\ ~Queued(w) /\ w \in Range(curl) /\ w \notin Range(workl) /\ w \notin Range(freel)
  BY <1>b DEF IndInv, NoStaleReference, Held, Alive
<1> HIDE DEF w
<1>d. /\ curl' \in Seq(Works) /\ Range(curl') = Range(curl) \ {w} /\ IsInjective(curl')
      /\ freel' \in Seq(Works) /\ Range(freel') = Range(freel) \cup {w} /\ IsInjective(freel')
  <2>1. curl \in Seq(Works) /\ IsInjective(curl) /\ freel \in Seq(Works) /\ IsInjective(freel)
    BY DEF IndInv, TypeOK, ListsOK, NoStaleReference, Alive
  <2> QED BY <2>1, <1>a, <1>b, <1>c, WithoutItems, AppendItems
<1>1. TypeOK'
  <2>1. CtlOK' BY <1>a, <1>b DEF IndInv, TypeOK, CtlOK, WorkerPc, MqPc, MainPc
  <2>2. ListsOK' BY <1>a, <1>d DEF IndInv, TypeOK, ListsOK
  <2>3. WorkOK' /\ JobOK' BY <1>a, <1>b DEF IndInv, TypeOK, WorkOK, JobOK
  <2> QED BY <2>1, <2>2, <2>3 DEF TypeOK
<1>3. CurInv' BY <1>a DEF IndInv, TypeOK, CtlOK, CurInv
<1>4. MtxInv' BY <1>a DEF IndInv, TypeOK, CtlOK, MtxInv
<1>5. WmtxInv' BY <1>a DEF IndInv, TypeOK, CtlOK, WmtxInv
<1>6. TodoInv' BY <1>a DEF IndInv, TypeOK, CtlOK, TodoInv, MtxInv
<1>7. NoStaleReference'
  <2>1. \A v \in Works : Held(v)' <=> Held(v) /\ v # w
    BY <1>a, <1>b DEF IndInv, TypeOK, CtlOK, NoStaleReference, Held, Alive, w
  <2>2. \A v \in Works : Queued(v)' <=> Queued(v) BY <1>a DEF Queued
  <2>3. \A u, v \in Users : u # v /\ cur'[u] = cur'[v] => cur'[u] = None
    BY <1>a DEF IndInv, TypeOK, CtlOK, ListsOK, WorkOK, JobOK, NoStaleReference, Alive
  <2> QED BY <1>a, <1>c, <1>d, <2>1, <2>2, <2>3 DEF IndInv, NoStaleReference, Alive
<1> QED BY <1>1, <1>3, <1>4, <1>5, <1>6, <1>7 DEF IndInv

\* The caller of re_async continues; cnd_signal wakes at most one worker.
Resumed(t, l) ==
    /\ pc' \in [Threads -> WorkerPc \cup MqPc \cup MainPc]
    /\ pc'[t] = l
    /\ \A u \in Threads \ {t} :
          pc'[u] = pc[u] \/ (u \in Workers /\ pc[u] = "wait" /\ pc'[u] = "woken")

\* A signal changes nothing but where a waiting worker goes on.
LEMMA SignalResumes ==
    ASSUME TypeOK, NEW t \in Threads \ Workers, NEW l \in MqPc \cup MainPc,
           Signal(t, l) \/ Goto(t, l)
    PROVE  Resumed(t, l)
<1>1. CASE Goto(t, l) BY <1>1 DEF TypeOK, CtlOK, Goto, Resumed
<1>2. ASSUME NEW w \in Waiting, pc' = [pc EXCEPT ![w] = "woken", ![t] = l]
      PROVE  Resumed(t, l)
  <2>1. w \in Workers /\ pc[w] = "wait" /\ w # t BY <1>2 DEF Waiting
  <2> QED BY <1>2, <2>1 DEF TypeOK, CtlOK, WorkerPc, MqPc, MainPc, Resumed
<1> QED BY <1>1, <1>2 DEF Signal

\* A thread that may call re_async, and where it continues.
Caller(t, l) ==
    \/ t = Mq /\ pc[Mq] = "cbcall" /\ l = "cbret"
    \/ t \in Clients \cup {Main} /\ pc[t] = "idle" /\ l = "idle"
    \/ t = Main /\ pc[Main] = "workl_call" /\ l = "workl_ret"
    \/ t = Main /\ pc[Main] = "curl_call" /\ l = "curl_ret"

\* The control state after a call of re_async that accepted or refused the job.
LEMMA Ind_resumed ==
    ASSUME IndInv, Alive, NEW t \in Threads, NEW l, Caller(t, l), Resumed(t, l),
           UNCHANGED <<run, mtx, wmtx, mqueue, cur>>
    PROVE  /\ CurInv' /\ MtxInv' /\ WmtxInv'
           /\ \A u \in Workers : pc'[u] \in WorkerPc
           /\ \A u \in Clients : pc'[u] = "idle"
           /\ pc'[Mq] \in MqPc /\ pc'[Main] \in MainPc
           /\ pc'[Main] = "cancel" <=> pc[Main] = "cancel"
<1> USE DEF Caller, Resumed
<1>1. CurInv' BY DEF IndInv, TypeOK, CtlOK, CurInv
<1>2. MtxInv' BY DEF IndInv, TypeOK, CtlOK, MtxInv
<1>3. WmtxInv' BY DEF IndInv, TypeOK, CtlOK, WmtxInv
<1>4. /\ \A u \in Workers : pc'[u] \in WorkerPc
      /\ \A u \in Clients : pc'[u] = "idle"
      /\ pc'[Mq] \in MqPc /\ pc'[Main] \in MainPc
      /\ pc'[Main] = "cancel" <=> pc[Main] = "cancel"
  BY DEF IndInv, TypeOK, CtlOK, WorkerPc, MqPc, MainPc
<1> QED BY <1>1, <1>2, <1>3, <1>4

\* re_async, which takes or allocates an item for a job, preserves the invariant.
LEMMA Ind_re_async ==
    ASSUME IndInv, Alive, NEW t \in Threads, NEW l, Caller(t, l),
           NEW j \in Jobs, re_async(t, j, l)
    PROVE  IndInv'
<1>0. /\ mtx = None
      /\ UNCHANGED <<run, mtx, curl, wmtx, mqueue, cur, todo, given>>
  BY DEF re_async
<1>1. t \notin Workers /\ l \in MqPc \cup MainPc BY DEF Caller, MqPc, MainPc
<1>2. CASE /\ job' = [job EXCEPT ![j].st = "refused"]
           /\ Goto(t, l)
           /\ UNCHANGED <<freel, workl, work>>
  <2>1. Resumed(t, l) BY <1>1, <1>2, SignalResumes DEF IndInv
  <2>2. /\ CurInv' /\ MtxInv' /\ WmtxInv'
        /\ \A u \in Workers : pc'[u] \in WorkerPc
        /\ \A u \in Clients : pc'[u] = "idle"
        /\ pc'[Mq] \in MqPc /\ pc'[Main] \in MainPc
        /\ pc'[Main] = "cancel" <=> pc[Main] = "cancel"
    BY <2>1, <1>0, Ind_resumed
  <2>3. [job[j] EXCEPT !.st = "refused"] \in JobType
    <3>1. job[j] \in JobType BY DEF IndInv, TypeOK, JobOK
    <3> QED BY <3>1 DEF JobType
  <2>4. TypeOK'
    <3>1. CtlOK' BY <1>0, <1>2, <2>1, <2>2, <2>3 DEF IndInv, TypeOK, CtlOK, WorkerPc, MqPc, MainPc, Resumed
    <3>2. ListsOK' BY <1>0, <1>2, <2>1, <2>2, <2>3 DEF IndInv, TypeOK, ListsOK, Resumed
    <3>3. WorkOK' /\ JobOK' BY <1>0, <1>2, <2>1, <2>2, <2>3 DEF IndInv, TypeOK, WorkOK, JobOK, Resumed
    <3> QED BY <3>1, <3>2, <3>3 DEF TypeOK
  <2>6. TodoInv' BY <1>0, <1>2, <2>2 DEF IndInv, TodoInv
  <2>7. NoStaleReference'
    BY <1>0, <1>2, <2>2 DEF IndInv, NoStaleReference, Held, Queued, Alive
  <2> QED BY <2>2, <2>4, <2>6, <2>7 DEF IndInv
<1>3. ASSUME NEW w \in Works, w \in Range(freel) \/ w \in Works \ Allocated, Enqueue(t, j, w, l)
      PROVE  IndInv'
  <2>1. /\ freel' = Without(freel, w)
        /\ workl' = Append(workl, w)
        /\ job' = [job EXCEPT ![j].st = "pending"]
        /\ Resumed(t, l)
    BY <1>1, <1>3, SignalResumes DEF Enqueue, IndInv
  <2>2. /\ CurInv' /\ MtxInv' /\ WmtxInv'
        /\ \A u \in Workers : pc'[u] \in WorkerPc
        /\ \A u \in Clients : pc'[u] = "idle"
        /\ pc'[Mq] \in MqPc /\ pc'[Main] \in MainPc
        /\ pc'[Main] = "cancel" <=> pc[Main] = "cancel"
    BY <2>1, <1>0, Ind_resumed
  <2>3. w \notin Range(workl) /\ w \notin Range(curl)
    BY <1>3 DEF IndInv, NoStaleReference, Alive, Allocated
  <2>4. /\ workl' \in Seq(Works)
        /\ Range(workl') = Range(workl) \cup {w}
        /\ IsInjective(workl')
        /\ freel' \in Seq(Works) /\ Range(freel') = Range(freel) \ {w} /\ IsInjective(freel')
    <3>1. workl \in Seq(Works) /\ IsInjective(workl) /\ freel \in Seq(Works) /\ IsInjective(freel)
      BY DEF IndInv, TypeOK, ListsOK, NoStaleReference, Alive
    <3> QED BY <2>1, <2>3, <3>1, AppendItems, WithoutItems
  <2>5. [job[j] EXCEPT !.st = "pending"] \in JobType
    <3>1. job[j] \in JobType BY DEF IndInv, TypeOK, JobOK
    <3> QED BY <3>1 DEF JobType
  <2> DEFINE h == IF j \in WorkJobs THEN j ELSE None
             c == IF j \in CbJobs THEN j ELSE None
  <2>6. /\ work' = [work EXCEPT ![w] = [work[w] EXCEPT !.workh = h, !.cb = c, !.arg = j,
                                                       !.id = JobId[j]]]
        /\ h \in Jobs \cup {None} /\ c \in Jobs \cup {None}
        /\ h \in {None, j} /\ c \in {None, j}
        /\ JobId[j] \in Nat
        /\ work[w] \in WorkType
    BY Zenon, AsyncAssumption, <1>3 DEF Enqueue, IndInv, TypeOK, WorkOK, JobOK
  <2> HIDE DEF h, c
  <2>7. [work[w] EXCEPT !.workh = h, !.cb = c, !.arg = j, !.id = JobId[j]] \in WorkType
    BY <2>6, Zenon DEF WorkType
  <2>8. TypeOK'
    <3>1. CtlOK' BY <1>0, <2>1, <2>2, <2>4, <2>5, <2>6, <2>7 DEF IndInv, TypeOK, CtlOK, WorkerPc, MqPc, MainPc, Resumed
    <3>2. ListsOK' BY <1>0, <2>1, <2>2, <2>4, <2>5, <2>6, <2>7 DEF IndInv, TypeOK, ListsOK, Resumed
    <3>3. WorkOK' /\ JobOK' BY <1>0, <2>1, <2>2, <2>4, <2>5, <2>6, <2>7 DEF IndInv, TypeOK, WorkOK, JobOK, Resumed
    <3> QED BY <3>1, <3>2, <3>3 DEF TypeOK
  <2>10. TodoInv' BY <1>0, <2>2, <2>4 DEF IndInv, TodoInv
  <2>11. NoStaleReference'
    BY <1>0, <2>1, <2>2, <2>3, <2>4 DEF IndInv, NoStaleReference, Held, Queued, Alive
  <2> QED BY <2>2, <2>8, <2>10, <2>11 DEF IndInv
<1>4. freel # <<>> => Head(freel) \in Works /\ Head(freel) \in Range(freel)
  BY TailItems DEF IndInv, TypeOK, ListsOK
<1> QED BY <1>2, <1>3, <1>4 DEF re_async

\* A callback that calls re_async, or has done so before, preserves the invariant.
LEMMA Ind_Submit ==
    ASSUME IndInv, Alive, NEW t \in Threads, NEW l, Caller(t, l), NEW j, Submit(t, j, l)
    PROVE  IndInv'
<1>1. CASE Calls(j)
  <2>1. Nested[j] \in Jobs BY <1>1, AsyncAssumption DEF Calls, Range
  <2> QED BY <1>1, <2>1, Ind_re_async DEF Submit
<1>2. CASE ~Calls(j)
  <2>0. /\ Goto(t, l)
        /\ UNCHANGED <<run, mtx, freel, workl, curl, work, wmtx, mqueue, cur, todo, job, given>>
    BY <1>2 DEF Submit, lists
  <2>1. Resumed(t, l)
    <3>1. t \notin Workers /\ l \in MqPc \cup MainPc BY DEF Caller, MqPc, MainPc
    <3> QED BY <2>0, <3>1, SignalResumes DEF IndInv
  <2>2. /\ CurInv' /\ MtxInv' /\ WmtxInv'
        /\ \A u \in Workers : pc'[u] \in WorkerPc
        /\ \A u \in Clients : pc'[u] = "idle"
        /\ pc'[Mq] \in MqPc /\ pc'[Main] \in MainPc
        /\ pc'[Main] = "cancel" <=> pc[Main] = "cancel"
    BY <2>0, <2>1, Ind_resumed
  <2>3. TypeOK'
    <3>1. CtlOK' BY <2>0, <2>1, <2>2 DEF IndInv, TypeOK, CtlOK, Resumed
    <3>2. ListsOK' /\ WorkOK' /\ JobOK' BY <2>0 DEF IndInv, TypeOK, ListsOK, WorkOK, JobOK
    <3> QED BY <3>1, <3>2 DEF TypeOK
  <2>4. TodoInv' BY <2>0, <2>2 DEF IndInv, TodoInv
  <2>5. NoStaleReference' BY <2>0, StaleUnchanged DEF IndInv
  <2> QED BY <2>2, <2>3, <2>4, <2>5 DEF IndInv
<1> QED BY <1>1, <1>2

\* re_async_cancel, for each item it meets, preserves the invariant.
LEMMA Ind_cancel_item ==
    ASSUME IndInv, Alive, NEW w \in Works, cancel_item(w)
    PROVE  IndInv'
<1>0. /\ pc[Main] = "cancel" /\ w \in todo /\ wmtx[w] = None
      /\ todo' = todo \ {w}
      /\ work' = [work EXCEPT ![w] = [work[w] EXCEPT !.id = 0, !.workh = None,
                                                     !.cb = None, !.arg = None]]
      /\ UNCHANGED <<run, mtx, wmtx, mqueue, pc, cur, given>>
  BY Zenon DEF cancel_item, Cleared, IndInv, TypeOK, WorkOK
<1>1. /\ \A v \in Works \ {w} : work'[v] = work[v]
      /\ work'[w].workh = None /\ work'[w].cb = None
      /\ work' \in [Works -> WorkType]
  <2>1. work[w] \in WorkType /\ 0 \in Nat BY DEF IndInv, TypeOK, WorkOK
  <2>2. [work[w] EXCEPT !.id = 0, !.workh = None, !.cb = None, !.arg = None] \in WorkType
    BY <2>1, Zenon DEF WorkType
  <2> QED BY <1>0, <2>1, <2>2 DEF IndInv, TypeOK, CtlOK, ListsOK, WorkOK, JobOK
<1>2. job' \in [Jobs -> JobType]
  <2>1. work[w].arg \in Jobs \cup {None} BY DEF IndInv, TypeOK, WorkOK, WorkType
  <2>2. CASE work[w].arg = None BY <2>2 DEF IndInv, TypeOK, CtlOK, ListsOK, WorkOK, JobOK, cancel_item, Cleared
  <2>3. CASE work[w].arg # None
    <3> DEFINE j == work[w].arg
    <3>1. job' = [job EXCEPT ![j].released = @ + 1,
                             ![j].st = IF @ = "pending" THEN "cancelled" ELSE @]
      BY <2>3 DEF cancel_item, Cleared
    <3>2. j \in Jobs BY <2>1, <2>3
    <3> HIDE DEF j
    <3> QED BY <3>1, <3>2, JobUpdates, Zenon DEF IndInv
  <2> QED BY <2>2, <2>3
<1>3. CurInv' BY <1>0 DEF IndInv, CurInv
<1>4. MtxInv' BY <1>0 DEF IndInv, MtxInv
<1>5. WmtxInv' BY <1>0 DEF IndInv, WmtxInv
<1>7. CASE w \in Range(curl) /\ UNCHANGED lists
  <2>1. TypeOK'
    <3>1. CtlOK' BY <1>0, <1>1, <1>2, <1>7 DEF IndInv, TypeOK, CtlOK, WorkerPc, MqPc, MainPc, lists
    <3>2. ListsOK' BY <1>0, <1>1, <1>2, <1>7 DEF IndInv, TypeOK, ListsOK, lists
    <3>3. WorkOK' /\ JobOK' BY <1>0, <1>1, <1>2, <1>7 DEF IndInv, TypeOK, WorkOK, JobOK, lists
    <3> QED BY <3>1, <3>2, <3>3 DEF TypeOK
  <2>2. TodoInv' BY <1>0, <1>7 DEF IndInv, TodoInv, lists
  <2>3. NoStaleReference'
    BY <1>0, <1>7 DEF IndInv, NoStaleReference, Held, Queued, lists
  <2> QED BY <1>3, <1>4, <1>5, <2>1, <2>2, <2>3 DEF IndInv
<1>8. CASE ToFree(w)
  <2>1. PICK i \in DOMAIN workl : /\ workl[i] = w
                                  /\ workl' = Unlink(workl, i)
                                  /\ freel' = Append(freel, w)
                                  /\ UNCHANGED curl
    BY <1>8 DEF ToFree
  <2>3. w \in Range(workl) /\ w \notin Range(freel)
    BY <2>1 DEF Range, IndInv, NoStaleReference, Alive
  <2>2. /\ workl' \in Seq(Works)
        /\ Range(workl') = Range(workl) \ {w}
        /\ IsInjective(workl')
        /\ freel' \in Seq(Works) /\ Range(freel') = Range(freel) \cup {w} /\ IsInjective(freel')
    <3>1. workl \in Seq(Works) /\ IsInjective(workl) /\ freel \in Seq(Works) /\ IsInjective(freel)
      BY DEF IndInv, TypeOK, ListsOK, NoStaleReference, Alive
    <3> QED BY <2>1, <2>3, <3>1, UnlinkItems, AppendItems
  <2>4. TypeOK'
    <3>1. curl' \in Seq(Works) /\ todo' \subseteq Works
      BY <1>0, <2>1 DEF IndInv, TypeOK, CtlOK, ListsOK, WorkOK, JobOK
    <3> QED BY <1>0, <1>1, <1>2, <2>2, <3>1 DEF IndInv, TypeOK, CtlOK, ListsOK, WorkOK, JobOK
  <2>5. TodoInv' BY <1>0, <2>1, <2>2 DEF IndInv, TodoInv
  <2>6. NoStaleReference'
    BY <1>0, <2>1, <2>2, <2>3 DEF IndInv, NoStaleReference, Held, Queued, Alive
  <2> QED BY <1>3, <1>4, <1>5, <2>4, <2>5, <2>6 DEF IndInv
<1> QED BY <1>7, <1>8 DEF cancel_item

\* Every step of the pool preserves the invariant.
LEMMA NextInd == IndInv /\ [Next]_vars => IndInv'
<1> SUFFICES ASSUME IndInv, [Next]_vars PROVE IndInv' OBVIOUS
<1>1. CASE UNCHANGED vars
  <2> USE <1>1 DEF vars
  <2>1. TypeOK'
    <3>1. CtlOK' BY DEF IndInv, TypeOK, CtlOK, WorkerPc, MqPc, MainPc
    <3>2. ListsOK' BY DEF IndInv, TypeOK, ListsOK
    <3>3. WorkOK' /\ JobOK' BY DEF IndInv, TypeOK, WorkOK, JobOK
    <3> QED BY <3>1, <3>2, <3>3 DEF TypeOK
  <2>3. CurInv' BY DEF IndInv, CurInv
  <2>4. MtxInv' BY DEF IndInv, MtxInv
  <2>5. WmtxInv' BY DEF IndInv, WmtxInv
  <2>6. TodoInv' BY DEF IndInv, TodoInv
  <2>7. NoStaleReference' BY DEF IndInv, NoStaleReference, Held, Queued
  <2> QED BY <2>1, <2>3, <2>4, <2>5, <2>6, <2>7 DEF IndInv
<1>2. CASE Next
  <2>0. Alive BY <1>2 DEF Next
  <2>1. ASSUME NEW t \in Workers, Worker(t) \/ worker_spurious(t) PROVE IndInv'
    BY <2>0, <2>1, Ind_worker_top, Ind_worker_woken, Ind_worker_work, Ind_worker_done,
       Ind_worker_lock, Ind_mqueue_push, Ind_worker_spurious DEF Worker
  <2>2. CASE Queueh
    BY <2>0, <2>2, Ind_mqueue_task, Ind_queueh_cb, Ind_queueh_ret, Ind_queueh_move DEF Queueh
  <2>3. CASE queueh_nested
    BY <2>0, <2>3, Ind_Submit DEF queueh_nested, Caller
  <2>4. ASSUME NEW t \in Clients \cup {Main}, NEW j \in Jobs, client_async(t, j)
        PROVE  IndInv'
    BY <2>0, <2>4, Ind_re_async DEF client_async, Caller
  <2>5. ASSUME NEW id \in Ids, cancel_lock(id) PROVE IndInv'
    BY <2>0, <2>5, Ind_cancel_lock
  <2>6. CASE Cancel BY <2>0, <2>6, Ind_cancel_item, Ind_cancel_unlock DEF Cancel
  <2>7. CASE worker_check BY <2>0, <2>7, Ind_worker_check
  <2>8. CASE close_stop BY <2>0, <2>8, Ind_close_stop
  <2>9. CASE Close
    <3>1. ASSUME NEW l \in {"workl", "curl"}, close_nested(l) PROVE IndInv'
      BY <2>0, <3>1, Ind_Submit DEF close_nested, Call, Ret, Caller
    <3> QED
      BY <2>0, <2>9, <3>1, Ind_close_joined, Ind_close_notify, Ind_close_clear, Ind_close_step,
         Ind_close_curl, Ind_close_flush DEF Close
  <2> QED BY <1>2, <2>1, <2>2, <2>3, <2>4, <2>5, <2>6, <2>7, <2>8, <2>9 DEF Next
<1> QED BY <1>1, <1>2

\* The invariant holds in every reachable state.
LEMMA Invariant == Spec => []IndInv
BY InitInd, NextInd, PTL DEF Spec

\* Every state async.c reaches has the shape TypeOK gives it; in particular the
\* message queue never holds more than queue_size messages.
THEOREM TypeCorrect == Spec => []TypeOK
<1>1. IndInv => TypeOK BY DEF IndInv
<1> QED BY <1>1, Invariant, PTL

\* For any number of workers, jobs and work items, a work item that re_async may
\* reuse is referenced by no worker, no queued message and not by queueh, and an
\* item on curl by exactly one of them, whatever is cancelled or closed when.
THEOREM ReuseIsSafe == Spec => []NoStaleReference
<1>1. IndInv => NoStaleReference BY DEF IndInv
<1> QED BY <1>1, Invariant, PTL
=============================================================================
