------------------------------ MODULE AsyncInv -------------------------------
(***************************************************************************)
(* The inductive invariant of Async, and the steps that leave the lists of *)
(* work items alone or that only the closing thread takes.                 *)
(***************************************************************************)
EXTENDS Async, SequenceTheorems, TLAPS

(***************************************************************************)
(* What the list operations do to the set of the listed items              *)
(***************************************************************************)

\* list_append: the items are the old ones and the new one; appending a new
\* item keeps the items distinct.
LEMMA AppendItems ==
    ASSUME NEW S, NEW s \in Seq(S), NEW x \in S
    PROVE  /\ Append(s, x) \in Seq(S)
           /\ Range(Append(s, x)) = Range(s) \cup {x}
           /\ IsInjective(s) /\ x \notin Range(s) => IsInjective(Append(s, x))
<1>1. /\ Append(s, x) \in Seq(S)
      /\ Len(Append(s, x)) = Len(s) + 1
      /\ \A i \in 1..Len(s) : Append(s, x)[i] = s[i]
      /\ Append(s, x)[Len(s) + 1] = x
      /\ Len(s) \in Nat
      /\ DOMAIN s = 1..Len(s)
      /\ DOMAIN Append(s, x) = 1..(Len(s) + 1)
  BY AppendProperties, LenProperties
<1>2. Range(Append(s, x)) = Range(s) \cup {x}
  BY <1>1 DEF Range
<1>3. IsInjective(s) /\ x \notin Range(s) => IsInjective(Append(s, x))
  BY <1>1 DEF Range, IsInjective
<1> QED BY <1>1, <1>2, <1>3

\* Taking the head of a list of distinct items removes exactly that item.
LEMMA TailItems ==
    ASSUME NEW S, NEW s \in Seq(S), s # <<>>
    PROVE  /\ Head(s) \in S
           /\ Tail(s) \in Seq(S)
           /\ Len(Tail(s)) = Len(s) - 1
           /\ Range(s) = {Head(s)} \cup Range(Tail(s))
           /\ IsInjective(s) => IsInjective(Tail(s)) /\ Head(s) \notin Range(Tail(s))
<1>1. /\ Head(s) = s[1]
      /\ Head(s) \in S
      /\ Tail(s) \in Seq(S)
      /\ Len(Tail(s)) = Len(s) - 1
      /\ \A i \in 1..(Len(s) - 1) : Tail(s)[i] = s[i + 1]
      /\ Len(s) \in Nat /\ Len(s) > 0
      /\ DOMAIN s = 1..Len(s)
      /\ DOMAIN Tail(s) = 1..(Len(s) - 1)
  BY HeadTailProperties, LenProperties, EmptySeq, SMTT(20)
<1>2. Range(s) = {Head(s)} \cup Range(Tail(s))
  <2>1. ASSUME NEW i \in DOMAIN s PROVE s[i] \in {Head(s)} \cup Range(Tail(s))
    <3>1. CASE i = 1 BY <3>1, <1>1
    <3>2. CASE i # 1
      <4>1. i - 1 \in DOMAIN Tail(s) /\ Tail(s)[i - 1] = s[i] BY <3>2, <1>1
      <4> QED BY <4>1 DEF Range
    <3> QED BY <3>1, <3>2
  <2>2. ASSUME NEW i \in DOMAIN Tail(s) PROVE Tail(s)[i] \in Range(s)
    <3>1. i + 1 \in DOMAIN s /\ s[i + 1] = Tail(s)[i] BY <1>1
    <3> QED BY <3>1 DEF Range
  <2>3. Head(s) \in Range(s) BY <1>1 DEF Range
  <2> QED BY <2>1, <2>2, <2>3 DEF Range
<1>3. ASSUME IsInjective(s)
      PROVE  IsInjective(Tail(s)) /\ Head(s) \notin Range(Tail(s))
  BY <1>1, <1>3 DEF Range, IsInjective
<1> QED BY <1>1, <1>2, <1>3

\* Unlinking an item of a list of distinct items removes exactly that item.
LEMMA UnlinkItems ==
    ASSUME NEW S, NEW s \in Seq(S), NEW i \in DOMAIN s, IsInjective(s)
    PROVE  /\ Unlink(s, i) \in Seq(S)
           /\ Range(Unlink(s, i)) = Range(s) \ {s[i]}
           /\ IsInjective(Unlink(s, i))
<1> DEFINE u == Unlink(s, i)
<1>1. /\ Len(s) \in Nat /\ Len(s) > 0
      /\ DOMAIN s = 1..Len(s)
      /\ \A k \in 1..Len(s) : s[k] \in S
      /\ i \in 1..Len(s)
  BY LenProperties, ElementOfSeq
<1>2. /\ DOMAIN u = 1..(Len(s) - 1)
      /\ \A k \in 1..(Len(s) - 1) : u[k] = IF k < i THEN s[k] ELSE s[k + 1]
  BY DEF Unlink
<1>3. u \in [1..(Len(s) - 1) -> S] BY <1>1 DEF Unlink
<1>4. u \in Seq(S) BY <1>1, <1>3, IsASeq
<1>5. IsInjective(u)
  <2>1. ASSUME NEW a \in DOMAIN u, NEW b \in DOMAIN u, u[a] = u[b] PROVE a = b
    <3> DEFINE At(k) == IF k < i THEN k ELSE k + 1
    <3>1. u[a] = s[At(a)] /\ u[b] = s[At(b)] /\ At(a) \in DOMAIN s /\ At(b) \in DOMAIN s
      BY <1>1, <1>2
    <3>2. At(a) = At(b) BY <3>1, <2>1, Zenon DEF IsInjective
    <3> QED BY <3>2, <1>1, <1>2
  <2> QED BY <2>1 DEF IsInjective
<1>6. Range(u) = Range(s) \ {s[i]}
  <2>1. ASSUME NEW k \in DOMAIN u PROVE u[k] \in Range(s) /\ u[k] # s[i]
    BY <1>1, <1>2 DEF Range, IsInjective
  <2>2. ASSUME NEW k \in DOMAIN s, s[k] # s[i] PROVE s[k] \in Range(u)
    <3>1. CASE k < i
      <4>1. k \in DOMAIN u /\ u[k] = s[k] BY <3>1, <1>1, <1>2
      <4> QED BY <4>1 DEF Range
    <3>2. CASE k > i
      <4>1. k - 1 \in DOMAIN u /\ u[k - 1] = s[k] BY <3>2, <1>1, <1>2
      <4> QED BY <4>1 DEF Range
    <3> QED BY <3>1, <3>2, <2>2, <1>1
  <2> QED BY <2>1, <2>2 DEF Range
<1> QED BY <1>4, <1>5, <1>6

\* list_unlink by item, and a list of distinct items it is not in.
LEMMA WithoutItems ==
    ASSUME NEW S, NEW s \in Seq(S), NEW w, IsInjective(s)
    PROVE  /\ Without(s, w) \in Seq(S)
           /\ Range(Without(s, w)) = Range(s) \ {w}
           /\ IsInjective(Without(s, w))
<1>1. CASE w \in Range(s)
  <2> DEFINE i == CHOOSE i \in DOMAIN s : s[i] = w
  <2>1. i \in DOMAIN s /\ s[i] = w BY <1>1 DEF Range
  <2>2. Without(s, w) = Unlink(s, i) BY <1>1 DEF Without
  <2> HIDE DEF i
  <2> QED BY <2>1, <2>2, UnlinkItems
<1>2. CASE w \notin Range(s) BY <1>2 DEF Without
<1> QED BY <1>1, <1>2

(***************************************************************************)
(* The inductive invariant                                                 *)
(***************************************************************************)

\* A worker has an item from TakeHead to mqueue_push, the queue's task from
\* xQueueReceive to the end of queueh.
CurInv ==
    /\ \A t \in Workers : cur[t] # None <=> pc[t] \in {"got", "work", "done", "push"}
    /\ cur[Mq] # None <=> pc[Mq] # "recv"

\* Who holds async->mtx between two steps.
MtxInv ==
    /\ \A t \in Workers : mtx = t <=> pc[t] = "push"
    /\ mtx = Main <=> pc[Main] = "cancel"

\* Who holds the mutex of a work item.
WmtxInv ==
    \A w \in Works :
        /\ \A t \in Workers : wmtx[w] = t <=> cur[t] = w /\ pc[t] = "work"
        /\ wmtx[w] = Mq <=> cur[Mq] = w /\ pc[Mq] \in {"cbcall", "cbret"}

\* re_async_cancel still has to visit only items of the two lists it walks.
TodoInv == pc[Main] = "cancel" => todo \subseteq Range(workl) \cup Range(curl)

IndInv == TypeOK /\ CurInv /\ MtxInv /\ WmtxInv /\ TodoInv /\ NoStaleReference

\* The four kinds of threads and None are different from each other.
LEMMA Identities ==
    /\ None \notin Works /\ None \notin Jobs /\ None \notin Workers /\ None \notin Clients
    /\ None # Main /\ None # Mq /\ Main # Mq
    /\ Main \notin Workers /\ Main \notin Clients /\ Mq \notin Workers /\ Mq \notin Clients
    /\ \A t \in Workers : t \notin Clients
BY AsyncAssumption DEF Threads

USE Identities DEF Threads, Users

\* A pool fresh from re_async_alloc satisfies the invariant.
LEMMA InitInd == Init => IndInv
<1> SUFFICES ASSUME Init PROVE IndInv OBVIOUS
<1>1. TypeOK BY AsyncAssumption DEF Init, TypeOK, CtlOK, ListsOK, WorkOK, JobOK, FreshWork, NewJob,
                 WorkerPc, MqPc, MainPc, WorkType, JobType
<1>3. CurInv BY DEF Init, CurInv
<1>4. MtxInv BY DEF Init, MtxInv
<1>5. WmtxInv BY DEF Init, WmtxInv
<1>6. TodoInv BY DEF Init, TodoInv
<1>7. NoStaleReference
  <2>1. Range(<<>>) = {} /\ IsInjective(<<>>) BY DEF Range, IsInjective
  <2>2. IsInjective(Prealloc) BY AsyncAssumption
  <2> QED BY <2>1, <2>2 DEF Init, NoStaleReference, Held, Queued
<1> QED BY <1>1, <1>3, <1>4, <1>5, <1>6, <1>7 DEF IndInv


\* Updates of one job's history keep its type.
LEMMA JobUpdates ==
    ASSUME TypeOK, NEW j \in Jobs, NEW g \in {"zero", "own", "stale", "ECANCELED"}
    PROVE  /\ [job EXCEPT ![j].ran = @ + 1] \in [Jobs -> JobType]
           /\ Called(j, g) \in [Jobs -> JobType]
           /\ [job EXCEPT ![j].released = @ + 1,
                          ![j].st = IF @ = "pending" THEN "cancelled" ELSE @]
                 \in [Jobs -> JobType]
<1>0. job \in [Jobs -> JobType] BY DEF TypeOK, JobOK
<1>1. job[j] \in JobType BY <1>0
<1>a. job[j].ran + 1 \in Nat /\ job[j].called + 1 \in Nat /\ job[j].released + 1 \in Nat
  BY <1>1 DEF JobType
<1>b. /\ (IF job[j].st = "pending" THEN "called" ELSE job[j].st)
            \in {"new", "refused", "pending", "called", "cancelled"}
      /\ (IF job[j].st = "pending" THEN "cancelled" ELSE job[j].st)
            \in {"new", "refused", "pending", "called", "cancelled"}
  BY <1>1 DEF JobType
<1>2. [job[j] EXCEPT !.ran = @ + 1] \in JobType BY <1>1, <1>a, Zenon DEF JobType
<1>3. [job[j] EXCEPT !.called = @ + 1, !.got = g,
                     !.st = IF @ = "pending" THEN "called" ELSE @] \in JobType
  BY <1>1, <1>a, <1>b, Zenon DEF JobType
<1>4. [job[j] EXCEPT !.released = @ + 1,
                     !.st = IF @ = "pending" THEN "cancelled" ELSE @] \in JobType
  BY <1>1, <1>a, <1>b, Zenon DEF JobType
<1>5. [job EXCEPT ![j].ran = @ + 1] \in [Jobs -> JobType] BY <1>0, <1>2
<1>6. Called(j, g) \in [Jobs -> JobType] BY <1>0, <1>3 DEF Called
<1>7. [job EXCEPT ![j].released = @ + 1,
                  ![j].st = IF @ = "pending" THEN "cancelled" ELSE @]
         \in [Jobs -> JobType]
  BY <1>0, <1>4
<1> QED BY <1>5, <1>6, <1>7

\* The lists hold work items only.
LEMMA ListItems ==
    ASSUME TypeOK
    PROVE  /\ Range(workl) \subseteq Works /\ Range(mqueue) \subseteq Works
           /\ Range(freel) \subseteq Works /\ Range(curl) \subseteq Works
BY RangeOfSeq DEF TypeOK, ListsOK

\* NoStaleReference depends on the lists, the queue and the items in use only.
LEMMA StaleUnchanged ==
    ASSUME NoStaleReference, Alive, UNCHANGED <<freel, workl, curl, mqueue>>,
           \A t \in Users : cur'[t] = cur[t]
    PROVE  NoStaleReference'
BY DEF NoStaleReference, Held, Queued, Alive

\* A worker that runs the work handler of its item preserves the invariant.
LEMMA Ind_worker_work ==
    ASSUME IndInv, Alive, NEW t \in Workers, worker_work(t)
    PROVE  IndInv'
<1>1. TypeOK'
  <2>1. cur[t] \in Works /\ work[cur[t]].workh \in Jobs \cup {None}
    BY DEF IndInv, TypeOK, CtlOK, WorkOK, WorkType, CurInv, worker_work
  <2>2. job' \in [Jobs -> JobType]
    <3>1. CASE work[cur[t]].workh = None BY <3>1 DEF IndInv, TypeOK, JobOK, worker_work
    <3>2. CASE work[cur[t]].workh # None
      <4>1. job' = [job EXCEPT ![work[cur[t]].workh].ran = @ + 1] BY <3>2 DEF worker_work
      <4> QED BY <4>1, <2>1, <3>2, JobUpdates, Zenon DEF IndInv
    <3> QED BY <3>1, <3>2
  <2>11. CtlOK' BY <2>1, <2>2 DEF IndInv, TypeOK, CtlOK, WorkerPc, MqPc, MainPc, worker_work, Goto, lists
  <2>12. ListsOK' BY <2>1, <2>2 DEF IndInv, TypeOK, ListsOK, worker_work, Goto, lists
  <2>13. WorkOK' /\ JobOK' BY <2>1, <2>2 DEF IndInv, TypeOK, WorkOK, JobOK, worker_work, Goto, lists
  <2> QED BY <2>11, <2>12, <2>13 DEF TypeOK
<1>3. CurInv' BY DEF IndInv, TypeOK, CtlOK, CurInv, worker_work, Goto, lists
<1>4. MtxInv' BY DEF IndInv, TypeOK, CtlOK, MtxInv, worker_work, Goto, lists
<1>5. WmtxInv' BY DEF IndInv, TypeOK, CtlOK, WmtxInv, worker_work, Goto, lists
<1>6. TodoInv' BY DEF IndInv, TypeOK, CtlOK, TodoInv, worker_work, Goto, lists
<1>7. NoStaleReference' BY StaleUnchanged DEF IndInv, TypeOK, CtlOK, worker_work, Goto, lists
<1> QED BY <1>1, <1>3, <1>4, <1>5, <1>6, <1>7 DEF IndInv

\* A worker that has its result and lets go of the item's mutex preserves the invariant.
LEMMA Ind_worker_done ==
    ASSUME IndInv, Alive, NEW t \in Workers, worker_done(t)
    PROVE  IndInv'
<1>1. TypeOK'
  <2>1. cur[t] \in Works /\ work[cur[t]] \in WorkType
    BY DEF IndInv, TypeOK, CtlOK, ListsOK, WorkOK, JobOK, CurInv, worker_done
  <2>2. [work[cur[t]] EXCEPT !.err = IF work[cur[t]].workh = None
                                     THEN @ ELSE work[cur[t]].workh,
                             !.workh = None] \in WorkType
    BY <2>1, Zenon DEF WorkType
  <2>3. work' \in [Works -> WorkType]
    BY <2>1, <2>2 DEF IndInv, TypeOK, CtlOK, ListsOK, WorkOK, JobOK, worker_done
  <2>11. CtlOK' BY <2>1, <2>3 DEF IndInv, TypeOK, CtlOK, WorkerPc, MqPc, MainPc, worker_done, Goto, lists
  <2>12. ListsOK' BY <2>1, <2>3 DEF IndInv, TypeOK, ListsOK, worker_done, Goto, lists
  <2>13. WorkOK' /\ JobOK' BY <2>1, <2>3 DEF IndInv, TypeOK, WorkOK, JobOK, worker_done, Goto, lists
  <2> QED BY <2>11, <2>12, <2>13 DEF TypeOK
<1>3. CurInv' BY DEF IndInv, TypeOK, CtlOK, CurInv, worker_done, Goto, lists
<1>4. MtxInv' BY DEF IndInv, TypeOK, CtlOK, MtxInv, worker_done, Goto, lists
<1>5. WmtxInv' BY DEF IndInv, TypeOK, CtlOK, WmtxInv, worker_done, Goto, lists
<1>6. TodoInv' BY DEF IndInv, TypeOK, CtlOK, TodoInv, worker_done, Goto, lists
<1>7. NoStaleReference' BY StaleUnchanged DEF IndInv, TypeOK, CtlOK, worker_done, Goto, lists
<1> QED BY <1>1, <1>3, <1>4, <1>5, <1>6, <1>7 DEF IndInv

\* A worker that takes the pool's mutex again, to push its result, preserves the invariant.
LEMMA Ind_worker_lock ==
    ASSUME IndInv, Alive, NEW t \in Workers, worker_lock(t)
    PROVE  IndInv'
<1>1. TypeOK'
  <2>1. CtlOK' BY DEF IndInv, TypeOK, CtlOK, WorkerPc, MqPc, MainPc, worker_lock, Goto, lists
  <2>2. ListsOK' BY DEF IndInv, TypeOK, ListsOK, worker_lock, Goto, lists
  <2>3. WorkOK' /\ JobOK' BY DEF IndInv, TypeOK, WorkOK, JobOK, worker_lock, Goto, lists
  <2> QED BY <2>1, <2>2, <2>3 DEF TypeOK
<1>3. CurInv' BY DEF IndInv, TypeOK, CtlOK, CurInv, worker_lock, Goto, lists
<1>4. MtxInv' BY DEF IndInv, TypeOK, CtlOK, MtxInv, worker_lock, Goto, lists
<1>5. WmtxInv' BY DEF IndInv, TypeOK, CtlOK, WmtxInv, worker_lock, Goto, lists
<1>6. TodoInv' BY DEF IndInv, TypeOK, CtlOK, TodoInv, worker_lock, Goto, lists
<1>7. NoStaleReference' BY StaleUnchanged DEF IndInv, TypeOK, CtlOK, worker_lock, Goto, lists
<1> QED BY <1>1, <1>3, <1>4, <1>5, <1>6, <1>7 DEF IndInv

\* queueh, which picks the callback of a finished item, preserves the invariant.
LEMMA Ind_queueh_cb ==
    ASSUME IndInv, Alive, queueh_cb
    PROVE  IndInv'
<1>0. PICK l \in {"cbcall", "cbret"} : pc' = [pc EXCEPT ![Mq] = l]
  BY Zenon DEF queueh_cb, Goto
<1>1. TypeOK'
  <2>1. cur[Mq] \in Works /\ work[cur[Mq]].cb \in Jobs \cup {None}
    BY DEF IndInv, TypeOK, CtlOK, WorkOK, WorkType, CurInv, queueh_cb
  <2>2. job' \in [Jobs -> JobType]
    <3>1. CASE work[cur[Mq]].cb = None BY <3>1 DEF IndInv, TypeOK, CtlOK, ListsOK, WorkOK, JobOK, queueh_cb
    <3>2. CASE work[cur[Mq]].cb # None
      <4> DEFINE o == Outcome(work[cur[Mq]].cb, work[cur[Mq]].err)
      <4>1. o \in {"zero", "own", "stale", "ECANCELED"} BY DEF Outcome
      <4>2. job' = Called(work[cur[Mq]].cb, o) BY <3>2 DEF queueh_cb
      <4> HIDE DEF o
      <4> QED BY <4>1, <4>2, <2>1, <3>2, JobUpdates, Zenon DEF IndInv
    <3> QED BY <3>1, <3>2
  <2>11. CtlOK' BY <1>0, <2>1, <2>2 DEF IndInv, TypeOK, CtlOK, WorkerPc, MqPc, MainPc, queueh_cb, lists
  <2>12. ListsOK' BY <1>0, <2>1, <2>2 DEF IndInv, TypeOK, ListsOK, queueh_cb, lists
  <2>13. WorkOK' /\ JobOK' BY <1>0, <2>1, <2>2 DEF IndInv, TypeOK, WorkOK, JobOK, queueh_cb, lists
  <2> QED BY <2>11, <2>12, <2>13 DEF TypeOK
<1>3. CurInv' BY <1>0 DEF IndInv, TypeOK, CtlOK, CurInv, queueh_cb
<1>4. MtxInv' BY <1>0 DEF IndInv, TypeOK, CtlOK, MtxInv, queueh_cb
<1>5. WmtxInv' BY <1>0 DEF IndInv, TypeOK, CtlOK, WmtxInv, queueh_cb
<1>6. TodoInv' BY <1>0 DEF IndInv, TypeOK, CtlOK, TodoInv, queueh_cb, lists
<1>7. NoStaleReference'
  BY StaleUnchanged DEF IndInv, queueh_cb, lists
<1> QED BY <1>1, <1>3, <1>4, <1>5, <1>6, <1>7 DEF IndInv

\* The return of the callback to queueh preserves the invariant.
LEMMA Ind_queueh_ret ==
    ASSUME IndInv, Alive, queueh_ret
    PROVE  IndInv'
<1>1. TypeOK'
  <2>1. cur[Mq] \in Works /\ work[cur[Mq]] \in WorkType
    BY DEF IndInv, TypeOK, CtlOK, ListsOK, WorkOK, JobOK, CurInv, queueh_ret
  <2>2. [work[cur[Mq]] EXCEPT !.cb = None] \in WorkType BY <2>1 DEF WorkType
  <2>3. work' \in [Works -> WorkType]
    BY <2>1, <2>2 DEF IndInv, TypeOK, CtlOK, ListsOK, WorkOK, JobOK, queueh_ret
  <2>11. CtlOK' BY <2>1, <2>3 DEF IndInv, TypeOK, CtlOK, WorkerPc, MqPc, MainPc, queueh_ret, Goto, lists
  <2>12. ListsOK' BY <2>1, <2>3 DEF IndInv, TypeOK, ListsOK, queueh_ret, Goto, lists
  <2>13. WorkOK' /\ JobOK' BY <2>1, <2>3 DEF IndInv, TypeOK, WorkOK, JobOK, queueh_ret, Goto, lists
  <2> QED BY <2>11, <2>12, <2>13 DEF TypeOK
<1>3. CurInv' BY DEF IndInv, TypeOK, CtlOK, CurInv, queueh_ret, Goto, lists
<1>4. MtxInv' BY DEF IndInv, TypeOK, CtlOK, MtxInv, queueh_ret, Goto, lists
<1>5. WmtxInv' BY DEF IndInv, TypeOK, CtlOK, WmtxInv, queueh_ret, Goto, lists
<1>6. TodoInv' BY DEF IndInv, TypeOK, CtlOK, TodoInv, queueh_ret, Goto, lists
<1>7. NoStaleReference' BY StaleUnchanged DEF IndInv, TypeOK, CtlOK, queueh_ret, Goto, lists
<1> QED BY <1>1, <1>3, <1>4, <1>5, <1>6, <1>7 DEF IndInv

\* re_async_cancel, when it takes the pool's mutex, preserves the invariant.
LEMMA Ind_cancel_lock ==
    ASSUME IndInv, Alive, NEW id \in Ids, cancel_lock(id)
    PROVE  IndInv'
<1>1. TypeOK'
  <2>1. id \in Nat BY AsyncAssumption DEF Ids
  <2>2. todo' \subseteq Works BY ListItems DEF IndInv, TypeOK, CtlOK, ListsOK, WorkOK, JobOK, cancel_lock
  <2>11. CtlOK' BY <2>1, <2>2 DEF IndInv, TypeOK, CtlOK, WorkerPc, MqPc, MainPc, cancel_lock, Goto, lists
  <2>12. ListsOK' BY <2>1, <2>2 DEF IndInv, TypeOK, ListsOK, cancel_lock, Goto, lists
  <2>13. WorkOK' /\ JobOK' BY <2>1, <2>2 DEF IndInv, TypeOK, WorkOK, JobOK, cancel_lock, Goto, lists
  <2> QED BY <2>11, <2>12, <2>13 DEF TypeOK
<1>3. CurInv' BY DEF IndInv, TypeOK, CtlOK, CurInv, cancel_lock, Goto, lists, Ids
<1>4. MtxInv' BY DEF IndInv, TypeOK, CtlOK, MtxInv, cancel_lock, Goto, lists, Ids
<1>5. WmtxInv' BY DEF IndInv, TypeOK, CtlOK, WmtxInv, cancel_lock, Goto, lists, Ids
<1>6. TodoInv' BY DEF IndInv, TypeOK, CtlOK, TodoInv, cancel_lock, Goto, lists, Ids
<1>7. NoStaleReference' BY StaleUnchanged DEF IndInv, TypeOK, CtlOK, cancel_lock, Goto, lists, Ids
<1> QED BY <1>1, <1>3, <1>4, <1>5, <1>6, <1>7 DEF IndInv

\* re_async_cancel, when it has walked both lists, preserves the invariant.
LEMMA Ind_cancel_unlock ==
    ASSUME IndInv, Alive, cancel_unlock
    PROVE  IndInv'
<1>1. TypeOK'
  <2>1. CtlOK' BY DEF IndInv, TypeOK, CtlOK, WorkerPc, MqPc, MainPc, cancel_unlock, Goto, lists
  <2>2. ListsOK' BY DEF IndInv, TypeOK, ListsOK, cancel_unlock, Goto, lists
  <2>3. WorkOK' /\ JobOK' BY DEF IndInv, TypeOK, WorkOK, JobOK, cancel_unlock, Goto, lists
  <2> QED BY <2>1, <2>2, <2>3 DEF TypeOK
<1>3. CurInv' BY DEF IndInv, TypeOK, CtlOK, CurInv, cancel_unlock, Goto, lists
<1>4. MtxInv' BY DEF IndInv, TypeOK, CtlOK, MtxInv, cancel_unlock, Goto, lists
<1>5. WmtxInv' BY DEF IndInv, TypeOK, CtlOK, WmtxInv, cancel_unlock, Goto, lists
<1>6. TodoInv' BY DEF IndInv, TypeOK, CtlOK, TodoInv, cancel_unlock, Goto, lists
<1>7. NoStaleReference' BY StaleUnchanged DEF IndInv, TypeOK, CtlOK, cancel_unlock, Goto, lists
<1> QED BY <1>1, <1>3, <1>4, <1>5, <1>6, <1>7 DEF IndInv

\* The timer that signals waiting workers preserves the invariant.
LEMMA Ind_worker_check ==
    ASSUME IndInv, Alive, worker_check
    PROVE  IndInv'
<1>1. TypeOK'
  <2>1. CtlOK' BY DEF IndInv, TypeOK, CtlOK, WorkerPc, MqPc, MainPc, worker_check, Waiting, lists
  <2>2. ListsOK' BY DEF IndInv, TypeOK, ListsOK, worker_check, Waiting, lists
  <2>3. WorkOK' /\ JobOK' BY DEF IndInv, TypeOK, WorkOK, JobOK, worker_check, Waiting, lists
  <2> QED BY <2>1, <2>2, <2>3 DEF TypeOK
<1>3. CurInv' BY DEF IndInv, TypeOK, CtlOK, CurInv, worker_check, Waiting, lists
<1>4. MtxInv' BY DEF IndInv, TypeOK, CtlOK, MtxInv, worker_check, Waiting, lists
<1>5. WmtxInv' BY DEF IndInv, TypeOK, CtlOK, WmtxInv, worker_check, Waiting, lists
<1>6. TodoInv' BY DEF IndInv, TypeOK, CtlOK, TodoInv, worker_check, Waiting, lists
<1>7. NoStaleReference' BY StaleUnchanged DEF IndInv, TypeOK, CtlOK, worker_check, Waiting, lists
<1> QED BY <1>1, <1>3, <1>4, <1>5, <1>6, <1>7 DEF IndInv

\* async_destructor, when it stops the workers, preserves the invariant.
LEMMA Ind_close_stop ==
    ASSUME IndInv, Alive, close_stop
    PROVE  IndInv'
<1>1. TypeOK'
  <2>1. CtlOK' BY Zenon DEF IndInv, TypeOK, CtlOK, WorkerPc, MqPc, MainPc, close_stop, Waiting, lists
  <2>2. ListsOK' BY DEF IndInv, TypeOK, ListsOK, close_stop, Waiting, lists
  <2>3. WorkOK' /\ JobOK' BY DEF IndInv, TypeOK, WorkOK, JobOK, close_stop, Waiting, lists
  <2> QED BY <2>1, <2>2, <2>3 DEF TypeOK
<1>3. CurInv' BY DEF IndInv, TypeOK, CtlOK, CurInv, close_stop, Waiting, lists
<1>4. MtxInv' BY DEF IndInv, TypeOK, CtlOK, MtxInv, close_stop, Waiting, lists
<1>5. WmtxInv' BY DEF IndInv, TypeOK, CtlOK, WmtxInv, close_stop, Waiting, lists
<1>6. TodoInv' BY DEF IndInv, TypeOK, CtlOK, TodoInv, close_stop, Waiting, lists
<1>7. NoStaleReference' BY StaleUnchanged DEF IndInv, TypeOK, CtlOK, close_stop, Waiting, lists
<1> QED BY <1>1, <1>3, <1>4, <1>5, <1>6, <1>7 DEF IndInv

\* A step of the main thread that neither takes the mutex nor changes a list
\* preserves the invariant.
LEMMA Ind_main ==
    ASSUME IndInv, Alive, NEW l \in MainPc \ {"cancel"}, NEW v \in Works \cup {None},
           pc[Main] # "cancel",
           pc' = [pc EXCEPT ![Main] = l], cur' = [cur EXCEPT ![Main] = v],
           WorkOK', JobOK', given' \in Jobs \cup Nat,
           UNCHANGED <<run, mtx, freel, workl, curl, wmtx, mqueue, todo>>
    PROVE  IndInv'
<1>1. TypeOK'
  <2>1. CtlOK' BY DEF IndInv, TypeOK, CtlOK, WorkerPc, MqPc, MainPc
  <2>2. ListsOK' BY DEF IndInv, TypeOK, ListsOK
  <2> QED BY <2>1, <2>2 DEF TypeOK
<1>3. CurInv' BY DEF IndInv, TypeOK, CtlOK, CurInv
<1>4. MtxInv' BY DEF IndInv, TypeOK, CtlOK, MtxInv
<1>5. WmtxInv' BY DEF IndInv, TypeOK, CtlOK, WmtxInv
<1>6. TodoInv' BY DEF IndInv, TypeOK, CtlOK, TodoInv
<1>7. NoStaleReference'
  <2>1. \A t \in Users : cur'[t] = cur[t] BY DEF IndInv, TypeOK, CtlOK
  <2> QED BY <2>1, StaleUnchanged DEF IndInv
<1> QED BY <1>1, <1>3, <1>4, <1>5, <1>6, <1>7 DEF IndInv

\* list_head and le->next give an item or NULL.
LEMMA ListPointers ==
    ASSUME TypeOK, NEW w
    PROVE  /\ First(workl) \in Works \cup {None}
           /\ First(curl) \in Works \cup {None}
           /\ Following(w) \in Works \cup {None}
<1>1. freel \in Seq(Works) /\ workl \in Seq(Works) /\ curl \in Seq(Works)
  BY DEF TypeOK, ListsOK
<1>2. ASSUME NEW s \in Seq(Works) PROVE First(s) \in Works \cup {None}
  BY TailItems DEF First
<1>3. ASSUME NEW s \in {freel, workl, curl}, NEW i \in 1..(Len(s) - 1)
      PROVE  s[i + 1] \in Works
  <2>1. s \in Seq(Works) BY <1>1
  <2>2. Len(s) \in Nat BY <2>1, LenProperties
  <2>3. i + 1 \in 1..Len(s) BY <2>2
  <2> QED BY <2>1, <2>3, ElementOfSeq
<1> DEFINE after == UNION {{s[i + 1] : i \in {i \in 1..(Len(s) - 1) : s[i] = w}}
                           : s \in {freel, workl, curl}}
<1>4. after \subseteq Works BY <1>3
<1>5. Following(w) = IF after = {} THEN None ELSE CHOOSE v \in after : TRUE
  BY DEF Following
<1> HIDE DEF after
<1>6. Following(w) \in Works \cup {None} BY <1>4, <1>5
<1> QED BY <1>1, <1>2, <1>6

\* async_destructor, when the workers have been joined, preserves the invariant.
LEMMA Ind_close_joined ==
    ASSUME IndInv, Alive, close_joined
    PROVE  IndInv'
<1>1. WorkOK' /\ JobOK' /\ given' \in Jobs \cup Nat
  BY DEF IndInv, TypeOK, ListsOK, WorkOK, JobOK, close_joined
<1>2. First(workl) \in Works \cup {None} BY ListPointers DEF IndInv
<1> QED BY <1>1, <1>2, Ind_main DEF close_joined, Goto, lists, MainPc

\* async_destructor, which goes over to curl, preserves the invariant.
LEMMA Ind_close_curl ==
    ASSUME IndInv, Alive, close_curl
    PROVE  IndInv'
<1>1. WorkOK' /\ JobOK' /\ given' \in Jobs \cup Nat
  BY DEF IndInv, TypeOK, ListsOK, WorkOK, JobOK, close_curl
<1>2. First(curl) \in Works \cup {None} BY ListPointers DEF IndInv
<1> QED BY <1>1, <1>2, Ind_main DEF close_curl, Goto, lists, MainPc

\* async_destructor, which goes to the next item, preserves the invariant.
LEMMA Ind_close_step ==
    ASSUME IndInv, Alive, NEW l \in {"workl", "curl"}, close_step(l)
    PROVE  IndInv'
<1>1. WorkOK' /\ JobOK' /\ given' \in Jobs \cup Nat
  BY DEF IndInv, TypeOK, ListsOK, WorkOK, JobOK, close_step
<1>2. Following(cur[Main]) \in Works \cup {None} BY ListPointers DEF IndInv
<1> QED BY <1>1, <1>2, Ind_main DEF close_step, Step, Goto, lists, MainPc

\* async_destructor, which calls the callback of an item, preserves the invariant.
LEMMA Ind_close_notify ==
    ASSUME IndInv, Alive, NEW l \in {"workl", "curl"}, close_notify(l)
    PROVE  IndInv'
<1> DEFINE j == work[cur[Main]].cb
<1>1. cur[Main] \in Works /\ j \in Jobs \cup {None} /\ cur' = [cur EXCEPT ![Main] = cur[Main]]
  BY DEF IndInv, TypeOK, CtlOK, WorkOK, WorkType, close_notify
<1>2. PICK m \in {Step(l), Call(l), Ret(l)} : pc' = [pc EXCEPT ![Main] = m]
  BY Zenon DEF close_notify, Goto
<1>3. JobOK' /\ given' \in Jobs \cup Nat
  <2>1. CASE j = None BY <2>1 DEF IndInv, TypeOK, ListsOK, JobOK, close_notify
  <2>2. CASE j # None
    <3>1. job' = Called(j, "ECANCELED") /\ given' = j BY <2>2 DEF close_notify
    <3> QED BY <1>1, <2>2, <3>1, JobUpdates, Zenon DEF IndInv, JobOK
  <2> QED BY <2>1, <2>2
<1>4. WorkOK' BY DEF IndInv, TypeOK, WorkOK, close_notify
<1>5. m \in MainPc \ {"cancel"} BY DEF Step, Call, Ret, MainPc
<1> HIDE DEF j
<1> QED BY <1>1, <1>2, <1>3, <1>4, <1>5, Ind_main DEF close_notify, lists

\* async_destructor, which clears the callback it has called, preserves the invariant.
LEMMA Ind_close_clear ==
    ASSUME IndInv, Alive, NEW l \in {"workl", "curl"}, close_clear(l)
    PROVE  IndInv'
<1>1. WorkOK'
  <2>1. CASE cur[Main] \in Works
    <3>1. work[cur[Main]] \in WorkType BY <2>1 DEF IndInv, TypeOK, WorkOK
    <3>2. [work[cur[Main]] EXCEPT !.cb = None] \in WorkType BY <3>1 DEF WorkType
    <3> QED BY <2>1, <3>2 DEF IndInv, TypeOK, WorkOK, close_clear
  <2>2. CASE cur[Main] \notin Works BY <2>2, Zenon DEF IndInv, TypeOK, WorkOK, close_clear
  <2> QED BY <2>1, <2>2
<1>2. cur[Main] \in Works \cup {None} /\ cur' = [cur EXCEPT ![Main] = cur[Main]]
  BY DEF IndInv, TypeOK, CtlOK, close_clear
<1>3. JobOK' /\ given' \in Jobs \cup Nat BY DEF IndInv, TypeOK, ListsOK, JobOK, close_clear
<1>4. pc[Main] # "cancel" /\ Step(l) \in MainPc \ {"cancel"}
  BY DEF close_clear, Ret, Step, MainPc
<1> QED BY <1>1, <1>2, <1>3, <1>4, Ind_main DEF close_clear, Goto, lists

\* async_destructor, which flushes the lists, preserves the invariant.
LEMMA Ind_close_flush ==
    ASSUME IndInv, Alive, close_flush
    PROVE  IndInv'
<1>1. TypeOK'
  <2>1. CtlOK' BY DEF IndInv, TypeOK, CtlOK, WorkerPc, MqPc, MainPc, close_flush, Goto, lists
  <2>2. ListsOK' BY DEF IndInv, TypeOK, ListsOK, close_flush, Goto, lists
  <2>3. WorkOK' /\ JobOK' BY DEF IndInv, TypeOK, WorkOK, JobOK, close_flush, Goto, lists
  <2> QED BY <2>1, <2>2, <2>3 DEF TypeOK
<1>3. CurInv' BY DEF IndInv, TypeOK, CtlOK, CurInv, close_flush, Goto, lists
<1>4. MtxInv' BY DEF IndInv, TypeOK, CtlOK, MtxInv, close_flush, Goto, lists
<1>5. WmtxInv' BY DEF IndInv, TypeOK, CtlOK, WmtxInv, close_flush, Goto, lists
<1>6. TodoInv' BY DEF IndInv, TypeOK, CtlOK, TodoInv, close_flush, Goto, lists
<1>7. NoStaleReference' BY DEF IndInv, TypeOK, CtlOK, NoStaleReference, Held, Queued, close_flush, Goto, lists
<1> QED BY <1>1, <1>3, <1>4, <1>5, <1>6, <1>7 DEF IndInv

\* A worker without an item moves between the top of its loop and cnd_wait.
LEMMA Ind_idle ==
    ASSUME IndInv, Alive, NEW t \in Workers, NEW l \in {"top", "wait", "woken", "exit"},
           pc[t] \in {"top", "wait", "woken"}, pc' = [pc EXCEPT ![t] = l],
           UNCHANGED <<run, mtx, freel, workl, curl, work, wmtx, mqueue, cur, given, todo, job>>
    PROVE  IndInv'
<1>1. TypeOK'
  <2>1. CtlOK' BY DEF IndInv, TypeOK, CtlOK, WorkerPc, MqPc, MainPc
  <2>2. ListsOK' BY DEF IndInv, TypeOK, ListsOK
  <2>3. WorkOK' /\ JobOK' BY DEF IndInv, TypeOK, WorkOK, JobOK
  <2> QED BY <2>1, <2>2, <2>3 DEF TypeOK
<1>3. CurInv' BY DEF IndInv, TypeOK, CtlOK, CurInv
<1>4. MtxInv' BY DEF IndInv, TypeOK, CtlOK, MtxInv
<1>5. WmtxInv' BY DEF IndInv, TypeOK, CtlOK, WmtxInv
<1>6. TodoInv' BY DEF IndInv, TypeOK, CtlOK, TodoInv
<1>7. NoStaleReference' BY StaleUnchanged DEF IndInv
<1> QED BY <1>1, <1>3, <1>4, <1>5, <1>6, <1>7 DEF IndInv
=============================================================================
