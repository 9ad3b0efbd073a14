# Verification of esp32_baresip

`esp32_baresip` is a SIP phone for the ESP32: the baresip user agent
(`components/baresip`) and the libre library under it (`components/re`), ported
to FreeRTOS, with an application in `main/demo.c` that registers an account and
makes and answers calls.  This directory holds TLA+ modules that model parts of
it, TLC configurations that check them on small instances, and TLAPS proofs for
all sizes.  Paths below are relative to `src/components`.

## 1. The system and its parts

One thread (`re_main`) polls sockets and timers and runs the SIP handlers; other
threads reach the stack through the lock of `re_thread_enter`, and blocking work
is handed to a pool of worker threads whose results come back through a message
queue.  On the ESP32 that queue has a task of its own, so the callbacks of the pool
run beside `re_main`.  With `dns_getaddrinfo` (off by default, `config.c:96`) the
handlers of DNS queries are such callbacks.  Upwards from the network:

| Part | Source | State and operations | What makes it hard | Module |
|------|--------|----------------------|--------------------|--------|
| worker pool, message queue | `re/src/async`, `re/src/mqueue` | three lists of work items, a FreeRTOS queue; submit, cancel, close, worker, callback | threads, a bounded queue, reuse of items | `Async` |
| SIP transactions | `re/src/sip/ctrans.c`, `strans.c` | state and timers of a transaction | loss, copies, reordering, timers, CANCEL races | `SipCtrans`, `SipStrans`, `SipNet`, `SipTrans` |
| SIP requests | `re/src/sip/request.c`, `sip.c` | next-hop look-up, failover, cancellation, reference held by the user | release inside callbacks, two DNS queries at once, closing | `SipRequest` |
| SIP transport | `re/src/sip/transp.c` | connections and their send queues | handlers free queue entries | planned |
| SIP sessions | `re/src/sipsess` | offer/answer, pending requests, termination | references shared by replies, requests and the user | planned |
| registration, events | `re/src/sipreg`, `sipevent` | refresh and back-off timers | release with a request pending | planned |
| timers, main loop | `re/src/tmr`, `re/src/main` | sorted timer list, descriptors | handlers change what is iterated | planned |
| DNS client | `re/src/dns` | queries, retries | timeouts | planned (its promise is used by `SipRequest`) |
| media | `re/src/rtp`, `srtp`, `re/rem/aubuf`, `baresip/src/jbuf.c`, `audio.c` | bounded buffers, sequence numbers | threads, wrap-around | planned |
| user agents, calls | `baresip/src/ua.c`, `call.c`, `reg.c` | calls of an agent | shutdown | planned |
| application | `main/demo.c` | the current call and the requested action | unlocked shared variables | planned |
| parsers, codecs, crypto, sockets, drivers | the rest | | pure functions or pure I/O | not modelled |

`PROJECT.json` lists every part with its status and the hazards at their lines.

## 2. Async: the worker pool

`freel`, `workl` and `curl` are the lists of `struct re_async`; `work` holds the
`async_work` items, a handler being named by the job that passed it; `mqueue` is
the FreeRTOS queue; `pc` and `cur` are the position and the local variable of each
thread (of the main thread, `le` of `async_destructor`).  A critical section of `async->mtx` in which nothing blocks is one step.
The two in which a thread blocks with the mutex held (`mqueue_push` on a full
queue, `re_async_cancel` waiting for a work mutex) span several steps.
`async_destructor` walks the live `workl` and `curl` without a mutex, one step for
each call of a callback, each clearing of `work->cb` and each `le->next`, which is
read in whatever list the item is in by then.  That the test and the call of
`work->cb` see the same value is assumed.

| Run | Result |
|-----|--------|
| `async_pool` | with closing at any moment: `NoStaleReference` (no list, queue or thread refers to an item that was given to another job), `NoLostWakeup`, `CancelQuiesces`, and `CalledOnceAfterWork`: the callback comes once while the pool runs and at most once more from `async_destructor`, and `queueh` gives it no result but that of its own work handler |
| `async_close` | `JobServed`: every accepted job gets its callback or is cancelled, or `async_destructor` returns, which it does although its items move; `ClosedTold`: then the only jobs of clients without a callback are those on their way to `queueh` |
| `async_full` | violated: with more jobs in flight than the queue has slots, a worker blocks in `mqueue_push` with the mutex that the callback's thread needs |
| `async_cancel` | violated: a cancel between the callback and the move to `freel` releases the callback's argument |
| `async_quiet` | violated: callbacks run on the queue's own task, not on the main loop, so messages for the pool remain when `async_destructor` has freed it |

`async.c` is written for a `queueh` that the main loop calls.  With a task of its own,
closing has two more effects, which the passing runs allow and bound.  While `queueh`
is inside a callback, `async_destructor` may call it again with the same argument: hence
the second call in `CalledOnceAfterWork`.  And `queueh` may move the item at which
`async_destructor` stands to `freel`; the loop over `curl` then ends there, and the items
behind it, whose messages are still queued, get no callback: hence the exception in
`ClosedTold`.  The callback of a job without work handler may be
given the result that the item's previous job left in `err`; `async_work_main`
(`rtprecv.c`), the only such callback, ignores it.  Client threads submit nothing
once closing has begun; callbacks may (`Nested`), and `ClosedTold` leaves out what they
submit, since it may come after the walk.

Bounds: two workers, up to three jobs and work items, a queue of one or two slots:
enough for a full queue, for reuse of an item and for two threads at every pair of
steps.  Fairness: each thread that can go on does (FreeRTOS schedules every ready
task, handlers return).  Deadlock is not checked, since a closed pool stops; that a
running one does not is `JobServed`.

Proofs (`AsyncInv`, `AsyncProofs`): `TypeCorrect` and `ReuseIsSafe`
(`NoStaleReference`) for any number of threads, items and jobs.  `IndInv` adds to
the types where each item may be (`freel`, `workl`, `curl`, the queue, or the local
variable of one thread) at each value of `pc`; without it the places are not known
to be disjoint.

## 3. SIP transactions

`SipNet` is the transport as `sip_transp_send` and `sip_recv` use it: UDP loses,
copies and reorders messages but delivers within `Delay`; a connection delivers each
message once until it breaks (its order is not used, so more is allowed than can
happen).  `SipCtrans` and `SipStrans` have one action for each handler and
timer of `ctrans.c` and `strans.c`; `SipTrans` composes both ends and time.
`SipCtransAbs` is what a client transaction promises `request.c`.

| Run | Shows |
|-----|-------|
| `sip_invite` | an INVITE over UDP: `SeenOnce`, `Agreement` of both ends on the outcome, `ClientOutlives` every copy of the answer, `Ends` when cancelled |
| `sip_message` | another request, with the timer values of `re_sip.h` in ticks of 250 ms; `ShiftFits`: `SIP_T1 << txc` does not overflow in TRYING, the state with the most copies |
| `sip_fail` | every send may fail: `OneFinal`, `NoZombie`, and `KeepsPromise` (the client transaction implements `SipCtransAbs`) |
| `sip_tcp` | a connection that may break: `Agreement`, `Ends` |

Bounds: one request with its CANCEL and ACK; the INVITE's timers are scaled down
with the order of their values kept (the real values are out of TLC's reach there, so
the shifts of CALLING and of the server are not checked at full size; their interval
is the shifted value itself, capped by T2 at the server).  `Ends` says that a
transaction ends, not after how long.  `Delay` is below `T1`: the last copy of a
request is sent at 63 T1, so that with a delay of T1 it could reach a server whose
transaction of 64 T1 is over.  Fairness: time passes and timers fire (`tmr_poll`).

Proofs (`SipProofs`), for every choice of timers, delays and failures:
`TypeCorrect`, `OutcomeOnce`, `AlwaysTimed` and `PromiseKept` (the refinement).
The inductive invariant ties the state of a transaction to its timers and to what
its user has been told.

## 4. SIP requests

`req` is `struct sip_request` without its strings: `dnsq` and `dnsq2` name the
query that runs, `srvl` and `addrl` are lengths, `ct` is the transaction as
`SipCtransAbs` describes it.  `usr` is the caller: whether `*reqp` is set and how
often it was told an outcome.  `Dereferenced` is `mem_deref` with the destructor
that revives a pending request.  A call that may fail returns a set of results;
`request_next` is given in closed form (what is left of the lists when an address
has been tried), since nothing can interrupt its loop.

`walk` is `sip_request_close`, which is called twice in a row.  Between two elements
the user runs in the response handler that `close_handler` calls and may cancel,
release and start requests freely.  A stateful request that is released is revived and
stays in the list; a stateless one is freed at once, and the walk may hold its address.
The only stateless request is the ACK of `sipsess/ack.c`.  It is released by its timer,
by its own response handler, or by the destructor of `sipsess_sock`
(`sipsess/listen.c:30`).  The last one cannot run inside `sip_request_close` in this
program, since `uag.c` keeps its reference until `ua_close`, after `sip_close`
(`uag.c:594`, `uag.c:644`).  `SockHeld` is this fact: where it is FALSE a handler may
release an ACK while the stack closes, and `WalkSafe` does not hold.

`ClosedAll` says what two passes achieve: the requests left are those that the last
response handler of the second pass started.  A BYE (`close.c`), the last REGISTER and
the last SUBSCRIBE start no other request, so they are ended.  A NOTIFY of the first
pass whose `sipnot` is then released is followed by the terminating NOTIFY
(`sipevent/notify.c:165`) in the second, and that one may be left.

The handler of a DNS query runs on the thread of the stack after `dnsc_query` has
returned, as with the default DNS client.  With `dns_getaddrinfo` it runs on the task of
the message queue (`dns/client.c:956`), possibly before `dnsc_query` has stored the query
in `req->dnsq`: that configuration is not covered.

| Run | Shows |
|-----|-------|
| `request_lookup` | one request, every DNS answer: `ToldOnce`, `OneAtATime`, `ProvisionalOfThis`, `NoRingAfterCancel` (a cancel during the look-up reaches the transaction that is started after it), `StuckOnlyCanceled`, `CancelEnds`, and `Settles` |
| `request_close` | three requests while the stack closes: `NoDangling`, `WalkSafe`, `ClosedAll`, `SilentAfterRelease` |
| `request_failed` | violated: a stateful request that could not be sent is revived by its own error path and stays in `sip->reql` |

Bounds: two SRV records, two addresses, two transports and both address families
for the look-up; three requests with a short look-up for closing (one that is
walked, the next one, and one started by a handler).  The closing run uses symmetry
of the requests, for safety only.  Fairness: a DNS query is answered or times out,
and a transaction ends unless it rings (`Ends`, `NoZombie`).  Deadlock is not
checked: a closed stack stops.

Proofs (`SipRequestProofs`), for any number of requests, records and transports:
all the safety properties above except `WalkSafe` and `ClosedAll`, which are about
the list.  What each call returns is shown for one request (`GoodResult`); then each
step changes one request in an `Allowed` way.  The invariant `IInv` links a request
to what its user knows: a request is gone or has work under way or is cancelled, a
released user has no handler left, and a handler is set only while nothing was told.

## 5. Only model-checked, and not modelled

Liveness (`JobServed`, `Ends`, `Settles`) and properties of sequences (`WalkSafe`,
`ClosedAll`) are model-checked only, as are `SeenOnce`, `Agreement` and
`ClientOutlives`, which need the age of every message in the invariant.

Left out: merged requests (482), contents and order of DNS records, the text of
messages, memory exhaustion inside handlers beyond the errors of the calls made.

## 6. Plan

1. `Sipsess`: a session with its requests, replies, ACKs and termination, on top of
   `SipRequest` and `SipStrans`; freed once and never while referenced; composed with
   offer/answer.
2. `Sipreg`: refresh, back-off (`failwait`) and release with a request pending.
3. `Tmr` and the main loop: handlers that cancel and restart timers, descriptors closed
   in handlers, `re_thread_enter`.
4. Connections of `transp.c` and their send queues.
5. Audio and jitter buffers, the replay window; calls and `main/demo.c`.
6. Proofs: an inductive invariant with message ages for `SeenOnce`; the implementation
   of the promise that `SipRequest` relies on as a composition with `SipCtransAbs`.
