----------------------------- MODULE SipRequest -----------------------------
(***************************************************************************)
(* The requests of re/src/sip/request.c: the look-up of the next hop, one  *)
(* transaction after the other until an address answers, cancellation, the *)
(* release of a request by its user and the closing of the stack.          *)
(*                                                                         *)
(* Of its transaction a request sees what SipCtransAbs promises; of a DNS  *)
(* query, that it calls its handler once, on the thread of the stack and   *)
(* never before dnsc_query has returned.  The DNS client does so by        *)
(* default; with dns_getaddrinfo the handler runs on another task, which   *)
(* this module does not cover.                                             *)
(***************************************************************************)
EXTENDS Integers, Sequences

CONSTANTS
    Reqs,      \* requests
    MaxSrv,    \* SRV records an answer has at most
    MaxAddr,   \* addresses of one host at most
    NumTp,     \* supported transports that have an SRV name
    SockHeld,  \* is the sipsess_sock kept until the stack is closed (uag.c does)
    Af         \* address families of the transports, of {"A", "AAAA"}

ASSUME RequestAssumption ==
    /\ MaxSrv \in Nat /\ MaxAddr \in Nat \ {0} /\ NumTp \in Nat
    /\ Af \subseteq {"A", "AAAA"} /\ SockHeld \in BOOLEAN

VARIABLES
    req,   \* the struct sip_request of each request
    reql,  \* sip->reql
    usr,   \* its user: whether *reqp points to it, the outcomes it was told;
           \* history: was it started by the last handler of the second pass
    walk   \* sip_request_close: the pass (0: none yet, 3: over), the next
           \* element of reql and whether a response handler is running

vars == <<req, reql, usr, walk>>

NULL == "null"

NoReq ==
    [alive |-> FALSE, stateful |-> FALSE, reqp |-> FALSE, resph |-> FALSE,
     canceled |-> FALSE, provrecv |-> FALSE, tp_selected |-> FALSE, tps |-> 0,
     dnsq |-> "none", dnsq2 |-> "none", srvl |-> 0, addrl |-> 0, ct |-> "none"]

Init ==
    /\ req = [r \in Reqs |-> NoReq]
    /\ reql = <<>>
    /\ usr = [r \in Reqs |-> [state |-> "idle", ptr |-> FALSE, told |-> 0, late |-> FALSE]]
    /\ walk = [pass |-> 0, next |-> NULL, cb |-> FALSE]

\* Events are handled while the stack is open. A user runs at any time then, and
\* in its response handlers while sip_request_close walks the list.
Open == walk.pass = 0
UserRuns == Open \/ walk.cb

-----------------------------------------------------------------------------
(* Operators on one request q: the results of a call that may fail are a   *)
(* set of records, with the error and the request after the call.          *)

Ok(q) == [err |-> FALSE, q |-> q]
Err(q) == [err |-> TRUE, q |-> q]

\* sip_ctrans_cancel has an effect on a transaction that has rung. Without a
\* provisional response the transaction is released instead.
Canceled(q) ==
    IF q.canceled THEN q
    ELSE [q EXCEPT !.canceled = TRUE,
                   !.ct = IF ~q.provrecv THEN "none" ELSE IF @ = "ringing" THEN "canceling" ELSE @]

\* Mutant: a pending request is freed at once
Dereferenced_free(q) == NoReq

\* Mutant: a released request keeps its response handler
Dereferenced_call(q) ==
    IF q.reqp /\ q.stateful THEN Canceled([q EXCEPT !.reqp = FALSE]) ELSE NoReq

\* mem_deref of the only reference: the destructor revives a request with a
\* user and a transaction to come, and cancels it.
Dereferenced(q) ==
    IF q.reqp /\ q.stateful
    THEN Canceled([q EXCEPT !.reqp = FALSE, !.resph = FALSE])
    ELSE NoReq

\* Mutant: provrecv is that of an earlier transaction
request_stale(q) == {Ok([q EXCEPT !.ct = "waiting"]), Err(q)}

\* sip_ctrans_request or sip_send_conn to one address
request(q) == {Ok([q EXCEPT !.provrecv = FALSE, !.ct = "waiting"]), Err([q EXCEPT !.provrecv = FALSE])}

dnsc_query(q, kind) == {Ok([q EXCEPT !.dnsq = kind]), Err(q)}

\* Mutant: no query at all is no error
addr_lookup_unchecked(q) ==
    UNION {LET a == [q EXCEPT !.dnsq = IF "A" \in af THEN "addr" ELSE @]
               b == [a EXCEPT !.dnsq2 = IF "AAAA" \in af THEN "addr" ELSE @]
           IN  {Err(q), Ok(b)} \cup (IF "AAAA" \in af THEN {Err(a)} ELSE {})
           : af \in SUBSET Af}

\* af: what the transport of the request supports. The second query may fail
\* when the first one is under way.
addr_lookup(q) ==
    UNION {LET a == [q EXCEPT !.dnsq = IF "A" \in af THEN "addr" ELSE @]
               b == [a EXCEPT !.dnsq2 = IF "AAAA" \in af THEN "addr" ELSE @]
           IN  {Err(q)} \cup (IF "AAAA" \in af THEN {Err(a)} ELSE {})
                        \cup (IF af = {} THEN {} ELSE {Ok(b)})
           : af \in SUBSET Af}

\* What may be left of srvl and addrl when some address has been tried: the
\* addresses of an SRV record come from cachel once those before are used up.
Left(q) ==
    {<<q.srvl, a>> : a \in 0..(q.addrl - 1)} \cup ((0..(q.srvl - 1)) \X (0..(MaxAddr - 1)))

\* Mutant: the SRV record stays in the list
request_next_keep(q) ==
    LET at(l) == [q EXCEPT !.srvl = l[1], !.addrl = l[2]]
        sent == UNION {{o \in request(at(l)) : ~o.err} : l \in Left(q)}
        looked == IF q.srvl = 0 THEN {} ELSE addr_lookup(at(<<q.srvl, 0>>))
    IN  sent \cup looked \cup {Err([at(<<0, 0>>) EXCEPT !.provrecv = FALSE])}

\* Addresses are tried in turn until one is sent to, or until the host of an SRV
\* record has to be looked up.
request_next(q) ==
    LET at(l) == [q EXCEPT !.srvl = l[1], !.addrl = l[2]]
        sent == UNION {{o \in request(at(l)) : ~o.err} : l \in Left(q)}
        tried(s) == q.addrl > 0 \/ s < q.srvl - 1
        looked == UNION {addr_lookup([at(<<s, 0>>) EXCEPT !.provrecv = @ /\ ~tried(s)])
                         : s \in 0..(q.srvl - 1)}
    IN  sent \cup looked \cup {Err([at(<<0, 0>>) EXCEPT !.provrecv = FALSE])}

-----------------------------------------------------------------------------

list_unlink(r) == SelectSeq(reql, LAMBDA x : x # r)

\* Mutant: the user's pointer is not cleared
Terminated_ptr(r) ==
    [usr EXCEPT ![r].told = IF req[r].resph THEN @ + 1 ELSE @,
                ![r].state = IF @ = "pending" THEN "over" ELSE @]

\* terminate: the user's pointer is cleared and its handler called.
Terminated(r) ==
    LET u == usr[r] IN
    [usr EXCEPT ![r] = [u EXCEPT !.ptr = u.ptr /\ ~req[r].reqp,
                                 !.told = IF req[r].resph THEN u.told + 1 ELSE u.told,
                                 !.state = IF u.state = "pending" THEN "over" ELSE u.state]]

\* The user's pointer is cleared; resph was set to NULL before.
Sent(r) ==
    LET u == usr[r] IN
    [usr EXCEPT ![r] = [u EXCEPT !.ptr = u.ptr /\ ~req[r].reqp,
                                 !.state = IF u.state = "pending" THEN "over" ELSE u.state]]

\* Mutant: the request is not freed
Finish_keep(r) ==
    /\ usr' = Terminated(r)
    /\ req' = [req EXCEPT ![r].reqp = FALSE]
    /\ UNCHANGED reql

\* Whatever fails in a handler ends the request.
Finish(r) ==
    /\ usr' = Terminated(r)
    /\ req' = [req EXCEPT ![r] = NoReq]
    /\ reql' = list_unlink(r)

\* A handler goes on with one of the results in S.
Continue(r, S) ==
    \E o \in S :
        \/ o.err /\ Finish(r)
        \/ /\ ~o.err /\ (o.q.stateful \/ o.q.ct = "none")
           /\ req' = [req EXCEPT ![r] = o.q]
           /\ UNCHANGED <<reql, usr>>
        \/ /\ ~o.err /\ ~o.q.stateful /\ o.q.ct # "none"
           /\ usr' = Sent(r)
           /\ req' = [req EXCEPT ![r] = NoReq]
           /\ reql' = list_unlink(r)

-----------------------------------------------------------------------------
(* Calls of the user                                                       *)

\* sip_request_send: the route decides where the look-up starts. A stateless
\* request to an address is released at once; an error releases any request.
sip_request_send(r, q, route) ==
    LET over == route = "ip" /\ ~q.stateful
        results == CASE route = "ip" -> request(q)
                     [] route = "port" -> addr_lookup(q)
                     [] OTHER -> dnsc_query(q, IF q.tp_selected THEN "srv" ELSE "naptr")
    IN
    \E o \in results :
      LET after == IF over THEN NoReq ELSE IF o.err THEN Dereferenced(o.q) ELSE o.q IN
      /\ req' = [req EXCEPT ![r] = after]
      /\ reql' = IF after.alive THEN Append(reql, r) ELSE reql
      /\ usr' = [usr EXCEPT ![r] =
                   [state |-> IF o.err THEN "failed" ELSE IF over THEN "over" ELSE "pending",
                    ptr |-> ~o.err /\ ~over /\ q.reqp, told |-> 0, late |-> walk.pass = 2 /\ walk.next = NULL]]

\* sip_request and sip_drequestf. A request whose allocation fails has no reqp yet
\* and is freed.
sip_request(r) ==
    /\ usr[r].state = "idle" /\ UserRuns
    /\ \/ \E stateful, reqp, tp_selected \in BOOLEAN, route \in {"ip", "port", "name"} :
            sip_request_send(r, [NoReq EXCEPT !.alive = TRUE, !.stateful = stateful, !.reqp = reqp,
                                              !.resph = TRUE, !.tp_selected = tp_selected], route)
       \/ usr' = [usr EXCEPT ![r] = [@ EXCEPT !.state = "failed"]] /\ UNCHANGED <<req, reql>>
    /\ UNCHANGED walk

sip_request_cancel(r) ==
    /\ UserRuns /\ usr[r].ptr
    /\ req' = [req EXCEPT ![r] = Canceled(@)]
    /\ UNCHANGED <<reql, usr, walk>>

\* mem_deref of the pointer that sip_request gave. While the stack is closing
\* this is a call from a response handler. It reaches a stateless request, an ACK,
\* only when the handler frees the last reference to the sipsess_sock.
Release(r) ==
    /\ UserRuns /\ usr[r].ptr
    /\ Open \/ req[r].stateful \/ ~SockHeld
    /\ req' = [req EXCEPT ![r] = Dereferenced(@)]
    /\ reql' = IF req'[r].alive THEN reql ELSE list_unlink(r)
    /\ usr' = [usr EXCEPT ![r] = [@ EXCEPT !.ptr = FALSE, !.state = "released"]]
    /\ UNCHANGED walk

-----------------------------------------------------------------------------
(* Handlers of DNS queries: the query clears the pointer to itself first.  *)

naptr_handler(r) ==
    LET q == [req[r] EXCEPT !.dnsq = "none"]
        found == [q EXCEPT !.tp_selected = TRUE]
        none == IF NumTp = 0 THEN {Err(q)} ELSE dnsc_query([q EXCEPT !.tps = NumTp - 1], "srv")
        next == UNION {request_next([found EXCEPT !.srvl = n]) : n \in 1..MaxSrv}
    IN
    /\ Open /\ req[r].dnsq = "naptr"
    /\ Continue(r, none \cup dnsc_query(found, "srv") \cup next)
    /\ UNCHANGED walk

\* Mutant: one transport too many
srv_handler_wrap(r) ==
    LET q == [req[r] EXCEPT !.dnsq = "none"]
        none == IF ~q.tp_selected THEN dnsc_query([q EXCEPT !.tps = @ - 1], "srv") ELSE addr_lookup(q)
    IN
    /\ Open /\ req[r].dnsq = "srv"
    /\ Continue(r, none)
    /\ UNCHANGED walk

\* Without SRV records the next transport is tried, then the host itself.
srv_handler(r) ==
    LET q == [req[r] EXCEPT !.dnsq = "none"]
        none == IF ~q.tp_selected /\ q.tps > 0
                THEN dnsc_query([q EXCEPT !.tps = @ - 1], "srv")
                ELSE addr_lookup(q)
        next == UNION {request_next([q EXCEPT !.srvl = n]) : n \in 1..MaxSrv}
    IN
    /\ Open /\ req[r].dnsq = "srv"
    /\ Continue(r, none \cup next)
    /\ UNCHANGED walk

\* Mutant: the first answer is acted upon
addr_handler_first(r) ==
    \E f \in {"dnsq", "dnsq2"} :
      LET cleared == [req[r] EXCEPT ![f] = "none"] IN
      /\ Open /\ req[r][f] = "addr"
      /\ \E n \in 0..(MaxAddr - cleared.addrl) :
           LET q == [cleared EXCEPT !.addrl = @ + n] IN
           IF q.addrl = 0 /\ q.srvl = 0 THEN Finish(r) ELSE Continue(r, request_next(q))
      /\ UNCHANGED walk

\* The handler of the A query or of the AAAA query waits for the other one.
addr_handler(r) ==
    \E f \in {"dnsq", "dnsq2"} :
      LET cleared == [req[r] EXCEPT ![f] = "none"] IN
      /\ Open /\ req[r][f] = "addr"
      /\ \E n \in 0..(MaxAddr - cleared.addrl) :
           LET q == [cleared EXCEPT !.addrl = @ + n] IN
           \/ /\ q.dnsq # "none" \/ q.dnsq2 # "none"
              /\ req' = [req EXCEPT ![r] = q]
              /\ UNCHANGED <<reql, usr>>
           \/ /\ q.dnsq = "none" /\ q.dnsq2 = "none"
              /\ IF q.addrl = 0 /\ q.srvl = 0 THEN Finish(r) ELSE Continue(r, request_next(q))
      /\ UNCHANGED walk

-----------------------------------------------------------------------------
(* response_handler                                                        *)

\* Mutant: the CANCEL that was put off is forgotten
provisional_nocancel(r) ==
    LET q == req[r] IN
    /\ Open /\ q.ct # "none"
    /\ req' = [req EXCEPT ![r] = [q EXCEPT
                 !.provrecv = TRUE, !.ct = IF q.provrecv THEN q.ct ELSE "ringing"]]
    /\ UNCHANGED <<reql, usr, walk>>

provisional(r) ==
    LET q == req[r] IN
    /\ Open /\ q.ct # "none"
    /\ req' = [req EXCEPT ![r] = [q EXCEPT
                 !.provrecv = TRUE,
                 !.ct = IF q.provrecv THEN q.ct ELSE IF q.canceled THEN "canceling" ELSE "ringing"]]
    /\ UNCHANGED <<reql, usr, walk>>

\* Mutant: a cancelled request tries the next address
final_failover(r, unavailable) ==
    LET q == [req[r] EXCEPT !.ct = "none"] IN
    /\ Open /\ req[r].ct # "none"
    /\ IF unavailable /\ (q.addrl > 0 \/ q.srvl > 0)
       THEN Continue(r, request_next(q))
       ELSE Finish(r)
    /\ UNCHANGED walk

\* unavailable: an error (a timeout, a broken connection) or a 503
final(r, unavailable) ==
    LET q == [req[r] EXCEPT !.ct = "none"] IN
    /\ Open /\ req[r].ct # "none"
    /\ IF ~q.canceled /\ unavailable /\ (q.addrl > 0 \/ q.srvl > 0)
       THEN Continue(r, request_next(q))
       ELSE Finish(r)
    /\ UNCHANGED walk

-----------------------------------------------------------------------------
(* sip_close                                                               *)

After(r) ==
    LET i == CHOOSE i \in DOMAIN reql : reql[i] = r
    IN  IF i = Len(reql) THEN NULL ELSE reql[i + 1]

First == IF reql = <<>> THEN NULL ELSE reql[1]

\* Mutant: one pass
sip_request_close_once ==
    /\ walk.next = NULL /\ walk.pass < 3
    /\ walk' = [pass |-> IF Open THEN 1 ELSE 3,
                next |-> IF Open THEN First ELSE NULL, cb |-> FALSE]
    /\ UNCHANGED <<req, reql, usr>>

\* Called twice, for the requests that the handlers of the first pass start.
sip_request_close ==
    /\ walk.next = NULL /\ walk.pass < 3
    /\ walk' = [pass |-> walk.pass + 1,
                next |-> IF walk.pass < 2 THEN First ELSE NULL, cb |-> FALSE]
    /\ UNCHANGED <<req, reql, usr>>

\* list_apply reads the next element before it calls close_handler. Should that
\* one be freed by then, what happens is undefined: the model stops.
close_handler ==
    LET r == walk.next IN
    /\ r # NULL /\ req[r].alive
    /\ walk' = [walk EXCEPT !.next = After(r), !.cb = req[r].resph]
    /\ Finish(r)

Next ==
    \/ \E r \in Reqs :
         \/ sip_request(r) \/ sip_request_cancel(r) \/ Release(r)
         \/ naptr_handler(r) \/ srv_handler(r) \/ addr_handler(r)
         \/ provisional(r)
         \/ \E unavailable \in BOOLEAN : final(r, unavailable)
    \/ sip_request_close \/ close_handler

Spec == Init /\ [][Next]_vars

\* A DNS query is answered or times out. A transaction ends unless it rings.
Fairness ==
    /\ \A r \in Reqs :
         /\ WF_vars(naptr_handler(r)) /\ WF_vars(srv_handler(r)) /\ WF_vars(addr_handler(r))
         /\ WF_vars(req[r].ct # "ringing" /\ \E unavailable \in BOOLEAN : final(r, unavailable))
    /\ WF_vars(~Open /\ sip_request_close) /\ WF_vars(close_handler)

FairSpec == Spec /\ Fairness

-----------------------------------------------------------------------------

Queries(q) == {q.dnsq, q.dnsq2} \ {"none"}

ReqType ==
    [alive : BOOLEAN, stateful : BOOLEAN, reqp : BOOLEAN, resph : BOOLEAN,
     canceled : BOOLEAN, provrecv : BOOLEAN, tp_selected : BOOLEAN, tps : 0..NumTp,
     dnsq : {"none", "naptr", "srv", "addr"}, dnsq2 : {"none", "addr"},
     srvl : 0..MaxSrv, addrl : 0..MaxAddr,
     ct : {"none", "waiting", "ringing", "canceling"}]

UsrType ==
    [state : {"idle", "pending", "failed", "released", "over"},
     ptr : BOOLEAN, told : Nat, late : BOOLEAN]

StructOK ==
    /\ req \in [Reqs -> ReqType] /\ usr \in [Reqs -> UsrType]
    /\ \A r \in Reqs : req[r].alive \/ req[r] = NoReq

\* Types; a freed request leaves nothing behind.
TypeOK ==
    /\ StructOK
    /\ reql \in Seq(Reqs)
    /\ walk \in [pass : 0..3, next : Reqs \cup {NULL}, cb : BOOLEAN]

\* The user is told at most one outcome, by an answer, by an error on the way or by
\* the closing of the stack.
ToldOnce == \A r \in Reqs : usr[r].told <= 1

\* The pointer a user holds is to a live request that knows of it, whatever ended
\* the request: terminate and the destructor clear *reqp in time.
NoDangling == \A r \in Reqs : usr[r].ptr => req[r].alive /\ req[r].reqp

\* The list holds each live request once, and sip_request_close never steps to a
\* request that a response handler has released meanwhile. With a sipsess_sock that
\* the program no longer holds it could: its destructor frees the ACKs.
WalkSafe ==
    /\ \A i, j \in DOMAIN reql : reql[i] = reql[j] => i = j
    /\ \A r \in Reqs : req[r].alive <=> \E i \in DOMAIN reql : reql[i] = r
    /\ walk.next # NULL => req[walk.next].alive

\* A request is looked up or sent, never both: no answer of a query can start a
\* second transaction over one that runs (req->ct has room for one).
OneAtATime == \A r \in Reqs : req[r].ct # "none" => Queries(req[r]) = {}

\* provrecv is about the transaction that runs, not about one that a failover
\* ended: sip_request_cancel drops a transaction only before it rings.
ProvisionalOfThis ==
    \A r \in Reqs : req[r].ct # "none" => (req[r].provrecv <=> req[r].ct # "waiting")

\* A cancelled request does not ring on. A cancel during the look-up stops neither
\* the queries nor the request they lead to: the transaction is cancelled as soon as
\* its first provisional response makes that possible.
NoRingAfterCancel == \A r \in Reqs : req[r].canceled => req[r].ct # "ringing"

\* A request with neither a query nor a transaction will never end by itself. Only
\* cancelling brings one there (sip_request_cancel before a provisional response).
StuckOnlyCanceled ==
    \A r \in Reqs : req[r].alive /\ req[r].ct = "none" /\ Queries(req[r]) = {} => req[r].canceled

\* When sip_request_close has run twice, the only requests left are those that the
\* last response handler of the second pass started (the terminating NOTIFY of
\* notify.c can be one): every other request, those started by handlers included,
\* has been ended.
ClosedAll == walk.pass = 3 => \A r \in Reqs : req[r].alive => usr[r].late

Silent ==
    \A r \in Reqs : usr[r].state \in {"released", "failed"} => usr'[r].told = usr[r].told

\* A user that has released a request, or was refused it, is never called.
SilentAfterRelease == [][Silent]_vars

GivenUp ==
    \A r \in Reqs :
        req[r].canceled /\ req[r].ct # "none" => req'[r].ct # "none" \/ ~req'[r].alive

\* When the transaction of a cancelled request ends, so does the request: no other
\* address is tried.
CancelEnds == [][GivenUp]_vars

\* Every request of a user ends, is cancelled, is released or rings: the
\* look-ups and the failover of request_next come to an end.
Settles ==
    \A r \in Reqs :
        usr[r].state = "pending" ~>
            usr[r].state # "pending" \/ req[r].canceled \/ req[r].ct = "ringing"

\* What the comment in the destructor says: a request that lives on without its
\* user is one that the user released.
RevivedByUser == \A r \in Reqs : usr[r].state = "failed" => ~req[r].alive
=============================================================================
