-------------------------- MODULE SipRequestProofs --------------------------
(***************************************************************************)
(* The safety properties of SipRequest for any number of requests, DNS     *)
(* records and transports. What a call may return is first shown for one   *)
(* request (GoodResult); a step then changes one request by such a result. *)
(***************************************************************************)
EXTENDS SipRequest, TLAPS

\* A request with work under way, or cancelled
Healthy(q) ==
    /\ q \in ReqType /\ q.alive
    /\ q.ct # "none" => q.dnsq = "none" /\ q.dnsq2 = "none"
    /\ q.ct # "none" => (q.provrecv <=> q.ct # "waiting")
    /\ q.canceled => q.ct # "ringing"
    /\ q.ct = "none" /\ q.dnsq = "none" /\ q.dnsq2 = "none" => q.canceled
    /\ q.dnsq \in {"naptr", "srv"} => q.dnsq2 = "none"

\* A request between two steps of its look-up, or of its failover
Bare(q) ==
    /\ q \in ReqType /\ q.alive
    /\ q.ct = "none" /\ q.dnsq = "none" /\ q.dnsq2 = "none"

SameUser(p, q) == p.reqp = q.reqp /\ p.resph = q.resph /\ p.stateful = q.stateful

GoodResult(o, q) ==
    /\ o.err \in BOOLEAN /\ o.q \in ReqType /\ o.q.alive
    /\ SameUser(o.q, q)
    /\ ~o.err => Healthy(o.q)
    /\ o.err => o.q.ct = "none" /\ o.q.dnsq2 = "none"

\* Sending to one address: a fresh transaction with provrecv reset, or nothing.
LEMMA RequestGood ==
    ASSUME NEW q, Bare(q), NEW o \in request(q)
    PROVE  GoodResult(o, q)
  <1>1. CASE o = Ok([q EXCEPT !.provrecv = FALSE, !.ct = "waiting"])
    <2>1. [q EXCEPT !.provrecv = FALSE, !.ct = "waiting"] \in ReqType
      BY Zenon DEF Bare, ReqType
    <2> QED  BY Zenon, <1>1, <2>1 DEF GoodResult, Ok, Healthy, Bare, SameUser, ReqType
  <1>2. CASE o = Err([q EXCEPT !.provrecv = FALSE])
    <2>1. [q EXCEPT !.provrecv = FALSE] \in ReqType
      BY Zenon DEF Bare, ReqType
    <2> QED  BY <1>2, <2>1 DEF GoodResult, Err, Bare, SameUser, ReqType
  <1> QED  BY <1>1, <1>2 DEF request

\* Starting one DNS query
LEMMA QueryGood ==
    ASSUME NEW q, Bare(q), NEW k \in {"naptr", "srv", "addr"}, NEW o \in dnsc_query(q, k)
    PROVE  GoodResult(o, q)
  <1>1. CASE o = Ok([q EXCEPT !.dnsq = k])
    <2>1. [q EXCEPT !.dnsq = k] \in ReqType
      BY DEF Bare, ReqType
    <2> QED  BY <1>1, <2>1 DEF GoodResult, Ok, Healthy, Bare, SameUser, ReqType
  <1>2. CASE o = Err(q)
    BY <1>2 DEF GoodResult, Err, Bare, SameUser
  <1> QED  BY <1>1, <1>2 DEF dnsc_query

\* Starting the address queries: a success has at least one query.
LEMMA LookupGood ==
    ASSUME NEW q, Bare(q), NEW o \in addr_lookup(q)
    PROVE  GoodResult(o, q)
  <1> DEFINE A(af) == [q EXCEPT !.dnsq = IF "A" \in af THEN "addr" ELSE @]
             B(af) == [A(af) EXCEPT !.dnsq2 = IF "AAAA" \in af THEN "addr" ELSE @]
  <1>1. PICK af \in SUBSET Af : o \in {Err(q)} \cup (IF "AAAA" \in af THEN {Err(A(af))} ELSE {})
                                    \cup (IF af = {} THEN {} ELSE {Ok(B(af))})
    BY Zenon DEF addr_lookup
  <1>2. /\ A(af) \in ReqType /\ A(af).alive /\ A(af).ct = "none" /\ SameUser(A(af), q)
        /\ A(af).dnsq = (IF "A" \in af THEN "addr" ELSE "none") /\ A(af).dnsq2 = "none"
    BY DEF Bare, ReqType, SameUser
  <1>3. /\ B(af) \in ReqType /\ B(af).alive /\ B(af).ct = "none" /\ SameUser(B(af), q)
        /\ B(af).dnsq = (IF "A" \in af THEN "addr" ELSE "none")
        /\ B(af).dnsq2 = (IF "AAAA" \in af THEN "addr" ELSE "none")
    <2> HIDE DEF A
    <2> QED  BY <1>2 DEF ReqType, SameUser
  <1> HIDE DEF A, B
  <1>4. CASE o = Err(q)
    BY <1>4 DEF GoodResult, Err, Bare, SameUser
  <1>5. CASE o = Err(A(af))
    BY <1>5, <1>2 DEF GoodResult, Err
  <1>6. CASE af # {} /\ o = Ok(B(af))
    <2>1. "A" \in af \/ "AAAA" \in af
      BY Zenon, <1>6, RequestAssumption
    <2> QED  BY <1>6, <1>3, <2>1 DEF GoodResult, Ok, Healthy
  <1> QED  BY <1>1, <1>4, <1>5, <1>6

\* request_next: a transaction, a look-up, or an error with nothing under way
LEMMA NextGood ==
    ASSUME NEW q, Bare(q), NEW o \in request_next(q)
    PROVE  GoodResult(o, q)
  <1> DEFINE at(l) == [q EXCEPT !.srvl = l[1], !.addrl = l[2]]
             tried(s) == q.addrl > 0 \/ s < q.srvl - 1
             host(s) == [at(<<s, 0>>) EXCEPT !.provrecv = @ /\ ~tried(s)]
  <1>1. \/ \E l \in Left(q) : o \in request(at(l))
        \/ \E s \in 0..(q.srvl - 1) : o \in addr_lookup(host(s))
        \/ o = Err([at(<<0, 0>>) EXCEPT !.provrecv = FALSE])
    BY Zenon DEF request_next
  <1>2. q.srvl \in 0..MaxSrv /\ q.addrl \in 0..MaxAddr /\ q \in ReqType /\ q.alive /\ q.ct = "none"
    BY DEF Bare, ReqType
  <1>3. \A s \in 0..MaxSrv, a \in 0..MaxAddr : Bare(at(<<s, a>>)) /\ SameUser(at(<<s, a>>), q)
    BY Zenon, <1>2 DEF Bare, ReqType, SameUser
  <1>4. ASSUME NEW l \in Left(q)
        PROVE  l = <<l[1], l[2]>> /\ l[1] \in 0..MaxSrv /\ l[2] \in 0..MaxAddr
    BY <1>2, RequestAssumption DEF Left
  <1>5. \A x, p, t : GoodResult(x, p) /\ SameUser(p, t) => GoodResult(x, t)
    BY DEF GoodResult, SameUser
  <1>6. CASE \E l \in Left(q) : o \in request(at(l))
    <2>1. PICK l \in Left(q) : o \in request(at(l))
      BY Zenon, <1>6
    <2> HIDE DEF at
    <2>2. Bare(at(l)) /\ SameUser(at(l), q)
      <3>1. Bare(at(<<l[1], l[2]>>)) /\ SameUser(at(<<l[1], l[2]>>), q)
        BY <1>3, <1>4
      <3> QED  BY <3>1, <1>4
    <2> QED  BY <2>1, <2>2, <1>5, RequestGood
  <1>7. CASE \E s \in 0..(q.srvl - 1) : o \in addr_lookup(host(s))
    <2>1. PICK s \in 0..(q.srvl - 1) : o \in addr_lookup(host(s))
      BY Zenon, <1>7
    <2> HIDE DEF at, tried
    <2>2. Bare(at(<<s, 0>>)) /\ SameUser(at(<<s, 0>>), q)
      BY <1>2, <1>3, RequestAssumption
    <2>3. Bare(host(s)) /\ SameUser(host(s), q)
      BY Zenon, <2>2 DEF Bare, ReqType, SameUser
    <2> HIDE DEF host
    <2> QED  BY <2>1, <2>3, <1>5, LookupGood
  <1>8. CASE o = Err([at(<<0, 0>>) EXCEPT !.provrecv = FALSE])
    <2> HIDE DEF at
    <2>1. Bare(at(<<0, 0>>)) /\ SameUser(at(<<0, 0>>), q)
      BY <1>2, <1>3, RequestAssumption
    <2> DEFINE e == [at(<<0, 0>>) EXCEPT !.provrecv = FALSE]
    <2>2. e \in ReqType /\ e.alive /\ e.ct = "none" /\ e.dnsq2 = "none" /\ SameUser(e, q)
      BY Zenon, <2>1 DEF Bare, ReqType, SameUser
    <2> HIDE DEF e
    <2> QED  BY Zenon, <1>8, <2>2 DEF GoodResult, Err, e
  <1> QED  BY Zenon, <1>1, <1>6, <1>7, <1>8

\* A freed request is a request at rest.
LEMMA NoReqType ==
    /\ NoReq \in ReqType /\ ~NoReq.alive /\ ~NoReq.reqp /\ ~NoReq.resph
    /\ ~NoReq.canceled /\ ~NoReq.provrecv
    /\ NoReq.ct = "none" /\ NoReq.dnsq = "none" /\ NoReq.dnsq2 = "none"
  BY RequestAssumption DEF NoReq, ReqType

\* sip_request_cancel drops a transaction that does not ring yet, and leaves the
\* request cancelled.
LEMMA CanceledGood ==
    ASSUME NEW q, q \in ReqType, q.alive, Healthy(q) \/ (q.ct = "none" /\ q.dnsq2 = "none")
    PROVE  /\ Healthy(Canceled(q))
           /\ SameUser(Canceled(q), q)
           /\ Canceled(q).canceled
           /\ q.canceled => Canceled(q) = q
  <1>1. CASE q.canceled
    BY <1>1 DEF Canceled, SameUser, Healthy
  <1>2. CASE ~q.canceled
    <2> DEFINE c == [q EXCEPT !.canceled = TRUE,
                       !.ct = IF ~q.provrecv THEN "none" ELSE IF @ = "ringing" THEN "canceling" ELSE @]
    <2>1. Canceled(q) = c
      BY <1>2 DEF Canceled
    <2>2. /\ c \in ReqType /\ c.alive /\ c.canceled /\ SameUser(c, q)
          /\ c.dnsq = q.dnsq /\ c.dnsq2 = q.dnsq2 /\ c.provrecv = q.provrecv
          /\ c.ct = IF ~q.provrecv THEN "none" ELSE IF q.ct = "ringing" THEN "canceling" ELSE q.ct
      BY Zenon DEF ReqType, SameUser
    <2> HIDE DEF c
    <2>3. Healthy(c)
      BY <2>2 DEF Healthy
    <2> QED  BY <1>2, <2>1, <2>2, <2>3
  <1> QED  BY <1>1, <1>2

\* mem_deref of a request that has one reference: gone, or revived without a user
LEMMA DereferencedGood ==
    ASSUME NEW q, q \in ReqType, q.alive,
           Healthy(q) \/ (q.ct = "none" /\ q.dnsq2 = "none")
    PROVE  /\ Dereferenced(q) = NoReq \/ Healthy(Dereferenced(q))
           /\ ~Dereferenced(q).reqp /\ ~Dereferenced(q).resph
           /\ q.canceled => Dereferenced(q) = NoReq \/ Dereferenced(q).ct = q.ct
  <1>1. CASE q.reqp /\ q.stateful
    <2> DEFINE d == [q EXCEPT !.reqp = FALSE, !.resph = FALSE]
    <2>1. Dereferenced(q) = Canceled(d)
      BY <1>1 DEF Dereferenced
    <2>2. /\ d \in ReqType /\ d.alive /\ ~d.reqp /\ ~d.resph
          /\ d.ct = q.ct /\ d.canceled = q.canceled /\ d.dnsq2 = q.dnsq2
          /\ Healthy(q) => Healthy(d)
      BY Zenon DEF ReqType, Healthy
    <2> HIDE DEF d
    <2>3. Healthy(Canceled(d))
      BY <2>2, CanceledGood
    <2>4. SameUser(Canceled(d), d) /\ (d.canceled => Canceled(d) = d)
      BY <2>2, CanceledGood
    <2> QED  BY <2>1, <2>2, <2>3, <2>4 DEF SameUser
  <1>2. CASE ~(q.reqp /\ q.stateful)
    BY <1>2, NoReqType DEF Dereferenced
  <1> QED  BY <1>1, <1>2

-----------------------------------------------------------------------------

\* A request and what its user knows of it
Linked(q, u) ==
    /\ u \in UsrType
    /\ q = NoReq \/ Healthy(q)
    /\ u.ptr => q.alive /\ q.reqp
    /\ u.state = "idle" => q = NoReq /\ u.told = 0
    /\ u.state \in {"released", "failed"} => ~q.resph
    /\ u.told <= 1
    /\ q.resph => u.told = 0

\* The inductive invariant
IInv ==
    /\ DOMAIN req = Reqs /\ req = [r \in Reqs |-> req[r]]
    /\ DOMAIN usr = Reqs /\ usr = [r \in Reqs |-> usr[r]]
    /\ \A r \in Reqs : Linked(req[r], usr[r])

\* What a step may do to one request, besides keeping the invariant
Allowed(q, u, q1, u1) ==
    /\ Linked(q1, u1)
    /\ u.state \in {"released", "failed"} => u1.told = u.told
    /\ q.canceled /\ q.ct # "none" => q1.ct # "none" \/ ~q1.alive

\* A step that changes one request in an allowed way is a good step.
LEMMA OneStep ==
    ASSUME IInv, NEW r \in Reqs, NEW q, NEW u, Allowed(req[r], usr[r], q, u),
           req' = [req EXCEPT ![r] = q], usr' = [usr EXCEPT ![r] = u]
    PROVE  IInv' /\ Silent /\ GivenUp
  <1>1. /\ DOMAIN req' = Reqs /\ req' = [s \in Reqs |-> req'[s]]
        /\ DOMAIN usr' = Reqs /\ usr' = [s \in Reqs |-> usr'[s]]
    BY Zenon DEF IInv
  <1>2. \A s \in Reqs : /\ s = r => req'[s] = q /\ usr'[s] = u
                        /\ s # r => req'[s] = req[s] /\ usr'[s] = usr[s]
    BY DEF IInv
  <1>3. \A s \in Reqs : Linked(req'[s], usr'[s])
    BY <1>2 DEF IInv, Allowed
  <1>4. Silent
    BY <1>2 DEF Silent, Allowed
  <1>5. GivenUp
    <2> SUFFICES ASSUME NEW s \in Reqs, req[s].canceled, req[s].ct # "none"
                 PROVE  req'[s].ct # "none" \/ ~req'[s].alive
      BY DEF GivenUp
    <2> QED  BY <1>2 DEF Allowed
  <1> QED  BY <1>1, <1>3, <1>4, <1>5 DEF IInv

\* The same when nothing of a request or of its user changes
LEMMA NoStep ==
    ASSUME IInv, req' = req, usr' = usr
    PROVE  IInv' /\ Silent /\ GivenUp
  BY DEF IInv, Silent, GivenUp, Linked

\* terminate and mem_deref: the user is told, once, and its pointer cleared.
LEMMA FinishGood ==
    ASSUME IInv, NEW r \in Reqs, Finish(r)
    PROVE  IInv' /\ Silent /\ GivenUp
  <1> DEFINE p == usr[r].ptr /\ ~req[r].reqp
             t == IF req[r].resph THEN usr[r].told + 1 ELSE usr[r].told
             st == IF usr[r].state = "pending" THEN "over" ELSE usr[r].state
             u == [usr[r] EXCEPT !.ptr = p, !.told = t, !.state = st]
  <1>1. req' = [req EXCEPT ![r] = NoReq] /\ usr' = [usr EXCEPT ![r] = u]
    BY Zenon DEF Finish, Terminated
  <1>2. Linked(req[r], usr[r])
    BY DEF IInv
  <1>3. usr[r] \in UsrType /\ (usr[r].ptr => req[r].reqp)
    BY <1>2 DEF Linked
  <1>4. /\ p = FALSE /\ t \in Nat
        /\ st \in {"idle", "pending", "failed", "released", "over"}
    BY <1>3 DEF UsrType
  <1>5. u \in UsrType /\ u.told = t /\ u.state = st /\ u.ptr = FALSE
    <2> HIDE DEF p, t, st
    <2> QED  BY Zenon, <1>3, <1>4 DEF UsrType
  <1> HIDE DEF u
  <1>6. usr[r].told \in Nat
    BY <1>3 DEF UsrType
  <1>7. Linked(NoReq, u)
    BY <1>2, <1>5, <1>6, NoReqType DEF Linked
  <1>8. usr[r].state \in {"released", "failed"} => u.told = usr[r].told
    BY <1>2, <1>5 DEF Linked
  <1>9. Allowed(req[r], usr[r], NoReq, u)
    BY <1>7, <1>8, NoReqType DEF Allowed
  <1> QED  BY Zenon, <1>1, <1>9, OneStep

\* A step of a request that leaves its user alone
LEMMA QuietStep ==
    ASSUME IInv, NEW r \in Reqs, NEW q, Healthy(q), req[r].alive,
           q.reqp = req[r].reqp, q.resph = req[r].resph,
           req[r].canceled /\ req[r].ct # "none" => q.ct # "none",
           req' = [req EXCEPT ![r] = q], usr' = usr
    PROVE  IInv' /\ Silent /\ GivenUp
  <1>1. Linked(req[r], usr[r])
    BY DEF IInv
  <1>2. usr[r].state # "idle" /\ q.alive
    BY <1>1, NoReqType DEF Linked, Healthy
  <1>3. Linked(q, usr[r])
    BY <1>1, <1>2 DEF Linked
  <1>4. Allowed(req[r], usr[r], q, usr[r])
    BY <1>3 DEF Allowed
  <1>5. usr' = [usr EXCEPT ![r] = usr[r]]
    BY DEF IInv
  <1> QED  BY Zenon, <1>4, <1>5, OneStep

\* A stateless request that has been sent: its user's pointer is cleared.
LEMMA SentGood ==
    ASSUME IInv, NEW r \in Reqs, usr' = Sent(r), req' = [req EXCEPT ![r] = NoReq]
    PROVE  IInv' /\ Silent /\ GivenUp
  <1> DEFINE p == usr[r].ptr /\ ~req[r].reqp
             st == IF usr[r].state = "pending" THEN "over" ELSE usr[r].state
             u == [usr[r] EXCEPT !.ptr = p, !.state = st]
  <1>1. usr' = [usr EXCEPT ![r] = u]
    BY Zenon DEF Sent
  <1>2. Linked(req[r], usr[r])
    BY DEF IInv
  <1>3. usr[r] \in UsrType /\ (usr[r].ptr => req[r].reqp)
    BY <1>2 DEF Linked
  <1>4. p = FALSE /\ st \in {"idle", "pending", "failed", "released", "over"}
    BY <1>3 DEF UsrType
  <1>5. u \in UsrType /\ u.told = usr[r].told /\ u.state = st /\ u.ptr = FALSE
    <2> HIDE DEF p, st
    <2> QED  BY Zenon, <1>3, <1>4 DEF UsrType
  <1> HIDE DEF u
  <1>6. Linked(NoReq, u)
    BY <1>2, <1>5, NoReqType DEF Linked
  <1>7. Allowed(req[r], usr[r], NoReq, u)
    BY <1>5, <1>6, NoReqType DEF Allowed
  <1> QED  BY Zenon, <1>1, <1>7, OneStep

\* A handler that goes on with a good result takes a good step.
LEMMA ContinueGood ==
    ASSUME IInv, NEW r \in Reqs, req[r].alive, NEW S, NEW q,
           \A o \in S : GoodResult(o, q), SameUser(q, req[r]),
           ~(req[r].canceled /\ req[r].ct # "none"),
           Continue(r, S)
    PROVE  IInv' /\ Silent /\ GivenUp
  <1>1. PICK o \in S :
          \/ o.err /\ Finish(r)
          \/ ~o.err /\ req' = [req EXCEPT ![r] = o.q] /\ usr' = usr
          \/ usr' = Sent(r) /\ req' = [req EXCEPT ![r] = NoReq]
    BY Zenon DEF Continue
  <1>2. CASE o.err /\ Finish(r)
    BY <1>2, FinishGood
  <1>3. CASE ~o.err /\ req' = [req EXCEPT ![r] = o.q] /\ usr' = usr
    <2>1. Healthy(o.q) /\ o.q.reqp = req[r].reqp /\ o.q.resph = req[r].resph
      BY <1>3 DEF GoodResult, SameUser
    <2> QED  BY Zenon, <1>3, <2>1, QuietStep
  <1>4. CASE usr' = Sent(r) /\ req' = [req EXCEPT ![r] = NoReq]
    BY Zenon, <1>4, SentGood
  <1> QED  BY <1>1, <1>2, <1>3, <1>4

\* A request whose handler runs is alive and healthy.
LEMMA Working ==
    ASSUME IInv, NEW r \in Reqs,
           req[r].dnsq # "none" \/ req[r].dnsq2 # "none" \/ req[r].ct # "none"
    PROVE  Healthy(req[r]) /\ req[r].alive /\ req[r] \in ReqType
  BY NoReqType DEF IInv, Linked, Healthy

\* The only query of a request is answered: nothing is under way then.
LEMMA QueryDone ==
    ASSUME NEW p, Healthy(p), p.dnsq \in {"naptr", "srv"}
    PROVE  /\ Bare([p EXCEPT !.dnsq = "none"]) /\ SameUser([p EXCEPT !.dnsq = "none"], p)
           /\ p.ct = "none"
  BY DEF Healthy, Bare, SameUser, ReqType

\* Results of one call are good for any request with the same user.
LEMMA GoodTransfer ==
    ASSUME NEW o, NEW p, NEW q, GoodResult(o, p), SameUser(p, q)
    PROVE  GoodResult(o, q)
  BY DEF GoodResult, SameUser

\* SRV records, found with the answer, are used by request_next.
LEMMA SrvNext ==
    ASSUME NEW q, Bare(q), NEW n \in 1..MaxSrv, NEW o \in request_next([q EXCEPT !.srvl = n])
    PROVE  GoodResult(o, q)
  <1> DEFINE p == [q EXCEPT !.srvl = n]
  <1>1. Bare(p) /\ SameUser(p, q)
    BY RequestAssumption DEF Bare, ReqType, SameUser
  <1> HIDE DEF p
  <1>2. o \in request_next(p)
    BY DEF p
  <1> QED  BY <1>1, <1>2, NextGood, GoodTransfer

\* naptr_handler
LEMMA NaptrStep ==
    ASSUME IInv, NEW r \in Reqs, naptr_handler(r)
    PROVE  IInv' /\ Silent /\ GivenUp
  <1> DEFINE q == [req[r] EXCEPT !.dnsq = "none"]
             found == [q EXCEPT !.tp_selected = TRUE]
             less == [q EXCEPT !.tps = NumTp - 1]
             none == IF NumTp = 0 THEN {Err(q)} ELSE dnsc_query(less, "srv")
             next == UNION {request_next([found EXCEPT !.srvl = n]) : n \in 1..MaxSrv}
             S == none \cup dnsc_query(found, "srv") \cup next
  <1>1. req[r].dnsq = "naptr" /\ Continue(r, S)
    BY Zenon DEF naptr_handler
  <1>2. Healthy(req[r]) /\ req[r].alive
    BY Zenon, <1>1, Working
  <1>3. Bare(q) /\ SameUser(q, req[r]) /\ req[r].ct = "none"
    BY Zenon, <1>1, <1>2, QueryDone
  <1> HIDE DEF q
  <1>4. Bare(found) /\ SameUser(found, q)
    BY Zenon, <1>3 DEF Bare, ReqType, SameUser
  <1>5. NumTp # 0 => Bare(less) /\ SameUser(less, q)
    BY <1>3, RequestAssumption DEF Bare, ReqType, SameUser
  <1> HIDE DEF found, less
  <1>6. \A o \in none : GoodResult(o, q)
    <2>1. GoodResult(Err(q), q)
      BY <1>3 DEF GoodResult, Err, Bare, SameUser
    <2>2. ASSUME NumTp # 0, NEW o \in dnsc_query(less, "srv")  PROVE  GoodResult(o, q)
      BY <2>2, <1>5, QueryGood, GoodTransfer
    <2> QED  BY <2>1, <2>2
  <1>7. \A o \in dnsc_query(found, "srv") : GoodResult(o, q)
    BY <1>4, QueryGood, GoodTransfer
  <1>8. \A o \in next : GoodResult(o, q)
    BY Zenon, <1>4, SrvNext, GoodTransfer
  <1>9. \A o \in S : GoodResult(o, q)
    <2> HIDE DEF none, next
    <2> QED  BY <1>6, <1>7, <1>8
  <1> HIDE DEF S
  <1> QED  BY <1>1, <1>2, <1>3, <1>9, ContinueGood

\* srv_handler
LEMMA SrvStep ==
    ASSUME IInv, NEW r \in Reqs, srv_handler(r)
    PROVE  IInv' /\ Silent /\ GivenUp
  <1> DEFINE q == [req[r] EXCEPT !.dnsq = "none"]
             less == [q EXCEPT !.tps = q.tps - 1]
             none == IF ~q.tp_selected /\ q.tps > 0 THEN dnsc_query(less, "srv") ELSE addr_lookup(q)
             next == UNION {request_next([q EXCEPT !.srvl = n]) : n \in 1..MaxSrv}
             S == none \cup next
  <1>1. req[r].dnsq = "srv" /\ Continue(r, S)
    BY Zenon DEF srv_handler
  <1>2. Healthy(req[r]) /\ req[r].alive
    BY Zenon, <1>1, Working
  <1>3. Bare(q) /\ SameUser(q, req[r]) /\ req[r].ct = "none"
    BY Zenon, <1>1, <1>2, QueryDone
  <1> HIDE DEF q
  <1>4. q.tps > 0 => Bare(less) /\ SameUser(less, q)
    BY <1>3, RequestAssumption DEF Bare, ReqType, SameUser
  <1> HIDE DEF less
  <1>5. \A o \in none : GoodResult(o, q)
    <2>1. ASSUME q.tps > 0, NEW o \in dnsc_query(less, "srv")  PROVE  GoodResult(o, q)
      BY <2>1, <1>4, QueryGood, GoodTransfer
    <2>2. \A o \in addr_lookup(q) : GoodResult(o, q)
      BY <1>3, LookupGood
    <2> QED  BY <2>1, <2>2
  <1>6. \A o \in next : GoodResult(o, q)
    BY Zenon, <1>3, SrvNext
  <1>7. \A o \in S : GoodResult(o, q)
    <2> HIDE DEF none, next
    <2> QED  BY <1>5, <1>6
  <1> HIDE DEF S
  <1> QED  BY <1>1, <1>2, <1>3, <1>7, ContinueGood

\* addr_handler: it waits for the other query, or nothing else is under way.
LEMMA AddrStep ==
    ASSUME IInv, NEW r \in Reqs, addr_handler(r)
    PROVE  IInv' /\ Silent /\ GivenUp
  <1> DEFINE cleared(f) == [req[r] EXCEPT ![f] = "none"]
             q(f, n) == [cleared(f) EXCEPT !.addrl = cleared(f).addrl + n]
  <1>1. PICK f \in {"dnsq", "dnsq2"} :
          /\ req[r][f] = "addr"
          /\ \E n \in 0..(MaxAddr - cleared(f).addrl) :
               \/ /\ q(f, n).dnsq # "none" \/ q(f, n).dnsq2 # "none"
                  /\ req' = [req EXCEPT ![r] = q(f, n)]
                  /\ usr' = usr
               \/ /\ q(f, n).dnsq = "none" /\ q(f, n).dnsq2 = "none"
                  /\ Finish(r) \/ Continue(r, request_next(q(f, n)))
    BY Zenon DEF addr_handler
  <1>2. Healthy(req[r]) /\ req[r].alive /\ req[r] \in ReqType
    <2>1. CASE f = "dnsq"
      BY <1>1, <2>1, Working
    <2>2. CASE f = "dnsq2"
      BY <1>1, <2>2, Working
    <2> QED  BY <2>1, <2>2
  <1> DEFINE c == cleared(f)
  <1>3. /\ c \in ReqType /\ c.alive /\ c.ct = "none" /\ req[r].ct = "none"
        /\ SameUser(c, req[r]) /\ c.dnsq \in {"none", "addr"}
    <2>1. CASE f = "dnsq"
      BY <1>1, <1>2, <2>1 DEF Healthy, ReqType, SameUser
    <2>2. CASE f = "dnsq2"
      BY <1>1, <1>2, <2>2 DEF Healthy, ReqType, SameUser
    <2> QED  BY <2>1, <2>2
  <1> HIDE DEF cleared
  <1>4. PICK n \in 0..(MaxAddr - c.addrl) :
          \/ /\ q(f, n).dnsq # "none" \/ q(f, n).dnsq2 # "none"
             /\ req' = [req EXCEPT ![r] = q(f, n)]
             /\ usr' = usr
          \/ /\ q(f, n).dnsq = "none" /\ q(f, n).dnsq2 = "none"
             /\ Finish(r) \/ Continue(r, request_next(q(f, n)))
    BY <1>1
  <1> DEFINE p == q(f, n)
  <1>5. /\ p \in ReqType /\ p.alive /\ p.ct = "none" /\ SameUser(p, req[r])
        /\ p.dnsq \in {"none", "addr"}
    <2>1. p = [c EXCEPT !.addrl = c.addrl + n] /\ c.addrl + n \in 0..MaxAddr
      BY <1>3, RequestAssumption DEF ReqType
    <2> HIDE DEF p, c
    <2> QED  BY <1>3, <2>1 DEF ReqType, SameUser
  <1> HIDE DEF p, c, q
  <1>6. \/ /\ p.dnsq # "none" \/ p.dnsq2 # "none"
           /\ req' = [req EXCEPT ![r] = p]
           /\ usr' = usr
        \/ /\ p.dnsq = "none" /\ p.dnsq2 = "none"
           /\ Finish(r) \/ Continue(r, request_next(p))
    BY <1>4 DEF p
  <1>7. CASE (p.dnsq # "none" \/ p.dnsq2 # "none") /\ req' = [req EXCEPT ![r] = p] /\ usr' = usr
    <2>1. Healthy(p)
      BY <1>5, <1>7 DEF Healthy
    <2>2. p.reqp = req[r].reqp /\ p.resph = req[r].resph
      BY <1>5 DEF SameUser
    <2> QED  BY Zenon, <1>2, <1>3, <1>7, <2>1, <2>2, QuietStep
  <1>8. CASE Finish(r)
    BY <1>8, FinishGood
  <1>9. CASE p.dnsq = "none" /\ p.dnsq2 = "none" /\ Continue(r, request_next(p))
    <2>1. Bare(p)
      BY <1>5, <1>9 DEF Bare
    <2>2. \A o \in request_next(p) : GoodResult(o, p)
      BY <2>1, NextGood
    <2> QED  BY <1>2, <1>3, <1>5, <1>9, <2>2, ContinueGood
  <1> QED  BY <1>6, <1>7, <1>8, <1>9

\* response_handler with a provisional response
LEMMA ProvisionalStep ==
    ASSUME IInv, NEW r \in Reqs, provisional(r)
    PROVE  IInv' /\ Silent /\ GivenUp
  <1> DEFINE k == IF req[r].provrecv THEN req[r].ct
                  ELSE IF req[r].canceled THEN "canceling" ELSE "ringing"
             q == [req[r] EXCEPT !.provrecv = TRUE, !.ct = k]
  <1>1. req[r].ct # "none" /\ req' = [req EXCEPT ![r] = q] /\ usr' = usr
    BY Zenon DEF provisional
  <1>2. Healthy(req[r]) /\ req[r].alive /\ req[r] \in ReqType
    BY <1>1, Working
  <1>3. k \in {"ringing", "canceling"} /\ (req[r].canceled => k = "canceling")
    BY <1>1, <1>2 DEF Healthy, ReqType
  <1> HIDE DEF k
  <1>4. /\ q \in ReqType /\ q.alive /\ q.ct = k /\ q.provrecv
        /\ q.dnsq = req[r].dnsq /\ q.dnsq2 = req[r].dnsq2
        /\ q.reqp = req[r].reqp /\ q.resph = req[r].resph /\ q.canceled = req[r].canceled
    BY Zenon, <1>2, <1>3 DEF ReqType
  <1> HIDE DEF q
  <1>5. Healthy(q)
    BY <1>1, <1>2, <1>3, <1>4 DEF Healthy
  <1> QED  BY Zenon, <1>1, <1>2, <1>3, <1>4, <1>5, QuietStep

\* response_handler with the outcome of the transaction
LEMMA FinalStep ==
    ASSUME IInv, NEW r \in Reqs, NEW unavailable \in BOOLEAN, final(r, unavailable)
    PROVE  IInv' /\ Silent /\ GivenUp
  <1> DEFINE q == [req[r] EXCEPT !.ct = "none"]
  <1>1. /\ req[r].ct # "none"
        /\ Finish(r) \/ (~q.canceled /\ Continue(r, request_next(q)))
    BY Zenon DEF final
  <1>2. Healthy(req[r]) /\ req[r].alive /\ req[r] \in ReqType
    BY <1>1, Working
  <1>3. Bare(q) /\ SameUser(q, req[r]) /\ q.canceled = req[r].canceled
    BY <1>1, <1>2 DEF Healthy, Bare, ReqType, SameUser
  <1> HIDE DEF q
  <1>4. \A o \in request_next(q) : GoodResult(o, q)
    BY <1>3, NextGood
  <1> QED  BY <1>1, <1>2, <1>3, <1>4, ContinueGood, FinishGood

\* sip_request_cancel
LEMMA CancelStep ==
    ASSUME IInv, NEW r \in Reqs, sip_request_cancel(r)
    PROVE  IInv' /\ Silent /\ GivenUp
  <1>1. usr[r].ptr /\ req' = [req EXCEPT ![r] = Canceled(req[r])] /\ usr' = usr
    BY Zenon DEF sip_request_cancel
  <1>2. Linked(req[r], usr[r])
    BY DEF IInv
  <1>3. Healthy(req[r]) /\ req[r].alive /\ req[r] \in ReqType
    BY <1>1, <1>2, NoReqType DEF Linked, Healthy
  <1>4. /\ Healthy(Canceled(req[r])) /\ SameUser(Canceled(req[r]), req[r])
        /\ req[r].canceled => Canceled(req[r]) = req[r]
    BY <1>3, CanceledGood
  <1> QED  BY Zenon, <1>1, <1>3, <1>4, QuietStep DEF SameUser

\* mem_deref by the user
LEMMA ReleaseStep ==
    ASSUME IInv, NEW r \in Reqs, Release(r)
    PROVE  IInv' /\ Silent /\ GivenUp
  <1> DEFINE d == Dereferenced(req[r])
             u == [usr[r] EXCEPT !.ptr = FALSE, !.state = "released"]
  <1>1. usr[r].ptr /\ req' = [req EXCEPT ![r] = d] /\ usr' = [usr EXCEPT ![r] = u]
    BY Zenon DEF Release
  <1>2. Linked(req[r], usr[r])
    BY DEF IInv
  <1>3. Healthy(req[r]) /\ req[r].alive /\ req[r] \in ReqType
    BY <1>1, <1>2, NoReqType DEF Linked, Healthy
  <1>4. /\ d = NoReq \/ Healthy(d)
        /\ ~d.reqp /\ ~d.resph
        /\ req[r].canceled => d = NoReq \/ d.ct = req[r].ct
    BY <1>3, DereferencedGood
  <1>5. u \in UsrType /\ u.ptr = FALSE /\ u.state = "released" /\ u.told = usr[r].told
    BY Zenon, <1>2 DEF Linked, UsrType
  <1> HIDE DEF d, u
  <1>6. Linked(d, u)
    BY <1>2, <1>4, <1>5 DEF Linked
  <1>7. Allowed(req[r], usr[r], d, u)
    BY <1>4, <1>5, <1>6, NoReqType DEF Allowed
  <1> QED  BY Zenon, <1>1, <1>7, OneStep

\* sip_request_send, for a request that has just been allocated
LEMMA SendStep ==
    ASSUME IInv, NEW r \in Reqs, usr[r].state = "idle",
           NEW q, Bare(q), NEW route \in {"ip", "port", "name"},
           sip_request_send(r, q, route)
    PROVE  IInv' /\ Silent /\ GivenUp
  <1> DEFINE over == route = "ip" /\ ~q.stateful
             k == IF q.tp_selected THEN "srv" ELSE "naptr"
             after(o) == IF over THEN NoReq ELSE IF o.err THEN Dereferenced(o.q) ELSE o.q
             u(o) == [state |-> IF o.err THEN "failed" ELSE IF over THEN "over" ELSE "pending",
                      ptr |-> ~o.err /\ ~over /\ q.reqp, told |-> 0, late |-> walk.pass = 2 /\ walk.next = NULL]
  <1>1. PICK o \in request(q) \cup addr_lookup(q) \cup dnsc_query(q, k) :
          req' = [req EXCEPT ![r] = after(o)] /\ usr' = [usr EXCEPT ![r] = u(o)]
    <2>1. route = "ip" \/ route = "port" \/ route = "name"
      OBVIOUS
    <2>2. (CASE route = "ip" -> request(q)
             [] route = "port" -> addr_lookup(q)
             [] OTHER -> dnsc_query(q, k))
            \subseteq request(q) \cup addr_lookup(q) \cup dnsc_query(q, k)
      BY <2>1
    <2> QED  BY <2>2, Zenon DEF sip_request_send
  <1>2. GoodResult(o, q)
    <2>1. k \in {"naptr", "srv", "addr"}
      OBVIOUS
    <2> HIDE DEF k
    <2> QED  BY <1>1, <2>1, RequestGood, LookupGood, QueryGood
  <1> DEFINE a == after(o)
             w == u(o)
  <1>3. /\ a = NoReq \/ Healthy(a)
        /\ o.err => ~a.resph
        /\ ~o.err /\ ~over => a = o.q /\ Healthy(o.q) /\ o.q.reqp = q.reqp
    <2>1. CASE over
      BY <2>1, NoReqType
    <2>2. CASE ~over /\ o.err
      <3>1. a = Dereferenced(o.q)
        BY <2>2
      <3>2. o.q \in ReqType /\ o.q.alive /\ o.q.ct = "none" /\ o.q.dnsq2 = "none"
        BY <1>2, <2>2 DEF GoodResult
      <3> QED  BY <1>2, <2>2, <3>1, <3>2, DereferencedGood
    <2>3. CASE ~over /\ ~o.err
      BY <1>2, <2>3 DEF GoodResult, SameUser
    <2> QED  BY <2>1, <2>2, <2>3
  <1>4. o.err \in BOOLEAN /\ q.reqp \in BOOLEAN
    BY <1>2 DEF GoodResult, Bare, ReqType
  <1>5. /\ w \in UsrType /\ w.told = 0
        /\ w.state = (IF o.err THEN "failed" ELSE IF over THEN "over" ELSE "pending")
        /\ w.ptr => ~o.err /\ ~over /\ q.reqp
    <2> HIDE DEF over
    <2> QED  BY Zenon, <1>4 DEF UsrType
  <1>6. req' = [req EXCEPT ![r] = a] /\ usr' = [usr EXCEPT ![r] = w]
    BY <1>1
  <1> HIDE DEF a, w, over
  <1>7. Linked(a, w)
    BY <1>3, <1>5 DEF Linked, Healthy
  <1>8. req[r] = NoReq
    BY DEF IInv, Linked
  <1>9. Allowed(req[r], usr[r], a, w)
    BY <1>7, <1>8, NoReqType DEF Allowed
  <1> QED  BY Zenon, <1>6, <1>9, OneStep

\* sip_request
LEMMA RequestStep ==
    ASSUME IInv, NEW r \in Reqs, sip_request(r)
    PROVE  IInv' /\ Silent /\ GivenUp
  <1> DEFINE q(stateful, reqp, tp_selected) ==
               [NoReq EXCEPT !.alive = TRUE, !.stateful = stateful, !.reqp = reqp,
                             !.resph = TRUE, !.tp_selected = tp_selected]
             u == [usr[r] EXCEPT !.state = "failed"]
  <1>1. /\ usr[r].state = "idle"
        /\ \/ \E stateful, reqp, tp_selected \in BOOLEAN, route \in {"ip", "port", "name"} :
                sip_request_send(r, q(stateful, reqp, tp_selected), route)
           \/ usr' = [usr EXCEPT ![r] = u] /\ req' = req
    BY Zenon DEF sip_request
  <1>2. ASSUME NEW stateful \in BOOLEAN, NEW reqp \in BOOLEAN, NEW tp_selected \in BOOLEAN
        PROVE  Bare(q(stateful, reqp, tp_selected))
    BY Zenon, NoReqType DEF Bare, ReqType
  <1> HIDE DEF q
  <1>3. ASSUME NEW stateful \in BOOLEAN, NEW reqp \in BOOLEAN, NEW tp_selected \in BOOLEAN,
               NEW route \in {"ip", "port", "name"},
               sip_request_send(r, q(stateful, reqp, tp_selected), route)
        PROVE  IInv' /\ Silent /\ GivenUp
    BY <1>1, <1>2, <1>3, SendStep
  <1>4. CASE usr' = [usr EXCEPT ![r] = u] /\ req' = req
    <2>1. Linked(req[r], usr[r]) /\ req[r] = NoReq
      BY <1>1 DEF IInv, Linked
    <2>2. u \in UsrType /\ u.ptr = usr[r].ptr /\ u.state = "failed" /\ u.told = usr[r].told
      BY <2>1 DEF Linked, UsrType
    <2>3. req' = [req EXCEPT ![r] = req[r]]
      BY <1>4 DEF IInv
    <2> HIDE DEF u
    <2>4. Linked(req[r], u)
      BY <2>1, <2>2, NoReqType DEF Linked
    <2>5. Allowed(req[r], usr[r], req[r], u)
      BY <2>1, <2>2, <2>4, NoReqType DEF Allowed
    <2> QED  BY Zenon, <1>4, <2>3, <2>5, OneStep
  <1> QED  BY <1>1, <1>3, <1>4

\* close_handler, for whatever element the walk has come to
LEMMA CloseStep ==
    ASSUME IInv, close_handler
    PROVE  IInv' /\ Silent /\ GivenUp
  <1>1. Finish(walk.next)
    BY Zenon DEF close_handler
  <1>2. CASE walk.next \in Reqs
    BY <1>1, <1>2, FinishGood
  <1>3. CASE walk.next \notin Reqs
    <2>1. req' = req /\ usr' = usr
      BY Zenon, <1>1, <1>3 DEF Finish, Terminated, IInv
    <2> QED  BY <2>1, NoStep
  <1> QED  BY <1>2, <1>3

\* Every step keeps the invariant, tells nobody who has let go, and ends a cancelled
\* request with its transaction.
LEMMA EveryStep ==
    ASSUME IInv, [Next]_vars
    PROVE  IInv' /\ Silent /\ GivenUp
  <1>1. ASSUME NEW r \in Reqs,
               \/ sip_request(r) \/ sip_request_cancel(r) \/ Release(r)
               \/ naptr_handler(r) \/ srv_handler(r) \/ addr_handler(r)
               \/ provisional(r)
               \/ \E unavailable \in BOOLEAN : final(r, unavailable)
        PROVE  IInv' /\ Silent /\ GivenUp
    BY <1>1, RequestStep, CancelStep, ReleaseStep, NaptrStep, SrvStep, AddrStep,
       ProvisionalStep, FinalStep
  <1>2. CASE sip_request_close
    BY <1>2, NoStep DEF sip_request_close
  <1>3. CASE close_handler
    BY <1>3, CloseStep
  <1>4. CASE UNCHANGED vars
    BY <1>4, NoStep DEF vars
  <1> QED  BY <1>1, <1>2, <1>3, <1>4 DEF Next

\* sip_alloc leaves no request.
LEMMA Initially == Init => IInv
  <1> SUFFICES ASSUME Init PROVE IInv
    OBVIOUS
  <1> DEFINE u == [state |-> "idle", ptr |-> FALSE, told |-> 0, late |-> FALSE]
  <1>1. Linked(NoReq, u)
    BY NoReqType DEF Linked, UsrType
  <1>2. req = [r \in Reqs |-> NoReq] /\ usr = [r \in Reqs |-> u]
    BY DEF Init
  <1> HIDE DEF u
  <1> QED  BY <1>1, <1>2 DEF IInv

\* The invariant holds throughout.
THEOREM Invariance == Spec => []IInv
  <1>1. IInv /\ [Next]_vars => IInv'
    BY EveryStep
  <1> QED  BY Initially, <1>1, PTL DEF Spec

\* No user of sip_request holds a pointer to a request that has gone.
THEOREM PointersValid == Spec => []NoDangling
  <1>1. IInv => NoDangling
    BY DEF IInv, Linked, NoDangling
  <1> QED  BY Invariance, <1>1, PTL

\* The response handler is called with at most one outcome.
THEOREM OutcomeToldOnce == Spec => []ToldOnce
  <1>1. IInv => ToldOnce
    BY DEF IInv, Linked, ToldOnce
  <1> QED  BY Invariance, <1>1, PTL

\* A request is looked up or sent, never both.
THEOREM NeverBoth == Spec => []OneAtATime
  <1>1. IInv => OneAtATime
    BY NoReqType DEF IInv, Linked, Healthy, OneAtATime, Queries
  <1> QED  BY Invariance, <1>1, PTL

\* provrecv tells of the transaction that runs.
THEOREM ProvisionalFresh == Spec => []ProvisionalOfThis
  <1>1. IInv => ProvisionalOfThis
    BY NoReqType DEF IInv, Linked, Healthy, ProvisionalOfThis
  <1> QED  BY Invariance, <1>1, PTL

\* A cancelled request does not ring on, though its look-up went on and it was sent.
THEOREM CancelReaches == Spec => []NoRingAfterCancel
  <1>1. IInv => NoRingAfterCancel
    BY NoReqType DEF IInv, Linked, Healthy, NoRingAfterCancel
  <1> QED  BY Invariance, <1>1, PTL

\* Only cancelling leaves a request with nothing to wait for.
THEOREM NeverStuck == Spec => []StuckOnlyCanceled
  <1>1. IInv => StuckOnlyCanceled
    BY NoReqType DEF IInv, Linked, Healthy, StuckOnlyCanceled, Queries, ReqType
  <1> QED  BY Invariance, <1>1, PTL

\* A user that has released its request, or was refused it, is never called.
THEOREM ReleasedSilent == Spec => SilentAfterRelease
  <1>1. IInv /\ [Next]_vars => [Silent]_vars
    BY EveryStep
  <1> QED  BY Invariance, <1>1, PTL DEF Spec, SilentAfterRelease

\* The end of the transaction of a cancelled request ends the request.
THEOREM CancelEndsRequest == Spec => CancelEnds
  <1>1. IInv /\ [Next]_vars => [GivenUp]_vars
    BY EveryStep
  <1> QED  BY Invariance, <1>1, PTL DEF Spec, CancelEnds
=============================================================================
