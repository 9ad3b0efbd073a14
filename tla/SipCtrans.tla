------------------------------ MODULE SipCtrans ------------------------------
(***************************************************************************)
(* The client transactions of re/src/sip/ctrans.c: that of one request and *)
(* that of the CANCEL which sip_ctrans_cancel sends on the same branch.    *)
(* They share the branch, so a response is told apart by its CSeq method   *)
(* (cmp_handler).                                                          *)
(***************************************************************************)
EXTENDS SipNet

VARIABLES
    ct,  \* the sip_ctrans of each method; gap is SIP_T1 << txc
    up   \* what resph told the layer above: [prov, final, calls]

cvars == <<ct, up>>

NoCtrans == [state |-> "none", tmr |-> Stopped, tmre |-> Stopped, gap |-> 0]
GoneCtrans == [NoCtrans EXCEPT !.state = "gone"]

\* final: none, a status code, or 1 for an error (ETIMEDOUT or of a transport)
ERR == 1
Finals == {0, ERR} \cup Success \cup Failure

CInit ==
    /\ ct = [m \in Mets |-> NoCtrans]
    /\ up = [m \in Mets |-> [prov |-> FALSE, final |-> 0, calls |-> 0]]

\* Found in sip->ht_ctrans
Alive(m) == ct[m].state \notin {"none", "gone"}
IsInvite(m) == m = "INVITE"

\* ct->resph: a provisional response, or the outcome
Prov(m) == [up EXCEPT ![m].prov = TRUE]
Final(m, what) == [up EXCEPT ![m].final = what, ![m].calls = @ + 1]

\* Mutant: only a transaction without a provisional response reports the error
terminate_silent(m) ==
    IF ct[m].state \in {"TRYING", "CALLING"} THEN Final(m, ERR) ELSE up

\* Mutant: a completed transaction reports its timeout as well
terminate_twice(m) == Final(m, ERR)

terminate(m) ==
    IF ct[m].state \in {"TRYING", "CALLING", "PROCEEDING"} THEN Final(m, ERR) ELSE up

\* transport_handler, tmr_handler and a failed retransmission
Die(m) ==
    /\ up' = terminate(m)
    /\ ct' = [ct EXCEPT ![m] = GoneCtrans]

Requested(m) ==
    [state |-> IF IsInvite(m) THEN "CALLING" ELSE "TRYING",
     tmr   |-> Start(T64),
     tmre  |-> IF Reliable THEN Stopped ELSE Start(T1),
     gap   |-> T1]

sip_ctrans_request ==
    /\ ct[Met] = NoCtrans
    /\ \/ /\ ct' = [ct EXCEPT ![Met] = Requested(Met)]
          /\ net' = Send(net, {Request(Met)})
       \/ /\ MayFail
          /\ ct' = [ct EXCEPT ![Met] = GoneCtrans]
          /\ UNCHANGED net
    /\ UNCHANGED up

\* Mutant: no back-off
Interval_fixed(m, gap) == T1

\* The time to the next retransmission
Interval(m, gap) ==
    CASE ct[m].state = "CALLING" -> gap
      [] ct[m].state = "TRYING" -> AtMost(gap, T2)
      [] OTHER -> T2

\* In COMPLETED the timer does not run.
retransmit_handler(m) ==
    /\ Due(ct[m].tmre)
    /\ ct[m].state \in {"TRYING", "CALLING", "PROCEEDING"}
    /\ \/ /\ ct' = [ct EXCEPT ![m].gap = 2 * @,
                              ![m].tmre = Start(Interval(m, 2 * ct[m].gap))]
          /\ net' = Send(net, {Request(m)})
          /\ UNCHANGED up
       \/ MayFail /\ Die(m) /\ UNCHANGED net

tmr_handler(m) == Due(ct[m].tmr) /\ Die(m) /\ UNCHANGED net

\* A connection breaks while the request waits for it, or while it is sent.
transport_handler(m) == MayFail /\ Reliable /\ Alive(m) /\ Die(m) /\ UNCHANGED net

\* The result of the send of an ACK is ignored.
SendAck(m) ==
    \/ net' = Send(Rest(m), {Request("ACK")})
    \/ MayFail /\ net' = Rest(m)

\* Mutant: the transaction does not wait for copies of the failure
invite_response_nowait(r) ==
    LET m == r.met IN
    /\ ct[m].state \in {"CALLING", "PROCEEDING"}
    /\ \/ /\ r.scode \in Provisional
          /\ ct' = [ct EXCEPT ![m].state = "PROCEEDING", ![m].tmre = Stopped,
                              ![m].tmr = IF ct[m].state = "CALLING" THEN Stopped ELSE @]
          /\ up' = Prov(m)
          /\ net' = Rest(r)
       \/ /\ r.scode \notin Provisional
          /\ ct' = [ct EXCEPT ![m] = GoneCtrans]
          /\ up' = Final(m, r.scode)
          /\ IF r.scode \in Failure THEN SendAck(r) ELSE net' = Rest(r)

\* Mutant: once it rings, every response ends the transaction
invite_response_second(r) ==
    LET m == r.met IN
    /\ ct[m].state \in {"CALLING", "PROCEEDING"}
    /\ \/ /\ r.scode \in Provisional /\ ct[m].state = "CALLING"
          /\ ct' = [ct EXCEPT ![m].state = "PROCEEDING", ![m].tmr = Stopped, ![m].tmre = Stopped]
          /\ up' = Prov(m)
          /\ net' = Rest(r)
       \/ /\ r.scode \notin Provisional \/ ct[m].state = "PROCEEDING"
          /\ ct' = [ct EXCEPT ![m] = GoneCtrans]
          /\ up' = Final(m, r.scode)
          /\ net' = Rest(r)

invite_response(r) ==
    LET m == r.met IN
    \/ /\ ct[m].state \in {"CALLING", "PROCEEDING"}
       /\ \/ /\ r.scode \in Provisional
             /\ ct' = [ct EXCEPT ![m] =
                         IF @.state = "CALLING"
                         THEN [@ EXCEPT !.state = "PROCEEDING", !.tmr = Stopped, !.tmre = Stopped]
                         ELSE @]
             /\ up' = Prov(m)
             /\ net' = Rest(r)
          \/ /\ r.scode \in Success
             /\ ct' = [ct EXCEPT ![m] = GoneCtrans]
             /\ up' = Final(m, r.scode)
             /\ net' = Rest(r)
          \/ /\ r.scode \in Failure
             /\ ct' = [ct EXCEPT ![m] =
                         IF Reliable THEN GoneCtrans
                         ELSE [@ EXCEPT !.state = "COMPLETED", !.tmre = Stopped,
                                        !.tmr = Start(COMPLETE_WAIT)]]
             /\ up' = Final(m, r.scode)
             /\ SendAck(r)
    \/ /\ ct[m].state = "COMPLETED"
       /\ IF r.scode \in Failure THEN SendAck(r) ELSE net' = Rest(r)
       /\ UNCHANGED cvars

\* Mutant: the transaction does not wait for copies of the response
other_response_nowait(r) ==
    LET m == r.met IN
    /\ ct[m].state \in {"TRYING", "PROCEEDING"}
    /\ \/ /\ r.scode \in Provisional
          /\ ct' = [ct EXCEPT ![m].state = "PROCEEDING"]
          /\ up' = Prov(m)
       \/ /\ r.scode \notin Provisional
          /\ ct' = [ct EXCEPT ![m] = GoneCtrans]
          /\ up' = Final(m, r.scode)
    /\ net' = Rest(r)

other_response(r) ==
    LET m == r.met IN
    \/ /\ ct[m].state \in {"TRYING", "PROCEEDING"}
       /\ \/ /\ r.scode \in Provisional
             /\ ct' = [ct EXCEPT ![m].state = "PROCEEDING"]
             /\ up' = Prov(m)
          \/ /\ r.scode \in Success \cup Failure
             /\ ct' = [ct EXCEPT ![m] =
                         IF Reliable THEN GoneCtrans
                         ELSE [@ EXCEPT !.state = "COMPLETED", !.tmre = Stopped,
                                        !.tmr = Start(T4)]]
             /\ up' = Final(m, r.scode)
       /\ net' = Rest(r)
    \/ /\ ct[m].state = "COMPLETED"
       /\ net' = Rest(r)
       /\ UNCHANGED cvars

\* A response without a transaction is reported as unhandled (sip_recv).
response_handler(r) ==
    /\ r.scode # 0 /\ Arrives(r)
    /\ \/ ~Alive(r.met) /\ net' = Rest(r) /\ UNCHANGED cvars
       \/ Alive(r.met) /\ IsInvite(r.met) /\ invite_response(r)
       \/ Alive(r.met) /\ ~IsInvite(r.met) /\ other_response(r)

\* Mutant: the INVITE is given no time limit
sip_ctrans_cancel_notmr ==
    /\ Invite /\ ct[Met].state = "PROCEEDING" /\ ct["CANCEL"] = NoCtrans
    /\ ct' = [ct EXCEPT !["CANCEL"] = Requested("CANCEL")]
    /\ net' = Send(net, {Request("CANCEL")})
    /\ UNCHANGED up

\* Only an INVITE in PROCEEDING has a CANCEL sent (EPROTO otherwise); it is a
\* transaction of its own, and the INVITE then has to end within T64.
sip_ctrans_cancel ==
    /\ Invite /\ ct[Met].state = "PROCEEDING" /\ ct["CANCEL"] = NoCtrans
    /\ \/ /\ ct' = [ct EXCEPT ![Met].tmr = Start(T64), !["CANCEL"] = Requested("CANCEL")]
          /\ net' = Send(net, {Request("CANCEL")})
       \/ /\ MayFail
          /\ ct' = [ct EXCEPT ![Met].tmr = Start(T64), !["CANCEL"] = GoneCtrans]
          /\ UNCHANGED net
    /\ UNCHANGED up

\* sip_request_cancel before any provisional response drops the transaction.
request_drop ==
    /\ Alive(Met) /\ ~up[Met].prov /\ up[Met].final = 0
    /\ ct' = [ct EXCEPT ![Met] = GoneCtrans]
    /\ UNCHANGED <<up, net>>

CDue == \E m \in Mets : Due(ct[m].tmr) \/ Due(ct[m].tmre)
CTick == ct' = [m \in Mets |-> [ct[m] EXCEPT !.tmr = Tock(@), !.tmre = Tock(@)]]

Ctrans ==
    \/ sip_ctrans_request
    \/ sip_ctrans_cancel
    \/ request_drop
    \/ \E m \in Mets : retransmit_handler(m) \/ tmr_handler(m) \/ transport_handler(m)
    \/ \E r \in Msg : response_handler(r)

CtransType ==
    [state : {"none", "TRYING", "CALLING", "PROCEEDING", "COMPLETED", "gone"},
     tmr : Nat, tmre : Nat, gap : Nat]
UpType == [prov : BOOLEAN, final : Finals, calls : Nat]

CtransOK == ct \in [Mets -> CtransType] /\ up \in [Mets -> UpType]
=============================================================================
