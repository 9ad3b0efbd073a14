------------------------------ MODULE SipStrans ------------------------------
(***************************************************************************)
(* The server transactions of re/src/sip/strans.c for the requests of one  *)
(* branch, with the user of the transaction as sipsess is one: it gets a   *)
(* transaction for a new request (sip_strans_alloc), answers it with       *)
(* sip_strans_reply, and answers 487 when it is cancelled.                 *)
(***************************************************************************)
EXTENDS SipNet

VARIABLES
    st,  \* the sip_strans of each method; gap is SIP_T1 << txc
    tu   \* the user: how often the request was new to it, its last final answer

svars == <<st, tu>>

\* The requests seen are counted up to SeenMax: two are one too many.
SeenMax == 2

NoStrans == [state |-> "none", tmr |-> Stopped, tmrg |-> Stopped, gap |-> 0, mb |-> 0]

SInit ==
    /\ st = [m \in Mets |-> NoStrans]
    /\ tu = [seen |-> 0, answer |-> 0]

\* Found in sip->ht_strans
Known(m) == st[m].state # "none"

\* sip_strans_alloc
Allocated == [NoStrans EXCEPT !.state = "TRYING", !.gap = T1]

\* Mutant: the transaction waits for copies for T4, as a client does
Replied_short(m, s, code) ==
    IF code \in Provisional
    THEN [s EXCEPT !.mb = code, !.state = "PROCEEDING"]
    ELSE IF Reliable THEN NoStrans
    ELSE [s EXCEPT !.mb = code, !.tmr = Start(T4), !.state = "COMPLETED"]

\* The transaction s of method m after sip_strans_reply has sent the response
Replied(m, s, code) ==
    IF code \in Provisional
    THEN [s EXCEPT !.mb = code, !.state = "PROCEEDING"]
    ELSE IF m = "INVITE"
    THEN [s EXCEPT !.mb = code, !.tmr = Start(T64),
                   !.state = IF code \in Success THEN "ACCEPTED" ELSE "COMPLETED",
                   !.tmrg = IF code \in Failure /\ ~Reliable THEN Start(T1) ELSE @]
    ELSE IF Reliable
    THEN NoStrans
    ELSE [s EXCEPT !.mb = code, !.tmr = Start(T64), !.state = "COMPLETED"]

\* The user answers the request: it holds the transaction until then.
sip_strans_reply(code) ==
    /\ st[Met].state \in {"TRYING", "PROCEEDING"}
    /\ \/ /\ st' = [st EXCEPT ![Met] = Replied(Met, @, code)]
          /\ net' = Send(net, {Response(Met, code)})
       \/ /\ MayFail
          /\ st' = [st EXCEPT ![Met] = NoStrans]
          /\ UNCHANGED net
    /\ tu' = [tu EXCEPT !.answer = IF code \in Provisional THEN @ ELSE code]

strans_retransmit_handler ==
    /\ Due(st[Met].tmrg)
    /\ st' = [st EXCEPT ![Met].gap = 2 * @,
                        ![Met].tmrg = Start(AtMost(2 * st[Met].gap, T2))]
    /\ \/ net' = Send(net, {Response(Met, st[Met].mb)})
       \/ MayFail /\ UNCHANGED net
    /\ UNCHANGED tu

strans_tmr_handler(m) ==
    /\ Due(st[m].tmr)
    /\ st' = [st EXCEPT ![m] = NoStrans]
    /\ UNCHANGED <<tu, net>>

\* Mutant: the transaction does not wait for late copies of the request
ack_handler_nowait ==
    LET r == Request("ACK") IN
    /\ Arrives(r)
    /\ st' = IF st[Met].state # "COMPLETED" THEN st ELSE [st EXCEPT ![Met] = NoStrans]
    /\ net' = Rest(r)
    /\ UNCHANGED tu

\* The ACK of a failure; in ACCEPTED an ACK is left to the user.
ack_handler ==
    LET r == Request("ACK") IN
    /\ Arrives(r)
    /\ st' = IF st[Met].state # "COMPLETED" THEN st
             ELSE [st EXCEPT ![Met] =
                     IF Reliable THEN NoStrans
                     ELSE [@ EXCEPT !.state = "CONFIRMED", !.tmr = Start(T4),
                                    !.tmrg = Stopped]]
    /\ net' = Rest(r)
    /\ UNCHANGED tu

\* A request of a known transaction is a retransmission.
Again(m) ==
    LET r == Request(m) IN
    /\ Arrives(r) /\ Known(m)
    /\ IF st[m].state \in {"PROCEEDING", "COMPLETED"}
       THEN \/ net' = Send(Rest(r), {Response(m, st[m].mb)})
            \/ MayFail /\ net' = Rest(r)
       ELSE net' = Rest(r)
    /\ UNCHANGED svars

\* A new request goes to the user.
New ==
    /\ Arrives(Request(Met)) /\ ~Known(Met)
    /\ st' = [st EXCEPT ![Met] = Allocated]
    /\ tu' = [tu EXCEPT !.seen = IF @ < SeenMax THEN @ + 1 ELSE @]
    /\ net' = Rest(Request(Met))

\* Mutant: the user is told of a CANCEL whatever it has answered
cancel_handler_late ==
    LET r == Request("CANCEL")
        code == IF Known(Met) THEN 200 ELSE 481
    IN
    /\ Arrives(r) /\ ~Known("CANCEL")
    /\ st' = [st EXCEPT !["CANCEL"] = Replied("CANCEL", Allocated, code),
                        ![Met] = IF Known(Met) THEN Replied(Met, @, 487) ELSE @]
    /\ net' = Send(Rest(r), {Response("CANCEL", code)}
                        \cup (IF Known(Met) THEN {Response(Met, 487)} ELSE {}))
    /\ tu' = [tu EXCEPT !.answer = IF Known(Met) THEN 487 ELSE @]

\* After sip_strans_reply, when the responses sent got out
Answered(m, s, code, sent) ==
    IF Response(m, code) \in sent THEN Replied(m, s, code) ELSE NoStrans

\* The user has yet to answer the request.
Undecided == st[Met].state \in {"TRYING", "PROCEEDING"}

\* The transactions after the CANCEL is answered with code
Cancelled(code, sent) ==
    [st EXCEPT !["CANCEL"] = Answered("CANCEL", Allocated, code, sent),
               ![Met] = IF Undecided THEN Answered(Met, st[Met], 487, sent) ELSE st[Met]]

\* cancel_handler answers the CANCEL and has the user answer the request with
\* 487. A CANCEL that matches no transaction is answered 481 by sip_recv. Both
\* answers make a transaction for the CANCEL.
cancel_handler ==
    LET r == Request("CANCEL")
        code == IF Known(Met) THEN 200 ELSE 481
        answers == {Response("CANCEL", code)} \cup (IF Undecided THEN {Response(Met, 487)} ELSE {})
    IN
    /\ Arrives(r) /\ ~Known("CANCEL")
    /\ \E sent \in SUBSET answers :
         /\ ~MayFail => sent = answers
         /\ st' = Cancelled(code, sent)
         /\ net' = Send(Rest(r), sent)
    /\ tu' = [tu EXCEPT !.answer = IF Undecided THEN 487 ELSE @]

request_handler == ack_handler \/ New \/ cancel_handler \/ \E m \in Mets : Again(m)

SDue == \E m \in Mets : Due(st[m].tmr) \/ Due(st[m].tmrg)
STick == st' = [m \in Mets |-> [st[m] EXCEPT !.tmr = Tock(@), !.tmrg = Tock(@)]]

Strans ==
    \/ request_handler
    \/ \E code \in Codes \ {481, 487} : sip_strans_reply(code)
    \/ strans_retransmit_handler
    \/ \E m \in Mets : strans_tmr_handler(m)

StransType ==
    [state : {"none", "TRYING", "PROCEEDING", "ACCEPTED", "COMPLETED", "CONFIRMED"},
     tmr : Nat, tmrg : Nat, gap : Nat, mb : {0} \cup Codes]

StransOK == st \in [Mets -> StransType] /\ tu \in [seen : Nat, answer : {0} \cup Codes]
=============================================================================
