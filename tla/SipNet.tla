------------------------------- MODULE SipNet -------------------------------
(***************************************************************************)
(* What the SIP transactions of re/src/sip share: the messages of one      *)
(* branch, the transport that carries them, and the timers.                *)
(*                                                                         *)
(* Time advances in ticks. A timer is 0 when it is not running, 1 when it  *)
(* has expired and its handler is due, n + 1 when n ticks are left.        *)
(***************************************************************************)
EXTENDS Integers

CONSTANTS
    Invite,         \* is the request an INVITE (sip_ctrans.invite)?
    Reliable,       \* sip_transp_reliable: TCP, TLS or WebSocket, not UDP
    MayFail,        \* may a send return an error, a connection break?
    T1, T2, T4,     \* SIP_T1, SIP_T2, SIP_T4 in ticks
    T64,            \* 64 * SIP_T1, of both transactions
    COMPLETE_WAIT,  \* of the client transaction
    Delay           \* how many ticks a message may be under way

ASSUME SipAssumption ==
    /\ Invite \in BOOLEAN /\ Reliable \in BOOLEAN /\ MayFail \in BOOLEAN
    /\ T1 \in Nat \ {0} /\ T2 \in Nat \ {0} /\ T4 \in Nat \ {0}
    /\ T64 \in Nat \ {0} /\ COMPLETE_WAIT \in Nat \ {0}
    /\ Delay \in Nat

VARIABLE net  \* net[m]: as a timer, how long copies of m may still arrive

\* The method of the request
Met == IF Invite THEN "INVITE" ELSE "MESSAGE"

\* The methods that make a transaction
Mets == {Met, "CANCEL"}

\* Status codes: one of each class, and those the code itself answers with
Provisional == {180}
Success == {200}
Failure == {481, 486, 487}
Codes == Provisional \cup Success \cup Failure

\* A message of the branch: its CSeq method, and 0 for a request or the status
\* code of a response.
Request(m) == [met |-> m, scode |-> 0]
Response(m, code) == [met |-> m, scode |-> code]
Msg == [met : Mets, scode : {0} \cup Codes] \cup {Request("ACK")}

\* The value of a timer that is started for d ticks
Start(d) == d + 1
Stopped == 0
Due(t) == t = 1

\* One tick later
Tock(t) == IF t > 1 THEN t - 1 ELSE t

AtMost(a, b) == IF a < b THEN a ELSE b

\* sip_transp_send of the messages S. UDP may lose, duplicate and reorder what
\* is under way; a connection delivers each message once.
Send(n, S) == [m \in Msg |-> IF m \in S THEN Start(Delay) ELSE n[m]]

Arrives(m) == net[m] # 0

\* The transport after one copy of m has arrived
Rest(m) == IF Reliable THEN [net EXCEPT ![m] = 0] ELSE net

\* A datagram that has not arrived after Delay is lost; what a connection
\* carries arrives at some time.
NetTick == net' = [m \in Msg |-> IF Reliable THEN Tock(net[m])
                                 ELSE IF net[m] = 0 THEN 0 ELSE net[m] - 1]

NetInit == net = [m \in Msg |-> 0]

NetOK == net \in [Msg -> 0..(Delay + 1)]
=============================================================================
