------------------------------ MODULE SipTrans ------------------------------
(***************************************************************************)
(* The client and the server transactions of one branch talking over one   *)
(* transport, with all their timers.                                       *)
(***************************************************************************)
EXTENDS SipCtrans, SipStrans

vars == <<net, ct, up, st, tu>>

Init == NetInit /\ CInit /\ SInit

\* tmr_poll runs a handler when its timer expires, before time goes on.
Tick ==
    /\ ~CDue /\ ~SDue
    /\ NetTick /\ CTick /\ STick
    /\ UNCHANGED <<up, tu>>

Next ==
    \/ Ctrans /\ UNCHANGED svars
    \/ Strans /\ UNCHANGED cvars
    \/ Tick

Spec == Init /\ [][Next]_vars

\* Time passes, and the main loop runs every timer that has expired. Nothing is
\* assumed of the network or of the two users.
Fairness ==
    /\ WF_vars(Tick)
    /\ \A m \in Mets :
         /\ WF_vars((tmr_handler(m) \/ retransmit_handler(m)) /\ UNCHANGED svars)
         /\ WF_vars((strans_tmr_handler(m) \/ strans_retransmit_handler) /\ UNCHANGED cvars)

FairSpec == Spec /\ Fairness

-----------------------------------------------------------------------------

TypeOK == NetOK /\ CtransOK /\ StransOK

\* The layer above a client transaction is told one outcome at most: a late
\* response, a timeout or a broken connection after it goes no further.
OneFinal ==
    \A m \in Mets : /\ up[m].calls <= 1
                    /\ up[m].final # 0 => ct[m].state \in {"COMPLETED", "gone"}

\* No transaction is left without a timer that ends it, but for an INVITE that
\* rings (until it is cancelled) and a request its user has not answered.
NoZombie ==
    \A m \in Mets :
        /\ Alive(m) /\ ct[m].tmr = Stopped =>
              IsInvite(m) /\ ct[m].state = "PROCEEDING" /\ ct["CANCEL"] = NoCtrans
        /\ Known(m) /\ st[m].tmr = Stopped =>
              m = Met /\ st[m].state \in {"TRYING", "PROCEEDING"}

\* The server's user sees the request once, however often the client sends it
\* and the network repeats it: the transaction outlives every copy.
SeenOnce == tu.seen <= 1

\* The outcome the client's user is told is the one the server's user gave, also
\* when a CANCEL crosses the answer.
Agreement == up[Met].final \in Success \cup Failure => up[Met].final = tu.answer

\* A client transaction that ended with a final response outlives every copy of
\* it, so that each is absorbed and, for an INVITE, acknowledged again. The 2xx
\* of an INVITE is the exception: its copies are the session's.
ClientOutlives ==
    \A m \in Mets, code \in Success \cup Failure :
        /\ up[m].final \in Failure \/ (up[m].final \in Success /\ ~IsInvite(m))
        /\ Arrives(Response(m, code))
        => Alive(m)

\* The shift SIP_T1 << txc of the retransmission timers stays within 31 bits when
\* T1 ticks are 500 ms: the timer that ends the transaction comes first.
ShiftFits ==
    LET limit == 2147483647 \div (500 \div T1)
    IN  \A m \in Mets : ct[m].gap <= limit /\ st[m].gap <= limit

\* A request, and a cancelled INVITE even if it rings, has its transaction ended by
\* an answer or by its timer: none waits for ever.
Ends ==
    (ct[Met] # NoCtrans /\ (Invite => ct["CANCEL"] # NoCtrans)) ~> ct[Met].state = "gone"

\* What request.c sees of its transaction
Phase(c, u) ==
    CASE c.state = "none" -> "idle"
      [] c.state # "none" /\ u.final # 0 -> "done"
      [] c.state = "gone" /\ u.final = 0 -> "dropped"
      [] c.state \notin {"none", "gone"} /\ u.final = 0 -> IF u.prov THEN "ringing" ELSE "waiting"

phase == Phase(ct[Met], up[Met])

Promise == INSTANCE SipCtransAbs WITH Outcomes <- Finals \ {0}, outcome <- up[Met].final

\* The client transaction keeps its promise to the layer above, whatever the
\* peer, the network and the timers do.
KeepsPromise == Promise!ASpec
=============================================================================
