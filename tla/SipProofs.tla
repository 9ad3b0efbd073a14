----------------------------- MODULE SipProofs ------------------------------
(***************************************************************************)
(* Proofs about SipTrans, for every choice of the timers and of the delay  *)
(* of the network.                                                         *)
(***************************************************************************)
EXTENDS SipTrans, TLAPS

(***************************************************************************)
(* The inductive invariant                                                 *)
(***************************************************************************)

Pending == {"TRYING", "CALLING", "PROCEEDING"}

\* A client transaction c of method m whose user has been told u: where it is
\* tells whether an outcome was reported, and which timer will end it.
CtInv(m, c, u) ==
    /\ u.calls \in {0, 1} /\ (u.calls = 0 <=> u.final = 0)
    /\ c.state = "none" => c = NoCtrans /\ u.final = 0 /\ ~u.prov
    /\ c.state = "gone" => c.tmr = Stopped /\ (u.prov => u.final # 0)
    /\ c.state \in Pending => u.final = 0
    /\ c.state = "COMPLETED" => u.final # 0
    /\ c.state = "CALLING" => IsInvite(m)
    /\ c.state \in Pending \cup {"COMPLETED"} /\ c.tmr = Stopped =>
          IsInvite(m) /\ c.state = "PROCEEDING"

\* A CANCEL follows an INVITE that has rung, and restarts its timer.
CancelInv ==
    ct["CANCEL"] # NoCtrans =>
        /\ ct[Met].state \notin {"none", "CALLING"}
        /\ ct[Met].state = "PROCEEDING" => ct[Met].tmr # Stopped

\* The server transactions that have no timer are held by their user.
StInv(m, s) ==
    s.state # "none" /\ s.tmr = Stopped => m = Met /\ s.state \in {"TRYING", "PROCEEDING"}

CtInvs == \A m \in Mets : CtInv(m, ct[m], up[m])
StInvs == \A m \in Mets : StInv(m, st[m])

IndInv == CtransOK /\ StransOK /\ CtInvs /\ CancelInv /\ StInvs

\* The two methods are different.
LEMMA Methods ==
    /\ Met \in Mets /\ "CANCEL" \in Mets /\ Met # "CANCEL" /\ "CANCEL" # "INVITE"
    /\ \A m \in Mets : m = Met \/ m = "CANCEL"
    /\ Invite => Met = "INVITE"
    /\ \A m \in Mets : IsInvite(m) => Invite /\ m = Met
BY SipAssumption DEF Met, Mets, IsInvite

\* No transaction satisfies the invariant.
LEMMA InitInd == Init => IndInv
<1> SUFFICES ASSUME Init PROVE IndInv OBVIOUS
<1>1. CtransOK
  BY DEF Init, CInit, CtransOK, CtransType, UpType, NoCtrans, Stopped, Finals
<1>2. StransOK BY DEF Init, SInit, StransOK, StransType, NoStrans, Stopped
<1>3. CtInvs BY DEF Init, CInit, CtInvs, CtInv, NoCtrans, Pending
<1>4. CancelInv BY Methods DEF Init, CInit, CancelInv
<1>5. StInvs BY DEF Init, SInit, StInvs, StInv, NoStrans
<1> QED BY <1>1, <1>2, <1>3, <1>4, <1>5 DEF IndInv

\* A step of the client that changes one transaction.
LEMMA ClientStep ==
    ASSUME IndInv, NEW m \in Mets, NEW c \in CtransType, NEW u \in UpType,
           ct' = [ct EXCEPT ![m] = c], up' = [up EXCEPT ![m] = u],
           CtInv(m, c, u), UNCHANGED svars,
           m = Met /\ ct["CANCEL"] # NoCtrans =>
              /\ c.state \notin {"none", "CALLING"}
              /\ c.state = "PROCEEDING" => c.tmr # Stopped,
           m = "CANCEL" => ct[m] # NoCtrans
    PROVE  IndInv'
<1>1. CtransOK' BY DEF IndInv, CtransOK
<1>2. StransOK' BY DEF IndInv, StransOK, svars
<1>3. CtInvs'
  <2>1. ASSUME NEW n \in Mets PROVE CtInv(n, ct'[n], up'[n])
    <3>1. CASE n = m BY <3>1 DEF IndInv, CtransOK
    <3>2. CASE n # m BY <3>2 DEF IndInv, CtransOK, CtInvs
    <3> QED BY <3>1, <3>2
  <2> QED BY <2>1 DEF CtInvs, CtInv
<1>4. CancelInv' BY Methods DEF IndInv, CtransOK, CancelInv
<1>5. StInvs' BY DEF IndInv, StInvs, svars
<1> QED BY <1>1, <1>2, <1>3, <1>4, <1>5 DEF IndInv

\* The outcome of a pending transaction is its first.
LEMMA FirstOutcome ==
    ASSUME IndInv, NEW m \in Mets, ct[m].state \in Pending, NEW f \in Finals \ {0}
    PROVE  \E u \in UpType :
              /\ Final(m, f) = [up EXCEPT ![m] = u]
              /\ u.calls = 1 /\ u.final = f /\ u.prov = up[m].prov
<1> DEFINE u == [up[m] EXCEPT !.final = f, !.calls = @ + 1]
<1>1. up[m] \in UpType /\ up[m].calls = 0
  BY DEF IndInv, CtransOK, CtInvs, CtInv, Pending, UpType
<1>2. up[m].calls + 1 = 1 /\ 1 \in Nat BY <1>1
<1>3. u \in UpType /\ u.calls = 1 /\ u.final = f /\ u.prov = up[m].prov
  BY Zenon, <1>1, <1>2 DEF UpType
<1>4. Final(m, f) = [up EXCEPT ![m] = u] BY Zenon DEF Final, IndInv, CtransOK
<1> QED BY Zenon, <1>3, <1>4

\* A provisional response changes only what the user knows of it.
LEMMA ProvTold ==
    ASSUME IndInv, NEW m \in Mets
    PROVE  \E u \in UpType :
              /\ Prov(m) = [up EXCEPT ![m] = u]
              /\ u.calls = up[m].calls /\ u.final = up[m].final /\ u.prov
<1> DEFINE u == [up[m] EXCEPT !.prov = TRUE]
<1>1. up[m] \in UpType BY DEF IndInv, CtransOK
<1>2. u \in UpType /\ u.calls = up[m].calls /\ u.final = up[m].final /\ u.prov
  BY Zenon, <1>1 DEF UpType
<1>3. Prov(m) = [up EXCEPT ![m] = u] BY DEF Prov, IndInv, CtransOK
<1> QED BY Zenon, <1>2, <1>3

\* tmr_handler, transport_handler and a failed retransmission: a pending
\* transaction reports the error, a completed one has reported its outcome.
LEMMA Ind_Die ==
    ASSUME IndInv, NEW m \in Mets, Alive(m), Die(m), UNCHANGED svars
    PROVE  IndInv'
<1>0. ct[m] \in CtransType /\ up[m] \in UpType /\ CtInv(m, ct[m], up[m])
  BY DEF IndInv, CtransOK, CtInvs
<1>1. /\ GoneCtrans \in CtransType /\ GoneCtrans.state = "gone" /\ GoneCtrans.tmr = Stopped
      /\ ERR \in Finals \ {0}
  BY DEF GoneCtrans, NoCtrans, CtransType, Stopped, ERR, Finals
<1>2. ct' = [ct EXCEPT ![m] = GoneCtrans] BY DEF Die
<1>3. m = "CANCEL" => ct[m] # NoCtrans BY DEF Alive, NoCtrans
<1>4. CASE ct[m].state \in Pending
  <2>1. PICK u \in UpType : /\ Final(m, ERR) = [up EXCEPT ![m] = u]
                           /\ u.calls = 1 /\ u.final = ERR /\ u.prov = up[m].prov
    BY <1>4, <1>1, FirstOutcome
  <2>2. up' = [up EXCEPT ![m] = u] BY <1>4, <2>1 DEF Die, terminate, Pending
  <2>3. CtInv(m, GoneCtrans, u) BY <1>1, <2>1 DEF CtInv, Pending
  <2> QED BY Zenon, <1>1, <1>2, <1>3, <2>1, <2>2, <2>3, ClientStep
<1>5. CASE ct[m].state = "COMPLETED"
  <2>1. up' = [up EXCEPT ![m] = up[m]] BY <1>5 DEF Die, terminate, IndInv, CtransOK
  <2>2. CtInv(m, GoneCtrans, up[m]) BY <1>0, <1>1, <1>5 DEF CtInv, Pending
  <2> QED BY Zenon, <1>0, <1>1, <1>2, <1>3, <2>1, <2>2, ClientStep
<1> QED BY <1>0, <1>4, <1>5 DEF Alive, CtransType, Pending

\* Requested(m) is a transaction that waits for its first response, with a timer.
LEMMA RequestedType ==
    ASSUME NEW m \in Mets
    PROVE  /\ Requested(m) \in CtransType
           /\ Requested(m).state = IF IsInvite(m) THEN "CALLING" ELSE "TRYING"
           /\ Requested(m).tmr # Stopped
           /\ GoneCtrans \in CtransType /\ GoneCtrans.state = "gone" /\ GoneCtrans.tmr = Stopped
BY SipAssumption DEF Requested, CtransType, Start, Stopped, GoneCtrans, NoCtrans

\* sip_ctrans_request preserves the invariant, whether its send succeeds or not.
LEMMA Ind_request ==
    ASSUME IndInv, sip_ctrans_request, UNCHANGED svars
    PROVE  IndInv'
<1>0. /\ Met \in Mets /\ up[Met] \in UpType /\ CtInv(Met, NoCtrans, up[Met])
      /\ NoCtrans.state = "none"
  BY Methods DEF IndInv, CtransOK, CtInvs, sip_ctrans_request, NoCtrans
<1>1. up' = [up EXCEPT ![Met] = up[Met]] BY DEF sip_ctrans_request, IndInv, CtransOK
<1>2. ct["CANCEL"] = NoCtrans BY DEF IndInv, CancelInv, sip_ctrans_request, NoCtrans
<1>3. CtInv(Met, Requested(Met), up[Met])
  BY <1>0, RequestedType DEF CtInv, Pending
<1>4. CtInv(Met, GoneCtrans, up[Met])
  BY <1>0, RequestedType DEF CtInv, Pending
<1>5. \/ ct' = [ct EXCEPT ![Met] = Requested(Met)]
      \/ ct' = [ct EXCEPT ![Met] = GoneCtrans]
  BY DEF sip_ctrans_request
<1> QED BY Zenon, <1>0, <1>1, <1>2, <1>3, <1>4, <1>5, Methods, RequestedType, ClientStep

\* sip_request_cancel, which drops a transaction before any response, preserves the invariant.
LEMMA Ind_drop ==
    ASSUME IndInv, request_drop, UNCHANGED svars
    PROVE  IndInv'
<1>0. Met \in Mets /\ up[Met] \in UpType /\ CtInv(Met, ct[Met], up[Met])
  BY Methods DEF IndInv, CtransOK, CtInvs
<1>1. up' = [up EXCEPT ![Met] = up[Met]] BY DEF request_drop, IndInv, CtransOK
<1>2. ct' = [ct EXCEPT ![Met] = GoneCtrans] BY DEF request_drop
<1>3. CtInv(Met, GoneCtrans, up[Met])
  BY <1>0, RequestedType DEF CtInv, Pending, request_drop
<1> QED BY Zenon, <1>0, <1>1, <1>2, <1>3, Methods, RequestedType, ClientStep

\* retransmit_handler preserves the invariant, whether its send succeeds or not.
LEMMA Ind_retransmit ==
    ASSUME IndInv, NEW m \in Mets, retransmit_handler(m), UNCHANGED svars
    PROVE  IndInv'
<1>0. ct[m] \in CtransType /\ up[m] \in UpType /\ CtInv(m, ct[m], up[m])
  BY DEF IndInv, CtransOK, CtInvs
<1>1. CASE Die(m)
  BY <1>1, Ind_Die DEF retransmit_handler, Alive
<1>2. CASE ~Die(m)
  <2> DEFINE i == Start(Interval(m, 2 * ct[m].gap))
             c == [ct[m] EXCEPT !.gap = 2 * ct[m].gap, !.tmre = i]
  <2>1. ct' = [ct EXCEPT ![m] = c] /\ UNCHANGED up
    BY Zenon, <1>2 DEF retransmit_handler, IndInv, CtransOK
  <2>2. 2 * ct[m].gap \in Nat BY <1>0 DEF CtransType
  <2>3. i \in Nat
    BY <2>2, SipAssumption DEF Interval, Start, AtMost
  <2> HIDE DEF i
  <2>4. c \in CtransType /\ c.state = ct[m].state /\ c.tmr = ct[m].tmr
    BY Zenon, <1>0, <2>2, <2>3 DEF CtransType
  <2>5. ct[m].state \in Pending BY DEF retransmit_handler, Pending
  <2>6. CtInv(m, c, up[m]) BY <1>0, <2>4, <2>5 DEF CtInv, Pending
  <2>7. up' = [up EXCEPT ![m] = up[m]] BY <2>1 DEF IndInv, CtransOK
  <2>8. m = "CANCEL" => ct[m] # NoCtrans BY <2>5 DEF NoCtrans, Pending
  <2>9. m = Met /\ ct["CANCEL"] # NoCtrans =>
              /\ c.state \notin {"none", "CALLING"}
              /\ c.state = "PROCEEDING" => c.tmr # Stopped
    BY <2>4 DEF IndInv, CancelInv
  <2> HIDE DEF c
  <2> QED BY Zenon, <1>0, <2>1, <2>4, <2>6, <2>7, <2>8, <2>9, ClientStep
<1> QED BY <1>1, <1>2

\* A step that changes no transaction preserves the invariant.
LEMMA Ind_unchanged ==
    ASSUME IndInv, UNCHANGED cvars, UNCHANGED svars
    PROVE  IndInv'
BY DEF IndInv, CtransOK, StransOK, CtInvs, CtInv, CancelInv, StInvs, StInv, cvars, svars, IsInvite

\* A provisional response moves a pending transaction to PROCEEDING.
LEMMA Ind_provisional ==
    ASSUME IndInv, NEW m \in Mets, ct[m].state \in Pending, NEW c \in CtransType,
           ct' = [ct EXCEPT ![m] = c], up' = Prov(m), UNCHANGED svars,
           c.state = "PROCEEDING",
           c.tmr = IF ct[m].state = "CALLING" THEN Stopped ELSE ct[m].tmr
    PROVE  IndInv'
<1>1. PICK u \in UpType : /\ Prov(m) = [up EXCEPT ![m] = u]
                         /\ u.calls = up[m].calls /\ u.final = up[m].final /\ u.prov
  BY ProvTold
<1>2. CtInv(m, ct[m], up[m]) BY DEF IndInv, CtInvs
<1>3. CtInv(m, c, u) BY <1>1, <1>2 DEF CtInv, Pending
<1>4. m = Met /\ ct["CANCEL"] # NoCtrans => ct[m].state # "CALLING" /\ c.tmr # Stopped
  BY <1>2, Methods DEF IndInv, CancelInv, CtInv, Pending
<1>5. m = "CANCEL" => ct[m] # NoCtrans BY DEF Pending, NoCtrans
<1> QED BY Zenon, <1>1, <1>3, <1>4, <1>5, ClientStep

\* A final response ends a pending transaction, or leaves it to absorb copies.
LEMMA Ind_final ==
    ASSUME IndInv, NEW m \in Mets, ct[m].state \in Pending, NEW c \in CtransType,
           NEW code \in Success \cup Failure,
           ct' = [ct EXCEPT ![m] = c], up' = Final(m, code), UNCHANGED svars,
           (c.state = "gone" /\ c.tmr = Stopped) \/ (c.state = "COMPLETED" /\ c.tmr # Stopped)
    PROVE  IndInv'
<1>0. code \in Finals \ {0} BY DEF Success, Failure, Finals
<1>1. PICK u \in UpType : /\ Final(m, code) = [up EXCEPT ![m] = u]
                         /\ u.calls = 1 /\ u.final = code /\ u.prov = up[m].prov
  BY <1>0, FirstOutcome
<1>2. CtInv(m, c, u) BY <1>0, <1>1 DEF CtInv, Pending
<1>3. m = "CANCEL" => ct[m] # NoCtrans BY DEF Pending, NoCtrans
<1> QED BY Zenon, <1>1, <1>2, <1>3, ClientStep

\* The transaction that absorbs copies has its timer running.
LEMMA WaitType ==
    ASSUME NEW o \in CtransType, NEW d \in Nat
    PROVE  LET c == [o EXCEPT !.state = "COMPLETED", !.tmre = Stopped, !.tmr = Start(d)]
           IN  c \in CtransType /\ c.state = "COMPLETED" /\ c.tmr # Stopped
<1>1. Start(d) \in Nat /\ Start(d) # Stopped /\ Stopped \in Nat BY DEF Start, Stopped
<1> QED BY Zenon, <1>1 DEF CtransType

\* What a response does to the transaction it belongs to, with its new value d.
Responded(m, code, d) ==
    /\ ct' = [ct EXCEPT ![m] = d]
    /\ \/ /\ up' = Prov(m) /\ d.state = "PROCEEDING"
          /\ d.tmr = IF ct[m].state = "CALLING" THEN Stopped ELSE ct[m].tmr
       \/ /\ up' = Final(m, code) /\ code \in Success \cup Failure
          /\ \/ d.state = "gone" /\ d.tmr = Stopped
             \/ d.state = "COMPLETED" /\ d.tmr # Stopped

\* response_handler either changes nothing or moves one pending transaction.
LEMMA ResponseStep ==
    ASSUME IndInv, NEW r \in Msg, response_handler(r), ~UNCHANGED cvars
    PROVE  /\ r.met \in Mets /\ ct[r.met].state \in Pending
           /\ \E d \in CtransType : Responded(r.met, r.scode, d)
<1> DEFINE m == r.met
<1>0. m \in Mets /\ ct[m] \in CtransType
  BY DEF Msg, Request, response_handler, IndInv, CtransOK
<1>a. GoneCtrans \in CtransType /\ GoneCtrans.state = "gone" /\ GoneCtrans.tmr = Stopped
  BY <1>0, RequestedType
<1>2. CASE IsInvite(m) /\ invite_response(r)
  <2>0. ct[m].state \in {"CALLING", "PROCEEDING"} BY <1>2, Zenon DEF invite_response, cvars
  <2>1. CASE r.scode \in Provisional
    <3> DEFINE c == IF ct[m].state = "CALLING"
                    THEN [ct[m] EXCEPT !.state = "PROCEEDING", !.tmr = Stopped, !.tmre = Stopped]
                    ELSE ct[m]
    <3>1. ct' = [ct EXCEPT ![m] = c] /\ up' = Prov(m)
      BY <1>2, <2>0, <2>1 DEF invite_response, IndInv, CtransOK, Provisional, Success, Failure
    <3>2. /\ c \in CtransType /\ c.state = "PROCEEDING"
          /\ c.tmr = IF ct[m].state = "CALLING" THEN Stopped ELSE ct[m].tmr
      BY Zenon, <1>0, <2>0 DEF CtransType, Stopped
    <3> HIDE DEF c
    <3> QED BY Zenon, <1>0, <2>0, <3>1, <3>2 DEF Pending, Responded
  <2>2. CASE r.scode \in Success
    <3>1. ct' = [ct EXCEPT ![m] = GoneCtrans] /\ up' = Final(m, r.scode)
      BY <1>2, <2>0, <2>2 DEF invite_response, Provisional, Success, Failure
    <3> QED BY Zenon, <1>0, <1>a, <2>0, <2>2, <3>1 DEF Pending, Responded
  <2>3. CASE r.scode \in Failure
    <3> DEFINE c == [ct[m] EXCEPT !.state = "COMPLETED", !.tmre = Stopped,
                                  !.tmr = Start(COMPLETE_WAIT)]
    <3>1. ct' = [ct EXCEPT ![m] = IF Reliable THEN GoneCtrans ELSE c] /\ up' = Final(m, r.scode)
      BY <1>2, <2>0, <2>3 DEF invite_response, Provisional, Success, Failure, IndInv, CtransOK
    <3>2. c \in CtransType /\ c.state = "COMPLETED" /\ c.tmr # Stopped
      BY Zenon, <1>0, WaitType, SipAssumption
    <3> HIDE DEF c
    <3> QED BY Zenon, <1>0, <1>a, <2>0, <2>3, <3>1, <3>2 DEF Pending, Responded
  <2> QED BY <1>2, <2>0, <2>1, <2>2, <2>3 DEF invite_response
<1>3. CASE ~IsInvite(m) /\ other_response(r)
  <2>0. ct[m].state \in {"TRYING", "PROCEEDING"} BY <1>3, Zenon DEF other_response, cvars
  <2>1. CASE r.scode \in Provisional
    <3> DEFINE c == [ct[m] EXCEPT !.state = "PROCEEDING"]
    <3>1. ct' = [ct EXCEPT ![m] = c] /\ up' = Prov(m)
      BY <1>3, <2>0, <2>1 DEF other_response, IndInv, CtransOK, Provisional, Success, Failure
    <3>2. c \in CtransType /\ c.state = "PROCEEDING" /\ c.tmr = ct[m].tmr
      BY <1>0 DEF CtransType
    <3> HIDE DEF c
    <3> QED BY Zenon, <1>0, <2>0, <3>1, <3>2 DEF Pending, Responded
  <2>2. CASE r.scode \in Success \cup Failure
    <3> DEFINE c == [ct[m] EXCEPT !.state = "COMPLETED", !.tmre = Stopped, !.tmr = Start(T4)]
    <3>1. ct' = [ct EXCEPT ![m] = IF Reliable THEN GoneCtrans ELSE c] /\ up' = Final(m, r.scode)
      BY <1>3, <2>0, <2>2 DEF other_response, Provisional, Success, Failure, IndInv, CtransOK
    <3>2. c \in CtransType /\ c.state = "COMPLETED" /\ c.tmr # Stopped
      BY Zenon, <1>0, WaitType, SipAssumption
    <3> HIDE DEF c
    <3> QED BY Zenon, <1>0, <1>a, <2>0, <2>2, <3>1, <3>2 DEF Pending, Responded
  <2> QED BY <1>3, <2>0, <2>1, <2>2 DEF other_response
<1> QED BY <1>0, <1>2, <1>3 DEF response_handler

\* response_handler preserves the invariant.
LEMMA Ind_response ==
    ASSUME IndInv, NEW r \in Msg, response_handler(r), UNCHANGED svars
    PROVE  IndInv'
<1>1. CASE UNCHANGED cvars BY <1>1, Ind_unchanged
<1>2. CASE ~UNCHANGED cvars
  <2>1. PICK d \in CtransType : Responded(r.met, r.scode, d) BY <1>2, ResponseStep
  <2>2. r.met \in Mets /\ ct[r.met].state \in Pending BY <1>2, ResponseStep
  <2> QED BY Zenon, <2>1, <2>2, Ind_provisional, Ind_final DEF Responded
<1> QED BY <1>1, <1>2

\* tmr_handler and transport_handler preserve the invariant.
LEMMA Ind_expired ==
    ASSUME IndInv, NEW m \in Mets, tmr_handler(m) \/ transport_handler(m), UNCHANGED svars
    PROVE  IndInv'
<1>1. CtInv(m, ct[m], up[m]) BY DEF IndInv, CtInvs
<1>2. Alive(m)
  BY <1>1 DEF tmr_handler, transport_handler, Alive, CtInv, NoCtrans, Stopped, Due
<1> QED BY <1>2, Ind_Die DEF tmr_handler, transport_handler

\* sip_ctrans_cancel, which starts a transaction and restarts the timer of another,
\* preserves the invariant.
LEMMA Ind_cancel ==
    ASSUME IndInv, sip_ctrans_cancel, UNCHANGED svars
    PROVE  IndInv'
<1>0. /\ ct[Met] \in CtransType /\ up \in [Mets -> UpType] /\ ct \in [Mets -> CtransType]
      /\ CtInv(Met, ct[Met], up[Met]) /\ CtInv("CANCEL", ct["CANCEL"], up["CANCEL"])
      /\ ct[Met].state = "PROCEEDING" /\ ct["CANCEL"] = NoCtrans /\ NoCtrans.state = "none"
  BY Methods DEF IndInv, CtransOK, CtInvs, sip_ctrans_cancel, NoCtrans
<1> DEFINE c == [ct[Met] EXCEPT !.tmr = Start(T64)]
<1>1. c \in CtransType /\ c.state = "PROCEEDING" /\ c.tmr # Stopped
  <2>1. Start(T64) \in Nat /\ Start(T64) # Stopped BY SipAssumption DEF Start, Stopped
  <2> QED BY <1>0, <2>1 DEF CtransType
<1>2. PICK k \in {Requested("CANCEL"), GoneCtrans} :
         ct' = [ct EXCEPT ![Met] = c, !["CANCEL"] = k]
  BY <1>0, Methods DEF sip_ctrans_cancel
<1> HIDE DEF c
<1>3. k \in CtransType /\ CtInv("CANCEL", k, up["CANCEL"])
  BY <1>0, RequestedType, Methods DEF CtInv, Pending, IsInvite
<1>4. CtInv(Met, c, up[Met]) BY <1>0, <1>1 DEF CtInv, Pending
<1>5. /\ ct' \in [Mets -> CtransType] /\ ct'[Met] = c /\ ct'["CANCEL"] = k
      /\ UNCHANGED <<up, svars>>
  BY <1>0, <1>1, <1>2, <1>3, Methods DEF sip_ctrans_cancel
<1>6. CtransOK' BY <1>0, <1>5 DEF CtransOK
<1>7. CtInvs'
  <2>1. \A n \in Mets : CtInv(n, ct'[n], up'[n]) BY <1>3, <1>4, <1>5, Methods
  <2> QED BY <2>1 DEF CtInvs, CtInv
<1>8. CancelInv' BY <1>1, <1>5 DEF CancelInv
<1>9. StransOK' /\ StInvs' BY DEF IndInv, StransOK, StInvs, svars
<1> QED BY <1>6, <1>7, <1>8, <1>9 DEF IndInv

(***************************************************************************)
(* The server                                                              *)
(***************************************************************************)

\* A step of the server.
LEMMA ServerStep ==
    ASSUME IndInv, UNCHANGED cvars, StransOK', \A m \in Mets : StInv(m, st'[m])
    PROVE  IndInv'
<1>1. CtransOK' /\ CtInvs' /\ CancelInv'
  BY DEF IndInv, CtransOK, CtInvs, CtInv, CancelInv, cvars, IsInvite
<1>2. StInvs' BY DEF StInvs, StInv
<1> QED BY <1>1, <1>2 DEF IndInv

\* A transaction that was answered has its timer running.
LEMMA RepliedType ==
    ASSUME NEW m \in Mets, NEW s \in StransType, NEW code \in Codes,
           code \in Provisional => m = Met
    PROVE  Replied(m, s, code) \in StransType /\ StInv(m, Replied(m, s, code))
<1>1. /\ Start(T64) \in Nat /\ Start(T64) # Stopped /\ Start(T1) \in Nat
      /\ code \in {0} \cup Codes
  BY SipAssumption DEF Start, Stopped
<1>2. CASE code \in Provisional
  BY Zenon, <1>1, <1>2 DEF Replied, StransType, StInv
<1>3. CASE code \notin Provisional /\ m = "INVITE"
  <2> DEFINE q == IF code \in Success THEN "ACCEPTED" ELSE "COMPLETED"
             g == IF code \in Failure /\ ~Reliable THEN Start(T1) ELSE s.tmrg
             r == [s EXCEPT !.mb = code, !.tmr = Start(T64), !.state = q, !.tmrg = g]
  <2>1. Replied(m, s, code) = r BY <1>3 DEF Replied
  <2>2. g \in Nat /\ q \in {"ACCEPTED", "COMPLETED"} BY <1>1 DEF StransType
  <2> HIDE DEF g, q
  <2>3. r \in StransType /\ r.tmr # Stopped BY Zenon, <1>1, <2>2 DEF StransType
  <2> QED BY <2>1, <2>3 DEF StInv
<1>4. CASE code \notin Provisional /\ m # "INVITE"
  <2>1. CASE Reliable
    BY <1>4, <2>1 DEF Replied, NoStrans, StransType, StInv, Stopped
  <2>2. CASE ~Reliable
    <3> DEFINE r == [s EXCEPT !.mb = code, !.tmr = Start(T64), !.state = "COMPLETED"]
    <3>1. Replied(m, s, code) = r BY <1>4, <2>2 DEF Replied
    <3>2. r \in StransType /\ r.tmr # Stopped BY Zenon, <1>1 DEF StransType
    <3> QED BY <3>1, <3>2 DEF StInv
  <2> QED BY <2>1, <2>2
<1> QED BY <1>2, <1>3, <1>4

\* A step of the server that changes one transaction.
LEMMA OneServer ==
    ASSUME IndInv, UNCHANGED cvars, NEW m \in Mets, NEW s \in StransType,
           st' = [st EXCEPT ![m] = s], StInv(m, s),
           tu' \in [seen : Nat, answer : {0} \cup Codes]
    PROVE  IndInv'
<1>1. StransOK' BY DEF IndInv, StransOK
<1>2. ASSUME NEW n \in Mets PROVE StInv(n, st'[n])
  <2>1. CASE n = m BY <2>1 DEF IndInv, StransOK
  <2>2. CASE n # m BY <2>2 DEF IndInv, StransOK, StInvs
  <2> QED BY <2>1, <2>2
<1> QED BY <1>1, <1>2, ServerStep

\* The server transaction before its first answer, and none at all.
LEMMA AllocatedType ==
    /\ NoStrans \in StransType /\ \A m \in Mets : StInv(m, NoStrans)
    /\ Allocated \in StransType /\ StInv(Met, Allocated)
BY Zenon, SipAssumption DEF NoStrans, Allocated, StransType, StInv, Stopped

\* sip_strans_reply preserves the invariant.
LEMMA Ind_reply ==
    ASSUME IndInv, NEW code \in Codes, sip_strans_reply(code), UNCHANGED cvars
    PROVE  IndInv'
<1>0. st \in [Mets -> StransType] /\ tu \in [seen : Nat, answer : {0} \cup Codes]
  BY DEF IndInv, StransOK
<1>1. tu' \in [seen : Nat, answer : {0} \cup Codes]
  BY <1>0 DEF sip_strans_reply
<1>2. \/ st' = [st EXCEPT ![Met] = Replied(Met, st[Met], code)]
      \/ st' = [st EXCEPT ![Met] = NoStrans]
  BY <1>0, Methods DEF sip_strans_reply
<1> QED BY <1>0, <1>1, <1>2, Methods, RepliedType, AllocatedType, OneServer

\* The two timers of a server transaction preserve the invariant.
LEMMA Ind_server_timers ==
    ASSUME IndInv, NEW m \in Mets, strans_tmr_handler(m) \/ strans_retransmit_handler,
           UNCHANGED cvars
    PROVE  IndInv'
<1>0. /\ st \in [Mets -> StransType] /\ tu \in [seen : Nat, answer : {0} \cup Codes]
      /\ \A n \in Mets : StInv(n, st[n])
  BY DEF IndInv, StransOK, StInvs
<1>1. CASE strans_tmr_handler(m)
  BY Zenon, <1>0, <1>1, AllocatedType, OneServer DEF strans_tmr_handler
<1>2. CASE strans_retransmit_handler
  <2> DEFINE g == 2 * st[Met].gap
             i == Start(AtMost(g, T2))
             s == [st[Met] EXCEPT !.gap = g, !.tmrg = i]
  <2>1. st' = [st EXCEPT ![Met] = s] /\ UNCHANGED tu
    BY Zenon, <1>0, <1>2, Methods DEF strans_retransmit_handler
  <2>2. g \in Nat BY <1>0, Methods DEF StransType
  <2>3. i \in Nat BY <2>2, SipAssumption DEF Start, AtMost
  <2> HIDE DEF g, i
  <2>4. s \in StransType /\ s.state = st[Met].state /\ s.tmr = st[Met].tmr
    BY Zenon, <1>0, <2>2, <2>3, Methods DEF StransType
  <2> HIDE DEF s
  <2>5. StInv(Met, s) BY Zenon, <1>0, <2>4, Methods DEF StInv
  <2> QED BY Zenon, <1>0, <2>1, <2>4, <2>5, Methods, OneServer
<1> QED BY <1>1, <1>2

\* request_handler and the users it calls preserve the invariant.
LEMMA Ind_requests ==
    ASSUME IndInv, request_handler, UNCHANGED cvars
    PROVE  IndInv'
<1>0. /\ st \in [Mets -> StransType] /\ tu \in [seen : Nat, answer : {0} \cup Codes]
      /\ \A n \in Mets : StInv(n, st[n])
  BY DEF IndInv, StransOK, StInvs
<1>1. CASE UNCHANGED svars BY <1>0, <1>1, ServerStep DEF svars, StransOK
<1>2. CASE ack_handler
  <2> DEFINE s == [st[Met] EXCEPT !.state = "CONFIRMED", !.tmr = Start(T4), !.tmrg = Stopped]
  <2>1. /\ UNCHANGED tu
        /\ \/ st' = [st EXCEPT ![Met] = s]
           \/ st' = [st EXCEPT ![Met] = NoStrans]
           \/ st' = st
    BY Zenon, <1>0, <1>2, Methods DEF ack_handler
  <2>2. Start(T4) \in Nat /\ Start(T4) # Stopped /\ Stopped \in Nat
    BY SipAssumption DEF Start, Stopped
  <2>3. s \in StransType /\ s.tmr # Stopped BY Zenon, <1>0, <2>2, Methods DEF StransType
  <2> HIDE DEF s
  <2>4. StInv(Met, s) BY <2>3 DEF StInv
  <2> QED BY <1>0, <1>1, <2>1, <2>3, <2>4, Methods, AllocatedType, OneServer DEF svars
<1>3. CASE New
  <2>1. tu' \in [seen : Nat, answer : {0} \cup Codes] BY <1>0, <1>3 DEF New, SeenMax
  <2> QED BY Zenon, <1>3, <2>1, Methods, AllocatedType, OneServer DEF New
<1>4. CASE cancel_handler
  <2>0. {200, 481, 487} \subseteq Codes \ Provisional
    BY DEF Codes, Provisional, Success, Failure
  <2>1. PICK code, sent : code \in {200, 481} /\ st' = Cancelled(code, sent)
    BY <1>4 DEF cancel_handler
  <2> DEFINE k == Answered("CANCEL", Allocated, code, sent)
             q == IF Undecided THEN Answered(Met, st[Met], 487, sent) ELSE st[Met]
  <2>2. st' = [st EXCEPT !["CANCEL"] = k, ![Met] = q] BY <2>1 DEF Cancelled
  <2>3. k \in StransType /\ StInv("CANCEL", k)
    BY <2>0, <2>1, Methods, RepliedType, AllocatedType DEF Answered
  <2>4. q \in StransType /\ StInv(Met, q)
    BY <1>0, <2>0, Methods, RepliedType, AllocatedType DEF Answered
  <2> HIDE DEF k, q
  <2>5. /\ st' \in [Mets -> StransType] /\ st'[Met] = q /\ st'["CANCEL"] = k
    BY <1>0, <2>2, <2>3, <2>4, Methods
  <2>6. tu' \in [seen : Nat, answer : {0} \cup Codes] BY <1>0, <1>4, <2>0 DEF cancel_handler
  <2>7. \A n \in Mets : StInv(n, st'[n]) BY <2>3, <2>4, <2>5, Methods
  <2> QED BY <2>5, <2>6, <2>7, ServerStep DEF StransOK
<1> QED BY Zenon, <1>1, <1>2, <1>3, <1>4 DEF request_handler, Again

(***************************************************************************)
(* Time, and the whole step                                                *)
(***************************************************************************)

\* A tick stops and starts no timer.
LEMMA TockType ==
    ASSUME NEW t \in Nat
    PROVE  Tock(t) \in Nat /\ (Tock(t) = Stopped <=> t = Stopped)
BY DEF Tock, Stopped

\* The passing of time preserves the invariant.
LEMMA Ind_Tick ==
    ASSUME IndInv, Tick
    PROVE  IndInv'
<1>0. /\ ct \in [Mets -> CtransType] /\ st \in [Mets -> StransType] /\ UNCHANGED <<up, tu>>
      /\ CTick /\ STick
  BY DEF IndInv, CtransOK, StransOK, Tick
<1>1. ASSUME NEW m \in Mets
      PROVE  /\ ct'[m] \in CtransType /\ ct'[m].state = ct[m].state
             /\ ct'[m].tmr = Stopped <=> ct[m].tmr = Stopped
             /\ ct[m] = NoCtrans <=> ct'[m] = NoCtrans
  <2>a. ct[m] \in CtransType BY <1>0
  <2>0. ct[m].tmr \in Nat /\ ct[m].tmre \in Nat BY <2>a DEF CtransType
  <2> DEFINE a == Tock(ct[m].tmr)
             b == Tock(ct[m].tmre)
  <2>1. ct'[m] = [ct[m] EXCEPT !.tmr = a, !.tmre = b] BY <1>0, Zenon DEF CTick
  <2>2. /\ a \in Nat /\ (a = Stopped <=> ct[m].tmr = Stopped)
        /\ b \in Nat /\ (b = Stopped <=> ct[m].tmre = Stopped)
    BY <2>0, TockType
  <2> HIDE DEF a, b
  <2>3. /\ ct'[m] \in CtransType /\ ct'[m].state = ct[m].state /\ ct'[m].gap = ct[m].gap
        /\ ct'[m].tmr = a /\ ct'[m].tmre = b
    BY Zenon, <2>a, <2>1, <2>2 DEF CtransType
  <2>4. \A c \in CtransType : c = NoCtrans <=>
           c.state = "none" /\ c.tmr = Stopped /\ c.tmre = Stopped /\ c.gap = 0
    BY DEF CtransType, NoCtrans
  <2> QED BY <1>0, <2>2, <2>3, <2>4
<1>2. ASSUME NEW m \in Mets
      PROVE  /\ st'[m] \in StransType /\ st'[m].state = st[m].state
             /\ st'[m].tmr = Stopped <=> st[m].tmr = Stopped
  <2>a. st[m] \in StransType BY <1>0
  <2>0. st[m].tmr \in Nat /\ st[m].tmrg \in Nat BY <2>a DEF StransType
  <2> DEFINE a == Tock(st[m].tmr)
             b == Tock(st[m].tmrg)
  <2>1. st'[m] = [st[m] EXCEPT !.tmr = a, !.tmrg = b] BY <1>0, Zenon DEF STick
  <2>2. a \in Nat /\ (a = Stopped <=> st[m].tmr = Stopped) /\ b \in Nat
    BY <2>0, TockType
  <2> HIDE DEF a, b
  <2> QED BY Zenon, <2>a, <2>1, <2>2 DEF StransType
<1>3. CtransOK'
  <2>1. ct' \in [Mets -> CtransType] BY <1>0, <1>1, Zenon DEF CTick
  <2> QED BY <1>0, <2>1 DEF CtransOK, IndInv
<1>4. StransOK'
  <2>1. st' \in [Mets -> StransType] BY <1>0, <1>2, Zenon DEF STick
  <2> QED BY <1>0, <2>1 DEF StransOK, IndInv
<1>5. CtInvs'
  <2>1. ASSUME NEW m \in Mets PROVE CtInv(m, ct'[m], up[m])
    <3>1. CtInv(m, ct[m], up[m]) /\ NoCtrans.state = "none" BY DEF IndInv, CtInvs, NoCtrans
    <3> QED BY <1>1, <3>1 DEF CtInv
  <2> QED BY <1>0, <2>1 DEF CtInvs, CtInv
<1>6. CancelInv' BY <1>1, Methods DEF IndInv, CancelInv
<1>7. StInvs'
  <2>1. ASSUME NEW m \in Mets PROVE StInv(m, st'[m]) BY <1>2 DEF StInv, IndInv, StInvs
  <2> QED BY <2>1 DEF StInvs, StInv
<1> QED BY <1>3, <1>4, <1>5, <1>6, <1>7 DEF IndInv

\* Every step preserves the invariant.
LEMMA NextInd == IndInv /\ [Next]_vars => IndInv'
<1> SUFFICES ASSUME IndInv, [Next]_vars PROVE IndInv' OBVIOUS
<1>1. CASE Ctrans /\ UNCHANGED svars
  BY <1>1, Ind_request, Ind_cancel, Ind_drop, Ind_retransmit, Ind_expired, Ind_response
  DEF Ctrans
<1>2. CASE Strans /\ UNCHANGED cvars
  BY <1>2, Ind_reply, Ind_server_timers, Ind_requests, Methods DEF Strans
<1>3. CASE Tick BY <1>3, Ind_Tick
<1>4. CASE UNCHANGED vars BY <1>4, Ind_unchanged DEF vars, cvars, svars
<1> QED BY <1>1, <1>2, <1>3, <1>4 DEF Next

\* The invariant holds in every reachable state.
LEMMA Invariant == Spec => []IndInv
BY InitInd, NextInd, PTL DEF Spec

\* What is under way stays under way for Delay at most.
LEMMA NetNext == NetOK /\ [Next]_vars => NetOK'
<1> SUFFICES ASSUME NetOK, [Next]_vars PROVE NetOK' OBVIOUS
<1> DEFINE N == [Msg -> 0..(Delay + 1)]
<1>0. Delay \in Nat /\ net \in N BY SipAssumption DEF NetOK
<1>1. ASSUME NEW n \in N, NEW S PROVE Send(n, S) \in N
  <2>1. \A m \in Msg : n[m] \in 0..(Delay + 1) /\ Start(Delay) \in 0..(Delay + 1)
    BY <1>0 DEF Start
  <2> QED BY <2>1 DEF Send
<1>2. ASSUME NEW r PROVE Rest(r) \in N
  <2>1. 0 \in 0..(Delay + 1) BY <1>0
  <2> QED BY Zenon, <1>0, <2>1 DEF Rest
<1>3. ASSUME NetTick PROVE net' \in N
  <2>1. \A t \in 0..(Delay + 1) :
           Tock(t) \in 0..(Delay + 1) /\ (IF t = 0 THEN 0 ELSE t - 1) \in 0..(Delay + 1)
    BY <1>0 DEF Tock
  <2>2. \A m \in Msg : net[m] \in 0..(Delay + 1) BY <1>0
  <2> QED BY <1>3, <2>1, <2>2 DEF NetTick
<1> HIDE DEF N
<1>4. CASE Ctrans
  <2>1. ASSUME NEW r \in Msg, response_handler(r) PROVE net' \in N
    <3>1. ASSUME SendAck(r) PROVE net' \in N BY <1>1, <1>2, <3>1 DEF SendAck
    <3>2. CASE invite_response(r)
      <4>1. SendAck(r) \/ net' = Rest(r) BY <3>2, Zenon DEF invite_response
      <4> QED BY <1>2, <3>1, <4>1
    <3>3. CASE other_response(r)
      <4>1. net' = Rest(r) BY <3>3, Zenon DEF other_response
      <4> QED BY <1>2, <4>1
    <3> QED BY <1>2, <2>1, <3>2, <3>3 DEF response_handler
  <2>2. ASSUME NEW m \in Mets, retransmit_handler(m) \/ tmr_handler(m) \/ transport_handler(m)
        PROVE  net' \in N
    <3>1. net' = Send(net, {Request(m)}) \/ net' = net
      BY <2>2, Zenon DEF retransmit_handler, tmr_handler, transport_handler
    <3> QED BY <1>0, <1>1, <3>1
  <2> QED BY <1>0, <1>1, <1>4, <2>1, <2>2
      DEF Ctrans, sip_ctrans_request, sip_ctrans_cancel, request_drop, NetOK, N
<1>5. CASE Strans
  <2>1. ASSUME request_handler PROVE net' \in N
    <3>1. ack_handler \/ New => \E r : net' = Rest(r) BY Zenon DEF ack_handler, New
    <3>2. cancel_handler => \E r, S : net' = Send(Rest(r), S) BY DEF cancel_handler
    <3>3. ASSUME NEW m, Again(m)
          PROVE  (\E r : net' = Rest(r)) \/ (\E r, S : net' = Send(Rest(r), S))
      BY <3>3, Zenon DEF Again
    <3> QED BY <1>1, <1>2, <2>1, <3>1, <3>2, <3>3 DEF request_handler
  <2>2. ASSUME NEW code, sip_strans_reply(code) PROVE net' \in N
    BY <1>0, <1>1, <2>2 DEF sip_strans_reply
  <2>3. ASSUME NEW m \in Mets, strans_tmr_handler(m) \/ strans_retransmit_handler
        PROVE  net' \in N
    BY <1>0, <1>1, <2>3 DEF strans_tmr_handler, strans_retransmit_handler
  <2> QED BY <1>5, <2>1, <2>2, <2>3, Methods DEF Strans, NetOK, N
<1>6. CASE Tick BY <1>3, <1>6 DEF Tick, NetOK, N
<1>7. CASE UNCHANGED vars BY <1>7 DEF vars, NetOK
<1> QED BY <1>4, <1>5, <1>6, <1>7 DEF Next

\* Every reachable state of the two transactions and of the transport has the
\* shape the model says: in particular sip_ctrans and sip_strans are only ever in
\* the states of enum state in ctrans.c and strans.c.
THEOREM TypeCorrect == Spec => []TypeOK
<1>1. Init => NetOK BY SipAssumption DEF Init, NetInit, NetOK
<1>2. IndInv /\ NetOK => TypeOK BY DEF IndInv, TypeOK
<1> QED BY <1>1, <1>2, NetNext, Invariant, PTL DEF Spec

\* resph of a client transaction is called with an outcome once at most, whatever
\* the order of responses, timeouts, broken connections and cancellations.
THEOREM OutcomeOnce == Spec => []OneFinal
<1>1. IndInv => OneFinal
  <2> SUFFICES ASSUME IndInv, NEW m \in Mets
               PROVE  /\ up[m].calls <= 1
                      /\ up[m].final # 0 => ct[m].state \in {"COMPLETED", "gone"}
    BY DEF OneFinal
  <2>1. CtInv(m, ct[m], up[m]) /\ ct[m] \in CtransType BY DEF IndInv, CtInvs, CtransOK
  <2> QED BY <2>1 DEF CtInv, CtransType, Pending
<1> QED BY <1>1, Invariant, PTL

\* A transaction of ctrans.c or strans.c always has a timer that ends it, but for
\* an INVITE that rings and a request the user has not answered.
THEOREM AlwaysTimed == Spec => []NoZombie
<1>1. IndInv => NoZombie
  <2> SUFFICES ASSUME IndInv, NEW m \in Mets
               PROVE  /\ Alive(m) /\ ct[m].tmr = Stopped =>
                            IsInvite(m) /\ ct[m].state = "PROCEEDING" /\ ct["CANCEL"] = NoCtrans
                      /\ Known(m) /\ st[m].tmr = Stopped =>
                            m = Met /\ st[m].state \in {"TRYING", "PROCEEDING"}
    BY DEF NoZombie
  <2>1. CtInv(m, ct[m], up[m]) /\ ct[m] \in CtransType BY DEF IndInv, CtInvs, CtransOK
  <2>2. Alive(m) => ct[m].state \in Pending \cup {"COMPLETED"}
    BY <2>1 DEF Alive, CtransType, Pending
  <2>3. CancelInv /\ StInv(m, st[m]) BY DEF IndInv, StInvs
  <2> QED BY <2>1, <2>2, <2>3, Methods DEF CtInv, CancelInv, StInv, Known
<1> QED BY <1>1, Invariant, PTL

(***************************************************************************)
(* The client transaction implements SipCtransAbs                          *)
(***************************************************************************)

\* How a step may change a transaction c and what its user knows, u.
Moves(c, u, d, v) ==
    \/ d.state = c.state /\ v = u
    \/ c.state = "none" /\ d.state \in Pending \cup {"gone"} /\ v = u
    \/ c.state \in Pending /\ d.state = "PROCEEDING" /\ v.prov /\ v.final = u.final
    \/ c.state \in Pending /\ d.state \in {"COMPLETED", "gone"} /\ v.final \in Finals \ {0}
    \/ c.state = "COMPLETED" /\ d.state = "gone" /\ v = u
    \/ c.state \in Pending /\ ~u.prov /\ d.state = "gone" /\ v = u

\* The end of a transaction by its timer or its transport is such a move.
LEMMA Moves_Die ==
    ASSUME IndInv, NEW m \in Mets, Alive(m), Die(m)
    PROVE  Moves(ct[Met], up[Met], ct'[Met], up'[Met])
<1>0. ct[m] \in CtransType /\ up[m] \in UpType /\ ct \in [Mets -> CtransType] /\ up \in [Mets -> UpType]
  BY DEF IndInv, CtransOK
<1>1. ct' = [ct EXCEPT ![m] = GoneCtrans] /\ GoneCtrans.state = "gone" BY RequestedType DEF Die
<1>2. ct[m].state \in Pending \cup {"COMPLETED"} BY <1>0 DEF Alive, CtransType, Pending
<1>3. CASE ct[m].state \in Pending
  <2>0. ERR \in Finals \ {0} BY DEF ERR, Finals
  <2>1. PICK u \in UpType : Final(m, ERR) = [up EXCEPT ![m] = u] /\ u.final = ERR
    BY <1>3, <2>0, FirstOutcome
  <2>2. up' = [up EXCEPT ![m] = u] BY <1>3, <2>1 DEF Die, terminate, Pending
  <2> QED BY <1>0, <1>1, <1>3, <2>0, <2>1, <2>2, Methods DEF Moves
<1>4. CASE ct[m].state = "COMPLETED"
  <2>1. up' = up BY <1>4 DEF Die, terminate
  <2> QED BY <1>0, <1>1, <1>4, <2>1, Methods DEF Moves
<1> QED BY <1>2, <1>3, <1>4

\* A response makes such a move.
LEMMA Moves_response ==
    ASSUME IndInv, NEW r \in Msg, response_handler(r)
    PROVE  Moves(ct[Met], up[Met], ct'[Met], up'[Met])
<1> DEFINE m == r.met
<1>0. m \in Mets /\ ct \in [Mets -> CtransType] /\ up \in [Mets -> UpType]
  BY DEF Msg, Request, response_handler, IndInv, CtransOK
<1>1. CASE UNCHANGED cvars BY <1>1 DEF Moves, cvars
<1>2. ASSUME r.scode \in Success \cup Failure, ct[m].state \in Pending, up' = Final(m, r.scode),
             NEW d \in CtransType, ct' = [ct EXCEPT ![m] = d], d.state \in {"COMPLETED", "gone"}
      PROVE  Moves(ct[Met], up[Met], ct'[Met], up'[Met])
  <2>0. r.scode \in Finals \ {0} BY <1>2 DEF Success, Failure, Finals
  <2>1. PICK u \in UpType : /\ Final(m, r.scode) = [up EXCEPT ![m] = u]
                           /\ u.calls = 1 /\ u.final = r.scode /\ u.prov = up[m].prov
    <3> DEFINE code == r.scode
    <3>1. code \in Finals \ {0} /\ ct[m].state \in Pending BY <1>2, <2>0
    <3> HIDE DEF m, code
    <3>2. \E u \in UpType : /\ Final(m, code) = [up EXCEPT ![m] = u]
                           /\ u.calls = 1 /\ u.final = code /\ u.prov = up[m].prov
      BY <1>0, <3>1, FirstOutcome
    <3> QED BY <3>2 DEF code
  <2> QED BY <1>0, <1>2, <2>0, <2>1, Methods DEF Moves
<1>3. ASSUME ct[m].state \in Pending, up' = Prov(m),
             NEW d \in CtransType, ct' = [ct EXCEPT ![m] = d], d.state = "PROCEEDING"
      PROVE  Moves(ct[Met], up[Met], ct'[Met], up'[Met])
  <2>1. PICK u \in UpType : /\ Prov(m) = [up EXCEPT ![m] = u]
                           /\ u.final = up[m].final /\ u.prov
    BY Zenon, <1>0, ProvTold
  <2> QED BY <1>0, <1>3, <2>1, Methods DEF Moves
<1>4. CASE ~UNCHANGED cvars
  <2>1. PICK d \in CtransType : Responded(m, r.scode, d) BY <1>4, ResponseStep
  <2>2. ct[m].state \in Pending BY <1>4, ResponseStep
  <2> QED BY Zenon, <1>2, <1>3, <2>1, <2>2 DEF Responded
<1> QED BY <1>1, <1>4

\* Every step moves the transaction of the request so.
LEMMA EveryMove ==
    ASSUME IndInv, [Next]_vars
    PROVE  Moves(ct[Met], up[Met], ct'[Met], up'[Met])
<1>0. /\ ct \in [Mets -> CtransType] /\ up \in [Mets -> UpType] /\ Met \in Mets
      /\ CtInvs
  BY Methods DEF IndInv, CtransOK
<1>1. CASE UNCHANGED cvars BY <1>1 DEF Moves, cvars
<1>2. CASE Tick
  <2>1. ct'[Met] = [ct[Met] EXCEPT !.tmr = Tock(@), !.tmre = Tock(@)] /\ up' = up
    BY Zenon, <1>0, <1>2 DEF Tick, CTick
  <2>2. ct'[Met].state = ct[Met].state BY <1>0, <2>1 DEF CtransType
  <2> QED BY <2>1, <2>2 DEF Moves
<1>3. CASE sip_ctrans_request
  <2>1. ct[Met].state = "none" /\ up' = up BY <1>3 DEF sip_ctrans_request, NoCtrans
  <2>2. ct'[Met] \in {Requested(Met), GoneCtrans} BY <1>0, <1>3 DEF sip_ctrans_request
  <2>3. ct'[Met].state \in Pending \cup {"gone"} BY <1>0, <2>2, RequestedType DEF Pending
  <2> QED BY <2>1, <2>3 DEF Moves
<1>4. CASE sip_ctrans_cancel
  <2>1. ct'[Met] = [ct[Met] EXCEPT !.tmr = Start(T64)] /\ up' = up
    BY <1>0, <1>4, Methods DEF sip_ctrans_cancel
  <2>2. ct'[Met].state = ct[Met].state BY <1>0, <2>1 DEF CtransType
  <2> QED BY <2>1, <2>2 DEF Moves
<1>5. CASE request_drop
  <2>1. ct'[Met].state = "gone" /\ up' = up BY <1>0, <1>5, RequestedType DEF request_drop
  <2>2. ct[Met].state \in Pending /\ ~up[Met].prov
    BY <1>0, <1>5 DEF request_drop, Alive, CtInvs, CtInv, CtransType, Pending
  <2> QED BY <2>1, <2>2 DEF Moves
<1>6. ASSUME NEW m \in Mets, retransmit_handler(m) PROVE Moves(ct[Met], up[Met], ct'[Met], up'[Met])
  <2>1. CASE Die(m) BY <1>6, <2>1, Moves_Die DEF retransmit_handler, Alive
  <2>2. CASE ~Die(m)
    <3>1. up' = up /\ ct' = [ct EXCEPT ![m].gap = 2 * @,
                                       ![m].tmre = Start(Interval(m, 2 * ct[m].gap))]
      BY <1>6, <2>2 DEF retransmit_handler
    <3>2. ct'[Met].state = ct[Met].state BY <1>0, <3>1 DEF CtransType
    <3> QED BY <3>1, <3>2 DEF Moves
  <2> QED BY <2>1, <2>2
<1>7. ASSUME NEW m \in Mets, tmr_handler(m) \/ transport_handler(m)
      PROVE  Moves(ct[Met], up[Met], ct'[Met], up'[Met])
  <2>1. CtInv(m, ct[m], up[m]) BY <1>0 DEF CtInvs
  <2>2. Alive(m)
    BY <1>7, <2>1 DEF tmr_handler, transport_handler, Alive, CtInv, NoCtrans, Stopped, Due
  <2> QED BY <1>7, <2>2, Moves_Die DEF tmr_handler, transport_handler
<1>8. ASSUME NEW r \in Msg, response_handler(r) PROVE Moves(ct[Met], up[Met], ct'[Met], up'[Met])
  BY <1>8, Moves_response
<1> QED BY <1>1, <1>2, <1>3, <1>4, <1>5, <1>6, <1>7, <1>8 DEF Next, Ctrans, vars, cvars

\* Where a transaction is tells the phase.
LEMMA PhaseOf ==
    ASSUME NEW c \in CtransType, NEW u \in UpType, CtInv(Met, c, u)
    PROVE  /\ c.state = "none" => Phase(c, u) = "idle" /\ u.final = 0
           /\ c.state \in Pending => Phase(c, u) = IF u.prov THEN "ringing" ELSE "waiting"
           /\ c.state = "COMPLETED" => Phase(c, u) = "done"
           /\ c.state = "gone" => Phase(c, u) = IF u.final = 0 THEN "dropped" ELSE "done"
BY DEF Phase, CtransType, CtInv, Pending

\* The transaction of ctrans.c implements the promise of SipCtransAbs to
\* request.c: provisional responses, then one outcome and silence; only before
\* the first provisional response may it vanish without an outcome.
THEOREM PromiseKept == Spec => KeepsPromise
<1>1. Init => Promise!AInit
  BY Methods DEF Init, CInit, NoCtrans, phase, Phase, Promise!AInit, Promise!None
<1>2. IndInv /\ IndInv' /\ [Next]_vars => [Promise!ANext]_(Promise!avars)
  <2> SUFFICES ASSUME IndInv, IndInv', [Next]_vars
               PROVE  Promise!ANext \/ UNCHANGED <<phase, up[Met].final>>
    BY DEF Promise!avars
  <2> DEFINE c == ct[Met]
             u == up[Met]
             d == ct'[Met]
             v == up'[Met]
  <2>1. Moves(c, u, d, v) BY EveryMove
  <2>2. /\ c \in CtransType /\ u \in UpType /\ CtInv(Met, c, u)
    BY Methods DEF IndInv, CtransOK, CtInvs
  <2>3. /\ d \in CtransType /\ v \in UpType /\ CtInv(Met, d, v)
    BY Methods DEF IndInv, CtransOK, CtInvs, CtInv
  <2>4. phase = Phase(c, u) /\ phase' = Phase(d, v) BY DEF phase, Phase
  <2>5. up[Met].final = u.final /\ up'[Met].final = v.final OBVIOUS
  <2> HIDE DEF c, u, d, v
  <2>6. CASE d.state = c.state /\ v = u
    <3>1. Phase(d, v) = Phase(c, u) BY <2>2, <2>3, <2>6 DEF Phase
    <3> QED BY <2>4, <2>5, <2>6, <3>1
  <2>7. CASE c.state = "none" /\ d.state \in Pending \cup {"gone"} /\ v = u
    <3>1. phase = "idle" /\ phase' \in {"waiting", "dropped"}
      BY <2>2, <2>3, <2>4, <2>7, PhaseOf DEF CtInv
    <3> QED BY <2>5, <2>7, <3>1 DEF Promise!ANext, Promise!Request
  <2>8. CASE c.state \in Pending /\ d.state = "PROCEEDING" /\ v.prov /\ v.final = u.final
    <3>1. phase \in {"waiting", "ringing"} /\ phase' = "ringing"
      BY <2>2, <2>3, <2>4, <2>8, PhaseOf DEF Pending
    <3> QED BY <2>5, <2>8, <3>1 DEF Promise!ANext, Promise!Progress
  <2>9. CASE c.state \in Pending /\ d.state \in {"COMPLETED", "gone"} /\ v.final \in Finals \ {0}
    <3>1. phase \in {"waiting", "ringing"} /\ phase' = "done"
      BY <2>2, <2>3, <2>4, <2>9, PhaseOf
    <3> QED BY <2>5, <2>9, <3>1 DEF Promise!ANext, Promise!Conclude
  <2>10. CASE c.state = "COMPLETED" /\ d.state = "gone" /\ v = u
    <3>1. phase = "done" /\ phase' = "done"
      BY <2>2, <2>3, <2>4, <2>10, PhaseOf DEF CtInv
    <3> QED BY <2>5, <2>10, <3>1
  <2>11. CASE c.state \in Pending /\ ~u.prov /\ d.state = "gone" /\ v = u
    <3>1. phase = "waiting" /\ phase' = "dropped"
      BY <2>2, <2>3, <2>4, <2>11, PhaseOf DEF CtInv
    <3> QED BY <2>5, <2>11, <3>1 DEF Promise!ANext, Promise!Drop
  <2> QED BY <2>1, <2>6, <2>7, <2>8, <2>9, <2>10, <2>11 DEF Moves
<1> QED BY <1>1, <1>2, Invariant, PTL DEF Spec, KeepsPromise, Promise!ASpec
=============================================================================
