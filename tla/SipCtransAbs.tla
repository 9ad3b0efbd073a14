---------------------------- MODULE SipCtransAbs ----------------------------
(***************************************************************************)
(* What a client transaction promises the layer above it (request.c): any  *)
(* number of provisional responses, then one outcome and nothing after it. *)
(* Before the first provisional response the transaction may be dropped    *)
(* without an outcome; after it, it may not.                               *)
(***************************************************************************)
CONSTANT Outcomes  \* a final status code or an error

VARIABLES phase, outcome

avars == <<phase, outcome>>

None == 0

AInit == phase = "idle" /\ outcome = None

Request == phase = "idle" /\ phase' \in {"waiting", "dropped"} /\ UNCHANGED outcome

Progress == phase \in {"waiting", "ringing"} /\ phase' = "ringing" /\ UNCHANGED outcome

Conclude ==
    /\ phase \in {"waiting", "ringing"}
    /\ phase' = "done"
    /\ outcome' \in Outcomes

Drop == phase = "waiting" /\ phase' = "dropped" /\ UNCHANGED outcome

ANext == Request \/ Progress \/ Conclude \/ Drop

ASpec == AInit /\ [][ANext]_avars
=============================================================================
