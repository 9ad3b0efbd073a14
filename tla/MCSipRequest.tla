---------------------------- MODULE MCSipRequest ----------------------------
(***************************************************************************)
(* SipRequest for TLC: one request with the whole look-up, or a few with a *)
(* short one whose users interfere while the stack closes.                 *)
(***************************************************************************)
EXTENDS SipRequest

LOCAL INSTANCE TLC

\* The safety properties of the closing stack do not tell the requests apart.
ReqSymmetry == Permutations(Reqs)
=============================================================================
