----------------------------- MODULE MCSipTrans -----------------------------
(***************************************************************************)
(* SipTrans for TLC. The timers of the request that is not an INVITE are   *)
(* those of re_sip.h in ticks of 250 ms; those of the INVITE are scaled    *)
(* down, with 64 * SIP_T1 still the longest and Delay below T1.            *)
(***************************************************************************)
EXTENDS SipTrans
=============================================================================
