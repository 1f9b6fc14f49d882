----------------------------- MODULE MCMsgQueue -----------------------------
(***************************************************************************)
(* Two-valued bytes, so that a size and a sequence number need more than   *)
(* one of them.  Messages take 7 and 9 of the 32 bytes: two short ones and *)
(* a long one leave 8, in which Add refuses a short one although it would  *)
(* fit; headers and data wrap at every position.                           *)
(***************************************************************************)
EXTENDS MsgQueue

MCPayload == {<<1>>, <<1, 0, 1>>}
=============================================================================
