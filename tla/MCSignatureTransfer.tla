------------------------ MODULE MCSignatureTransfer ------------------------
(***************************************************************************)
(* One phone, whose page sends twice; the desktop polls and acknowledges   *)
(* as often as the relay allows.                                           *)
(***************************************************************************)
EXTENDS SignatureTransfer
=============================================================================
