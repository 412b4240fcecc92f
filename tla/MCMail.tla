-------------------------------- MODULE MCMail --------------------------------
(***************************************************************************)
(* Model checking of Mail: with and without a password.  Name and password *)
(* have a full group of three bytes and one of one or of two, with the     *)
(* bytes at the edges of the code.  (Every other length: EncodeEncodes and *)
(* DecodeInverts of MailProofs.)                                           *)
(***************************************************************************)
EXTENDS Mail

Name == <<117, 118, 119, 120, 64, 104>> (* "uvwx@h" *)
MCAccounts ==
  {[username |-> Name, password |-> p] : p \in {<<>>, <<251, 239, 190, 255, 0>>}}
=============================================================================
