--------------------------- MODULE MCEncryptStream ---------------------------
(***************************************************************************)
(* EncryptStream on files of up to MaxLen bytes.                           *)
(***************************************************************************)
EXTENDS EncryptStream
=============================================================================
