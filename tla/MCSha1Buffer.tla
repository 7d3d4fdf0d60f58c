----------------------------- MODULE MCSha1Buffer -----------------------------
(***************************************************************************)
(* An instance of Sha1Buffer for TLC.  A word of 32 wraps around every 4   *)
(* bytes, and the two words together after 128 bytes.                      *)
(***************************************************************************)
EXTENDS Sha1Buffer

SomeLengths == {1, 3}
=============================================================================
