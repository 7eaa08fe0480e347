---------------------------- MODULE MCLinkBuffer ----------------------------
(***************************************************************************)
(* LinkBuffer on an array of 9 cells with headers of 2 bytes: a bare       *)
(* header, a frame of 5 bytes that meets the end of the array on its       *)
(* second use, and one of 10 bytes that is larger than the array.          *)
(***************************************************************************)
EXTENDS LinkBuffer

MCBodyLens == {0, 3, 8}
=============================================================================
