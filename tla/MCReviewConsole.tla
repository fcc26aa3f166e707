-------------------------- MODULE MCReviewConsole --------------------------
(***************************************************************************)
(* A small instance of ReviewConsole: the first export has nothing but a   *)
(* Bulk path, the second has one file, which the files of the Bulk path    *)
(* make two pages of.                                                      *)
(***************************************************************************)
EXTENDS ReviewConsole

MCCoreFiles == <<0, 1>>
=============================================================================
