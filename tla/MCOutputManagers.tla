-------------------------- MODULE MCOutputManagers --------------------------
(***************************************************************************)
(* Up to three results with up to three errors each: an error first, last  *)
(* and in between, and results before and after an invalid one.            *)
(***************************************************************************)
EXTENDS OutputManagers
=============================================================================
