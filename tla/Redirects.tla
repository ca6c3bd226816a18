------------------------------ MODULE Redirects ------------------------------
(***************************************************************************)
(* The redirects a data node may serve.  The entry that the handler makes  *)
(* of a redirect is named by the redirect.                                 *)
(***************************************************************************)
EXTENDS Naturals, Sequences, SequencesExt

CONSTANT Requests
=============================================================================
