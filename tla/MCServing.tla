------------------------------ MODULE MCServing ------------------------------
(***************************************************************************)
(* Instances of Serving for TLC.                                           *)
(***************************************************************************)
EXTENDS Serving

docs == <<"/", "d">>
docsSlash == <<"/", "d", "/">>
docsApi == <<"/", "d", "/", "a">>
docsx == <<"/", "d", "x">>

\* Rules that overlap: equal and different priorities, with and without a slash.
MCRules == {[path |-> docs, priority |-> 0, target |-> "t1"],
            [path |-> docsApi, priority |-> 1, target |-> "t2"],
            [path |-> docsSlash, priority |-> 1, target |-> "t3"]}

MCUrls == {docsApi, docsx}
=============================================================================
