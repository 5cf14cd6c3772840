------------------------------- MODULE MCMedia -------------------------------
(***************************************************************************)
(* Instances of Media for TLC.                                              *)
(***************************************************************************)
EXTENDS Media, TLC

Mixture ==
    [names : {{"upload", "create", "delete", "clean"}},
     things : {{"post"}, {"status"}, {"report"}, {"listing"}}]
    \cup
    [names : {{"upload", "create", "add", "clean"}}, things : {{"listing"}}]
    \cup
    [names : {{"upload", "create", "edit", "clean"}}, things : {{"post"}}]
    \cup
    [names : {{"upload", "create", "attach", "clean"}}, things : {{"listing", "elsewhere"}}]
    \cup
    [names : {{"upload", "attach", "delete", "clean"}}, things : {{"elsewhere"}}]
    \cup
    [names : {{"upload", "delete", "offer", "clean"}}, things : {{"elsewhere"}}]
===========================================================================
