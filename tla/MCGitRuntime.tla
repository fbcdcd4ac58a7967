---------------------------- MODULE MCGitRuntime ----------------------------
(* Counts up to one more than the maximum, requests of one and two, and a   *)
(* manifest without a count.                                                *)
EXTENDS GitRuntime

MCContents == {0, 2, None}
MCOtherContents == {1, 4, None}
=============================================================================
