----------------------------- MODULE MCCollectRun -----------------------------
(* Task lists for TLC: an instance that is asked for twice, one on the host. *)
EXTENDS CollectRun

CONSTANTS a, b, c, A, B, none

MCImages == {A, B}
MCImageName == [x \in {a, b, c} |-> CASE x = a -> A [] x = b -> B [] x = c -> none]
MCTaskLists == {<<a, b, a>>, <<a, c, b>>}
=============================================================================
