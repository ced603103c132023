----------------------------- MODULE MCSimulate -----------------------------
(* Three sessions, the middle one on the host, over two source images.     *)
EXTENDS Simulate

CONSTANTS img1, img2

\* Distinct traces, a trace replayed twice, and one whose own id is the id a
\* replica would get.
MCIdChoices == {
  (0 :> <<"a">>) @@ (1 :> <<"b">>) @@ (2 :> <<"c">>),
  (0 :> <<"a">>) @@ (1 :> <<"a", "replica-1">>) @@ (2 :> <<"a">>) }
MCImageChoices == {
  (0 :> img1) @@ (1 :> NoImage) @@ (2 :> img2),
  (0 :> img1) @@ (1 :> NoImage) @@ (2 :> img1),
  (0 :> img1) @@ (1 :> NoImage) @@ (2 :> NoImage) }
MCImages == {img1, img2}
==============================================================================
