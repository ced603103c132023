-------------------------- MODULE MCReplaySession --------------------------
(* The traces TLC replays: one write each to one of two files.             *)
EXTENDS ReplaySession, TLC

CONSTANTS p, q, x

Write(lane, path, content) ==
  [lane |-> lane, kind |-> "tool", ok |-> TRUE, writes |-> path :> content]
Plain(lane, kind, ok) == [lane |-> lane, kind |-> kind, ok |-> ok, writes |-> NoWrite]

MCImage == p :> Absent @@ q :> x
MCSourceActions ==
  {Write(FALSE, p, x), Write(FALSE, q, Absent), Write(TRUE, p, x), Write(TRUE, p, Absent),
   Plain(FALSE, "tool", FALSE), Plain(FALSE, "llm", TRUE), Plain(FALSE, "skipped", TRUE),
   Plain(TRUE, "traced", TRUE), Plain(FALSE, "traced", FALSE),
   Plain(FALSE, "artifact", TRUE)}
=============================================================================
