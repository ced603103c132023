---------------------------- MODULE MCReplayWave ----------------------------
(***************************************************************************)
(* ReplayWave for TLC, with the mapping that shows it implements           *)
(* AllReadyReplay.                                                         *)
(***************************************************************************)
EXTENDS ReplayWave

\* The worker of the current wave that session s belongs to.
OwnerIn(k, s) == CHOOSE w \in WaveWorkers(k) : s \in Chunk(k, w)

\* The worker of the session has given the start up, or failed before it got
\* that far: the session is not going to be replayed any more.
GaveUp == {"aborting", "signalling", "finalizing", "failed"}
Abandoned(s) == s \in WaveSessions(wave) /\ pc[OwnerIn(wave, s)] \in GaveUp

PhaseOf(s) ==
  IF sess[s] = "replaying" THEN "replaying"
  ELSE IF sess[s] \in {"failed", "raised", "replayed", "broken"} \/ Abandoned(s) THEN "over"
  ELSE IF sess[s] = "ready" THEN "ready" ELSE "pending"

AllReady == INSTANCE AllReadyReplay WITH phase <- [s \in Sessions |-> PhaseOf(s)]

\* The workers, their barrier, event and semaphore implement the all-ready
\* replay: every step of any process is a step of the abstract specification
\* or changes nothing there, and unless a worker is lost while it loads its
\* traces, the run cannot stand still.
ImplementsAllReadyReplay ==
  /\ AllReady!Safety
  /\ <>LostAtLoad \/ AllReady!Progress
=============================================================================
