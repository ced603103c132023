--------------------------- MODULE AllReadyReplay ---------------------------
(***************************************************************************)
(* What multi-process replay promises, without workers, semaphore, barrier *)
(* or containers (OPERATIONS.md, "Simulate worker mode"): the manifest is  *)
(* replayed in waves of at most Concurrency sessions; a session of a wave  *)
(* starts only when no session of that wave is still being prepared; the   *)
(* next wave follows when all sessions of the wave are over.               *)
(***************************************************************************)
EXTENDS Integers

CONSTANTS NumSessions, Concurrency

Sessions == 0 .. NumSessions - 1
InWave(k) == {s \in Sessions : s \div Concurrency = k}
LastWave == (NumSessions - 1) \div Concurrency

VARIABLES
  run,    \* "running", "completed" or "failed"
  wave,   \* the current wave
  phase   \* per session: "pending", "ready", "replaying" or "over"

vars == <<run, wave, phase>>

Init ==
  /\ run = "running"
  /\ wave = 0
  /\ phase = [s \in Sessions |-> "pending"]

\* The sessions of S, all of the current wave and in phase `from`, leave it for
\* one of the phases of `to`; no other session moves.
Move(S, from, to) ==
  /\ S # {}
  /\ \A s \in S : s \in InWave(wave) /\ phase[s] = from
  /\ \E f \in [S -> to] :
       phase' = [s \in Sessions |-> IF s \in S THEN f[s] ELSE phase[s]]
  /\ UNCHANGED <<run, wave>>

Prepare(S) == Move(S, "pending", {"ready", "over"})

GiveUp(S) == Move(S, "ready", {"over"})

Begin(S) ==
  /\ \A s \in InWave(wave) : phase[s] # "pending"
  /\ Move(S, "ready", {"replaying"})

End(S) == Move(S, "replaying", {"over"})

WaveIsOver == run = "running" /\ \A s \in InWave(wave) : phase[s] = "over"

Advance ==
  /\ WaveIsOver
  /\ wave < LastWave
  /\ wave' = wave + 1
  /\ UNCHANGED <<run, phase>>

Complete ==
  /\ WaveIsOver
  /\ wave = LastWave
  /\ run' = "completed"
  /\ UNCHANGED <<wave, phase>>

Fail ==
  /\ WaveIsOver
  /\ run' = "failed"
  /\ UNCHANGED <<wave, phase>>

Next ==
  \/ \E S \in SUBSET InWave(wave) : Prepare(S) \/ GiveUp(S) \/ Begin(S) \/ End(S)
  \/ Advance \/ Complete \/ Fail

Safety == Init /\ [][Next]_vars

\* Sessions and waves never stand still.
Progress == WF_vars(Next)

Spec == Safety /\ Progress
=============================================================================
