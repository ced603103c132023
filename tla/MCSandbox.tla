------------------------------ MODULE MCSandbox ------------------------------
(***************************************************************************)
(* Checks Sandbox and, side by side, the watchdog of a command: the two    *)
(* share no state, and a behaviour runs one of them.                       *)
(***************************************************************************)
EXTENDS Sandbox

CONSTANTS Resources, Rates, MaxSamples, Limits, StallMin, StallMax

\* A command's limit is at least a second (agents/openclaw/tools/shell.py:158).
ASSUME WatchAssumption ==
    /\ Rates \subseteq Nat /\ Limits \subseteq Nat \ {0} /\ MaxSamples \in Nat
    /\ StallMin \in Nat /\ StallMax \in Nat

VARIABLES samples, timeout, virtual, stalled, state

watch == <<samples, timeout, virtual, stalled, state>>

T == INSTANCE TimedExec

\* Nothing to watch: the state in which a finished watchdog is.
Unwatched ==
    /\ samples = <<[end |-> 1, rate |-> [r \in Resources |-> 0]]>>
    /\ timeout = 1 /\ virtual = 0 /\ stalled = 0 /\ state = "exited"

MCInit ==
    \/ Init /\ Unwatched
    \/ /\ T!Init
       /\ pc = "down" /\ fixed = "none" /\ image = FALSE /\ cid = FALSE /\ up = FALSE
       /\ known = FALSE /\ failing = FALSE /\ err = FALSE /\ client = "none" /\ probe = 0
       /\ leaked = FALSE /\ inbox = <<>> /\ outbox = <<>> /\ zombies = {}
       /\ call = NoCall /\ reply = NoReply /\ behind = FALSE /\ succeeded = {}
       /\ faults = 0

MCNext ==
    \/ Next /\ UNCHANGED watch
    \/ T!Next /\ UNCHANGED vars

MCSpec ==
    /\ MCInit /\ [][MCNext]_<<vars, watch>>
    /\ Fairness /\ T!Fairness

(* The watchdog kills a command for a cause (openclaw_tools.py:324).       *)
KilledForCause == T!KilledForCause

(* Nothing waits for ever: no caller of execute(), whatever the process     *)
(* does, and no command behind its watchdog (openclaw_tools.py:376).       *)
CallsAndCommandsEnd == CallsReturn /\ T!WatchdogEnds
=============================================================================
