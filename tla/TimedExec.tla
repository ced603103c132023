------------------------------ MODULE TimedExec ------------------------------
(***************************************************************************)
(* The watchdog of a replayed command inside the container                 *)
(* (_run_shell_command_with_resource_timeout of the script in              *)
(* trace_collect/openclaw_tools.py).  The command's time limit is counted  *)
(* in the time of the source: in each interval the command advances by     *)
(* what it received of the resources that the source used at that point,   *)
(* divided by the source's rate.  A command that receives nothing of what  *)
(* the source used is killed after a while.                                *)
(*                                                                         *)
(* Times are counted in halves of a sampling interval, so that a progress  *)
(* at twice or half the source's rate is a whole number.                   *)
(***************************************************************************)
EXTENDS Integers, Sequences, FiniteSets, FiniteSetsExt

CONSTANTS
    Resources,   \* cpu, rx, tx
    Rates,       \* rates of the source: 0 (below the threshold), 1 or 2
    MaxSamples,  \* bound: samples of the source's timeline
    Limits,      \* the command's time limits, in intervals
    StallMin, StallMax  \* bounds of the time without progress

VARIABLES
    samples,     \* the source's timeline: per sample its end and its rates
    timeout,     \* the command's limit
    virtual,     \* virtual_time_s
    stalled,     \* intervals since the last progress
    state        \* running, exited, timeout or stall

vars == <<samples, timeout, virtual, stalled, state>>

Half == 2
Unreadable == -1

(* _resource_source_samples: the offsets are summed up, samples of no      *)
(* length are left out; without a sample the watchdog is not used at all.  *)
Timelines ==
    UNION {{[i \in 1..n |-> [end |-> i * Half, rate |-> r[i]]] :
            r \in [1..n -> [Resources -> Rates]]} : n \in 1..MaxSamples}

Init ==
    /\ samples \in Timelines
    /\ timeout \in Limits
    /\ virtual = 0 /\ stalled = 0
    /\ state = "running"

SourceEnd == samples[Len(samples)].end

(* _resource_sample_at: the last sample stands for what is after it.      *)
SampleAt(v) ==
    IF v >= SourceEnd THEN samples[Len(samples)]
    ELSE samples[Min({i \in DOMAIN samples : v < samples[i].end})]

Demanded(v) == {r \in Resources : SampleAt(v).rate[r] > 0}

(* _resource_progress_increment: the resource the command got least of,    *)
(* relative to the source, counts; never beyond the end of the sample.     *)
Progress(delta) ==
    LET s == SampleAt(virtual)
        measured == {r \in Demanded(virtual) : delta[r] # Unreadable}
        asked == {(Half * delta[r]) \div s.rate[r] : r \in measured}
        step == IF asked = {} THEN Half ELSE Min(asked)
    IN  IF virtual >= SourceEnd THEN Half
        ELSE Min({step, s.end - virtual})

\* Mutant: the lower bound is forgotten.
StallTimeoutUnbounded == Min({StallMax, timeout})

StallTimeout == Max({StallMin, Min({StallMax, timeout})})

(* communicate() returns within the interval.                              *)
Exit ==
    /\ state = "running"
    /\ state' = "exited"
    /\ UNCHANGED <<samples, timeout, virtual, stalled>>

(* One interval passes: counters are read, the virtual time advances, and  *)
(* the command is killed at its limit or when it stalls.                   *)
Interval(delta) ==
    /\ state = "running"
    /\ LET p == Progress(delta) IN
        /\ virtual' = virtual + p
        /\ stalled' = IF p > 0 THEN 0 ELSE stalled + 1
        /\ state' = IF virtual' >= Half * timeout THEN "timeout"
                    ELSE IF stalled' >= StallTimeout /\ Demanded(virtual') # {}
                         THEN "stall"
                    ELSE "running"
    /\ UNCHANGED <<samples, timeout>>

Deltas == [Resources -> {Unreadable, 0, 1, 2}]

Next == Exit \/ \E delta \in Deltas : Interval(delta)

Fairness == WF_vars(\E delta \in Deltas : Interval(delta))

(* The watchdog ends every command, whatever counters it reads: without    *)
(* demand the virtual time follows the clock, with demand and no progress  *)
(* the stall limit strikes (openclaw_tools.py:376).                        *)
WatchdogEnds == state = "running" ~> state # "running"

(* A command is only taken for stalled while the source used something at  *)
(* that point and all of the stall limit passed without any progress; and  *)
(* its own limit strikes at the interval that reaches it, neither earlier  *)
(* nor later than one sample.                                              *)
KilledForCause ==
    /\ state = "stall" => stalled >= StallMin /\ Demanded(virtual) # {}
    /\ state = "timeout" => virtual \in Half * timeout .. Half * (timeout + 1)
    /\ state = "running" => virtual < Half * timeout
=============================================================================
