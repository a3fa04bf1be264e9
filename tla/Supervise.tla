----------------------------- MODULE Supervise -----------------------------
(***************************************************************************)
(* A daemon whose subsystems are supervised independently (runNode and     *)
(* internal/supervise).  A subsystem that fails or panics is restarted     *)
(* after a wait; one that fails for good takes the daemon down, and so     *)
(* does a signal; the process exits once every subsystem has returned.     *)
(* How long a wait is, at most MaxBackoff and half of it as jitter, is     *)
(* left out.                                                               *)
(***************************************************************************)
EXTENDS Naturals, FiniteSets

CONSTANT Subsystem

ASSUME SubsystemAssumption == IsFiniteSet(Subsystem)

\* reporting: has failed for good and is about to send to the failed channel
SubState == {"running", "waiting", "reporting", "done"}

VARIABLES
    daemon,  \* down, up (in its select), or stopping (in wg.Wait)
    sub,     \* subsystem -> where its supervisor is
    failed   \* errors in the failed channel

supervised == <<daemon, sub, failed>>

All(state) == [s \in Subsystem |-> state]

SuperviseInit == daemon = "down" /\ sub = All("done") /\ failed = 0

Launch ==
    /\ daemon = "down"
    /\ daemon' = "up" /\ sub' = All("running") /\ failed' = 0

Become(s, state) == sub' = [sub EXCEPT ![s] = state] /\ UNCHANGED daemon

\* An error or a panic.
Fail(s) ==
    /\ daemon = "up" /\ sub[s] = "running"
    /\ Become(s, "waiting") /\ UNCHANGED failed

Restart(s) ==
    /\ daemon = "up" /\ sub[s] = "waiting"
    /\ Become(s, "running") /\ UNCHANGED failed

FailForGood(s) ==
    /\ daemon = "up" /\ sub[s] = "running"
    /\ Become(s, "reporting") /\ UNCHANGED failed

\* The channel has room for an error of every subsystem.  The mutant is an
\* unbuffered one, which takes an error only while the daemon is in its select.
HasRoomUnbuffered == daemon = "up" /\ failed = 0
HasRoom == failed < Cardinality(Subsystem)

Report(s) ==
    /\ sub[s] = "reporting" /\ HasRoom
    /\ Become(s, "done") /\ failed' = failed + 1

\* Once the context is done, whatever a subsystem returns ends its supervisor.
Return(s) ==
    /\ daemon = "stopping" /\ sub[s] \in {"running", "waiting"}
    /\ Become(s, "done") /\ UNCHANGED failed

Fatal ==
    /\ daemon = "up" /\ failed > 0
    /\ daemon' = "stopping" /\ failed' = failed - 1 /\ UNCHANGED sub

Signal ==
    /\ daemon = "up"
    /\ daemon' = "stopping" /\ UNCHANGED <<sub, failed>>

Exit ==
    /\ daemon = "stopping" /\ sub = All("done")
    /\ daemon' = "down" /\ UNCHANGED <<sub, failed>>

Crash ==
    /\ daemon # "down"
    /\ daemon' = "down" /\ sub' = All("done") /\ failed' = 0

\* The state of the supervisors keeps its type.
SuperviseTypeOK ==
    /\ daemon \in {"down", "up", "stopping"}
    /\ sub \in [Subsystem -> SubState]
    /\ failed \in 0..Cardinality(Subsystem)
=============================================================================
