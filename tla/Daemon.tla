------------------------------- MODULE Daemon -------------------------------
(***************************************************************************)
(* The daemon that updates itself: Update runs as one subsystem of         *)
(* Supervise.  An installed build ends that subsystem for good, which      *)
(* stops the daemon; the service manager, or the next logon, starts it     *)
(* again from whatever is then in place.                                   *)
(***************************************************************************)
EXTENDS Supervise, Update

CONSTANTS
    Collector,  \* the subsystem that must survive everything else
    Updater,    \* the one that updates
    Doomed,     \* those that can fail for good by themselves
    MaxFaults   \* failures of a pass, of a rename, bad downloads and crashes

ASSUME DaemonAssumption ==
    {Collector, Updater} \cup Doomed \subseteq Subsystem /\ MaxFaults \in Nat

VARIABLE faults

vars == <<supervised, update, faults>>

Init == SuperviseInit /\ UpdateInit /\ faults = 0

Fault == faults < MaxFaults /\ faults' = faults + 1
NoFault == UNCHANGED faults

----------------------------------------------------------------------------
Start == Launch /\ Boot /\ NoFault

\* Supervision proper.  A supervisor in the middle of a pass does not return.
Supervisor ==
    /\ UNCHANGED update
    /\ \/ \E s \in Subsystem \ {Updater} : Fail(s) /\ Fault
       \/ \E s \in Doomed : FailForGood(s) /\ Fault
       \/ \E s \in Subsystem : (Restart(s) \/ Report(s)) /\ NoFault
       \/ \E s \in Subsystem : (s = Updater => pass = "idle") /\ Return(s) /\ NoFault
       \/ Fatal /\ NoFault
       \/ Signal /\ Fault

\* wg.Wait is over: the process ends with no pass under way.
Quit == Exit /\ Halt /\ NoFault

Die == Crash /\ Halt /\ Fault

Updating == sub[Updater] = "running"

\* Install takes no context: it goes on while the daemon stops.  What comes
\* before it ends with the context, and nothing new is begun.
Pass ==
    /\ Updating /\ NoFault /\ UNCHANGED supervised
    /\ \/ /\ daemon = "up"
          /\ Look \/ Fetch(target) \/ \E f \in File : Stage(f, manifest)
       \/ \E f \in File : RenameOver(f) \/ MoveAside(f) \/ CannotMove(f)
       \/ MoveIn \/ Installed

Cancelled ==
    /\ daemon = "stopping" /\ pass \in {"fetching", "staging"}
    /\ NoPass /\ UNCHANGED <<windows, files, build, reported>>
    /\ NoFault /\ UNCHANGED supervised

PassFaults ==
    /\ Updating /\ Fault /\ UNCHANGED supervised
    /\ \/ FailPass \/ MoveBack \/ LeaveAside
       \/ \E m \in Signed \ {target} : Fetch(m)
       \/ \E f \in File : Stage(f, Corrupt)

\* ErrRestartPending, made permanent; while the daemon stops anyway, it is
\* dropped.
RestartPending ==
    /\ pass = "installed" /\ NoFault
    /\ NoPass /\ UNCHANGED <<windows, files, build, reported>>
    /\ FailForGood(Updater) \/ Return(Updater)

NewRelease(n) == PeerReports(Release(n)) /\ NoFault /\ UNCHANGED supervised

Next ==
    \/ Start \/ Supervisor \/ Quit \/ Die
    \/ Pass \/ PassFaults \/ Cancelled \/ RestartPending
    \/ \E n \in 1..Newest : NewRelease(n)

\* Everything runs that can; a daemon that is down is started again at last,
\* by its service manager or at the next logon; some peer gets the release.
Fairness ==
    /\ WF_vars(Start) /\ WF_vars(Quit) /\ WF_vars(NewRelease(Newest))
    /\ WF_vars(Pass) /\ WF_vars(Cancelled) /\ WF_vars(RestartPending)
    /\ \A s \in Subsystem :
        WF_vars(UNCHANGED update /\ NoFault /\ (Restart(s) \/ Report(s)
                    \/ ((s = Updater => pass = "idle") /\ Return(s))))
    /\ WF_vars(UNCHANGED update /\ NoFault /\ Fatal)

Spec == Init /\ [][Next]_vars /\ Fairness

----------------------------------------------------------------------------
(* Properties. *)

\* Every variable keeps its type.
TypeOK == SuperviseTypeOK /\ UpdateTypeOK /\ faults \in 0..MaxFaults

\* The service's binary is never lost: it is in place, or next to its place,
\* whatever fails or crashes and however often the install is tried again
\* (replace, SweepStale).
BinaryKept == at[Service] # Gone \/ aside[Service] # Gone

\* Nothing is ever in place, or kept aside, that a signed manifest does not
\* name (verifyFile).
Verified == \A f \in File : Corrupt \notin {at[f], aside[f]}

\* One bad artifact stops the install of all: from the first file of an install
\* to the restart, every file is replaced or has its verified artifact waiting,
\* whatever failed and was tried again before (stage).
WholeRelease ==
    pass \in {"installing", "moving", "installed"} =>
        \A f \in File : manifest \in {staged[f], at[f]}

\* What is put in place is never older than what runs, except for an image that
\* is moved back; no process runs an older build than the one before it; and an
\* unreleased build is never replaced (Target, the version check of manifest).
Upgrade(old, new) == new = old \/ (old.release /\ new.release /\ Newer(new, old))
MovedBack(f) == at[f] = Gone /\ at'[f] = aside[f]
OnlyUpgrades ==
    [][/\ Upgrade(build, build')
       /\ \A f \in File :
            at'[f] \in {at[f], Gone} \/ Upgrade(build, at'[f]) \/ MovedBack(f)]_vars

\* The newest release gets to where the service runs from, and where the service
\* manager restarts the daemon, the daemon runs it; unless an install that failed
\* leaves the service's binary out of its place, or leaves this process running
\* from the image aside, which no later pass can replace (Updater.Run, runUpdate).
Stranded == at[Service] = Gone
Stuck == at[Service] # Gone /\ Held(Service)
Converged ==
    /\ at[Service] = Release(Newest)
    /\ ~windows => daemon = "up" /\ build = Release(Newest)
Converges == build.release => (<>[]Stranded \/ <>[]Stuck \/ <>[]Converged)

\* Collection survives everything else: its subsystem runs again and again,
\* whatever fails, and a daemon that stops does stop (supervise.Run, runNode).
Collecting == <>[]Stranded \/ []<>(sub[Collector] = "running")
=============================================================================
