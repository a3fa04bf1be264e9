------------------------------- MODULE Update -------------------------------
(***************************************************************************)
(* A node's self-update (internal/update, internal/version): what release  *)
(* it picks, what it verifies, and how the binaries are replaced on a      *)
(* platform where a running image can be overwritten by a rename and on    *)
(* one where it can only be moved aside.                                   *)
(***************************************************************************)
EXTENDS Naturals, FiniteSets

CONSTANTS
    Newest,   \* releases 1..Newest have a signed manifest
    Gone,     \* no file
    Corrupt   \* content no manifest names

ASSUME NewestAssumption == Newest \in Nat \ {0}

\* What a build calls itself: a release, or anything else.
Version == [release : BOOLEAN, number : Nat]
Release(n) == [release |-> TRUE, number |-> n]
Dev == [release |-> FALSE, number |-> 0]
Signed == {Release(n) : n \in 1..Newest}
Content == Version \cup {Gone, Corrupt}

ASSUME ContentAssumption == Gone \notin Version /\ Corrupt \notin Version /\ Gone # Corrupt

\* idle:        between two passes
\* fetching, staging:  before the manifest, before the last artifact
\* installing:  between two files
\* moving:      the image of `file` is aside, the new one not yet in place
\* installed:   the pass is over and a restart is pending
PassState == {"idle", "fetching", "staging", "installing", "moving", "installed"}

VARIABLES
    windows,   \* the platform
    at,        \* file -> what is at its path
    aside,     \* file -> what is at its path with the stale suffix
    build,     \* what the last process ran
    mapped,    \* where the image it runs from is: at, aside or nowhere
    reported,  \* builds the peers said they run
    pass,      \* where the update pass is
    target,    \* the release it wants
    manifest,  \* the release its manifest names
    staged,    \* file -> what has been downloaded and verified for it
    file       \* the file being replaced

files == <<at, aside, mapped>>
attempt == <<pass, target, manifest, staged, file>>
update == <<windows, files, build, reported, attempt>>

\* The service runs the windowless twin where there is one.
File == IF windows THEN {"console", "windowless"} ELSE {"console"}
Service == IF windows THEN "windowless" ELSE "console"

NoPass ==
    /\ pass' = "idle" /\ target' = Dev /\ manifest' = Dev
    /\ staged' = [f \in File |-> Gone] /\ file' = Service

UpdateInit ==
    /\ windows \in BOOLEAN
    /\ build \in {Dev} \cup {Release(n) : n \in 1..(Newest - 1)}
    /\ at = [f \in File |-> build] /\ aside = [f \in File |-> Gone]
    /\ mapped = "nowhere"
    /\ reported = {Dev, Release(1)}
    /\ pass = "idle" /\ target = Dev /\ manifest = Dev
    /\ staged = [f \in File |-> Gone] /\ file = Service

\* Mutants: any release is worth having; whatever is signed is what was asked
\* for; an artifact is taken as it came; an image is deleted while it runs.
NewerOrOlder(v, w) == v.release /\ v # w
NamesAny(m, want) == TRUE
VerifiesAnything(content, m) == TRUE
HeldNever(f) == FALSE

\* Compare = OrderNewer.
Newer(v, w) == v.release /\ (~w.release \/ v.number > w.number)

\* An unreleased build neither is a target nor has one.
Targets ==
    {v \in reported : /\ build.release /\ v.release /\ Newer(v, build)
                      /\ \A u \in reported : ~Newer(u, v)}

PeerReports(v) ==
    /\ reported' = reported \cup {v}
    /\ UNCHANGED <<windows, files, build, attempt>>

Look ==
    /\ pass = "idle"
    /\ \E v \in Targets : target' = v
    /\ pass' = "fetching"
    /\ UNCHANGED <<windows, files, build, reported, manifest, staged, file>>

Names(m, want) == m = want

\* The place releases are fetched from may serve the manifest of another one.
Fetch(m) ==
    /\ pass = "fetching" /\ Names(m, target)
    /\ pass' = "staging" /\ manifest' = m
    /\ UNCHANGED <<windows, files, build, reported, target, staged, file>>

Verifies(content, m) == content = m

\* The mutant begins to install with the first artifact it has.
StageEager(f, content) ==
    /\ pass = "staging" /\ staged[f] = Gone
    /\ Verifies(content, manifest)
    /\ staged' = [staged EXCEPT ![f] = content] /\ pass' = "installing"
    /\ UNCHANGED <<windows, files, build, reported, target, manifest, file>>
Stage(f, content) ==
    /\ pass = "staging" /\ staged[f] = Gone
    /\ Verifies(content, manifest)
    /\ staged' = [staged EXCEPT ![f] = content]
    /\ pass' = IF \E g \in File \ {f} : staged[g] = Gone THEN "staging" ELSE "installing"
    /\ UNCHANGED <<windows, files, build, reported, target, manifest, file>>

\* Any error of a pass is left for the next one.
FailPass ==
    /\ pass \in {"fetching", "staging", "installing"}
    /\ NoPass
    /\ UNCHANGED <<windows, files, build, reported>>

\* Files are replaced in any order.
Replaced(f) == staged' = [staged EXCEPT ![f] = Gone] /\ pass' = "installing"

RenameOver(f) ==
    /\ ~windows /\ pass = "installing" /\ staged[f] # Gone
    /\ at' = [at EXCEPT ![f] = staged[f]]
    /\ Replaced(f)
    /\ UNCHANGED <<windows, aside, mapped, build, reported, target, manifest, file>>

\* The stale image is what this process runs from: it can be neither deleted
\* nor replaced.
Held(f) == f = Service /\ mapped = "aside"
Removed(f) == IF Held(f) THEN aside[f] ELSE Gone

MoveAside(f) ==
    /\ windows /\ pass = "installing" /\ staged[f] # Gone
    /\ IF at[f] = Gone
       THEN /\ aside' = [aside EXCEPT ![f] = Removed(f)]
            /\ UNCHANGED <<at, mapped>>
       ELSE /\ ~Held(f)
            /\ aside' = [aside EXCEPT ![f] = at[f]] /\ at' = [at EXCEPT ![f] = Gone]
            /\ mapped' = IF f = Service /\ mapped = "at" THEN "aside" ELSE mapped
    /\ pass' = "moving" /\ file' = f
    /\ UNCHANGED <<windows, build, reported, target, manifest, staged>>

\* With the running image aside already, the one in place cannot be moved: this
\* pass, and each that follows in this process, fails here.
CannotMove(f) ==
    /\ windows /\ pass = "installing" /\ staged[f] # Gone
    /\ at[f] # Gone /\ Held(f)
    /\ NoPass
    /\ UNCHANGED <<windows, files, build, reported>>

MoveIn ==
    /\ pass = "moving"
    /\ at' = [at EXCEPT ![file] = staged[file]]
    /\ aside' = [aside EXCEPT ![file] = Removed(file)]
    /\ Replaced(file)
    /\ UNCHANGED <<windows, mapped, build, reported, target, manifest, file>>

\* The new image cannot be moved in, and the old one can be moved back or not.
MoveBack ==
    /\ pass = "moving" /\ aside[file] # Gone
    /\ at' = [at EXCEPT ![file] = aside[file]]
    /\ aside' = [aside EXCEPT ![file] = Gone]
    /\ mapped' = IF Held(file) THEN "at" ELSE mapped
    /\ NoPass /\ UNCHANGED <<windows, build, reported>>

LeaveAside ==
    /\ pass = "moving"
    /\ NoPass /\ UNCHANGED <<windows, files, build, reported>>

\* The mutant forgets that the new build has to be run.
InstalledQuietly ==
    /\ pass = "installing" /\ \A f \in File : staged[f] = Gone
    /\ NoPass /\ UNCHANGED <<windows, files, build, reported>>
Installed ==
    /\ pass = "installing" /\ \A f \in File : staged[f] = Gone
    /\ pass' = "installed"
    /\ UNCHANGED <<windows, files, build, reported, target, manifest, staged, file>>

\* A process starts from the service's file, and sweeps what is stale.  The
\* mutant does not ask whether the file is there.
BootMissing ==
    /\ build' = at[Service]
    /\ mapped' = "at" /\ aside' = [f \in File |-> Gone]
    /\ NoPass /\ UNCHANGED <<windows, at, reported>>
Boot ==
    /\ at[Service] # Gone
    /\ build' = at[Service]
    /\ mapped' = "at" /\ aside' = [f \in File |-> Gone]
    /\ NoPass /\ UNCHANGED <<windows, at, reported>>

Halt ==
    /\ mapped' = "nowhere" /\ NoPass
    /\ UNCHANGED <<windows, at, aside, build, reported>>

\* The state of the updater keeps its type.
UpdateTypeOK ==
    /\ windows \in BOOLEAN
    /\ at \in [File -> Content] /\ aside \in [File -> Content]
    /\ build \in Version /\ mapped \in {"at", "aside", "nowhere"}
    /\ reported \subseteq Signed \cup {Dev}
    /\ pass \in PassState /\ target \in Version /\ manifest \in Version
    /\ staged \in [File -> Content] /\ file \in File
=============================================================================
