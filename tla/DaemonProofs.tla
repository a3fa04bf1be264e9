---------------------------- MODULE DaemonProofs ----------------------------
(* What the self-update promises for any number of releases, subsystems    *)
(* and failures, on both platforms.                                        *)
EXTENDS Daemon, FiniteSetTheorems, TLAPS

Image == Version \cup {Gone}

\* What runs, and what may be run next.
Suits(v) == v = Gone \/ Upgrade(build, v)

\* The files hold released builds or nothing, and the process runs from an
\* image that exists.
Placed ==
    /\ windows \in BOOLEAN
    /\ at \in [File -> Image] /\ aside \in [File -> Image]
    /\ build \in Version /\ mapped \in {"at", "aside", "nowhere"}
    /\ Suits(at[Service]) /\ Suits(aside[Service])
    /\ mapped = "at" => at[Service] # Gone
    /\ mapped = "aside" => aside[Service] # Gone
    /\ BinaryKept

\* A pass installs what its manifest names, the manifest names its target, and
\* the target is newer than what runs.
Aimed ==
    /\ reported \subseteq Signed \cup {Dev}
    /\ pass \in PassState /\ target \in Version /\ manifest \in Version
    /\ file \in File /\ staged \in [File -> {Gone, manifest}]
    /\ pass # "idle" => build.release /\ target.release /\ Newer(target, build)
    /\ pass \notin {"idle", "fetching"} => manifest = target
    /\ pass \in {"idle", "fetching"} => \A f \in File : staged[f] = Gone
    /\ pass = "moving" => staged[file] # Gone /\ at[file] = Gone

\* A process that is up runs from somewhere, one that is down runs nothing.
Alive ==
    /\ SuperviseTypeOK /\ faults \in 0..MaxFaults
    /\ daemon # "down" => mapped # "nowhere"
    /\ daemon = "down" => sub = All("done")

Inductive == Placed /\ Aimed /\ Alive

\* What OnlyUpgrades says of a step.
Climbs ==
    /\ Upgrade(build, build')
    /\ \A f \in File : at'[f] \in {at[f], Gone} \/ Upgrade(build, at'[f]) \/ MovedBack(f)

----------------------------------------------------------------------------
LEMMA ReleaseVersion == \A n \in Nat : Release(n) \in Version
<1>1. TRUE \in BOOLEAN
  OBVIOUS
<1> QED BY <1>1, Zenon DEF Release, Version

LEMMA DevVersion == Dev \in Version /\ ~Dev.release
<1>1. FALSE \in BOOLEAN /\ 0 \in Nat
  OBVIOUS
<1>2. Dev \in Version
  BY <1>1, Zenon DEF Dev, Version
<1>3. ~Dev.release
  BY DEF Dev
<1> QED BY <1>2, <1>3

LEMMA SignedVersions == Signed \subseteq Version
<1>1. \A n \in 1..Newest : n \in Nat
  OBVIOUS
<1> QED BY <1>1, ReleaseVersion DEF Signed

LEMMA ServiceFile ==
    ASSUME windows \in BOOLEAN
    PROVE  Service \in File
  BY DEF Service, File

LEMMA SubsystemCount == Cardinality(Subsystem) \in Nat
  BY SubsystemAssumption, FS_CardinalityType

\* Steps that leave every image where it is.
LEMMA PlacedStays ==
    ASSUME Placed, UNCHANGED <<windows, files, build>>
    PROVE  Placed' /\ Climbs
<1>1. UNCHANGED <<windows, at, aside, mapped, build>>
  BY DEF files
<1> QED BY <1>1
        DEF Placed, File, Service, Suits, Upgrade, Newer, BinaryKept, Climbs

\* A pass that is over leaves nothing to the next.
LEMMA PassOver ==
    ASSUME Placed, Aimed, NoPass, UNCHANGED <<windows, reported>>
    PROVE  Aimed'
<1>1. File' = File /\ Service \in File
  BY ServiceFile DEF File, Placed
<1>2. /\ pass' = "idle" /\ target' = Dev /\ manifest' = Dev
      /\ staged' = [f \in File |-> Gone] /\ file' = Service
  BY DEF NoPass
<1>3. file' \in File' /\ staged' \in [File' -> {Gone, manifest'}]
  BY <1>1, <1>2
<1>4. \A f \in File' : staged'[f] = Gone
  BY <1>1, <1>2
<1> QED BY <1>2, <1>3, <1>4, DevVersion DEF Aimed, PassState

LEMMA InitInductive == Init => Inductive
<1> SUFFICES ASSUME Init PROVE Inductive
  OBVIOUS
<1>1. /\ windows \in BOOLEAN /\ at = [f \in File |-> build] /\ aside = [f \in File |-> Gone]
      /\ mapped = "nowhere" /\ pass = "idle" /\ target = Dev /\ manifest = Dev
      /\ staged = [f \in File |-> Gone] /\ file = Service
      /\ reported = {Dev, Release(1)}
      /\ daemon = "down" /\ sub = All("done") /\ failed = 0 /\ faults = 0
  BY DEF Init, UpdateInit, SuperviseInit
<1>2. build \in Version
  <2>1. \A n \in 1..(Newest - 1) : n \in Nat
    OBVIOUS
  <2> QED BY <2>1, DevVersion, ReleaseVersion DEF Init, UpdateInit
<1>3. Service \in File
  BY <1>1, ServiceFile
<1>4. Placed
  BY <1>1, <1>2, <1>3, ContentAssumption DEF Placed, Image, Suits, Upgrade, BinaryKept
<1>5. Aimed
  <2>1. Release(1) \in Signed
    BY NewestAssumption DEF Signed
  <2> QED BY <1>1, <1>3, <2>1, DevVersion DEF Aimed, PassState
<1>6. Alive
  BY <1>1, SubsystemCount, DaemonAssumption DEF Alive, SuperviseTypeOK, SubState, All
<1> QED BY <1>4, <1>5, <1>6 DEF Inductive

----------------------------------------------------------------------------
(* The pass. *)

LEMMA LookAimed ==
    ASSUME Placed, Aimed, Look
    PROVE  Placed' /\ Climbs /\ Aimed'
<1>1. /\ pass = "idle" /\ pass' = "fetching"
      /\ UNCHANGED <<windows, files, build, reported, manifest, staged, file>>
  BY DEF Look
<1>2. PICK v \in Targets : target' = v
  BY DEF Look
<1>3. v \in Version /\ build.release /\ v.release /\ Newer(v, build)
  BY SignedVersions, DevVersion DEF Targets, Aimed
<1>4. Aimed'
  BY <1>1, <1>2, <1>3 DEF Aimed, PassState, File, Newer
<1> QED BY <1>1, <1>4, PlacedStays

LEMMA FetchAimed ==
    ASSUME Placed, Aimed, NEW m, Fetch(m)
    PROVE  Placed' /\ Climbs /\ Aimed'
<1>1. /\ pass = "fetching" /\ pass' = "staging" /\ manifest' = m /\ m = target
      /\ UNCHANGED <<windows, files, build, reported, target, staged, file>>
  BY DEF Fetch, Names
<1>2. staged' \in [File' -> {Gone, manifest'}]
  BY <1>1 DEF Aimed, File
<1>3. Aimed'
  BY <1>1, <1>2 DEF Aimed, PassState, File, Newer
<1> QED BY <1>1, <1>3, PlacedStays

\* Content that the manifest does not name is never staged.
LEMMA StageAimed ==
    ASSUME Placed, Aimed, NEW f \in File, NEW content, Stage(f, content)
    PROVE  Placed' /\ Climbs /\ Aimed'
<1>1. /\ pass = "staging" /\ pass' \in {"staging", "installing"} /\ content = manifest
      /\ staged' = [staged EXCEPT ![f] = content]
      /\ UNCHANGED <<windows, files, build, reported, target, manifest, file>>
  BY DEF Stage, Verifies
<1>2. staged' \in [File' -> {Gone, manifest'}]
  BY <1>1 DEF Aimed, File
<1>3. Aimed'
  BY <1>1, <1>2 DEF Aimed, PassState, File, Newer
<1> QED BY <1>1, <1>3, PlacedStays

\* Steps of an install that are not over with it: what is staged is used up, or
\* the next file begun.
LEMMA InstallGoesOn ==
    ASSUME Aimed, pass \in {"installing", "moving"},
           NEW f \in File, staged[f] # Gone,
           \/ Replaced(f) /\ file' = file
           \/ pass' = "moving" /\ file' = f /\ staged' = staged /\ at'[f] = Gone,
           UNCHANGED <<windows, build, reported, target, manifest>>
    PROVE  Aimed'
<1>1. staged' \in [File' -> {Gone, manifest'}] /\ file' \in File'
  BY DEF Aimed, Replaced, File
<1> QED BY <1>1 DEF Aimed, PassState, File, Newer, Replaced

\* An image that a pass puts in place.
LEMMA StagedImage ==
    ASSUME Placed, Aimed, pass \notin {"idle", "fetching"}, NEW f \in File, staged[f] # Gone
    PROVE  staged[f] = target /\ staged[f] \in Version /\ Upgrade(build, staged[f])
<1>1. staged[f] = manifest /\ manifest = target
  BY DEF Aimed
<1> QED BY <1>1 DEF Aimed, Upgrade

LEMMA RenameOverPlaced ==
    ASSUME Placed, Aimed, NEW f \in File, RenameOver(f)
    PROVE  Placed' /\ Climbs /\ Aimed' /\ mapped' = mapped
<1>1. /\ pass = "installing" /\ staged[f] # Gone
      /\ at' = [at EXCEPT ![f] = staged[f]] /\ Replaced(f)
      /\ UNCHANGED <<windows, aside, mapped, build, reported, target, manifest, file>>
  BY DEF RenameOver
<1>2. staged[f] \in Version /\ Upgrade(build, staged[f]) /\ staged[f] # Gone
  BY <1>1, StagedImage
<1>3. /\ at' \in [File -> Image] /\ File' = File /\ Service' = Service
      /\ \A g \in File : at'[g] = IF g = f THEN staged[f] ELSE at[g]
  BY <1>1, <1>2 DEF Placed, Image, File, Service
<1>4. Service \in File
  BY ServiceFile DEF Placed
<1>5. Placed'
  BY <1>1, <1>2, <1>3, <1>4 DEF Placed, Suits, Upgrade, Newer, BinaryKept
<1>6. Climbs
  BY <1>1, <1>2, <1>3 DEF Climbs, Upgrade
<1>7. Aimed'
  BY <1>1, InstallGoesOn
<1> QED BY <1>1, <1>5, <1>6, <1>7

\* Windows: an image is never removed before another one of the service is in
\* place, for what cannot be held is not what the process runs from.
LEMMA MoveAsidePlaced ==
    ASSUME Placed, Aimed, mapped # "nowhere", NEW f \in File, MoveAside(f)
    PROVE  Placed' /\ Climbs /\ Aimed' /\ mapped' # "nowhere"
<1>1. /\ pass = "installing" /\ staged[f] # Gone /\ pass' = "moving" /\ file' = f
      /\ UNCHANGED <<windows, build, reported, target, manifest, staged>>
  BY DEF MoveAside
<1>2. File' = File /\ Service' = Service /\ Service \in File
  BY <1>1, ServiceFile DEF Placed, File, Service
<1>3. Aimed'
  <2>1. at'[f] = Gone
    BY DEF MoveAside, Placed
  <2> QED BY <1>1, <2>1, InstallGoesOn
<1>4. CASE at[f] = Gone
  <2>1. aside' = [aside EXCEPT ![f] = Removed(f)] /\ at' = at /\ mapped' = mapped
    BY <1>4 DEF MoveAside
  <2>2. Removed(f) \in Image /\ Removed(f) \in {aside[f], Gone}
    BY DEF Removed, Placed, Image
  <2>3. /\ aside' \in [File -> Image]
        /\ \A g \in File : aside'[g] = IF g = f THEN Removed(f) ELSE aside[g]
    BY <2>1, <2>2 DEF Placed
  <2>4. f = Service => mapped = "aside" /\ aside'[Service] = aside[Service]
    BY <1>2, <1>4, <2>3 DEF Placed, Removed, Held
  <2>5. aside'[Service] = aside[Service]
    BY <1>2, <2>3, <2>4
  <2>6. Placed'
    BY <1>1, <1>2, <2>1, <2>3, <2>5 DEF Placed, Suits, Upgrade, Newer, BinaryKept
  <2>7. Climbs
    BY <1>1, <2>1 DEF Climbs, Upgrade
  <2> QED BY <1>3, <2>1, <2>6, <2>7
<1>5. CASE at[f] # Gone
  <2>1. /\ ~Held(f)
        /\ aside' = [aside EXCEPT ![f] = at[f]] /\ at' = [at EXCEPT ![f] = Gone]
        /\ mapped' = IF f = Service /\ mapped = "at" THEN "aside" ELSE mapped
    BY <1>5 DEF MoveAside
  <2>2. /\ aside' \in [File -> Image] /\ at' \in [File -> Image]
        /\ \A g \in File : /\ aside'[g] = IF g = f THEN at[f] ELSE aside[g]
                           /\ at'[g] = IF g = f THEN Gone ELSE at[g]
    BY <2>1 DEF Placed, Image
  <2>3. mapped' \in {"at", "aside"} /\ (f = Service => mapped' = "aside")
    BY <2>1 DEF Placed, Held
  <2>4. f # Service => mapped' = mapped
    BY <2>1
  <2>5. Placed'
    BY <1>1, <1>2, <1>5, <2>2, <2>3, <2>4 DEF Placed, Suits, Upgrade, Newer, BinaryKept
  <2>6. Climbs
    BY <1>1, <2>2 DEF Climbs, Upgrade
  <2> QED BY <1>3, <2>3, <2>5, <2>6
<1> QED BY <1>4, <1>5

LEMMA MoveInPlaced ==
    ASSUME Placed, Aimed, MoveIn
    PROVE  Placed' /\ Climbs /\ Aimed' /\ mapped' = mapped
<1>1. /\ pass = "moving" /\ Replaced(file)
      /\ at' = [at EXCEPT ![file] = staged[file]]
      /\ aside' = [aside EXCEPT ![file] = Removed(file)]
      /\ UNCHANGED <<windows, mapped, build, reported, target, manifest, file>>
  BY DEF MoveIn
<1>2. File' = File /\ Service' = Service /\ Service \in File /\ file \in File
  BY <1>1, ServiceFile DEF Placed, Aimed, File, Service
<1>3. staged[file] # Gone /\ staged[file] \in Version /\ Upgrade(build, staged[file])
  BY <1>1, <1>2, StagedImage DEF Aimed
<1>4. Removed(file) \in {aside[file], Gone} /\ (Held(file) => Removed(file) = aside[file])
  BY DEF Removed
<1>5. /\ at' \in [File -> Image] /\ aside' \in [File -> Image]
      /\ \A g \in File : /\ at'[g] = IF g = file THEN staged[file] ELSE at[g]
                         /\ aside'[g] = IF g = file THEN Removed(file) ELSE aside[g]
  BY <1>1, <1>2, <1>3, <1>4 DEF Placed, Image
<1>6. mapped = "aside" => aside'[Service] = aside[Service]
  BY <1>2, <1>4, <1>5 DEF Held
<1>7. aside'[Service] \in {aside[Service], Gone} /\ at'[Service] \in {at[Service], staged[file]}
  BY <1>2, <1>4, <1>5
<1>8. at'[Service] # Gone \/ (at'[Service] = at[Service] /\ aside'[Service] = aside[Service])
  BY <1>2, <1>3, <1>5
<1>9. Placed'
  BY <1>1, <1>2, <1>3, <1>5, <1>6, <1>7, <1>8 DEF Placed, Suits, Upgrade, Newer, BinaryKept
<1>10. Climbs
  BY <1>1, <1>3, <1>5 DEF Climbs, Upgrade
<1>11. Aimed'
  BY <1>1, <1>2, <1>3, InstallGoesOn
<1> QED BY <1>1, <1>9, <1>10, <1>11

\* The image that is moved back is the one that was there.
LEMMA MoveBackPlaced ==
    ASSUME Placed, Aimed, MoveBack
    PROVE  Placed' /\ Climbs /\ Aimed' /\ (mapped # "nowhere" => mapped' # "nowhere")
<1>1. /\ pass = "moving" /\ aside[file] # Gone /\ NoPass
      /\ at' = [at EXCEPT ![file] = aside[file]] /\ aside' = [aside EXCEPT ![file] = Gone]
      /\ mapped' = (IF Held(file) THEN "at" ELSE mapped)
      /\ UNCHANGED <<windows, build, reported>>
  BY DEF MoveBack
<1>2. File' = File /\ Service' = Service /\ Service \in File /\ file \in File
  BY <1>1, ServiceFile DEF Placed, Aimed, File, Service
<1>3. /\ at' \in [File -> Image] /\ aside' \in [File -> Image]
      /\ \A g \in File : /\ at'[g] = IF g = file THEN aside[file] ELSE at[g]
                         /\ aside'[g] = IF g = file THEN Gone ELSE aside[g]
  BY <1>1, <1>2 DEF Placed, Image
<1>4. /\ mapped' \in {"at", "aside", "nowhere"} /\ (mapped # "nowhere" => mapped' # "nowhere")
      /\ mapped' = "aside" => mapped = "aside" /\ file # Service
      /\ mapped' = "at" => mapped = "at" \/ file = Service
  BY <1>1 DEF Placed, Held
<1>5. Placed'
  BY <1>1, <1>2, <1>3, <1>4 DEF Placed, Suits, Upgrade, Newer, BinaryKept
<1>6. Climbs
  <2>1. at[file] = Gone
    BY <1>1 DEF Aimed
  <2> QED BY <1>1, <1>3, <2>1 DEF Climbs, Upgrade, MovedBack
<1>7. Aimed'
  BY <1>1, PassOver
<1> QED BY <1>4, <1>5, <1>6, <1>7

\* Steps that give a pass up without touching a file.
LEMMA GivenUp ==
    ASSUME Placed, Aimed, NoPass, UNCHANGED <<windows, files, build, reported>>
    PROVE  Placed' /\ Climbs /\ Aimed' /\ mapped' = mapped
<1>1. windows' = windows /\ reported' = reported /\ mapped' = mapped
  BY DEF files
<1> QED BY <1>1, PlacedStays, PassOver

\* What the pass does of its own accord, and what can go wrong with it.
LEMMA PassInductive ==
    ASSUME Inductive, Pass \/ PassFaults \/ Cancelled
    PROVE  Inductive' /\ Climbs
<1>1. UNCHANGED supervised /\ faults' \in 0..MaxFaults
  BY DaemonAssumption DEF Pass, PassFaults, Cancelled, Fault, NoFault, Inductive, Alive
<1>2. Alive /\ Placed /\ Aimed
  BY DEF Inductive
<1>3. (mapped # "nowhere" => mapped' # "nowhere") => Alive'
  BY <1>1, <1>2 DEF Alive, supervised, SuperviseTypeOK, All
<1>4. CASE Cancelled
  <2>1. NoPass /\ UNCHANGED <<windows, files, build, reported>>
    BY <1>4 DEF Cancelled
  <2> QED BY <1>2, <1>3, <2>1, GivenUp DEF Inductive
<1>5. CASE Pass \/ PassFaults
  <2>0. mapped # "nowhere"
    <3>1. sub[Updater] = "running" /\ Updater \in Subsystem
      BY <1>5, DaemonAssumption DEF Pass, PassFaults, Updating
    <3>2. sub # All("done")
      BY <3>1 DEF All
    <3> QED BY <1>2, <3>2 DEF Alive
  <2>1. CASE Look \/ \E m : Fetch(m)
    <3>1. mapped' = mapped
      BY <2>1 DEF Look, Fetch, files
    <3> QED BY <1>2, <1>3, <2>1, <3>1, LookAimed, FetchAimed DEF Inductive
  <2>2. CASE \E f \in File : \E content : Stage(f, content)
    <3>1. mapped' = mapped
      BY <2>2 DEF Stage, files
    <3> QED BY <1>2, <1>3, <2>2, <3>1, StageAimed DEF Inductive
  <2>3. CASE \E f \in File : RenameOver(f)
    BY <1>2, <1>3, <2>3, RenameOverPlaced DEF Inductive
  <2>4. CASE \E f \in File : MoveAside(f)
    BY <1>2, <1>3, <2>0, <2>4, MoveAsidePlaced DEF Inductive
  <2>5. CASE MoveIn
    BY <1>2, <1>3, <2>5, MoveInPlaced DEF Inductive
  <2>6. CASE MoveBack
    BY <1>2, <1>3, <2>6, MoveBackPlaced DEF Inductive
  <2>7. CASE FailPass \/ LeaveAside \/ \E f \in File : CannotMove(f)
    <3>1. NoPass /\ UNCHANGED <<windows, files, build, reported>>
      BY <2>7 DEF FailPass, LeaveAside, CannotMove
    <3> QED BY <1>2, <1>3, <3>1, GivenUp DEF Inductive
  <2>8. CASE Installed
    <3>1. /\ pass = "installing" /\ pass' = "installed"
          /\ UNCHANGED <<windows, files, build, reported, target, manifest, staged, file>>
      BY <2>8 DEF Installed
    <3>2. Aimed' /\ mapped' = mapped
      BY <1>2, <3>1 DEF Aimed, PassState, File, Newer, files
    <3> QED BY <1>2, <1>3, <3>1, <3>2, PlacedStays DEF Inductive
  <2>9. CASE Pass
    BY <2>9, <2>1, <2>2, <2>3, <2>4, <2>5, <2>7, <2>8 DEF Pass
  <2>10. CASE PassFaults
    BY <2>10, <2>1, <2>2, <2>6, <2>7 DEF PassFaults
  <2> QED BY <1>5, <2>9, <2>10
<1> QED BY <1>4, <1>5

----------------------------------------------------------------------------
(* The process. *)

LEMMA StartInductive ==
    ASSUME Inductive, Start
    PROVE  Inductive' /\ Climbs
<1>1. /\ daemon' = "up" /\ sub' = All("running") /\ failed' = 0 /\ faults' = faults
      /\ at[Service] # Gone /\ build' = at[Service]
      /\ mapped' = "at" /\ aside' = [f \in File |-> Gone] /\ NoPass
      /\ UNCHANGED <<windows, at, reported>>
  BY DEF Start, Launch, Boot, NoFault
<1>2. File' = File /\ Service' = Service /\ Service \in File
  BY <1>1, ServiceFile DEF Inductive, Placed, File, Service
<1>3. build' \in Version /\ Upgrade(build, build')
  BY <1>1, <1>2 DEF Inductive, Placed, Suits, Image
<1>4. /\ aside' \in [File -> Image]
      /\ aside'[Service] = Gone /\ at'[Service] = build'
  BY <1>1, <1>2 DEF Image
<1>5. Placed'
  BY <1>1, <1>2, <1>3, <1>4 DEF Inductive, Placed, Suits, Upgrade, BinaryKept
<1>6. Climbs
  BY <1>1, <1>3 DEF Climbs
<1>7. Aimed'
  BY <1>1, PassOver DEF Inductive
<1>8. Alive'
  BY <1>1, SubsystemCount DEF Inductive, Alive, SuperviseTypeOK, SubState, All
<1> QED BY <1>5, <1>6, <1>7, <1>8 DEF Inductive

LEMMA EndInductive ==
    ASSUME Inductive, Quit \/ Die
    PROVE  Inductive' /\ Climbs
<1>1. /\ daemon' = "down" /\ sub' = All("done") /\ mapped' = "nowhere" /\ NoPass
      /\ failed' \in {failed, 0} /\ faults' \in 0..MaxFaults
      /\ UNCHANGED <<windows, at, aside, build, reported>>
  BY DaemonAssumption
     DEF Quit, Die, Exit, Crash, Halt, Fault, NoFault, Inductive, Alive
<1>2. Placed' /\ Climbs
  BY <1>1 DEF Inductive, Placed, File, Service, Suits, Upgrade, Newer, BinaryKept, Climbs
<1>3. Aimed'
  BY <1>1, PassOver DEF Inductive
<1>4. Alive'
  BY <1>1, SubsystemCount DEF Inductive, Alive, SuperviseTypeOK, SubState, All
<1> QED BY <1>2, <1>3, <1>4 DEF Inductive

\* What the supervisors do among themselves.
LEMMA SupervisionTyped ==
    ASSUME Alive, mapped' = mapped, faults' \in 0..MaxFaults,
           \/ \E s \in Subsystem : Fail(s) \/ Restart(s) \/ FailForGood(s) \/ Report(s) \/ Return(s)
           \/ Fatal \/ Signal
    PROVE  Alive'
<1>1. CASE \E s \in Subsystem : Fail(s) \/ Restart(s) \/ FailForGood(s) \/ Report(s) \/ Return(s)
  <2>1. PICK s \in Subsystem : Fail(s) \/ Restart(s) \/ FailForGood(s) \/ Report(s) \/ Return(s)
    BY <1>1
  <2>2. PICK state \in SubState : sub' = [sub EXCEPT ![s] = state]
    BY <2>1 DEF Fail, Restart, FailForGood, Report, Return, Become, SubState
  <2>3. daemon' = daemon /\ daemon # "down"
    <3>1. daemon # "down" \/ sub[s] = "reporting"
      BY <2>1 DEF Fail, Restart, FailForGood, Report, Return
    <3>2. daemon = "down" => sub[s] = "done"
      BY DEF Alive, All
    <3> QED BY <2>1, <3>1, <3>2 DEF Fail, Restart, FailForGood, Report, Return, Become
  <2>4. failed' \in 0..Cardinality(Subsystem)
    BY <2>1, SubsystemCount
       DEF Fail, Restart, FailForGood, Report, Return, HasRoom, Alive, SuperviseTypeOK
  <2>5. sub' \in [Subsystem -> SubState]
    BY <2>2 DEF Alive, SuperviseTypeOK
  <2> QED BY <2>3, <2>4, <2>5 DEF Alive, SuperviseTypeOK
<1>2. CASE Fatal \/ Signal
  <2>1. daemon = "up" /\ daemon' = "stopping" /\ sub' = sub
    BY <1>2 DEF Fatal, Signal
  <2>2. failed' \in 0..Cardinality(Subsystem)
    BY <1>2, SubsystemCount DEF Fatal, Signal, Alive, SuperviseTypeOK
  <2> QED BY <2>1, <2>2 DEF Alive, SuperviseTypeOK
<1> QED BY <1>1, <1>2

LEMMA SupervisorInductive ==
    ASSUME Inductive, Supervisor \/ RestartPending
    PROVE  Inductive' /\ Climbs
<1>1. UNCHANGED <<windows, files, build, reported>>
  BY DEF Supervisor, RestartPending, update
<1>2. mapped' = mapped /\ faults' \in 0..MaxFaults
  BY <1>1, DaemonAssumption
     DEF files, Supervisor, RestartPending, Fault, NoFault, Inductive, Alive
<1>3. \/ \E s \in Subsystem : Fail(s) \/ Restart(s) \/ FailForGood(s) \/ Report(s) \/ Return(s)
      \/ Fatal \/ Signal
  BY DaemonAssumption DEF Supervisor, RestartPending
<1>4. Alive'
  BY <1>2, <1>3, SupervisionTyped DEF Inductive
<1>5. CASE Supervisor
  <2>1. UNCHANGED <<windows, files, build, reported, pass, target, manifest, staged, file>>
    BY <1>5 DEF Supervisor, update, attempt
  <2>2. Aimed'
    BY <2>1 DEF Inductive, Aimed, File, Newer, files
  <2> QED BY <1>4, <2>1, <2>2, PlacedStays DEF Inductive
<1>6. CASE RestartPending
  BY <1>1, <1>4, <1>6, GivenUp DEF Inductive, RestartPending
<1> QED BY <1>5, <1>6

LEMMA NewReleaseInductive ==
    ASSUME Inductive, NEW n \in 1..Newest, NewRelease(n)
    PROVE  Inductive' /\ Climbs
<1>1. /\ UNCHANGED <<windows, at, aside, mapped, build, pass, target, manifest, staged, file>>
      /\ UNCHANGED <<daemon, sub, failed, faults>>
      /\ reported' = reported \cup {Release(n)}
  BY DEF NewRelease, PeerReports, NoFault, supervised, files, attempt
<1>2. Placed' /\ Climbs
  BY <1>1, PlacedStays DEF Inductive, files
<1>3. Aimed'
  <2>1. Release(n) \in Signed
    BY DEF Signed
  <2> QED BY <1>1, <2>1 DEF Inductive, Aimed, File, Newer
<1>4. Alive'
  BY <1>1 DEF Inductive, Alive, SuperviseTypeOK
<1> QED BY <1>2, <1>3, <1>4 DEF Inductive

LEMMA NextInductive ==
    Inductive /\ [Next]_vars => Inductive' /\ [Climbs]_vars
<1> SUFFICES ASSUME Inductive, [Next]_vars PROVE Inductive' /\ [Climbs]_vars
  OBVIOUS
<1>1. CASE Pass \/ PassFaults \/ Cancelled
  BY <1>1, PassInductive
<1>2. CASE Start
  BY <1>2, StartInductive
<1>3. CASE Quit \/ Die
  BY <1>3, EndInductive
<1>4. CASE Supervisor \/ RestartPending
  BY <1>4, SupervisorInductive
<1>5. CASE \E n \in 1..Newest : NewRelease(n)
  BY <1>5, NewReleaseInductive
<1>6. CASE UNCHANGED vars
  <2>1. UNCHANGED <<windows, at, aside, mapped, build, pass, target, manifest, staged, file>>
        /\ UNCHANGED <<reported, daemon, sub, failed, faults>>
    BY <1>6 DEF vars, update, supervised, files, attempt
  <2>2. Placed' /\ Aimed'
    BY <2>1, PlacedStays DEF Inductive, Aimed, File, Newer, files
  <2>3. Alive'
    BY <2>1 DEF Inductive, Alive, SuperviseTypeOK
  <2> QED BY <1>6, <2>2, <2>3 DEF Inductive
<1> QED BY <1>1, <1>2, <1>3, <1>4, <1>5, <1>6 DEF Next

----------------------------------------------------------------------------
LEMMA AlwaysInductive == Spec => []Inductive
<1>1. Inductive /\ [Next]_vars => Inductive'
  BY NextInductive
<1> QED BY <1>1, InitInductive, PTL DEF Spec

\* Every variable keeps its type, on both platforms.
THEOREM DaemonTyped == Spec => []TypeOK
<1>1. Inductive => TypeOK
  <2> SUFFICES ASSUME Inductive PROVE TypeOK
    OBVIOUS
  <2>1. Image \subseteq Content /\ manifest \in Content /\ Gone \in Content
    BY DEF Image, Content, Inductive, Aimed
  <2>2. SuperviseTypeOK /\ faults \in 0..MaxFaults
    BY DEF Inductive, Alive
  <2>3. UpdateTypeOK
    BY <2>1 DEF Inductive, Placed, Aimed, UpdateTypeOK
  <2> QED BY <2>2, <2>3 DEF TypeOK
<1> QED BY <1>1, AlwaysInductive, PTL

\* The service's binary survives every order of failures, crashes and repeated
\* installs (replace, SweepStale).
THEOREM BinarySurvives == Spec => []BinaryKept
<1>1. Inductive => BinaryKept
  BY DEF Inductive, Placed
<1> QED BY <1>1, AlwaysInductive, PTL

\* Nothing that no signed manifest names is ever put in place (stage).
THEOREM OnlyVerified == Spec => []Verified
<1>1. Inductive => Verified
  <2>1. Corrupt \notin Image
    BY ContentAssumption DEF Image
  <2> QED BY <2>1 DEF Inductive, Placed, Verified
<1> QED BY <1>1, AlwaysInductive, PTL

\* Where files and manifest stay as they are, no install is begun, and what is
\* staged is not dropped, nothing changes.
LEMMA WholeStays ==
    ASSUME WholeRelease, UNCHANGED <<windows, at, manifest, staged>>,
           pass' \in {"installing", "moving", "installed"} =>
               pass \in {"installing", "moving", "installed"}
    PROVE  WholeRelease'
  BY DEF WholeRelease, File

\* An install is begun with the last artifact, and every step of it puts in place
\* what was staged.
LEMMA PassWhole ==
    ASSUME Placed, Aimed, WholeRelease, NEW f \in File,
           \/ \E content : Stage(f, content)
           \/ RenameOver(f) \/ MoveAside(f) \/ MoveIn \/ Installed
    PROVE  WholeRelease'
<1>1. manifest # Gone
  BY ContentAssumption DEF Aimed
<1>2. CASE \E content : Stage(f, content)
  <2>1. PICK content : Stage(f, content)
    BY <1>2
  <2>2. /\ content = manifest /\ staged' = [staged EXCEPT ![f] = content]
        /\ pass' = (IF \E g \in File \ {f} : staged[g] = Gone THEN "staging" ELSE "installing")
        /\ UNCHANGED <<windows, manifest>>
    BY <2>1 DEF Stage, Verifies
  <2>3. ASSUME pass' # "staging", NEW g \in File PROVE staged'[g] = manifest
    <3>1. g # f => staged[g] # Gone
      BY <2>2, <2>3
    <3> QED BY <2>2, <3>1 DEF Aimed
  <2>4. File' = File
    BY <2>2 DEF File
  <2> QED BY <2>2, <2>3, <2>4 DEF WholeRelease
<1>3. CASE RenameOver(f)
  <2>1. /\ pass = "installing" /\ staged[f] = manifest /\ UNCHANGED <<windows, manifest>>
        /\ at' = [at EXCEPT ![f] = staged[f]] /\ staged' = [staged EXCEPT ![f] = Gone]
    BY <1>3 DEF RenameOver, Replaced, Aimed
  <2>2. ASSUME NEW g \in File PROVE manifest \in {staged'[g], at'[g]}
    BY <2>1 DEF WholeRelease, Aimed, Placed
  <2> QED BY <2>1, <2>2 DEF WholeRelease, File
<1>4. CASE MoveAside(f)
  <2>1. /\ pass = "installing" /\ staged[f] = manifest
        /\ UNCHANGED <<windows, manifest, staged>>
    BY <1>4 DEF MoveAside, Aimed
  <2>2. \A g \in File : g = f \/ at'[g] = at[g]
    BY <1>4 DEF MoveAside, Placed
  <2> QED BY <2>1, <2>2 DEF WholeRelease, File
<1>5. CASE MoveIn
  <2>1. /\ pass = "moving" /\ file \in File /\ staged[file] = manifest
        /\ UNCHANGED <<windows, manifest>>
        /\ at' = [at EXCEPT ![file] = staged[file]]
        /\ staged' = [staged EXCEPT ![file] = Gone]
    BY <1>5 DEF MoveIn, Replaced, Aimed
  <2>2. ASSUME NEW g \in File PROVE manifest \in {staged'[g], at'[g]}
    BY <2>1 DEF WholeRelease, Aimed, Placed
  <2> QED BY <2>1, <2>2 DEF WholeRelease, File
<1>6. CASE Installed
  <2>1. pass = "installing" /\ UNCHANGED <<windows, at, manifest, staged>>
    BY <1>6 DEF Installed, files
  <2> QED BY <2>1, WholeStays
<1> QED BY <1>2, <1>3, <1>4, <1>5, <1>6

LEMMA NextWhole ==
    ASSUME Inductive, WholeRelease, [Next]_vars
    PROVE  WholeRelease'
<1>1. CASE pass' \in {"idle", "fetching", "staging"}
  BY <1>1 DEF WholeRelease
<1>2. CASE UNCHANGED update
  <2>1. UNCHANGED <<windows, at, manifest, staged, pass>>
    BY <1>2 DEF update, files, attempt
  <2> QED BY <2>1, WholeStays
<1>3. ASSUME NoPass PROVE pass' = "idle"
  BY <1>3 DEF NoPass
<1>4. CASE Pass
  <2>1. CASE Look \/ Fetch(target) \/ \E f \in File : CannotMove(f)
    BY <1>1, <1>3, <2>1 DEF Look, Fetch, CannotMove
  <2>2. CASE \E f \in File : Stage(f, manifest) \/ RenameOver(f) \/ MoveAside(f)
    BY <2>2, PassWhole DEF Inductive
  <2>3. CASE MoveIn \/ Installed
    BY <2>3, PassWhole DEF Inductive, Aimed
  <2> QED BY <1>4, <2>1, <2>2, <2>3 DEF Pass
<1>5. CASE PassFaults
  <2>1. CASE FailPass \/ MoveBack \/ LeaveAside \/ \E m \in Signed \ {target} : Fetch(m)
    BY <1>1, <1>3, <2>1 DEF FailPass, MoveBack, LeaveAside, Fetch
  <2>2. CASE \E f \in File : Stage(f, Corrupt)
    BY <2>2, PassWhole DEF Inductive
  <2> QED BY <1>5, <2>1, <2>2 DEF PassFaults
<1>6. CASE Cancelled \/ RestartPending \/ Start \/ Quit \/ Die
  BY <1>1, <1>2, <1>3, <1>6 DEF Cancelled, RestartPending, Start, Quit, Die, Boot, Halt
<1>7. CASE \E n \in 1..Newest : NewRelease(n)
  <2>1. UNCHANGED <<windows, at, manifest, staged, pass>>
    BY <1>7 DEF NewRelease, PeerReports, files, attempt
  <2> QED BY <2>1, WholeStays
<1>8. CASE Supervisor \/ UNCHANGED vars
  BY <1>2, <1>8 DEF Supervisor, vars
<1> QED BY <1>4, <1>5, <1>6, <1>7, <1>8 DEF Next

\* One bad artifact stops the install of all, whichever is the bad one and
\* however often passes fail and are tried again (stage).
THEOREM WholeInstalled == Spec => []WholeRelease
<1>1. Init => WholeRelease
  BY DEF Init, UpdateInit, WholeRelease
<1>2. Inductive /\ WholeRelease /\ [Next]_vars => WholeRelease'
  BY NextWhole
<1> QED BY <1>1, <1>2, AlwaysInductive, PTL DEF Spec

\* A node never goes back to an older build, however its passes are interrupted
\* (Target, the version check of manifest).
THEOREM NeverDowngrades == Spec => OnlyUpgrades
<1>1. Inductive /\ [Next]_vars => [Climbs]_vars
  BY NextInductive
<1>2. Spec => [][Climbs]_vars
  BY <1>1, AlwaysInductive, PTL DEF Spec
<1>3. Climbs <=> /\ Upgrade(build, build')
                 /\ \A f \in File :
                      at'[f] \in {at[f], Gone} \/ Upgrade(build, at'[f]) \/ MovedBack(f)
  BY DEF Climbs
<1> QED BY <1>2, <1>3, PTL DEF OnlyUpgrades
=============================================================================
