# agentic-stats: a TLA+ development

agentic-stats keeps an archive of AI coding-assistant transcripts on every
machine of its owner. A daemon per machine collects lines from transcript files
that their owner will delete, stores them in a local database, and exchanges
them with the daemons on the other machines until all archives hold all lines.
There is no server: agreement rests on version vectors, on gap-free sequence
numbers, and on origin ids that are never shared.

This directory holds TLA+ modules translated from the Go source, the TLC
configurations that check them on small instances, and proofs that TLAPS checks
for every value of the constants. `PROJECT.json` maps each definition to the
lines it models and lists the runs, the mutants, the hazards and the theorems.

## 1. The system

| component | source | state | operations | talks to |
|---|---|---|---|---|
| record store | `store/records.go`, `migrations/0001_init.sql` | `records`, `quarantine`, `peers`, `meta` | AppendLocal, AppendRemote, Vector, Since, Digests | everyone below |
| exchange | `mesh/sync` | per connection: sender and receiver goroutine, the peer's announcement | Exchange = announce, send, receive | store, channel |
| peering | `mesh/mesh.go` | penalties per address, accept slots, the sighted peers, the nudge channel; the `peers` table | acceptLoop, dialLoop, sweep, discovered, Wake | exchange, store, beacon, resume |
| health | `mesh/health.go` | none | classify peers for the status page | store |
| channel | `mesh/channel` | idle deadlines of a TLS connection | Read, Write, Guard | exchange |
| beacon | `mesh/beacon` | none (UDP datagrams) | announce, listen | peering |
| bridge | `bridge`, `bridge/fsbackend` | bundles in a shared folder | Publish, Fetch | store |
| source, tail | `source`, `source/claudecode` | none; the transcript files | Discover, Read | collector |
| cursor store | `cursor` | stream -> read position, durable | Load, Save | collector |
| collector | `collector` | the batch of a pass and the cursors it justifies | CollectOnce, flush, commit | tail, cursor store, ingest |
| ingest, reprocess | `ingest`, `store/extraction.go` | the `extraction` table: a mark per origin; the columns filled in | Ingest, Reprocessor.Run | store, derive |
| derive, pricing | `derive`, `pricing` | none | Identify, folded, Summarize, Daily, Deliveries, resolve | store, api |
| supervise, resume | `supervise`, `resume`, `runNode` | a supervisor per subsystem, the failed channel; last clock reading | Run, Watch, the shutdown of the daemon | all services, peering |
| update, install | `update`, `version`, `runUpdate` | staged files, the binaries, the images set aside | Target, stage, Install, SweepStale | supervise, store (versions of peers) |
| seal, certs, wire | `seal`, `certs`, `wire` | keys | seal, open, hash | store, channel |
| api, hostnames, agentcfg, daemonlog, service, command line | `api`, ... | presentation and platform I/O | - | - |

What is hard here, and what makes each part correct:

* **Store and exchange.** An exchange asks only for "everything after my
  watermark", so one hole below a watermark is permanent. Exchanges overlap on
  one node, work from snapshots while the tables change, stop half-way on errors,
  timeouts and crashes, and start again. Correct means: no holes, all copies of
  an origin agree, a `done` frame is honest, no false fork alarm, a real fork is
  quarantined and nothing is merged, and every line reaches every node in the
  end, across relays.
* **Peering.** One goroutine dials from a snapshot of the peers table that
  beacons, inbound exchanges and the dialler itself rewrite; a resume and a nudge
  come at any moment. Correct means: a reachable peer is exchanged with again and
  again, no first sighting is lost, no penalty outlives a resume or grows for
  ever, and the health report tells what happened.
* **Bridge.** Bundles are immutable files that appear in any order, may be
  unreadable, and are fetched by nodes at different positions; the same
  no-hole property is at stake.
* **Collector.** Files grow, shrink, are replaced and deleted at any moment; the
  process may die between a stored batch and its cursor. Correct means that no
  line that stays on disk is skipped, and none is stored twice.
* **Reprocess.** Records arrive while older ones are re-extracted in passes, by
  the daemon and by a command beside it. Correct means that a mark never passes
  work nobody did, and that all that can be read is filled in for good.
* **Derive.** Numbers of one page come from separate folds over records of which
  any part may have arrived, some of them twice. Correct means they agree.
* **Supervise, update.** The updater replaces the binary it runs from and ends
  the daemon to have it restarted. Correct means: the binary is never lost, only
  verified and only newer builds get in place, the newest one gets there in the
  end, and collection goes on.

## 2. Plan

The order is that of the damage a fault would do. Items 1 to 9 are there.

1. `Archive`, `AntiEntropy`, `Replicas`: the table, the exchange and the
   abstract specification of replication; forks.
2. Proofs of gap-freedom, authenticity, absence of false alarms, honesty of
   `done`, unique keys.
3. `Bridge`: publish and fetch over a folder, beside the mesh; a run for the
   hole that a sync client leaves.
4. `Collector`: tail, cursor store and collector.
5. `Peering`: discovery, sweep, penalties, accept limit, wake-up, health.
6. `Extraction`, and `Projects`, `Derive` as pure operators, composed in
   `Reports`.
7. `Supervise`, `Update`, composed in `Daemon`.
8. Proofs of the rest: the marks of extraction, the nudge, the penalties and the
   health report of peering, the binaries of the self-update; gap-freedom and
   complete publishing of `Bridge`; that `Collector` skips nothing; and that
   `AntiEntropy` and `Bridge` implement `Replicas` step by step.
9. Proofs of what was left to TLC: that forks surface and that a quarantine is
   evidence, with origin ids shared; the limit on inbound exchanges; the balance
   of the reports; containment of directories; and what a folder in disorder
   cannot do.
10. Left: a second writer of the shared folder under one origin (clones), and
   sizes in bytes (frames, bundles, lines longer than a read).

## 3. Modules

**`Archive`** is the `records` table and the queries made of it, as pure
operators; it has no variables. A record is `[origin, seq, line]`. `Line` stands
for what the semantic indexes and the content hash tell lines apart by. `Since`,
`WithLocal`, `Insertable` and `ForkEvidence` are the statements of
`records.go`; `Mismatched`, `FirstMismatch` and `ResendFrom` are the resend
decision of `sync.go`. `Copy` is a table's log of one origin, the lines in order,
which is how tables map to `Replicas`.

**`AntiEntropy`** is the mesh: a table and a quarantine per node, and per
connection two ends with a sender goroutine (`tx`), a receiver goroutine (`rx`)
and the frames under way (`wire`).

| action | code |
|---|---|
| `AppendLocal` | one transaction of `DB.AppendLocal` |
| `Connect` | a dial that succeeded (`dialAndSync`, `exchange`), refused for the own origin id |
| `Announce` | `announce` and the vector frame |
| `StartSend` | the sender gets the peer's announcement, or an empty one from a closed channel |
| `SendBatch`, `EndOrigin`, `SendDone` | the loops of `send`, against the live table |
| `ReceiveVector`, `ReceiveRecords`, `ReceiveDone`, `ReceiveEOF` | the cases of `receive`; `ReceiveRecords` is one transaction of `AppendRemote` |
| `ReadError`, `WriteError` | any failure in one goroutine; the other goes on |
| `ReadDeadline`, `WriteDeadline` | the idle deadline of the channel, where nothing else would end the wait |
| `Abort` | the dial timeout, a cancelled context, or the death of the process |
| `Leave` | both goroutines ended; `Exchange` returns |

Abstractions: the two queries of an announcement are one snapshot; the origins
of a `send` may interleave, since the code walks a map in no order; a bucket's
contents stand for its `count:hash` digest; the quarantine is a set, the table
of the code keeps repetitions; frames to an end that has gone are lost; a
process that dies is an abort of each of its ends (its tables survive:
transactions are atomic).

**`Replicas`** is what replication promises: each node holds, per origin, a
copy of that origin's log, and a copy only ever grows to a longer prefix of
another. `AntiEntropy!ImplementsReplicas` states the refinement, mapping a table
to the sequences of its lines.

**`Bridge`** is replication through a folder. `rows` and `quarantine` are as
above; `objects` holds the bundles at each place (one place for a network share,
one per node for a folder that a sync client copies); `phase` and the rest are
the locals of one `Sync` per node.

| action | code |
|---|---|
| `StartSync`, `Skip`, `PutBundle` | `Publish`: the watermark and the listing, then one turn of its loop |
| `List`, `ReadVector` | the two reads `Fetch` starts from, which are separate |
| `PassOver`, `Apply`, `SkipUnreadable` | one turn of the loop of `Fetch`, in the order of the names |
| `EndSync`, `Fail` | `Sync` returns, in an error or not, or the process dies |
| `MeshCatchUp` | `Replicas!CatchUp`: what the mesh promises, in place of its exchanges |
| `Deliver` | external: the sync client copies any bundle |

Abstractions: objects appear whole (a temporary file and a rename); an empty
batch, at which `Publish` would stop, cannot be met below the watermark; a
listing is one step. Locals are reset when `Sync` returns, when they are gone.

**`Collector`** is a collection pass over transcripts. Files are sequences of
half lines, written by the assistant, deleted and replaced by it at any moment;
`cursors` and `archive` are durable, everything else is lost when a pass ends.

| action | code |
|---|---|
| `Begin`, `Open`, `LastFlush` | `CollectOnce` and the head of `drainStream` |
| `Stat`, `Read`, `Vanished`, `ShortRead` | `FileStream.Read`: Stat and Open are separate steps, since the file may change between them |
| `Start`, `Fingerprint`, `Window`, `RawLines` | `resolveStart`, `fingerprint`, `readLines` |
| `Upload`, `Save`, `Flushed` | `flush` and `commit`: one step per transaction |
| `Fail`, `Abandon` | any error, or the death of the process |
| `WriteHalf`, `WriteRest`, `Delete`, `Create` | external: the assistant |

Abstractions: a fingerprint is the prefix it hashes; a batch is a set of lines;
storing a batch is adding its lines to a set, since `AppendLocal` drops those it
holds (`AntiEntropy!AppendLocal` has the sequence numbers); line numbers stand
for uuids; streams are visited in any order.

**`Peering`** is one node among others, which are its environment: they come and
go, send beacons, dial, and answer at their addresses. Time is counted in sweep
intervals: `backoff[a]` bounds the ticks until a penalty is over.

| action | code |
|---|---|
| `Woken`, `Ticked`, `Sweep`, `SweepEnds` | the select of `dialLoop`, and `sweep` over the peers as it read them |
| `Skip`, `Dial`, `DialFails`, `DialAnswered`, `Exchanged` | one address of a row: `inBackoff`, `dialAndSync`, `penalize`, `exchange` with `recordOutcome` |
| `Heard`, `Sighted` | the two halves of `discovered`, after `Verify` and the addresses of a beacon |
| `Connect`, `InboundEnds` | `accept` under its limit, and the end of an inbound exchange |
| `Wake`, `Suspend` | `Mesh.Wake`; the suspend the resume detector notices some time later |
| `Minute`, `Expire` | the ticker, and a penalty that ends within its last interval |
| `ComeAndGo` | external: the other machines |

`KnownPeers` and `Health` are the query behind the status page. Abstractions:
the two writes after an exchange touch columns that have nothing to do with each
other and are one step; addresses are model values with an owner and a host;
`fresh`, `before`, `outdated` and `last` remember the past for the properties
and are never read by the code's actions, except that a dial which a resume
overtook may fail although its peer is up.

**`Supervise`** is the supervisors of `runNode`: restarts, permanent failures, the
channel they are reported on, the signal and the wait for all. **`Update`** is a
node's updater on both kinds of platform: on one a rename replaces a running
image, on the other (Windows) it can only be moved aside. **`Daemon`** composes
them: the updater is one subsystem, an installed build ends it for good, that
stops the daemon, and the next process starts from what is then in place.

| action | code |
|---|---|
| `Fail`, `Restart`, `FailForGood`, `Report`, `Return`, `Fatal`, `Signal`, `Exit`, `Crash` | `supervise.Run`, the select and the `wg.Wait` of `runNode` |
| `Look`, `Fetch`, `Stage`, `FailPass`, `Cancelled` | `Updater.pass`: `Target`, `manifest` with its version check, `stage` |
| `RenameOver` | `replace` where a rename suffices |
| `MoveAside`, `CannotMove`, `MoveIn`, `MoveBack`, `LeaveAside` | `replace` on Windows, step by step |
| `Installed`, `RestartPending` | `ErrRestartPending`, and what `runUpdate` makes of it |
| `Start` (`Launch`, `Boot`), `Quit`, `Die` | a process begins, with `SweepStale`, and ends |
| `PeerReports` | external: a peer runs a release |

Abstractions: waits between restarts have no length; content is the build it is,
or `Corrupt`; of two files the service runs from one.

**`Extraction`** is the `extraction` table and the passes over it, **`Projects`**
the naming of projects (`project.go`), **`Derive`** the folds and reports, and
**`Reports`** reads `Derive` over the records of `Extraction` as they arrive and
are filled in.

| action or operator | code |
|---|---|
| `Ingest`, `Receive`, `Upgrade` | a record stored by the collector or an exchange, with the columns of the build that read it; the daemon upgraded |
| `ReadVector`, `ReadMarks`, `ReadBatch`, `SaveExtracted`, `NextOrigin`, `Abandon` | `Reprocessor.Run`, one step per query or transaction |
| `Command` | any transaction of the `reprocess` command, which runs beside the daemon |
| `Identify`, `folded`, `dailyGrid` | what a line yields; the `requestId` fold |
| `Cost`, `Summarize`, `Daily`, `Deliveries` | `pricing`, and the three reports |
| `resolve`, `shippedProject`, `ancestorProject`, `nameProject` | the project of each directory |

Abstractions: a path is a sequence of names and a name a sequence of words, the
two separators told apart by position only; money is counted in units of which
every even split is whole, so that no share is rounded; the command is any
transaction one of its batches could commit; where `resolve` would index the
last segment of an empty path, `Panics` says so instead.

**`MCAntiEntropy`, `MCFork`, `MCBridge`, `MCCollector`, `MCPeering`,
`MCDaemon`, `MCReports`** give the constants their values. **`ArchiveProofs`,
`AntiEntropyProofs`, `BridgeProofs`, `CollectorProofs`, `PeeringProofs`,
`DaemonProofs`, `ReportsProofs`** hold the theorems, and **`SumProofs`** the
facts about sums over finite sets that two of them need.

## 4. Runs

| run | question | bounds |
|---|---|---|
| `mesh` | Do two exchanges feeding one node at once ever leave a hole, mix origins, raise a false alarm or make `done` dishonest? | 3 nodes that all reach each other, 2 connections open at once, 1 collector with 2 lines, 1 record per batch, 1 frame in flight |
| `relay` | Does a line cross a node in between although one error, timeout or crash happens anywhere? Does every exchange end? Do exchanges implement `Replicas`? | a chain of 3 nodes, 1 connection, 1 fault |
| `fork` | Two machines run clones of one database: is the conflict quarantined, is nothing merged? | original, clone and a relay that meets both; 2 lines against 1 |
| `fork_shared_line` (violated) | Is a fork noticed when the clones also collect a line they share? | as `fork` |
| `bridge` | Do bundles of any sizes, overlapping each other and the mesh, leave no hole and raise no alarm? Is publishing complete although it keeps no state? Does the folder implement `Replicas`? | writer and reader, 3 lines in bundles of 2, 1 fault |
| `bridge_synced` (violated) | Does it still leave no hole when a sync client copies the folder? | as `bridge`, two places |
| `collector` | Is there a line on disk that no later pass will read and the archive lacks? Does any pass resume inside a line? Is everything archived in the end? | 2 paths, one without inode numbers; 3 lines, 2 files, 1 fault; reads of 3 half lines, batches of 1 |
| `collector_reused` (violated) | And when a new file has the identity of the old one? | as `collector` |
| `peering` | Is a reachable peer exchanged with again and again, is every first sighting swept, does a resume forget, do penalties stay short, and is the health report true? | 1 peer with a clock that is off by one epoch, 3 addresses: one that is its own, one from which it dials and at which nobody listens, and one that both machines have and that is also configured; 1 inbound exchange, 1 suspend |
| `backoff` (violated) | Does the wait grow for an address that keeps failing? | as `peering`, but the configured address is one at which nobody listens, and no suspend |
| `lifecycle` | Is the binary ever lost, is anything unverified or older, or half of a release, ever put in place, does the newest release arrive, does collection go on? | both platforms; collector, dashboard and updater; 3 releases, starting from each of them but the last, or from an unreleased build; 4 faults |
| `reports` | Are marks honest with two processes walking, is everything filled in at last, do the reports agree, and do directories belong to the innermost project, whatever has arrived? | 3 origins, one of them unreadable, with 1, 3 and 4 lines; batches of 2; 1 fault |

The violated runs show disagreements between what comments of the code say and
what the code does; section 7 tells the stories.

Why the bounds are enough: a hole needs two records and two exchanges that
overlap at a third node, which `mesh` has; the batch of one makes every record a
separate transaction, the window of one makes every write block. With two
sequence numbers per bucket a bucket can agree, differ, or be half full. One
bundle of two can be cut short, filled and followed by another. A read of three
half lines ends inside a line, and two files are enough for one to be replaced,
shorter, equally long or longer, at any point of a pass. One
fault is enough to stop either goroutine of either end at every point. What grows with the
size of the instance is left to the proofs, which have no bounds. `relay` checks
the inductive invariant itself, which implies the safety properties of `mesh`. A
fault occurs only in `relay` (two connections and a fault are too many states), so
a sender that works from an empty announcement because its receiver failed is met
by `Inductive` there and by the theorems, not by `mesh`.

One peer is enough for `peering`: rows interact only through the dial loop,
which the configured row shares with it; the shared address is the case in which
a node meets itself. The cap of a penalty is that of the code (15 intervals), so
that there is room to grow in `backoff`. In `lifecycle` three releases are what
it takes to be offered an older signed one, or to find one put in place while
the next is out; four faults let an install fail, be moved back or not, fail
again, and crash in between. The lines of `reports` are chosen
so that each rule meets a case: a session resumed on another machine (one
request under two origins), a session with two pull requests, a repository
inside another and a directory inside that spelled otherwise, a worktree, a
sibling checkout, a response without a day, a model without a price, a detached
head. One segment per stack makes `Other` appear in each.

`Balanced` and `Contained` speak of reports made of one archive. A report of the
code runs several queries without a transaction (`Summarize` three, `Deliveries`
and `Daily` two or more), so that records which arrive between two of them are in
one part of a report and not in the other; that is not modelled.

Both look at the archive when the daemon is between two
passes (`Quiet`). They read nothing but the archive, and every archive that a
pass of the daemon commits the command could have committed while the daemon
was idle, so no archive is left out.

Fairness (`relay`, `fork`, `bridge`, `collector`): goroutines run, so the sender, the receiver and the
return of every end are weakly fair. Every node's `sweep` dials each of its
peers again and again (each minute, or when its backoff is over), so a pair that
can connect over and over in the end does: strong fairness of `Connect` per
pair. The bridge syncs on an interval, and so does the collector; a tick always
comes and each step of a sync or a pass ends, so both are weakly fair. Nothing
is assumed of local appends or failures.

`peering`: the dial loop, the second half of `discovered`, the detector and the
clock are weakly fair; every dial and every exchange is under a timeout, so each
ends. A live peer sends its beacon again and again, which is strong fairness of
`Heard`, since a peer that comes and goes is not always live. No exchange of
either kind need succeed.

`lifecycle`: goroutines run; the service manager or the next logon starts a
daemon that is down; some peer runs the newest release in the end. `Converges`
is claimed unless an install that failed leaves the service's file out of its
place (`Stranded`) or the running process on the image aside (`Stuck`), see
section 8.

`reports`: lines and records arrive while there are any, the node is upgraded,
and the daemon passes again and again. Nobody need ever run the command.

## 5. Proofs

Every theorem is one of the specification the runs check, for every value of the
constants that the named assumptions allow. What else a theorem assumes stands
in its statement, as below.

The theorems of `AntiEntropyProofs` hold for any sets of nodes, connections,
origins and lines, any batch size, window, bucket size and number of faults.
Those about a mesh that works assume `OriginsDistinct`: no two databases share
an origin id. Those about forks do not.

`GapFree` is not inductive: frames in flight, announcements that peers work from
and senders half-way through an origin all matter. `Inductive` adds them:

* `Tables`: tables are finite and dense, records stand in the owner's table, and
  an owner issues no number and no line twice;
* `Pairs`: a connection has two ends;
* per direction of a connection, `Snapshots` (what was announced or sent stood in
  the sender's table, and announcements are dense), `Silent`, `InOrder` (after
  each prefix of the frames under way the receiver's table is dense), `Covered`
  (what the sender skips the receiver holds or is being sent; a finished origin
  has been sent as far as announced) and `Complete` (a `done` frame stands behind
  all that was announced).

The argument of the step: a batch of `Since` is an initial segment of what lies
above a position the receiver has reached (`Covered`), so appending it to the
frames keeps `InOrder`. `Reached`, the table after the frames under way, only
grows when other connections write to the same table, and density survives a
union with a dense table (`UnionDense`). `AppendRemote` refuses nothing but
duplicates, because all copies agree with the owner's table. `ArchiveProofs` has the facts about the
queries; `InductiveInvariant` has one step per action, and `GapFreedom`,
`Authenticity`, `NoFalseAlarm`, `DoneMeansCaughtUp` follow.

`ExchangesImplementReplicas` shows the refinement: a dense table's records of an
origin stand in the owner's table, so its `Copy` is an initial segment of the
owner's (`CopyOfPart`); a records frame holds one origin (`ByOrigin`, a second
invariant), so that receiving it makes one copy longer and touches no other,
which is `Replicas!CatchUp` from the owner; a local append is `Replicas!Extend`
(`CopyAppended`); everything else leaves the tables alone.

Three theorems assume nothing of origin ids: clones may run.

* `TypeCorrect`. A watermark is a number because what a table holds under an origin
  has a highest number; an announcement is a snapshot of a table, so it has one too
  (`Announcements`).
* `KeysUnique`: no table holds two records under one number, or a line twice.
  Its invariant is that every table, snapshot and frame is `Keyed`.
* `QuarantineIsEvidence`: a quarantine never lies. For each record in it there
  are two nodes with the record's origin id that hold different lines under its
  number. Its invariant (`Attributed`): whatever is held or on its way is held by
  a node with its origin id, and tables only grow, so that a contradiction stays
  one.

`ForksSurface` is the other direction: what contradicts a table does get into
the quarantine, or the run `fork_shared_line` shows why not. It assumes
`LinesApart`: nodes that share an origin id collect different lines. Two machines
with a copy of a database do, once they have parted, unless they collect the same
transcripts; `MCFork` satisfies it, `fork_shared_line` does not, and there
`ForkSurfaced` itself says nothing, because the counts of the two announcements
differ. `ForkInductive` follows a record the peer announced: while the peer sends,
it is in what has been sent, or still ahead of the sender, or in a bucket whose
counts the announcements cannot compare (`Underway`, `Excused`); behind a `done`
frame nothing is ahead any more (`Delivered`). The sender starts low enough
because `ResendFrom` rewinds to below the first bucket that differs, and a batch
the receiver reads is held, inserted or evidence, record by record (`BatchNoted`),
which is where lines must be apart: a record dropped as a duplicate line leaves no
trace.

`BridgeProofs` assumes `OriginsDistinct` and holds for any nodes, folders, lines,
sizes of bundles and faults, where objects appear as they are put and can be
read (`Spec`; the run `bridge_synced` shows what happens otherwise). A bundle is
applied above a watermark read some time ago, so `GapFree` needs to know what
lies below it. The invariant adds: what lies below a bundle is in bundles that
precede it (`Bundles`); publishing has put everything below its position
somewhere and knows of nothing that is not so (`Publishing`); and what lies below
a bundle still to be looked at is held, or is in one that will be looked at
before it (`Fetching`), because a listing is sorted by the first number and a
bundle is passed over only if its last number is not above a watermark.
`BundlesLeaveNoHole`, `BundlesRaiseNoAlarm`, `NamesTell`, `PublishingComplete` and
`FolderImplementsReplicas` follow.

`DisorderIsHarmless` is about `DisorderlySpec`, in which a sync client copies
bundles in any order and any of them may be unreadable for a while. Holes are
possible then, so nothing of the invariant above that tells what lies below a
bundle is left. What remains: every record of every table and bundle is held by
its author (`Disordered`), who numbers its own lines above all it has issued. That
is enough for nothing to be taken for a fork, and for nobody to hold under a
node's origin what that node did not write.

`CollectorProofs` assumes `~Reused`: a new file never has the identity of the one
it replaces (`collector_reused` shows why that is needed). It holds for any
paths, with and without identities, sizes of reads, batches and fingerprints,
and numbers of files, lines and faults. The invariant relates each cursor, the
saved ones, those of the pass and the one being read from, to the file now at
its path, whichever that is: if the cursor was made from it (`Applies`: the same
identity or, where there is none, the same first line), it stands at the end of a
line and every line before it is stored (`Covers`), in the archive for a saved
cursor, in the archive or the batch for one of the pass; and it applies to no
file that is yet to come (`Fits`). Saving a cursor is sound because by then the
batch is in the archive (`Uploaded`). The step that matters is `Read`:
`resolveStart` goes back to the beginning unless the cursor applies
(`StartsHere`), and what is consumed is whole lines, each of which is in the batch
(`LinesOfWindow`, `NextCovers`). `CollectorTyped`, `NothingLost` and
`ResumesWhole` follow.

`PeeringProofs` holds for any peers, addresses, owners of addresses, caps and
numbers of suspends. Its invariant adds: whoever is sighted, or about to be, has
addresses (`Addressed`, or the sweep the nudge asks for would find nothing); a
dial that a resume overtook is the only source of an old penalty (`Forgotten`);
the address being dialled had no penalty when it was picked, and the sweep is at
one row at a time (`Unpenalized`, `OneRow`), hence `penalize` always begins at
the shortest wait; and what is being exchanged with is a peer, so that no
placeholder is credited (`Told`). `FirstSightingSwept`, `ResumeForgets`,
`PenaltyNeverGrows` and `HealthTold` follow. `PeeringTyped` includes the limit
of `accept`: the inbound exchanges of all peers together are never more than
`MaxInbound`. They are a sum over the peers, so its steps rest on `SumProofs`.

`DaemonProofs` holds for any releases, subsystems and faults on both platforms.
Its invariant: an image of the service, in place or aside, is an upgrade of what
runs or nothing, and a process runs from an image that exists (`Placed`); a pass
stages only what its manifest names, the manifest names the target, the target
is newer than what runs, and an image is half-way only while nothing is in its
place (`Aimed`); and a process that is up runs from somewhere (`Alive`, without
which the next install could delete the last image). `DaemonTyped`,
`BinarySurvives`, `OnlyVerified` and `NeverDowngrades` follow, the last as an
action property. `WholeInstalled` is inductive beside it: an install begins with
the last artifact, and every step of it puts in place what was staged.

`ReportsProofs` holds for any origins, lines, prices, directories, batch sizes and
faults, and for any transactions of the command. The invariant of the passes: what
a pass knows of an origin is never more than what is so (`Behind`), and saving the
batch in hand leaves no readable record behind the mark without its columns
(`InHand`). `BatchCount` counts a batch, which is what makes the mark the last
record examined. `ExtractionTyped` and `MarksAreHonest` follow, and with them
`WalkedIsHealed`, the safety half of `Healed`: once every readable origin is walked
to what is held of it, the records, and so every report, are what this build would
have stored itself.

`ReportsBalance` and `InnermostProject` are facts about the operators of `Derive`
and `Projects` for every archive of well-typed records (`RecordsArchived` brings
every reachable one under them). `Balanced` takes four steps. The fold keeps one
record of each request (`FoldedOnce`), so a request is counted and billed once.
Summing per key and then over the keys is summing over the records, since each
record's cost is divided among its keys without a remainder (`PerKeyWhole`,
`StackingsDivide`). Folding all but the largest segments into `Other` moves
amounts and loses none (`FoldKeeps`). And the tokens of a bill are cut to whole
ones, so that pull requests share out at most what was spent, and not exactly that
(`KindCut`, `BillsBounded`). `Contained` is a loop invariant of `resolve`
(`Resolved`): the directories walked so far satisfy containment among themselves,
and the table of projects says for each key what the projects with that key are
called. The walk is shortest first, so a directory that comes later is around none
of those before it (`ClaimResolves`), and the longest key that is a prefix is that
of the innermost project (`AncestorInnermost`).

They rest on four assumptions, which TLC evaluates in the run `reports`: prices
are natural numbers (`PriceAssumption`); a line's usage is absent or natural
numbers, and its directory is one of those considered (`LineAssumption`); money is
counted in units that divide evenly among the pull requests of any session
(`WholeAssumption`, the abstraction of section 3); and directories are listed once
each and are sequences (`DirectoryAssumption`).

`SumProofs` is about `SumFunctionOnSet` of the community modules. That
a function with its recursion exists is shown by induction over the sizes of
subsets (`SumsExist`), that the order of adding up does not matter likewise
(`PartialOrderless`), and the same for the fold over directories (`FoldsExist`,
`WalksExist`). The induction lemmas (`NumberInduction`, `SetInduction`,
`PickInduction`) are stated with the set of what a property holds for, not with
the property, because an operator parameter is what the provers cannot
instantiate.

Only model-checked: liveness (`Replication`, `ExchangesEnd`, `ForkNoticed`,
`Bridged`, `Collected`, `Reached`, `Converges`, `Collecting`, `Healed`), which is
beyond the prover. Every invariant, action property and refinement that a passing
run checks is also a theorem.

## 6. Not modelled

Cryptography (sealing, TLS, signatures) is not: nothing in it is a protocol.
Parsing of the configuration, presentation (`api`, `hostnames`, the
dashboard, labels and sort orders that only the page shows), calls of the service
managers and log files are not either: they keep no state that others depend on.
Of the command line, `runNode` and the updater's and the reprocess command's
wiring are modelled; the rest are read-only reports and set-up.

Sizes in bytes are abstracted, so the 64 MiB frame limit against a batch of 500
records is listed as a hazard without a property. What a power loss takes from a
database in WAL mode with `synchronous=NORMAL` is not modelled; process crashes
are (section 8). Durations are left out except for the order they impose (`Peering`).
Floating point is left out of `Derive`: the shares are exact.

## 7. What the violated runs show

* `fork_shared_line`: the clones hold different records under sequence number 1,
  and one line in common. The relay drops that line of the second clone as a
  duplicate, so its bucket never has as many records as the clone announces, and
  `firstMismatch` compares only buckets with equal counts. The conflicting
  record is not sent again, and no quarantine ever holds it, although
  `resendFrom` says the rewind makes such forks visible.
* `backoff`: a node is configured with an address at which nobody listens. `sweep`
  skips an address until its penalty is over, and `penalize` doubles only what is
  left of one, which by then is nothing; so the address is dialled again after
  each first penalty, for ever. A test says "Backoff must still grow for an address
  that keeps failing" (`wake_internal_test.go:123`), `mesh.go:33` that `maxBackoff`
  caps the wait after repeated failures, so that a peer that is off for a week is
  not retried "every minute forever", and `mesh.go:110` and `main.go:687` speak of
  a fifteen-minute backoff. `PenaltyNeverGrows` proves that this is so in every
  behaviour, whatever the cap.
* `bridge_synced`: the second bundle of an origin is in the reader's replica of
  the folder, the first is not yet. `Fetch` applies it; the watermark is now above
  the first bundle, which `Fetch` passes over when it arrives, and which no peer
  will offer, since they all ask and answer by watermark.
* `collector_reused`: a transcript is collected to its end, deleted, and a new
  one at the path gets the same inode number. At the next pass it is as long as
  the cursor's offset: `resolveStart` trusts the identity, does not compare the
  leading bytes, and reads on behind lines that were never collected.

## 8. Read along the way

What the code does otherwise than one would expect from it, met while modelling
it. The models do the same; no run is devoted to these, and the properties are
stated so that they hold in spite of them.

Peering and exchange:

* `Exchange` ends without an error when the peer hangs up without a `done` frame
  and the own records are out (`ReceiveEOF`), and `recordOutcome` then stores the
  exchange as converged, although nothing of what the peer announced need have
  arrived. `mesh.go:441` says that it "persists whether this exchange actually
  converged"; the comment where the end of file is read (`sync.go:390`) says only
  that what arrived is committed. The rest comes with a later exchange
  (`Replication`), and what a `done` frame says is true (`CaughtUp`).
* An address that leads back to this node, one that all hosts have, counts as the
  working address of its row: later addresses of the row are not tried in that
  sweep (`DialAnswered`).
* An inbound exchange replaces a peer's addresses by the ephemeral one it came
  from until the next beacon; a placeholder that was hidden shows up again
  meanwhile. Two machines behind one host name hide one placeholder.
* A dial in flight while the machine wakes imposes its penalty after `Wake` has
  cleared all others (`WakeForgets` allows that one).
* `serve` returns at any error of `Accept`, and its caller does not report it: the
  node goes on dialling and is deaf (`Reached` does not rely on being dialled).
  The beacon's listener ends at an error that is no timeout while its sender
  goes on.
* Who is refused at the accept limit has already shaken hands: it sees an exchange
  that fails. `Reached` counts an exchange whatever its outcome, and the limits of
  other nodes are not modelled, so two nodes that refuse each other for ever would
  not violate it.
* With overlapping exchanges, the vector stored with a peer may go back to an
  older one.

Collection:

* `CollectOnce` returns at the first stream whose read fails with anything but
  `ErrStreamGone`. A transcript that can be listed and never opened (its
  permissions, say) ends every pass where the walk meets it: what lies behind it
  is not visited, what was read before it and not yet uploaded is dropped. The
  comment over the recovery in `collectLoop` says that one bad transcript must
  not end collection for the others. Failures of a pass are transient in
  `Collector`, and a line longer than one read does not occur in it.
* The archive is opened in WAL mode with `synchronous=NORMAL`, under which a power
  loss may take back commits that the death of a process would not; the cursor
  store flushes every commit. A pass that stores a line, saves the cursor behind
  it, and loses power leaves a line that no pass reads again. A peer that got the
  record meanwhile sends it back, unless the node has issued its sequence number
  again by then, which makes it a fork.

Update:

* The target is the newest build a peer reports. The peers of the model report
  only releases that have a signed manifest. Should one report a release number
  that none was published under, `Pass` would fail at its manifest until a newer
  one is, and older published releases would not be looked at.

Update, on Windows:

* Where the service's file is replaced and the other one then fails, the process
  runs from the image aside; every later pass of it fails at the service's file,
  which cannot be moved while that name is held (`CannotMove`, `Stuck`), although
  `update.go` leaves a failure for the next pass to repair. A restart for
  another reason ends that.
* A failure between the two renames, and one in moving the image back, leaves
  nothing in the service's place; the binary is there, under its stale name, and
  the next start needs it put back by hand (`Stranded`). For the console's file
  there is no such mercy: after a death between its two renames the next start of
  the daemon sweeps the stale name (`Boot`), and with it the last copy.

Reports:

* A session that ran in the root of a file system (its path has no segment) and
  opened a pull request makes `matchInPath` index an empty slice; the daily report
  is then not produced (`Panics`, excepted from `Balanced` and `Contained`).
* The comment over `sessionProjects` (`daily.go:535`) says of directories and
  repositories alike that a session showing more than one answer gets none. One
  whose directories show more than one project falls back to its repository, if it
  shipped to one (`daily.go:558`).
* `Deliveries` takes the numbers of sessions from the first model it meets, and
  counts requests where its name says sessions.
* Directories that differ only in case are two projects when neither lies in the
  other.
* The segment for rows without a key takes one of the named places of a stack.
