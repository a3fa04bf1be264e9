----------------------------- MODULE Collector -----------------------------
(***************************************************************************)
(* A collection pass (internal/collector) over transcript files            *)
(* (internal/source), with read positions kept across restarts             *)
(* (internal/cursor).  Meanwhile the assistant appends to the files, and   *)
(* they are deleted and replaced under the collector's feet.               *)
(*                                                                         *)
(* A file is a sequence of chunks.  A line is written in two of them, the  *)
(* second ending in the newline, so that a read can see half a line.       *)
(* Offsets and sizes count chunks.                                         *)
(***************************************************************************)
EXTENDS Integers, FiniteSets, FiniteSetsExt, Sequences, Functions

CONSTANTS
    Stream,           \* paths of transcripts
    Gone,             \* what is at a path where no file is
    HasIdentity,      \* paths on a platform with inode numbers
    FingerprintSize,  \* leading chunks hashed (4096 bytes in the code)
    MaxRead,          \* chunks returned by one read (4 MiB in the code)
    BatchSize,        \* lines that trigger an upload (2000 in the code)
    Reused,           \* may a new file at a path have the old one's identity?
    MaxLines,         \* lines the assistant writes
    MaxFiles,         \* files it creates
    MaxFaults         \* failed passes and crashes

ASSUME StreamAssumption == HasIdentity \subseteq Stream /\ Stream # {}
ASSUME SizeAssumption == {FingerprintSize, MaxRead, BatchSize} \subseteq Nat \ {0}
ASSUME BoundsAssumption == {MaxLines, MaxFiles, MaxFaults} \subseteq Nat /\ Reused \in BOOLEAN

Chunk == [line : Nat \ {0}, last : BOOLEAN]
Half(k) == [line |-> k, last |-> FALSE]
Rest(k) == [line |-> k, last |-> TRUE]
Whole(k) == <<Half(k), Rest(k)>>

\* Identity 0 is the unknown one.
File == [id : Nat, content : Seq(Chunk)]

ASSUME GoneAssumption == Gone \notin File

\* The fingerprint is the hashed prefix itself; that of nothing is the zero
\* fingerprint.
Cursor == [offset : Nat, fingerprint : Seq(Chunk), id : Nat]
Fresh == [offset |-> 0, fingerprint |-> <<>>, id |-> 0]

\* What a record is made from.
RawLine == [stream : Stream, offset : Nat, data : Seq(Chunk)]

\* idle:        between two passes
\* walking:     between two streams
\* reading:     about to look at stream `current`
\* statted:     knows its size and identity, has not opened it
\* flushing:    the batch is being uploaded
\* committing:  the cursors are being saved, one by one
Phase == {"idle", "walking", "reading", "statted", "flushing", "committing"}

VARIABLES
    files,    \* path -> what is there
    written,  \* lines begun
    created,  \* files created, which numbers their identities
    cursors,  \* path -> durable read position
    archive,  \* lines stored by this node, durable
    phase,
    queue,    \* streams the pass has discovered and not visited
    current,  \* the stream being drained
    from,     \* where its next read starts
    info,     \* what Stat said
    records,  \* the batch
    pending,  \* path -> cursor, for the paths the batch justifies advancing
    after,    \* the phase after a flush
    faults

transcripts == <<files, written, created>>
durable == <<cursors, archive>>
batch == <<records, pending>>
vars == <<files, written, created, cursors, archive, phase, queue, current,
          from, info, records, pending, after, faults>>

Nobody == CHOOSE s \in Stream : TRUE
Nowhere == [s \in {} |-> Fresh]
Unknown == [size |-> 0, id |-> 0]

\* What a pass starts from, and what is left of one that ended.
NoPass ==
    /\ queue' = {}
    /\ current' = Nobody
    /\ from' = Fresh
    /\ info' = Unknown
    /\ records' = {}
    /\ pending' = Nowhere
    /\ after' = "idle"

Init ==
    /\ files = [s \in Stream |-> Gone]
    /\ written = 0
    /\ created = 0
    /\ cursors = [s \in Stream |-> Fresh]
    /\ archive = {}
    /\ phase = "idle"
    /\ queue = {}
    /\ current = Nobody
    /\ from = Fresh
    /\ info = Unknown
    /\ records = {}
    /\ pending = Nowhere
    /\ after = "idle"
    /\ faults = 0

----------------------------------------------------------------------------
(* The assistant *)

Complete(content) == \A i \in DOMAIN content : i = Len(content) => content[i].last

\* Half a line reaches the file.
WriteHalf(s) ==
    /\ files[s] # Gone
    /\ Complete(files[s].content)
    /\ written < MaxLines
    /\ written' = written + 1
    /\ files' = [files EXCEPT ![s].content = Append(@, Half(written + 1))]
    /\ UNCHANGED <<created, durable, phase, queue, current, from, info, batch, after, faults>>

\* The rest of it.
WriteRest(s) ==
    /\ files[s] # Gone
    /\ ~Complete(files[s].content)
    /\ files' = [files EXCEPT ![s].content = Append(@, Rest(@[Len(@)].line))]
    /\ UNCHANGED <<written, created, durable, phase, queue, current, from, info, batch,
                   after, faults>>

\* The retention schedule deletes a transcript.
Delete(s) ==
    /\ files[s] # Gone
    /\ files' = [files EXCEPT ![s] = Gone]
    /\ UNCHANGED <<written, created, durable, phase, queue, current, from, info, batch,
                   after, faults>>

\* A file appears at a path, in place of another or of none.
Create(s, id) ==
    /\ created < MaxFiles
    /\ created' = created + 1
    /\ files' = [files EXCEPT ![s] = [id |-> id, content |-> <<>>]]
    /\ UNCHANGED <<written, durable, phase, queue, current, from, info, batch, after, faults>>

\* Identities: none on some platforms, else a new one, unless the file system
\* gives the inode of a deleted file to the next (or the file is the same,
\* truncated and written again).
Identities(s) ==
    IF s \notin HasIdentity THEN {0}
    ELSE {created + 1} \cup IF Reused THEN {cursors[s].id} \ {0} ELSE {}

----------------------------------------------------------------------------
(* Reading a file *)

Prefix(content, size) == SubSeq(content, 1, Min({FingerprintSize, size}))

Identified(cursor, stat) == cursor.id # 0 /\ stat.id # 0

\* The file is not the one the cursor is for, as far as Stat and the leading
\* bytes can tell.
Truncated(cursor, stat) == stat.size < cursor.offset

ReplacedById(cursor, stat) == Identified(cursor, stat) /\ cursor.id # stat.id

\* A matching identity is trusted, and the leading bytes are not read again.
Trusted(cursor, stat) ==
    /\ ~Truncated(cursor, stat)
    /\ Identified(cursor, stat) /\ cursor.id = stat.id
    /\ ~(cursor.offset = 0 /\ cursor.fingerprint = <<>>)

ReplacedByContent(cursor, stat, content) ==
    /\ ~Trusted(cursor, stat)
    /\ cursor.fingerprint # <<>>
    /\ Prefix(content, stat.size) # cursor.fingerprint

\* (mutant) The leading bytes are not compared.
StartByIdentity(cursor, stat, content) ==
    IF Truncated(cursor, stat) \/ ReplacedById(cursor, stat) THEN 0 ELSE cursor.offset

\* Where to read from: where the cursor stands, or the beginning.
Start(cursor, stat, content) ==
    IF \/ Truncated(cursor, stat)
       \/ ReplacedById(cursor, stat)
       \/ ReplacedByContent(cursor, stat, content)
    THEN 0
    ELSE cursor.offset

Fingerprint(cursor, stat, content) ==
    IF Trusted(cursor, stat) THEN cursor.fingerprint ELSE Prefix(content, stat.size)

\* The chunks a read gets: what Stat promised, at most MaxRead, and what the
\* file opened has.
Window(content, start, size) ==
    SubSeq(content, start + 1, Min({size, start + MaxRead, Len(content)}))

Ends(window) == {i \in DOMAIN window : window[i].last}

\* (mutant) A trailing partial line is consumed with the rest.
ConsumedWithTail(window) == Len(window)

\* (mutant) The newline is not counted.
ConsumedWithoutNewline(window) == Max({0} \cup Ends(window)) - 1

\* Complete lines only; a trailing partial line is left for the next read.
Consumed(window) == Max({0} \cup Ends(window))

RawLines(s, start, window) ==
    {[stream |-> s,
      offset |-> start + Max({0} \cup {j \in Ends(window) : j < i}),
      data   |-> SubSeq(window, Max({0} \cup {j \in Ends(window) : j < i}) + 1, i)] :
        i \in Ends(window)}

----------------------------------------------------------------------------
(* The pass *)

\* Discover.
Begin ==
    /\ phase = "idle"
    /\ phase' = "walking"
    /\ queue' = {s \in Stream : files[s] # Gone}
    /\ UNCHANGED <<transcripts, durable, current, from, info, batch, after, faults>>

\* The next stream, and its cursor.
Open(s) ==
    /\ phase = "walking"
    /\ s \in queue
    /\ queue' = queue \ {s}
    /\ current' = s
    /\ from' = cursors[s]
    /\ phase' = "reading"
    /\ UNCHANGED <<transcripts, durable, info, batch, after, faults>>

Stat ==
    /\ phase = "reading"
    /\ files[current] # Gone
    /\ info' = [size |-> Len(files[current].content), id |-> files[current].id]
    /\ phase' = "statted"
    /\ UNCHANGED <<transcripts, durable, queue, current, from, batch, after, faults>>

\* Neither failure nor end of the pass: the file was deleted.
Vanished ==
    /\ phase \in {"reading", "statted"}
    /\ files[current] = Gone
    /\ phase' = "walking"
    /\ current' = Nobody
    /\ from' = Fresh
    /\ info' = Unknown
    /\ UNCHANGED <<transcripts, durable, queue, batch, after, faults>>

\* The leading bytes that Stat promised are not all there.
ShortOfPrefix(content) ==
    ~Trusted(from, info) /\ Len(content) < Min({FingerprintSize, info.size})

\* Open and read: the file there now, which may not be the one Stat saw.
Read ==
    LET content == files[current].content
        start   == Start(from, info, content)
        window  == Window(content, start, info.size)
        next    == [offset |-> start + Consumed(window),
                    fingerprint |-> Fingerprint(from, info, content),
                    id |-> info.id]
        onward  == IF Ends(window) = {} \/ next.offset = from.offset
                   THEN "walking" ELSE "reading"
    IN
    /\ phase = "statted"
    /\ files[current] # Gone
    /\ ~ShortOfPrefix(content)
    /\ records' = records \cup RawLines(current, start, window)
    /\ pending' = [s \in DOMAIN pending \cup {current} |->
                      IF s = current THEN next ELSE pending[s]]
    /\ current' = IF onward = "reading" THEN current ELSE Nobody
    /\ from' = IF onward = "reading" THEN next ELSE Fresh
    /\ info' = Unknown
    /\ IF Cardinality(records') >= BatchSize
       THEN phase' = "flushing" /\ after' = onward
       ELSE phase' = onward /\ UNCHANGED after
    /\ UNCHANGED <<transcripts, durable, queue, faults>>

\* The pass has drained its streams.
LastFlush ==
    /\ phase = "walking"
    /\ queue = {}
    /\ phase' = "flushing"
    /\ after' = "idle"
    /\ UNCHANGED <<transcripts, durable, queue, current, from, info, batch, faults>>

\* One transaction of AppendLocal, in which lines already held are dropped.
Upload ==
    /\ phase = "flushing"
    /\ archive' = archive \cup {r.data : r \in records}
    /\ phase' = "committing"
    /\ UNCHANGED <<transcripts, cursors, queue, current, from, info, batch, after, faults>>

\* (mutant) Cursors are saved as soon as they are known.
SaveAtOnce(s) ==
    /\ phase # "idle"
    /\ s \in DOMAIN pending
    /\ cursors' = [cursors EXCEPT ![s] = pending[s]]
    /\ pending' = [r \in DOMAIN pending \ {s} |-> pending[r]]
    /\ UNCHANGED <<transcripts, archive, phase, queue, current, from, info, records,
                   after, faults>>

\* One transaction of the cursor store.
Save(s) ==
    /\ phase = "committing"
    /\ s \in DOMAIN pending
    /\ cursors' = [cursors EXCEPT ![s] = pending[s]]
    /\ pending' = [r \in DOMAIN pending \ {s} |-> pending[r]]
    /\ UNCHANGED <<transcripts, archive, phase, queue, current, from, info, records,
                   after, faults>>

\* The batch is empty again: back to the stream, the walk, or the end.
Flushed ==
    /\ phase = "committing"
    /\ pending = Nowhere
    /\ phase' = after
    /\ IF after = "idle" THEN NoPass
       ELSE /\ records' = {}
            /\ after' = "idle"
            /\ UNCHANGED <<queue, current, from, info, pending>>
    /\ UNCHANGED <<transcripts, durable, faults>>

\* The pass ends in an error, and what it had not saved is forgotten.
Abandon ==
    /\ phase' = "idle"
    /\ NoPass
    /\ UNCHANGED <<transcripts, durable>>

ShortRead ==
    /\ phase = "statted"
    /\ files[current] # Gone
    /\ ShortOfPrefix(files[current].content)
    /\ Abandon
    /\ UNCHANGED faults

\* Reading, uploading or saving fails, or the process dies.
Fail ==
    /\ phase # "idle"
    /\ faults < MaxFaults
    /\ faults' = faults + 1
    /\ Abandon

----------------------------------------------------------------------------

Assistant(s) ==
    \/ WriteHalf(s) \/ WriteRest(s) \/ Delete(s)
    \/ \E id \in Identities(s) : Create(s, id)

Pass ==
    \/ Begin \/ Stat \/ Vanished \/ Read \/ ShortRead
    \/ LastFlush \/ Upload \/ Flushed
    \/ \E s \in Stream : Open(s) \/ Save(s)

Next ==
    \/ \E s \in Stream : Assistant(s)
    \/ Pass
    \/ Fail

Spec == Init /\ [][Next]_vars

\* collectLoop starts a pass at every tick, and a pass goes on.
FairSpec == Spec /\ WF_vars(Pass)

----------------------------------------------------------------------------
(* Properties *)

\* One type for every variable.
TypeOK ==
    /\ files \in [Stream -> File \cup {Gone}]
    /\ written \in Nat /\ created \in Nat /\ faults \in Nat
    /\ cursors \in [Stream -> Cursor]
    /\ archive \in SUBSET Seq(Chunk)
    /\ phase \in Phase /\ after \in {"idle", "walking", "reading"}
    /\ queue \subseteq Stream /\ current \in Stream
    /\ from \in Cursor /\ info \in [size : Nat, id : Nat]
    /\ records \in SUBSET RawLine
    /\ DOMAIN pending \subseteq Stream /\ \A s \in DOMAIN pending : pending[s] \in Cursor

\* Where the next pass would read a file from, as it is now.
ResumeAt(s) ==
    Start(cursors[s],
          [size |-> Len(files[s].content), id |-> files[s].id],
          files[s].content)

\* Nothing is skipped: whatever part of a file no pass will read again is in the
\* archive, line by line -- across files that grow, vanish and are replaced in
\* the middle of a pass, failed uploads, and crashes between the upload and the
\* cursor, or between two cursors (collector.go: "the cursor did not advance,
\* so the next pass retries the same data").
NothingSkipped ==
    \A s \in Stream : files[s] # Gone =>
        \A i \in 1..ResumeAt(s) :
            files[s].content[i].last => Whole(files[s].content[i].line) \in archive

\* No pass resumes in the middle of a line, although a line is often only half
\* written when it is read (tail.go: "It never returns a partial trailing line").
ResumesAtLine ==
    \A s \in Stream : files[s] # Gone =>
        ResumeAt(s) = 0 \/ files[s].content[ResumeAt(s)].last

\* Every line that stays on disk long enough is archived, whatever fails.
OnDisk(k) == \E s \in Stream : files[s] # Gone /\ Rest(k) \in Range(files[s].content)

Collected == \A k \in 1..MaxLines : OnDisk(k) ~> (Whole(k) \in archive \/ ~OnDisk(k))
=============================================================================
