------------------------------ MODULE Reports ------------------------------
(***************************************************************************)
(* The reports of a node whose archive is growing and being filled in:     *)
(* Derive read over the records of Extraction.                             *)
(***************************************************************************)
EXTENDS Extraction, Derive

CONSTANT Line  \* origin -> sequence of raw lines

ASSUME LineAssumption ==
    /\ \A o \in Origin : Len(Line[o]) = Length[o]
    /\ <<>> \in Range(Directory)
    /\ \A r \in Record :
        LET line == Line[r[1]][r[2]]
        IN  line.usage \in [Tokens -> Nat] \cup {None} /\ line.cwd \in Range(Directory)

\* A record as it is stored: the columns of extraction are empty until they are
\* filled in, the others are not.
Stored(r, complete) ==
    LET id == Identify(Line[r[1]][r[2]])
    IN  [session |-> id.session, day |-> id.day, pr |-> id.pr, request |-> id.request,
         model |-> id.model, usage |-> id.usage, origin |-> r[1], seq |-> r[2],
         cwd |-> IF complete THEN id.cwd ELSE <<>>,
         branch |-> IF complete THEN id.branch ELSE None]

\* The unit of money divides evenly among the pull requests of any session,
\* however many of them are known yet.
ASSUME WholeAssumption ==
    LET links == sessionLinks({Stored(r, TRUE) : r \in Record})
    IN  \A l \in links :
            \A n \in 1..Cardinality(pullRequests(links, l.session)) : Whole % n = 0

Held == {r \in Record : r[2] <= held[r[1]]}

records == {Stored(r, r \in filled) : r \in Held}

\* What they would be had every line been read by this build.
Reread == {Stored(r, Readable(r) \/ r \in filled) : r \in Held}

Shipped(all) == shippedByDirectory(sessionLinks(all), dailyGrid(all))

\* The daily report is then not produced at all.
DirectoriesPanic(all) == Panics(DOMAIN Shipped(all), Shipped(all))

Init == ExtractionInit
Next == ExtractionNext
Spec == Init /\ [][Next]_extraction /\ ExtractionFairness

----------------------------------------------------------------------------
\* Every archive that a pass of the daemon commits, the command could have
\* committed while the daemon is between two passes: the reports, which read
\* nothing but the archive, are looked at there.
Quiet == step = "idle"

\* Every variable keeps its type.
TypeOK == ExtractionTypeOK

\* Whatever part of the archive has arrived, and been filled in, every stack of
\* every day divides that day's cost whole, and the summary, the daily report
\* and the pull requests agree about what was spent (Daily, Summarize,
\* Deliveries).
Balanced ==
    LET all == records
        report == Daily(all)
    IN  Quiet /\ ~DirectoriesPanic(all) => StacksSum(report) /\ ReportsAgree(all, report)

\* Whatever directories are known so far, each belongs to the innermost project
\* around it unless it shipped something itself (resolve): the one pass over
\* sorted directories reads no project that a later one would have changed.
Contained ==
    LET all == records
        shipped == Shipped(all)
        dirs == DOMAIN shipped
    IN  Quiet /\ ~Panics(dirs, shipped) =>
            ResolvedByContainment(dirs, shipped, resolve(dirs, shipped))

\* Once a node runs a build that reads the new columns, its records, and so its
\* reports, become for good what they would be had that build collected them
\* all: history from before the upgrade, records of peers that are not upgraded,
\* and what lies behind an origin it cannot read (Reprocessor.Run).
Healed == <>[](records = Reread)
=============================================================================
