------------------------------- MODULE Derive -------------------------------
(***************************************************************************)
(* What the dashboard reports of a set of archived records                 *)
(* (internal/derive, internal/pricing): the requestId fold, the summary,   *)
(* the daily report with its stacks, and what each pull request cost.      *)
(* Money is counted in whole units of 1/Whole of a price, Whole being a    *)
(* multiple of every number of pull requests a session has, so that the    *)
(* shares the code computes in floating point are exact here.              *)
(***************************************************************************)
EXTENDS Projects

CONSTANTS
    Price,        \* rows of the price table: model -> input, output, cache rates
    Whole,
    MaxSegments,
    KeyOrder,     \* stack -> its segment keys in the order of their spelling
    None,         \* an absent field or column
    Detached,     \* the branch a detached HEAD is reported as
    Synthetic,    \* the model of an error line
    OtherKey, NoneKey

Tokens == {"input", "output", "cache_read", "cache_write_5m", "cache_write_1h"}

ASSUME PriceAssumption ==
    /\ Price \in [DOMAIN Price -> [Tokens -> Nat]]
    /\ Whole \in Nat \ {0}

SumOver(totals, keys) == SumFunctionOnSet(totals, keys)

----------------------------------------------------------------------------
\* What is read out of a raw line.  Only a billable response has a request, a
\* model and a usage; only a link line has a pull request.
branchOf(branch) == IF branch = Detached THEN None ELSE branch

Identify(line) ==
    LET usable == /\ line.type = "assistant" /\ line.model \notin {None, Synthetic}
                  /\ line.usage # None /\ line.request # None
        linked == line.type = "pr-link" /\ line.pr # None
    IN  [session |-> line.session, day |-> line.day, cwd |-> line.cwd,
         branch |-> branchOf(line.branch),
         pr |-> IF linked THEN line.pr ELSE None,
         request |-> IF usable THEN line.request ELSE None,
         model |-> IF usable THEN line.model ELSE None,
         usage |-> IF usable THEN line.usage ELSE None]

----------------------------------------------------------------------------
\* Prices.  A reported model is a base name and its decorations.
Normalize(model) == model[1]
Priced(model) == Normalize(model) \in DOMAIN Price

\* A rate that a row does not state is a multiple of its input rate.
Rate(model) ==
    LET row == Price[Normalize(model)]
        Stated(kind, otherwise) == IF row[kind] = 0 THEN otherwise ELSE row[kind]
    IN  [row EXCEPT !.cache_read = Stated("cache_read", row.input \div 10),
                    !.cache_write_5m = Stated("cache_write_5m", (row.input * 5) \div 4),
                    !.cache_write_1h = Stated("cache_write_1h", row.input * 2)]

Cost(model, usage) ==
    LET rate == Rate(model)
    IN  usage.input * rate.input + usage.output * rate.output
            + usage.cache_read * rate.cache_read
            + usage.cache_write_5m * rate.cache_write_5m
            + usage.cache_write_1h * rate.cache_write_1h

UncachedCost(model, usage) ==
    LET rate == Price[Normalize(model)]
    IN  usage.output * rate.output
            + (usage.input + usage.cache_read + usage.cache_write_5m + usage.cache_write_1h)
                * rate.input

\* Nothing for a model that is not in the table.
Charge(row) == IF Priced(row.model) THEN Cost(row.model, row.usage) ELSE 0
ChargeOf(rows) == SumOver([r \in rows |-> Charge(r)], rows)

----------------------------------------------------------------------------
\* The fold: the row of each request that comes first by origin and sequence.
\* The mutant folds a request once for each machine that collected it.
Before(r, q) == r.origin < q.origin \/ (r.origin = q.origin /\ r.seq < q.seq)

foldedPerOrigin(rows) ==
    {r \in rows : /\ r.request # None
                  /\ ~\E q \in rows : /\ q.request = r.request /\ q.origin = r.origin
                                      /\ Before(q, r)}
folded(rows) ==
    {r \in rows : /\ r.request # None
                  /\ ~\E q \in rows : q.request = r.request /\ Before(q, r)}

dailyGrid(rows) == {r \in folded(rows) : r.day # None}
Days(grid) == {r.day : r \in grid}
OfDay(grid, day) == {r \in grid : r.day = day}

----------------------------------------------------------------------------
\* Where a session's work went.
sessionLinks(rows) ==
    {[session |-> r.session, pr |-> r.pr] :
        r \in {q \in rows : q.pr # None /\ q.session # None}}
pullRequests(links, session) == {l.pr : l \in {k \in links : k.session = session}}
repos(links, session) == {pr.repo : pr \in pullRequests(links, session)}

Directories(grid) == {r.cwd : r \in grid}

shippedByDirectory(links, grid) ==
    [dir \in Directories(grid) |->
        IF dir = <<>> THEN {}
        ELSE UNION {repos(links, r.session) : r \in {q \in grid : q.cwd = dir}}]

projectsOf(links, grid) == resolve(Directories(grid), shippedByDirectory(links, grid))

\* A session is called by its one project.  One that shows none, or more than one,
\* is called by the one repository it shipped to, and has no name without that.
sessionProjects(links, grid, projects) ==
    [session \in ({r.session : r \in grid} \cup {l.session : l \in links}) \ {None} |->
        LET found == {projects[r.cwd] : r \in {q \in grid : q.session = session}} \ {Unnamed}
            shipped == repos(links, session)
        IN  IF Cardinality(found) = 1 THEN CHOOSE p \in found : TRUE
            ELSE IF Cardinality(shipped) = 1 THEN repoName(CHOOSE repo \in shipped : TRUE)
            ELSE Unnamed]

----------------------------------------------------------------------------
\* The stacks: the keys a row belongs to, between which it is split evenly.
Stack == {"model", "project", "branch", "pull_request", "session", "peer"}

OrNone(keys) == IF keys = {} THEN {NoneKey} ELSE keys

stackings(stack, links, projects, row) ==
    OrNone(CASE stack = "model" -> {row.model}
             [] stack = "project" -> {projects[row.cwd]} \ {Unnamed}
             [] stack = "branch" -> {row.branch} \ {None}
             [] stack = "pull_request" -> pullRequests(links, row.session)
             [] stack = "session" -> {row.session} \ {None}
             [] stack = "peer" -> {row.origin})

\* The mutant attributes a session whole to each of its pull requests.
wholly(keys) == Whole
evenly(keys) == Whole \div Cardinality(keys)

\* The priced rows with what they cost and the keys that share it: a model
\* without a price adds nothing to a day, and so nothing to its stacks.
Cells(stack, links, grid, projects) ==
    {[row |-> r, charge |-> Charge(r), keys |-> stackings(stack, links, projects, r)] :
        r \in {q \in grid : Priced(q.model)}}

PerKey(cells) ==
    [key \in UNION {c.keys : c \in cells} |->
        SumOver([c \in cells |-> c.charge * evenly(c.keys)], {c \in cells : key \in c.keys})]

\* The keys that get a segment of their own: those that cost the most over the
\* whole range, then the ones spelled first.
Spelled(stack, key) == CHOOSE i \in DOMAIN KeyOrder[stack] : KeyOrder[stack][i] = key
Ahead(stack, totals, key) ==
    {k \in DOMAIN totals :
        \/ totals[k] > totals[key]
        \/ totals[k] = totals[key] /\ Spelled(stack, k) < Spelled(stack, key)}
Kept(stack, totals) ==
    {key \in DOMAIN totals \ {OtherKey} : Cardinality(Ahead(stack, totals, key)) < MaxSegments}

\* A legend is the keys that are kept, and Other where something is left over.
Legend(stack, totals) ==
    Kept(stack, totals) \cup
        (IF SumOver(totals, DOMAIN totals \ Kept(stack, totals)) > 0 THEN {OtherKey} ELSE {})

\* One day's shares; a segment that cost nothing that day is left out.
fold(stack, byKey, totals) ==
    LET Share(segment) ==
            IF segment = OtherKey THEN SumOver(byKey, DOMAIN byKey \ Kept(stack, totals))
            ELSE IF segment \in DOMAIN byKey THEN byKey[segment] ELSE 0
    IN  [segment \in {s \in Legend(stack, totals) : Share(s) > 0} |-> Share(segment)]

Daily(rows) ==
    LET grid == dailyGrid(rows)
        links == sessionLinks(rows)
        projects == projectsOf(links, grid)
        Stacked(stack) ==
            LET cells == Cells(stack, links, grid, projects)
                totals == PerKey(cells)
            IN  [legend |-> Legend(stack, totals),
                 shares |-> [day \in Days(grid) |->
                    fold(stack, PerKey({c \in cells : c.row.day = day}), totals)]]
    IN  [cost |-> [day \in Days(grid) |-> ChargeOf(OfDay(grid, day))],
         stacks |-> [stack \in Stack |-> Stacked(stack)],
         labels |-> sessionProjects(links, grid, projects)]

----------------------------------------------------------------------------
Summarize(rows) ==
    LET requests == folded(rows)
        priced == {r \in requests : Priced(r.model)}
        uncached == SumOver([r \in priced |-> UncachedCost(r.model, r.usage)], priced)
    IN  [lines |-> Cardinality(rows),
         assistantLines |-> Cardinality({r \in rows : r.request # None}),
         requests |-> Cardinality(requests),
         total |-> ChargeOf(priced),
         savings |-> uncached - ChargeOf(priced),
         unpriced |-> {r.model : r \in requests \ priced}]

\* What a pull request is billed: its share of the tokens of every session that
\* opened it, per model, cut to whole tokens before it is priced.
Billed(links, requests, pr) ==
    {r \in requests : r.session # None /\ pr \in pullRequests(links, r.session)}

ShareOfTokens(links, billed) ==
    [kind \in Tokens |->
        SumOver([r \in billed |-> r.usage[kind] * evenly(pullRequests(links, r.session))], billed)
            \div Whole]

CostOfModel(links, billed, model) ==
    IF Priced(model)
    THEN Cost(model, ShareOfTokens(links, {r \in billed : r.model = model})) ELSE 0

BilledCost(links, billed) ==
    LET models == {r.model : r \in billed}
    IN  SumOver([model \in models |-> CostOfModel(links, billed, model)], models)

Deliveries(rows) ==
    LET requests == folded(rows)
        links == sessionLinks(rows)
        prs == {pr \in {l.pr : l \in links} : Billed(links, requests, pr) # {}}
    IN  [cost |-> [pr \in prs |-> BilledCost(links, Billed(links, requests, pr))],
         billed |-> UNION {Billed(links, requests, pr) : pr \in prs},
         attributed |-> Cardinality({r \in requests : \E l \in links : l.session = r.session})]

----------------------------------------------------------------------------
\* Every stack of every day divides that day's cost, whole.
StacksSum(report) ==
    \A day \in DOMAIN report.cost, stack \in Stack :
        LET shares == report.stacks[stack].shares[day]
        IN  SumOver(shares, DOMAIN shares) = report.cost[day] * Whole

\* The three reports tell one story: each request is counted and billed once,
\* and pull requests share out no more than was spent.
ReportsAgree(rows, report) ==
    LET summary == Summarize(rows)
        bills == Deliveries(rows)
    IN  /\ summary.requests = Cardinality({r.request : r \in rows} \ {None})
        /\ summary.total = ChargeOf({r \in folded(rows) : r.day = None})
                + SumOver(report.cost, DOMAIN report.cost)
        /\ SumOver(bills.cost, DOMAIN bills.cost) <= summary.total
        /\ bills.attributed = Cardinality(bills.billed)
=============================================================================
