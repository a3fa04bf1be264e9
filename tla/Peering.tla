------------------------------ MODULE Peering ------------------------------
(***************************************************************************)
(* How one node finds and keeps its peers: the dial loop and the accept    *)
(* loop of internal/mesh, the listening half of the beacon, the accepting  *)
(* half of the channel, the resume detector, and the peers table they all  *)
(* write.  Other nodes are the environment: they come and go, send         *)
(* beacons, dial, and answer at their addresses.                           *)
(*                                                                         *)
(* The unit of time is the sweep interval.  backoff[a] bounds the ticks    *)
(* until the penalty of a is over; in its last interval it may end at any  *)
(* moment.                                                                 *)
(***************************************************************************)
EXTENDS Naturals, Sequences, FiniteSets, Functions

CONSTANTS
    Self,         \* this node
    Peer,         \* the other nodes
    Nobody,       \* the owner of an address at which nobody listens
    Addr,         \* host:port
    Host,         \* Addr -> its host
    Owner,        \* Addr -> who answers there: a peer, Self or Nobody
    Advertised,   \* peer -> the addresses its beacon carries, sorted
    Source,       \* peer -> the source of its beacons, with its port
    Skew,         \* peer -> epochs its clock is off ours
    Ephemeral,    \* peer -> the address its own connections come from
    StaticPeers,  \* configured addresses
    Order,        \* all peer ids, as ORDER BY peer_id lists them
    MaxBackoff,   \* cap of a penalty (15 intervals in the code)
    MaxInbound,   \* exchanges others opened, at once (8 in the code)
    MaxSuspends   \* suspends of this machine

Static(a) == <<"static", a>>
ID == Peer \cup {Static(a) : a \in StaticPeers}

ASSUME OwnerAssumption == Owner \in [Addr -> Peer \cup {Self, Nobody}]
ASSUME AdvertisedAssumption ==
    /\ Advertised \in [Peer -> Seq(Addr)]
    /\ Source \in [Peer -> Addr] /\ Ephemeral \in [Peer -> Addr]
    /\ Skew \in [Peer -> Nat]
    /\ Host \in [Addr -> Range(Host)] /\ StaticPeers \subseteq Addr
ASSUME OrderAssumption == Order \in Seq(ID) /\ Range(Order) = ID
ASSUME IdentityAssumption ==
    /\ Self \notin Peer /\ Nobody \notin Peer \cup {Self}
    /\ \A a \in StaticPeers : Static(a) \notin Peer
ASSUME CapAssumption ==
    /\ {MaxInbound, MaxSuspends} \subseteq Nat
    /\ MaxBackoff \in Nat \ {0}

Row == [known : BOOLEAN, addrs : Seq(Addr), converged : BOOLEAN, failing : BOOLEAN]
Absent == [known |-> FALSE, addrs |-> <<>>, converged |-> FALSE, failing |-> FALSE]

\* waiting:     in the select of dialLoop
\* sweeping:    about to read the peers
\* picking:     between two dials of a sweep
\* dialling, exchanging:  in Dial, in Exchange
LoopState == {"waiting", "sweeping", "picking", "dialling", "exchanging"}

VARIABLES
    rows,      \* the peers table
    backoff,   \* addr -> ticks its penalty may still last, 0 for none
    loop,      \* where the dial loop is
    todo,      \* id -> what the sweep still has to dial of its snapshot
    wake,      \* the buffered wake channel is full
    tick,      \* the ticker's channel is full
    sighted,   \* peers discovery has reported in this run
    heard,     \* peer `discovered` has saved and not yet sighted, or Nobody
    inbound,   \* peer -> exchanges it opened that are in flight
    live,      \* peers that run and can be reached
    suspends,  \* suspends that may still come
    jumped     \* the wall clock has jumped since the detector looked

\* What the properties remember of the past.
VARIABLES
    fresh,     \* peers sighted for the first time and in no snapshot since
    before,    \* the dial in flight began before the last wake
    outdated,  \* addresses with a penalty from a dial begun before it
    last       \* peer -> how its exchanges went, up to the last

table   == <<rows, last>>
dialler == <<loop, todo, before>>
world   == <<live, suspends, jumped>>
vars == <<rows, backoff, loop, todo, wake, tick, sighted, heard, inbound,
          live, suspends, jumped, fresh, before, outdated, last>>

Nothing == [i \in ID |-> <<>>]

\* seedStaticPeers has run: it precedes the dial loop.
Init ==
    /\ rows = [i \in ID |-> IF i \in Peer THEN Absent
                            ELSE [Absent EXCEPT !.known = TRUE, !.addrs = <<i[2]>>]]
    /\ backoff = [a \in Addr |-> 0]
    /\ loop = "sweeping" /\ todo = Nothing
    /\ wake = FALSE /\ tick = FALSE
    /\ sighted = {} /\ heard = Nobody
    /\ inbound = [p \in Peer |-> 0]
    /\ live \in SUBSET Peer /\ suspends = MaxSuspends /\ jumped = FALSE
    /\ fresh = {} /\ before = FALSE /\ outdated = {} /\ last = [p \in Peer |-> "none"]

----------------------------------------------------------------------------
(* The store. *)

\* Mutants: a row once written is kept; a failure forgets the last success; a
\* channel without a buffer; an accept that does not count; a resume that only
\* sweeps.
SavePeerOnce(p, addrs) == IF rows[p].known THEN rows ELSE [rows EXCEPT ![p].known = TRUE, ![p].addrs = addrs]
RecordConvergenceForgetful(p, ok) ==
    [rows EXCEPT ![p].known = TRUE, ![p].failing = ~ok, ![p].converged = ok]
NudgeUnbuffered == wake' = (wake \/ loop = "waiting")
InFlightUncounted == 0
ClearBackoffNever == backoff

SavePeer(p, addrs) == [rows EXCEPT ![p].known = TRUE, ![p].addrs = addrs]

\* A success clears the error, a failure keeps the last success.
RecordConvergence(p, ok) ==
    [rows EXCEPT ![p] = [known |-> TRUE, addrs |-> @.addrs,
                         converged |-> @.converged \/ ok, failing |-> ~ok]]

\* History only: failed is a failure before any success, broken one after it.
Outcome(was, ok) ==
    IF ok THEN "ok" ELSE IF was \in {"ok", "broken"} THEN "broken" ELSE "failed"

\* recordOutcome and the SavePeer behind it are two writes, of columns that
\* have nothing to do with each other; they are one step here.  A panic in the
\* exchange is recovered, and nothing is recorded.
FinishExchange(p, addr) ==
    \/ /\ rows' = [RecordConvergence(p, TRUE) EXCEPT ![p].addrs = <<addr>>]
       /\ last' = [last EXCEPT ![p] = "ok"]
    \/ /\ rows' = RecordConvergence(p, FALSE)
       /\ last' = [last EXCEPT ![p] = Outcome(@, FALSE)]
    \/ UNCHANGED table

----------------------------------------------------------------------------
(* The dial loop. *)

\* A full buffer means that a sweep is pending; one is enough.
Nudge == wake' = TRUE

Woken ==
    /\ loop = "waiting" /\ wake
    /\ wake' = FALSE /\ loop' = "sweeping"
    /\ UNCHANGED <<table, backoff, todo, tick, sighted, heard, inbound, world,
                   fresh, before, outdated>>

Ticked ==
    /\ loop = "waiting" /\ tick
    /\ tick' = FALSE /\ loop' = "sweeping"
    /\ UNCHANGED <<table, backoff, todo, wake, sighted, heard, inbound, world,
                   fresh, before, outdated>>

\* The snapshot is used until the sweep is over, which may take many minutes.
Sweep ==
    /\ loop = "sweeping"
    /\ todo' = [i \in ID |-> rows[i].addrs]
    /\ loop' = "picking"
    /\ fresh' = {p \in fresh : rows[p].addrs = <<>>}
    /\ UNCHANGED <<table, backoff, wake, tick, sighted, heard, inbound, world,
                   before, outdated>>

\* The row the sweep has reached: the first with addresses left.
AtRow(i) ==
    \E k \in DOMAIN Order :
        /\ Order[k] = i /\ todo[i] # <<>>
        /\ \A j \in DOMAIN Order : j < k => todo[Order[j]] = <<>>

InBackoff(a) == backoff[a] > 0

Skip(i) ==
    /\ loop = "picking" /\ AtRow(i)
    /\ InBackoff(Head(todo[i]))
    /\ todo' = [todo EXCEPT ![i] = Tail(@)]
    /\ UNCHANGED <<table, backoff, loop, wake, tick, sighted, heard, inbound, world,
                   fresh, before, outdated>>

Dial(i) ==
    /\ loop = "picking" /\ AtRow(i)
    /\ ~InBackoff(Head(todo[i]))
    /\ loop' = "dialling" /\ before' = FALSE
    /\ UNCHANGED <<table, backoff, todo, wake, tick, sighted, heard, inbound, world,
                   fresh, outdated>>

\* Twice the rest of a penalty that still runs, one interval otherwise, and up
\* to a quarter as jitter: begun within an interval, that ends in the second
\* or the third.
Capped(w) == IF w > MaxBackoff THEN MaxBackoff ELSE w
Wait(a) == Capped(IF backoff[a] > 0 THEN 2 * backoff[a] ELSE 1)
Penalties(a) == {Wait(a) + 1, Wait(a) + 1 + (Wait(a) + 3) \div 4}

\* The address does not answer, or a suspend or the timeout ended the dial.
DialFails(i) ==
    /\ loop = "dialling" /\ AtRow(i)
    /\ LET a == Head(todo[i]) IN
        /\ Owner[a] \notin live \cup {Self} \/ before
        /\ \E w \in Penalties(a) : backoff' = [backoff EXCEPT ![a] = w]
        /\ outdated' = IF before THEN outdated \cup {a} ELSE outdated \ {a}
    /\ todo' = [todo EXCEPT ![i] = Tail(@)]
    /\ loop' = "picking" /\ before' = FALSE
    /\ UNCHANGED <<table, wake, tick, sighted, heard, inbound, world, fresh>>

\* dialAndSync clears the penalty.  Whoever answers with our own id is left at
\* once; that still counts as the one working address of this row.
DialAnswered(i) ==
    /\ loop = "dialling" /\ AtRow(i)
    /\ LET a == Head(todo[i]) IN
        /\ Owner[a] \in live \cup {Self}
        /\ backoff' = [backoff EXCEPT ![a] = 0]
        /\ outdated' = outdated \ {a}
        /\ IF Owner[a] = Self
           THEN loop' = "picking" /\ todo' = [todo EXCEPT ![i] = <<>>]
           ELSE loop' = "exchanging" /\ UNCHANGED todo
    /\ before' = FALSE
    /\ UNCHANGED <<table, wake, tick, sighted, heard, inbound, world, fresh>>

\* The outcome goes to the row of the node that answered, whatever row the
\* address came from.
Exchanged(i) ==
    /\ loop = "exchanging" /\ AtRow(i)
    /\ FinishExchange(Owner[Head(todo[i])], Head(todo[i]))
    /\ todo' = [todo EXCEPT ![i] = <<>>]
    /\ loop' = "picking"
    /\ UNCHANGED <<backoff, wake, tick, sighted, heard, inbound, world,
                   fresh, before, outdated>>

SweepEnds ==
    /\ loop = "picking" /\ todo = Nothing
    /\ loop' = "waiting"
    /\ UNCHANGED <<table, backoff, todo, wake, tick, sighted, heard, inbound, world,
                   fresh, before, outdated>>

----------------------------------------------------------------------------
(* Discovery. *)

\* A beacon is good within one epoch of our clock; its addresses are those it
\* carries, and the one it came from when that is not among them.
Verified(p) == Skew[p] <= 1 /\ Advertised[p] # <<>>
Observed(p) ==
    IF Source[p] \in Range(Advertised[p]) THEN Advertised[p]
    ELSE Append(Advertised[p], Source[p])

\* discovered, first half.  The listener reads one beacon at a time.
Heard(p) ==
    /\ heard = Nobody /\ p \in live /\ Verified(p)
    /\ rows' = SavePeer(p, Observed(p))
    /\ heard' = p
    /\ UNCHANGED <<last, backoff, dialler, wake, tick, sighted, inbound, world,
                   fresh, outdated>>

\* discovered, second half: only the first sighting of a run nudges.
Sighted ==
    /\ heard # Nobody
    /\ IF heard \in sighted THEN UNCHANGED <<sighted, wake, fresh>>
       ELSE /\ sighted' = sighted \cup {heard}
            /\ fresh' = fresh \cup {heard}
            /\ Nudge
    /\ heard' = Nobody
    /\ UNCHANGED <<table, backoff, dialler, tick, inbound, world, outdated>>

----------------------------------------------------------------------------
(* The listener. *)

\* A connection that got past serve, which sheds load and stops for good at any
\* error of its own, past authenticated, which drops who is not of this mesh,
\* and past the cap of accept.  Nothing is owed to one that did not.
InFlight == SumFunction(inbound)
Connect(p) ==
    /\ p \in live /\ InFlight < MaxInbound
    /\ inbound' = [inbound EXCEPT ![p] = @ + 1]
    /\ UNCHANGED <<table, backoff, dialler, wake, tick, sighted, heard, world,
                   fresh, outdated>>

InboundEnds(p) ==
    /\ inbound[p] > 0
    /\ inbound' = [inbound EXCEPT ![p] = @ - 1]
    /\ FinishExchange(p, Ephemeral[p])
    /\ UNCHANGED <<backoff, dialler, wake, tick, sighted, heard, world, fresh, outdated>>

----------------------------------------------------------------------------
(* Time, suspends, and the other machines. *)

Minute ==
    /\ tick' = TRUE
    /\ backoff' = [a \in Addr |-> IF backoff[a] > 0 THEN backoff[a] - 1 ELSE 0]
    /\ outdated' = {a \in outdated : backoff'[a] > 0}
    /\ UNCHANGED <<table, dialler, wake, sighted, heard, inbound, world, fresh>>

Expire(a) ==
    /\ backoff[a] = 1
    /\ backoff' = [backoff EXCEPT ![a] = 0]
    /\ outdated' = outdated \ {a}
    /\ UNCHANGED <<table, dialler, wake, tick, sighted, heard, inbound, world, fresh>>

\* This machine sleeps, or its wall clock is stepped.
Suspend ==
    /\ suspends > 0 /\ ~jumped
    /\ suspends' = suspends - 1 /\ jumped' = TRUE
    /\ UNCHANGED <<table, backoff, dialler, wake, tick, sighted, heard, inbound, live,
                   fresh, outdated>>

\* The detector sees the gap and calls Mesh.Wake.
ClearBackoff == [a \in Addr |-> 0]
Wake ==
    /\ jumped /\ jumped' = FALSE
    /\ backoff' = ClearBackoff
    /\ Nudge
    /\ before' = (loop = "dialling")
    /\ outdated' = {a \in Addr : backoff'[a] > 0}
    /\ UNCHANGED <<table, loop, todo, tick, sighted, heard, inbound, live, suspends, fresh>>

ComeAndGo(p) ==
    /\ live' = IF p \in live THEN live \ {p} ELSE live \cup {p}
    /\ UNCHANGED <<table, backoff, dialler, wake, tick, sighted, heard, inbound,
                   suspends, jumped, fresh, outdated>>

DialLoop ==
    \/ Woken \/ Ticked \/ Sweep \/ SweepEnds
    \/ \E i \in ID : Skip(i) \/ Dial(i) \/ DialFails(i) \/ DialAnswered(i) \/ Exchanged(i)

Next ==
    \/ DialLoop
    \/ \E p \in Peer : Heard(p) \/ Connect(p) \/ InboundEnds(p) \/ ComeAndGo(p)
    \/ \E a \in Addr : Expire(a)
    \/ Sighted \/ Minute \/ Suspend \/ Wake

\* Our goroutines are scheduled, time passes, timeouts end every dial and every
\* exchange, and a beacon of a live peer arrives again and again.
Fairness ==
    /\ WF_vars(DialLoop) /\ WF_vars(Sighted) /\ WF_vars(Minute) /\ WF_vars(Wake)
    /\ \A p \in Peer : SF_vars(Heard(p)) /\ WF_vars(InboundEnds(p))

Spec == Init /\ [][Next]_vars /\ Fairness

----------------------------------------------------------------------------
(* The health report. *)

\* A configured address is left out once a peer has an address on its host.
Redundant(a) == \E p \in Peer : \E b \in Range(rows[p].addrs) : Host[b] = Host[a]
KnownPeers == {i \in ID : rows[i].known /\ (i \in Peer \/ ~Redundant(i[2]))}

\* current stands for stale too, which only the clock tells from it.
Reach(r) ==
    IF ~r.converged THEN "never converged" ELSE IF r.failing THEN "failing" ELSE "current"
Health == [i \in KnownPeers |-> Reach(rows[i])]

----------------------------------------------------------------------------
(* Properties. *)

\* Every variable keeps its type.
TypeOK ==
    /\ rows \in [ID -> Row]
    /\ backoff \in [Addr -> 0..(2 * MaxBackoff + 1)]
    /\ loop \in LoopState /\ todo \in [ID -> Seq(Addr)]
    /\ {wake, tick, jumped, before} \subseteq BOOLEAN
    /\ sighted \subseteq Peer /\ heard \in Peer \cup {Nobody}
    /\ inbound \in [Peer -> 0..MaxInbound] /\ InFlight <= MaxInbound
    /\ live \subseteq Peer /\ suspends \in 0..MaxSuspends
    /\ fresh \subseteq sighted /\ outdated \subseteq Addr
    /\ last \in [Peer -> {"none", "ok", "failed", "broken"}]

\* A peer sighted for the first time is in the very next sweep: as long as no
\* snapshot holds it, a wake-up is waiting in the channel or a sweep is about to
\* read the table (discovered, nudge).
NudgeKept == fresh # {} => wake \/ loop = "sweeping"

\* After a resume at most one address still carries a penalty learned before
\* it, that of the dial which was in flight (Wake against penalize).
WakeForgets == Cardinality(outdated) <= 1

\* "Backoff must still grow for an address that keeps failing"
\* (wake_internal_test.go:123): where nobody answers any more and dial after
\* dial fails, some penalty is in the end longer than that of a first failure,
\* which is one interval and its jitter.
LongestFirst == 3
KeepsFailing(a) ==
    /\ <>[](Owner[a] \notin live \cup {Self})
    /\ []<><<\E i \in ID : DialFails(i) /\ Head(todo[i]) = a>>_vars
BackoffGrows == \A a \in Addr : KeepsFailing(a) => <>(backoff[a] > LongestFirst)

\* The report tells of every peer ever heard of how its last exchange went,
\* and whether one ever worked, with exchanges of both directions overlapping;
\* it never credits an exchange to a configured placeholder.
HealthHonest ==
    /\ \A p \in Peer : rows[p].known =>
        Health[p] = CASE last[p] = "ok" -> "current" [] last[p] = "broken" -> "failing"
                      [] OTHER -> "never converged"
    /\ \A a \in StaticPeers : Static(a) \in KnownPeers => Health[Static(a)] = "never converged"

\* A peer that answers at the first address of its beacon that answers at all,
\* or at a configured one.
Answers(p, s) ==
    \E k \in DOMAIN s : Owner[s[k]] = p /\ \A j \in 1..(k - 1) : Owner[s[j]] = Nobody
Reachable(p) ==
    (Verified(p) /\ Answers(p, Observed(p))) \/ \E a \in StaticPeers : Owner[a] = p
InTouch(p) ==
    \/ inbound[p] > 0
    \/ loop = "exchanging" /\ \E i \in ID : AtRow(i) /\ Owner[Head(todo[i])] = p

\* A reachable peer that stays up is exchanged with again and again, although
\* inbound exchanges replace its addresses by ones nobody listens at, dials
\* fail, the machine sleeps and the listener may die (sweep, discovered).
Reached ==
    \A p \in Peer : Reachable(p) => (<>[](p \in live) => []<>InTouch(p))
=============================================================================
