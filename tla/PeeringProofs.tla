--------------------------- MODULE PeeringProofs ---------------------------
(* What the dial loop promises for any number of peers, addresses and      *)
(* suspends, and any addresses that several machines share.                *)
EXTENDS Peering, SumProofs

\* The types the arguments below need.
Typed ==
    /\ rows \in [ID -> Row]
    /\ backoff \in [Addr -> Nat]
    /\ loop \in LoopState /\ todo \in [ID -> Seq(Addr)]
    /\ heard \in Peer \cup {Nobody}
    /\ live \subseteq Peer /\ fresh \subseteq Peer
    /\ last \in [Peer -> {"none", "ok", "failed", "broken"}]

\* Who is sighted, or about to be, has addresses for the sweep.
Addressed == \A p \in Peer : p \in fresh \/ heard = p => rows[p].addrs # <<>>

\* A wake finds at most one dial in flight, and clears everything else.
Forgotten ==
    /\ before => loop = "dialling" /\ outdated = {}
    /\ \A a, b \in outdated : a = b

\* What is dialled had no penalty left when it was picked, and none is given
\* meanwhile.
Unpenalized ==
    /\ \A a \in Addr : backoff[a] <= 3
    /\ loop = "dialling" => \A i \in ID : AtRow(i) => backoff[Head(todo[i])] = 0

\* What is exchanged with is a peer, and the rows tell what happened last.
Told ==
    /\ loop = "exchanging" => \A i \in ID : AtRow(i) => Owner[Head(todo[i])] \in Peer
    /\ \A p \in Peer :
        /\ last[p] = "ok" => rows[p].converged /\ ~rows[p].failing
        /\ last[p] = "broken" => rows[p].converged /\ rows[p].failing
        /\ last[p] \in {"none", "failed"} => ~rows[p].converged
    /\ \A a \in StaticPeers : ~rows[Static(a)].converged

Inductive == Typed /\ Addressed /\ NudgeKept /\ Forgotten /\ Unpenalized /\ Told

----------------------------------------------------------------------------
\* The sweep is at one row at a time, and that row has an address.
LEMMA OneRow ==
    ASSUME NEW i \in ID, NEW j \in ID, AtRow(i), AtRow(j)
    PROVE  i = j
<1>1. PICK k \in DOMAIN Order :
        Order[k] = i /\ todo[i] # <<>> /\ \A m \in DOMAIN Order : m < k => todo[Order[m]] = <<>>
  BY DEF AtRow
<1>2. PICK n \in DOMAIN Order :
        Order[n] = j /\ todo[j] # <<>> /\ \A m \in DOMAIN Order : m < n => todo[Order[m]] = <<>>
  BY DEF AtRow
<1>3. k \in Nat /\ n \in Nat
  BY OrderAssumption
<1>4. ~(k < n) /\ ~(n < k)
  BY <1>1, <1>2
<1>5. k = n
  BY <1>3, <1>4
<1> QED BY <1>1, <1>2, <1>5

LEMMA AddressDialled ==
    ASSUME Typed, NEW i \in ID, AtRow(i)
    PROVE  Head(todo[i]) \in Addr /\ Tail(todo[i]) \in Seq(Addr)
<1>1. todo[i] \in Seq(Addr) /\ todo[i] # <<>>
  BY DEF Typed, AtRow
<1> QED BY <1>1

LEMMA ObservedAddresses ==
    ASSUME NEW p \in Peer, Verified(p)
    PROVE  Observed(p) \in Seq(Addr) /\ Observed(p) # <<>>
<1>1. Advertised[p] \in Seq(Addr) /\ Advertised[p] # <<>> /\ Source[p] \in Addr
  BY AdvertisedAssumption DEF Verified
<1>2. Append(Advertised[p], Source[p]) # <<>> /\ Append(Advertised[p], Source[p]) \in Seq(Addr)
  BY <1>1
<1> QED BY <1>1, <1>2 DEF Observed

----------------------------------------------------------------------------
LEMMA InitInductive == Init => Inductive
<1> SUFFICES ASSUME Init PROVE Inductive
  OBVIOUS
<1>1. \A i \in ID : rows[i] = IF i \in Peer THEN Absent
                             ELSE [Absent EXCEPT !.known = TRUE, !.addrs = <<i[2]>>]
  BY DEF Init
<1>2. \A a \in StaticPeers : <<a>> \in Seq(Addr)
  BY AdvertisedAssumption
<1>3. Absent \in Row
  BY DEF Absent, Row
<1>4. rows \in [ID -> Row]
  <2>1. ASSUME NEW i \in ID, i \notin Peer PROVE rows[i] \in Row
    <3>1. PICK a \in StaticPeers : i = <<"static", a>>
      BY <2>1 DEF ID, Static
    <3>2. rows[i] = [known |-> TRUE, addrs |-> <<a>>, converged |-> FALSE, failing |-> FALSE]
      BY <1>1, <2>1, <3>1 DEF Absent
    <3> QED BY <1>2, <3>2 DEF Row
  <2> QED BY <1>1, <1>3, <2>1 DEF Init
<1>5. \A i \in ID : ~rows[i].converged
  <2>1. ~Absent.converged
    BY DEF Absent
  <2>2. \A x : ~[Absent EXCEPT !.known = TRUE, !.addrs = x].converged
    BY DEF Absent
  <2> QED BY <1>1, <2>1, <2>2
<1>6. Typed
  <2>1. <<>> \in Seq(Addr)
    OBVIOUS
  <2>2. todo \in [ID -> Seq(Addr)]
    BY <2>1 DEF Init, Nothing
  <2> QED BY <1>4, <2>2 DEF Typed, Init, LoopState
<1>7. Addressed /\ NudgeKept
  BY IdentityAssumption DEF Addressed, NudgeKept, Init
<1>9. Forgotten
  BY DEF Forgotten, Init
<1>10. Unpenalized
  <2>1. loop # "dialling" /\ \A a \in Addr : backoff[a] = 0
    BY DEF Init
  <2>2. \A a \in Addr : backoff[a] <= 3
    BY <2>1
  <2> QED BY <2>1, <2>2 DEF Unpenalized
<1>8. Told
  BY <1>5 DEF Told, Init, ID
<1> QED BY <1>6, <1>7, <1>8, <1>9, <1>10 DEF Inductive

----------------------------------------------------------------------------
\* The loop between two dials, at its select, or taking a snapshot.
LEMMA LoopTurns ==
    ASSUME Inductive, UNCHANGED <<rows, last, backoff, heard, live, before, outdated>>,
           fresh' \subseteq fresh, todo' \in [ID -> Seq(Addr)],
           loop # "dialling", loop' \in {"waiting", "sweeping", "picking"}, NudgeKept'
    PROVE  Inductive'
<1>1. Typed'
  BY DEF Inductive, Typed, LoopState
<1>2. Addressed'
  BY DEF Inductive, Addressed
<1>3. Forgotten'
  BY DEF Inductive, Forgotten
<1>4. Unpenalized'
  BY DEF Inductive, Unpenalized
<1>5. Told'
  BY DEF Inductive, Told
<1> QED BY <1>1, <1>2, <1>3, <1>4, <1>5 DEF Inductive

\* What others do, and what touches neither the loop nor the table.
LEMMA ElsewhereInductive ==
    ASSUME Inductive, live' \subseteq Peer,
           UNCHANGED <<rows, last, backoff, loop, todo, wake, heard, fresh, before, outdated>>
    PROVE  Inductive'
<1>1. \A i \in ID : AtRow(i)' <=> AtRow(i)
  BY DEF AtRow
<1>2. Typed' /\ Addressed' /\ NudgeKept' /\ Forgotten'
  BY DEF Inductive, Typed, Addressed, NudgeKept, Forgotten
<1>3. Unpenalized'
  BY <1>1 DEF Inductive, Unpenalized
<1>4. Told'
  BY <1>1 DEF Inductive, Told
<1> QED BY <1>2, <1>3, <1>4 DEF Inductive

\* Time, and a resume, only shorten what is left of the penalties.
LEMMA PenaltiesShrink ==
    ASSUME Inductive, UNCHANGED <<rows, last, loop, todo, heard, live, fresh>>,
           wake => wake', backoff' \in [Addr -> Nat],
           \A a \in Addr : backoff'[a] <= backoff[a], Forgotten'
    PROVE  Inductive'
<1>1. \A i \in ID : AtRow(i)' <=> AtRow(i)
  BY DEF AtRow
<1>2. Typed' /\ Addressed' /\ NudgeKept'
  BY DEF Inductive, Typed, Addressed, NudgeKept
<1>3. Unpenalized'
  <2>1. ASSUME NEW a \in Addr PROVE backoff'[a] <= 3
    BY DEF Inductive, Typed, Unpenalized
  <2>2. ASSUME loop = "dialling", NEW i \in ID, AtRow(i)
        PROVE  backoff'[Head(todo[i])] = 0
    <3>1. Head(todo[i]) \in Addr /\ backoff[Head(todo[i])] = 0
      BY <2>2, AddressDialled DEF Inductive, Unpenalized
    <3>2. backoff'[Head(todo[i])] \in Nat /\ backoff'[Head(todo[i])] <= 0
      BY <3>1
    <3> QED BY <3>2
  <2> QED BY <1>1, <2>1, <2>2 DEF Unpenalized
<1>4. Told'
  BY <1>1 DEF Inductive, Told
<1> QED BY <1>2, <1>3, <1>4 DEF Inductive

\* An exchange, in whichever direction, writes the row of the peer it was with.
LEMMA ExchangeTold ==
    ASSUME Typed, Told, NEW p \in Peer, NEW addr \in Addr, FinishExchange(p, addr)
    PROVE  /\ rows' \in [ID -> Row]
           /\ last' \in [Peer -> {"none", "ok", "failed", "broken"}]
           /\ \A q \in Peer : rows'[q].addrs = rows[q].addrs \/ rows'[q].addrs # <<>>
           /\ \A q \in Peer :
                /\ last'[q] = "ok" => rows'[q].converged /\ ~rows'[q].failing
                /\ last'[q] = "broken" => rows'[q].converged /\ rows'[q].failing
                /\ last'[q] \in {"none", "failed"} => ~rows'[q].converged
           /\ \A a \in StaticPeers : ~rows'[Static(a)].converged
<1> DEFINE fine == [known |-> TRUE, addrs |-> rows[p].addrs,
                    converged |-> TRUE, failing |-> FALSE]
           done == [fine EXCEPT !.addrs = <<addr>>]
           gone == [known |-> TRUE, addrs |-> rows[p].addrs,
                    converged |-> rows[p].converged, failing |-> TRUE]
<1>1. p \in ID /\ \A a \in StaticPeers : Static(a) \in ID /\ Static(a) # p
  BY IdentityAssumption DEF ID
<1>2. rows[p] \in Row /\ rows \in [ID -> Row] /\ last[p] \in {"none", "ok", "failed", "broken"}
  BY <1>1 DEF Typed
<1>3. CASE /\ rows' = [RecordConvergence(p, TRUE) EXCEPT ![p].addrs = <<addr>>]
           /\ last' = [last EXCEPT ![p] = "ok"]
  <2>6. RecordConvergence(p, TRUE) = [rows EXCEPT ![p] = fine]
    <3>1. (rows[p].converged \/ TRUE) = TRUE /\ (~TRUE) = FALSE
      OBVIOUS
    <3> QED BY <3>1 DEF RecordConvergence
  <2>7. fine \in Row /\ fine.converged /\ ~fine.failing
    BY <1>2 DEF Row
  <2> HIDE DEF fine
  <2>1. rows' = [rows EXCEPT ![p] = done]
    <3>1. [rows EXCEPT ![p] = fine][p] = fine
      BY <1>1, <1>2
    <3> QED BY <1>3, <2>6, <3>1
  <2>2. done \in Row /\ <<addr>> # <<>>
    BY <2>7 DEF Row
  <2>3. /\ \A i \in ID : rows'[i] = IF i = p THEN done ELSE rows[i]
        /\ \A q \in Peer : last'[q] = IF q = p THEN "ok" ELSE last[q]
    BY <1>2, <1>3, <2>1 DEF Typed
  <2>4. rows' \in [ID -> Row] /\ last' \in [Peer -> {"none", "ok", "failed", "broken"}]
    BY <1>2, <1>3, <2>1, <2>2 DEF Typed
  <2>5. done.converged /\ ~done.failing /\ done.addrs # <<>>
    BY <2>2, <2>7 DEF Row
  <2> HIDE DEF done
  <2> QED BY <1>1, <2>3, <2>4, <2>5 DEF Told, ID
<1>4. CASE /\ rows' = RecordConvergence(p, FALSE)
           /\ last' = [last EXCEPT ![p] = Outcome(@, FALSE)]
  <2>1. rows' = [rows EXCEPT ![p] = gone]
    <3>1. (rows[p].converged \/ FALSE) = rows[p].converged /\ (~FALSE) = TRUE
      <4>1. rows[p].converged \in BOOLEAN
        BY <1>2 DEF Row
      <4> QED BY <4>1
    <3> QED BY <1>4, <3>1 DEF RecordConvergence
  <2>2. gone \in Row
    BY <1>2 DEF Row
  <2>3. /\ \A i \in ID : rows'[i] = IF i = p THEN gone ELSE rows[i]
        /\ \A q \in Peer : last'[q] = IF q = p THEN Outcome(last[p], FALSE) ELSE last[q]
    BY <1>2, <1>4, <2>1 DEF Typed
  <2>4. /\ Outcome(last[p], FALSE) \in {"failed", "broken"}
        /\ Outcome(last[p], FALSE) = "broken" <=> last[p] \in {"ok", "broken"}
    BY DEF Outcome
  <2>5. rows' \in [ID -> Row] /\ last' \in [Peer -> {"none", "ok", "failed", "broken"}]
    BY <1>2, <1>4, <2>1, <2>2, <2>4 DEF Typed
  <2>6. gone.converged = rows[p].converged /\ gone.failing /\ gone.addrs = rows[p].addrs
    OBVIOUS
  <2> HIDE DEF gone
  <2>7. /\ last'[p] = "broken" => rows'[p].converged /\ rows'[p].failing
        /\ last'[p] = "failed" => ~rows'[p].converged
        /\ last'[p] \in {"broken", "failed"}
    BY <1>1, <1>2, <2>3, <2>4, <2>6 DEF Told
  <2> QED BY <1>1, <2>3, <2>5, <2>6, <2>7 DEF Told, ID
<1>5. CASE UNCHANGED table
  BY <1>5 DEF table, Typed, Told
<1> QED BY <1>3, <1>4, <1>5 DEF FinishExchange

----------------------------------------------------------------------------
LEMMA SweepInductive ==
    ASSUME Inductive, Woken \/ Ticked \/ Sweep \/ SweepEnds \/ \E i \in ID : Skip(i)
    PROVE  Inductive'
<1>1. CASE Woken \/ Ticked \/ SweepEnds
  <2>1. /\ UNCHANGED <<rows, last, backoff, todo, heard, live, before, outdated, fresh>>
        /\ loop # "dialling" /\ loop' \in {"waiting", "sweeping", "picking"}
        /\ loop' = "sweeping" \/ (wake' = wake /\ loop # "sweeping")
    BY <1>1 DEF Woken, Ticked, SweepEnds, table, dialler, world
  <2>2. NudgeKept' /\ todo' \in [ID -> Seq(Addr)]
    BY <2>1 DEF Inductive, NudgeKept, Typed
  <2> QED BY <2>1, <2>2, LoopTurns
<1>2. CASE Sweep
  <2>1. /\ UNCHANGED <<rows, last, backoff, heard, live, before, outdated>>
        /\ loop # "dialling" /\ loop' = "picking"
        /\ fresh' = {p \in fresh : rows[p].addrs = <<>>}
        /\ todo' = [i \in ID |-> rows[i].addrs]
    BY <1>2 DEF Sweep, table, dialler, world
  <2>2. fresh' = {}
    BY <2>1 DEF Inductive, Addressed, Typed
  <2>3. todo' \in [ID -> Seq(Addr)]
    BY <2>1 DEF Inductive, Typed, Row
  <2>4. NudgeKept'
    BY <2>2 DEF NudgeKept
  <2> QED BY <2>1, <2>2, <2>3, <2>4, LoopTurns
<1>3. ASSUME NEW i \in ID, Skip(i) PROVE Inductive'
  <2>1. /\ UNCHANGED <<rows, last, backoff, heard, live, before, outdated, fresh, wake, loop>>
        /\ loop = "picking" /\ AtRow(i) /\ todo' = [todo EXCEPT ![i] = Tail(todo[i])]
    BY <1>3 DEF Skip, table, dialler, world
  <2>2. todo' \in [ID -> Seq(Addr)]
    BY <2>1, AddressDialled DEF Inductive, Typed
  <2>3. NudgeKept'
    BY <2>1 DEF Inductive, NudgeKept
  <2> QED BY <2>1, <2>2, <2>3, LoopTurns
<1> QED BY <1>1, <1>2, <1>3

\* Only what is not in backoff is dialled.
LEMMA DialInductive ==
    ASSUME Inductive, NEW i \in ID, Dial(i)
    PROVE  Inductive'
<1>1. /\ UNCHANGED <<rows, last, backoff, todo, wake, heard, live, fresh, outdated>>
      /\ loop = "picking" /\ loop' = "dialling" /\ before' = FALSE
      /\ AtRow(i) /\ ~InBackoff(Head(todo[i]))
  BY DEF Dial, table, dialler, world
<1>2. Typed' /\ Addressed' /\ NudgeKept' /\ Forgotten'
  BY <1>1 DEF Inductive, Typed, LoopState, Addressed, NudgeKept, Forgotten
<1>3. Unpenalized'
  <2>1. backoff[Head(todo[i])] = 0
    <3>1. backoff[Head(todo[i])] \in Nat /\ ~(backoff[Head(todo[i])] > 0)
      BY <1>1, AddressDialled DEF Inductive, Typed, InBackoff
    <3> QED BY <3>1
  <2>2. ASSUME NEW j \in ID, AtRow(j)' PROVE backoff'[Head(todo'[j])] = 0
    <3>1. AtRow(j)
      BY <1>1, <2>2 DEF AtRow
    <3>2. i = j
      BY <1>1, <3>1, OneRow
    <3> QED BY <1>1, <2>1, <3>2
  <2> QED BY <1>1, <2>2 DEF Inductive, Unpenalized
<1>4. Told'
  BY <1>1 DEF Inductive, Told
<1> QED BY <1>2, <1>3, <1>4 DEF Inductive

\* A penalty is given to what had none left: it is the shortest one, and, when
\* the machine slept meanwhile, the only one from before.
LEMMA DialFailsInductive ==
    ASSUME Inductive, NEW i \in ID, DialFails(i)
    PROVE  Inductive'
<1> DEFINE a == Head(todo[i])
<1>1. /\ UNCHANGED <<rows, last, wake, heard, live, fresh>>
      /\ loop = "dialling" /\ loop' = "picking" /\ before' = FALSE
      /\ AtRow(i) /\ todo' = [todo EXCEPT ![i] = Tail(todo[i])]
      /\ \E w \in Penalties(a) : backoff' = [backoff EXCEPT ![a] = w]
      /\ outdated' = IF before THEN outdated \cup {a} ELSE outdated \ {a}
  BY DEF DialFails, table, dialler, world
<1>2. a \in Addr /\ Tail(todo[i]) \in Seq(Addr) /\ backoff[a] = 0
  BY <1>1, AddressDialled DEF Inductive, Unpenalized
<1> HIDE DEF a
<1>3. Penalties(a) \subseteq {2, 3}
  <2>1. Wait(a) = 1
    BY <1>2, CapAssumption DEF Wait, Capped
  <2>2. (1 + 3) \div 4 = 1
    OBVIOUS
  <2> QED BY <2>1, <2>2 DEF Penalties
<1>4. PICK w \in {2, 3} : backoff' = [backoff EXCEPT ![a] = w]
  BY <1>1, <1>3
<1>5. Typed'
  BY <1>1, <1>2, <1>4 DEF Inductive, Typed, LoopState
<1>6. Addressed' /\ NudgeKept'
  BY <1>1 DEF Inductive, Addressed, NudgeKept
<1>7. Forgotten'
  BY <1>1 DEF Inductive, Forgotten
<1>8. Unpenalized'
  <2>1. \A b \in Addr : backoff'[b] = IF b = a THEN w ELSE backoff[b]
    BY <1>2, <1>4 DEF Inductive, Typed
  <2>2. \A b \in Addr : backoff'[b] <= 3
    BY <2>1 DEF Inductive, Typed, Unpenalized
  <2> QED BY <1>1, <2>2 DEF Unpenalized
<1>9. Told'
  BY <1>1 DEF Inductive, Told
<1> QED BY <1>5, <1>6, <1>7, <1>8, <1>9 DEF Inductive

\* Whoever is not this node is a peer.
LEMMA DialAnsweredInductive ==
    ASSUME Inductive, NEW i \in ID, DialAnswered(i)
    PROVE  Inductive'
<1> DEFINE a == Head(todo[i])
<1>1. /\ UNCHANGED <<rows, last, wake, heard, live, fresh>>
      /\ loop = "dialling" /\ before' = FALSE /\ AtRow(i)
      /\ Owner[a] \in live \cup {Self}
      /\ backoff' = [backoff EXCEPT ![a] = 0] /\ outdated' = outdated \ {a}
      /\ \/ Owner[a] = Self /\ loop' = "picking" /\ todo' = [todo EXCEPT ![i] = <<>>]
         \/ Owner[a] # Self /\ loop' = "exchanging" /\ todo' = todo
  BY DEF DialAnswered, table, dialler, world
<1>2. a \in Addr
  BY <1>1, AddressDialled DEF Inductive
<1>3. Owner[a] # Self => Owner[a] \in Peer
  BY <1>1 DEF Inductive, Typed
<1> HIDE DEF a
<1>4. Typed'
  <2>1. <<>> \in Seq(Addr)
    OBVIOUS
  <2>2. todo' \in [ID -> Seq(Addr)]
    BY <1>1, <2>1 DEF Inductive, Typed
  <2> QED BY <1>1, <1>2, <2>2 DEF Inductive, Typed, LoopState
<1>5. Addressed' /\ NudgeKept' /\ Forgotten'
  BY <1>1 DEF Inductive, Addressed, NudgeKept, Forgotten
<1>6. Unpenalized'
  <2>1. \A b \in Addr : backoff'[b] = IF b = a THEN 0 ELSE backoff[b]
    BY <1>1, <1>2 DEF Inductive, Typed
  <2>2. \A b \in Addr : backoff'[b] <= 3
    BY <2>1 DEF Inductive, Typed, Unpenalized
  <2> QED BY <1>1, <2>2 DEF Unpenalized
<1>7. ASSUME loop' = "exchanging", NEW j \in ID, AtRow(j)'
      PROVE  Owner[Head(todo'[j])] \in Peer
  <2>1. AtRow(j) /\ todo' = todo /\ Owner[a] # Self
    BY <1>1, <1>7 DEF AtRow
  <2>2. i = j
    BY <1>1, <2>1, OneRow
  <2> QED BY <1>3, <2>1, <2>2 DEF a
<1>8. Told'
  BY <1>1, <1>7 DEF Inductive, Told
<1> QED BY <1>4, <1>5, <1>6, <1>8 DEF Inductive

LEMMA ExchangedInductive ==
    ASSUME Inductive, NEW i \in ID, Exchanged(i)
    PROVE  Inductive'
<1> DEFINE a == Head(todo[i])
<1>1. /\ UNCHANGED <<backoff, wake, heard, live, fresh, before, outdated>>
      /\ loop = "exchanging" /\ loop' = "picking" /\ AtRow(i)
      /\ todo' = [todo EXCEPT ![i] = <<>>]
      /\ FinishExchange(Owner[a], a)
  BY DEF Exchanged, world
<1>2. a \in Addr /\ Owner[a] \in Peer
  BY <1>1, AddressDialled DEF Inductive, Told
<1> HIDE DEF a
<1>3. /\ rows' \in [ID -> Row]
      /\ last' \in [Peer -> {"none", "ok", "failed", "broken"}]
      /\ \A q \in Peer : rows'[q].addrs = rows[q].addrs \/ rows'[q].addrs # <<>>
      /\ \A q \in Peer :
           /\ last'[q] = "ok" => rows'[q].converged /\ ~rows'[q].failing
           /\ last'[q] = "broken" => rows'[q].converged /\ rows'[q].failing
           /\ last'[q] \in {"none", "failed"} => ~rows'[q].converged
      /\ \A s \in StaticPeers : ~rows'[Static(s)].converged
  BY <1>1, <1>2, ExchangeTold DEF Inductive
<1>4. Typed'
  <2>1. <<>> \in Seq(Addr)
    OBVIOUS
  <2>2. todo' \in [ID -> Seq(Addr)]
    BY <1>1, <2>1 DEF Inductive, Typed
  <2> QED BY <1>1, <1>3, <2>2 DEF Inductive, Typed, LoopState
<1>5. Addressed' /\ NudgeKept' /\ Forgotten'
  BY <1>1, <1>3 DEF Inductive, Typed, Addressed, NudgeKept, Forgotten
<1>6. Unpenalized'
  BY <1>1 DEF Inductive, Unpenalized
<1>7. Told'
  BY <1>1, <1>3 DEF Told
<1> QED BY <1>4, <1>5, <1>6, <1>7 DEF Inductive

\* An inbound exchange writes the table under the loop's feet.
LEMMA InboundEndsInductive ==
    ASSUME Inductive, NEW p \in Peer, InboundEnds(p)
    PROVE  Inductive'
<1>1. /\ UNCHANGED <<backoff, loop, todo, wake, heard, live, fresh, before, outdated>>
      /\ FinishExchange(p, Ephemeral[p])
  BY DEF InboundEnds, dialler, world
<1>2. Ephemeral[p] \in Addr
  BY AdvertisedAssumption
<1>3. /\ rows' \in [ID -> Row]
      /\ last' \in [Peer -> {"none", "ok", "failed", "broken"}]
      /\ \A q \in Peer : rows'[q].addrs = rows[q].addrs \/ rows'[q].addrs # <<>>
      /\ \A q \in Peer :
           /\ last'[q] = "ok" => rows'[q].converged /\ ~rows'[q].failing
           /\ last'[q] = "broken" => rows'[q].converged /\ rows'[q].failing
           /\ last'[q] \in {"none", "failed"} => ~rows'[q].converged
      /\ \A s \in StaticPeers : ~rows'[Static(s)].converged
  BY <1>1, <1>2, ExchangeTold DEF Inductive
<1>4. \A i \in ID : AtRow(i)' <=> AtRow(i)
  BY <1>1 DEF AtRow
<1>5. Typed'
  BY <1>1, <1>3 DEF Inductive, Typed
<1>6. Addressed' /\ NudgeKept' /\ Forgotten'
  BY <1>1, <1>3 DEF Inductive, Typed, Addressed, NudgeKept, Forgotten
<1>7. Unpenalized'
  BY <1>1, <1>4 DEF Inductive, Unpenalized
<1>8. Told'
  BY <1>1, <1>3, <1>4 DEF Inductive, Told
<1> QED BY <1>5, <1>6, <1>7, <1>8 DEF Inductive

----------------------------------------------------------------------------
\* A beacon fills the row before the sighting that asks for a sweep.
LEMMA HeardInductive ==
    ASSUME Inductive, NEW p \in Peer, Heard(p)
    PROVE  Inductive'
<1>1. /\ UNCHANGED <<last, backoff, loop, todo, before, wake, live, fresh, outdated>>
      /\ heard' = p /\ Verified(p)
      /\ rows' = [[rows EXCEPT ![p].known = TRUE] EXCEPT ![p].addrs = Observed(p)]
  BY DEF Heard, SavePeer, dialler, world
<1> DEFINE row == [[rows[p] EXCEPT !.known = TRUE] EXCEPT !.addrs = Observed(p)]
<1>2. rows \in [ID -> Row] /\ p \in ID /\ rows[p] \in Row
  BY DEF Inductive, Typed, ID
<1>3. Observed(p) \in Seq(Addr) /\ Observed(p) # <<>>
  BY <1>1, ObservedAddresses
<1>4. rows' = [rows EXCEPT ![p] = row]
  BY <1>1, <1>2
<1>5. /\ row \in Row /\ row.addrs = Observed(p)
      /\ row.converged = rows[p].converged /\ row.failing = rows[p].failing
  BY <1>2, <1>3 DEF Row
<1> HIDE DEF row
<1>6. \A i \in ID : rows'[i] = IF i = p THEN row ELSE rows[i]
  BY <1>2, <1>4
<1>7. \A i \in ID : AtRow(i)' <=> AtRow(i)
  BY <1>1 DEF AtRow
<1>8. Typed'
  BY <1>1, <1>2, <1>4, <1>5 DEF Inductive, Typed
<1>9. Addressed'
  BY <1>1, <1>3, <1>5, <1>6 DEF Inductive, Addressed, ID
<1>10. NudgeKept' /\ Forgotten'
  BY <1>1 DEF Inductive, NudgeKept, Forgotten
<1>11. Unpenalized'
  BY <1>1, <1>7 DEF Inductive, Unpenalized
<1>12. Told'
  BY <1>1, <1>5, <1>6, <1>7 DEF Inductive, Told, ID
<1> QED BY <1>8, <1>9, <1>10, <1>11, <1>12 DEF Inductive

LEMMA SightedInductive ==
    ASSUME Inductive, Sighted
    PROVE  Inductive'
<1>1. /\ UNCHANGED <<rows, last, backoff, loop, todo, before, live, outdated>>
      /\ heard # Nobody /\ heard' = Nobody
      /\ (fresh' = fresh /\ wake' = wake) \/ (fresh' = fresh \cup {heard} /\ wake' = TRUE)
  BY DEF Sighted, Nudge, table, dialler, world
<1>2. heard \in Peer
  BY <1>1 DEF Inductive, Typed
<1>3. \A i \in ID : AtRow(i)' <=> AtRow(i)
  BY <1>1 DEF AtRow
<1>4. Typed'
  BY <1>1, <1>2 DEF Inductive, Typed
<1>5. Addressed'
  BY <1>1, <1>2, IdentityAssumption DEF Inductive, Addressed
<1>6. NudgeKept' /\ Forgotten'
  BY <1>1 DEF Inductive, NudgeKept, Forgotten
<1>7. Unpenalized'
  BY <1>1, <1>3 DEF Inductive, Unpenalized
<1>8. Told'
  BY <1>1, <1>3 DEF Inductive, Told
<1> QED BY <1>4, <1>5, <1>6, <1>7, <1>8 DEF Inductive

LEMMA TimeInductive ==
    ASSUME Inductive, Minute \/ \E a \in Addr : Expire(a)
    PROVE  Inductive'
<1>1. CASE Minute
  <2>1. /\ UNCHANGED <<rows, last, loop, todo, before, wake, heard, live, fresh>>
        /\ backoff' = [a \in Addr |-> IF backoff[a] > 0 THEN backoff[a] - 1 ELSE 0]
        /\ outdated' \subseteq outdated
    BY <1>1 DEF Minute, table, dialler, world
  <2>2. /\ backoff' \in [Addr -> Nat]
        /\ \A a \in Addr : backoff'[a] <= backoff[a]
    BY <2>1 DEF Inductive, Typed
  <2>3. Forgotten'
    BY <2>1 DEF Inductive, Forgotten
  <2> QED BY <2>1, <2>2, <2>3, PenaltiesShrink
<1>2. ASSUME NEW a \in Addr, Expire(a) PROVE Inductive'
  <2>1. /\ UNCHANGED <<rows, last, loop, todo, before, wake, heard, live, fresh>>
        /\ backoff' = [backoff EXCEPT ![a] = 0] /\ outdated' = outdated \ {a}
    BY <1>2 DEF Expire, table, dialler, world
  <2>2. /\ backoff' \in [Addr -> Nat]
        /\ \A b \in Addr : backoff'[b] <= backoff[b]
    BY <2>1 DEF Inductive, Typed
  <2>3. Forgotten'
    BY <2>1 DEF Inductive, Forgotten
  <2> QED BY <2>1, <2>2, <2>3, PenaltiesShrink
<1> QED BY <1>1, <1>2

LEMMA WakeInductive ==
    ASSUME Inductive, Wake
    PROVE  Inductive'
<1>1. /\ UNCHANGED <<rows, last, loop, todo, heard, live, fresh>>
      /\ wake' = TRUE /\ before' = (loop = "dialling")
      /\ backoff' = [a \in Addr |-> 0]
      /\ outdated' = {a \in Addr : backoff'[a] > 0}
  BY DEF Wake, ClearBackoff, Nudge, table
<1>2. /\ backoff' \in [Addr -> Nat]
      /\ \A a \in Addr : backoff'[a] <= backoff[a]
  BY <1>1 DEF Inductive, Typed
<1>3. outdated' = {}
  BY <1>1
<1>4. Forgotten'
  BY <1>1, <1>3 DEF Forgotten
<1> QED BY <1>1, <1>2, <1>4, PenaltiesShrink

LEMMA OthersInductive ==
    ASSUME Inductive,
           Suspend \/ (\E p \in Peer : Connect(p) \/ ComeAndGo(p)) \/ UNCHANGED vars
    PROVE  Inductive'
<1>1. UNCHANGED <<rows, last, backoff, loop, todo, wake, heard, fresh, before, outdated>>
  BY DEF Suspend, Connect, ComeAndGo, vars, table, dialler, world
<1>2. live' \subseteq Peer
  BY DEF Suspend, Connect, ComeAndGo, vars, world, Inductive, Typed
<1> QED BY <1>1, <1>2, ElsewhereInductive

LEMMA NextInductive == Inductive /\ [Next]_vars => Inductive'
<1> SUFFICES ASSUME Inductive, [Next]_vars PROVE Inductive'
  OBVIOUS
<1>1. CASE Woken \/ Ticked \/ Sweep \/ SweepEnds \/ \E i \in ID : Skip(i)
  BY <1>1, SweepInductive
<1>2. CASE \E i \in ID : Dial(i)
  BY <1>2, DialInductive
<1>3. CASE \E i \in ID : DialFails(i)
  BY <1>3, DialFailsInductive
<1>4. CASE \E i \in ID : DialAnswered(i)
  BY <1>4, DialAnsweredInductive
<1>5. CASE \E i \in ID : Exchanged(i)
  BY <1>5, ExchangedInductive
<1>6. CASE \E p \in Peer : Heard(p)
  BY <1>6, HeardInductive
<1>7. CASE \E p \in Peer : InboundEnds(p)
  BY <1>7, InboundEndsInductive
<1>8. CASE Sighted
  BY <1>8, SightedInductive
<1>9. CASE Minute \/ \E a \in Addr : Expire(a)
  BY <1>9, TimeInductive
<1>10. CASE Wake
  BY <1>10, WakeInductive
<1>11. CASE Suspend \/ (\E p \in Peer : Connect(p) \/ ComeAndGo(p)) \/ UNCHANGED vars
  BY <1>11, OthersInductive
<1> QED BY <1>1, <1>2, <1>3, <1>4, <1>5, <1>6, <1>7, <1>8, <1>9, <1>10, <1>11
        DEF Next, DialLoop

----------------------------------------------------------------------------
LEMMA AlwaysInductive == Spec => []Inductive
  BY InitInductive, NextInductive, PTL DEF Spec

\* No first sighting is lost between the beacon that reports it and the sweep
\* that dials it, wherever the dial loop is (discovered, nudge).
THEOREM FirstSightingSwept == Spec => []NudgeKept
<1>1. Inductive => NudgeKept
  BY DEF Inductive
<1> QED BY <1>1, AlwaysInductive, PTL

\* After a resume at most one address carries a penalty from before it (Wake,
\* penalize).
THEOREM ResumeForgets == Spec => []WakeForgets
<1>1. Inductive => WakeForgets
  <2> SUFFICES ASSUME Inductive PROVE Cardinality(outdated) <= 1
    BY DEF WakeForgets
  <2>1. CASE outdated = {}
    <3>1. Cardinality(outdated) = 0
      BY <2>1, FS_EmptySet
    <3> QED BY <3>1
  <2>2. CASE outdated # {}
    <3>1. PICK a \in outdated : outdated = {a}
      BY <2>2 DEF Inductive, Forgotten
    <3>2. Cardinality(outdated) = 1
      BY <3>1, FS_Singleton
    <3> QED BY <3>2
  <2> QED BY <2>1, <2>2
<1> QED BY <1>1, AlwaysInductive, PTL

\* Whatever the cap of a penalty, and however often an address fails, none is ever
\* longer than that of a first failure: the doubling of penalize is out of reach,
\* because sweep dials only what is not in backoff.  No run of the program is one
\* in which a penalty grows, as BackoffGrows asks of some.
THEOREM PenaltyNeverGrows == Spec => [](\A a \in Addr : ~(backoff[a] > LongestFirst))
<1>1. Inductive => \A a \in Addr : ~(backoff[a] > LongestFirst)
  BY DEF Inductive, Unpenalized, Typed, LongestFirst
<1> QED BY <1>1, AlwaysInductive, PTL

\* The health report tells how the last exchange with a peer went, whichever
\* direction it had (recordOutcome, knownPeers).
THEOREM HealthTold == Spec => []HealthHonest
<1>1. Inductive => HealthHonest
  <2> SUFFICES ASSUME Inductive PROVE HealthHonest
    OBVIOUS
  <2>1. ASSUME NEW p \in Peer, rows[p].known
        PROVE  Health[p] = CASE last[p] = "ok" -> "current" [] last[p] = "broken" -> "failing"
                             [] OTHER -> "never converged"
    <3>1. p \in KnownPeers
      BY <2>1 DEF KnownPeers, ID
    <3>2. Health[p] = Reach(rows[p])
      BY <3>1 DEF Health
    <3>3. last[p] \in {"none", "ok", "failed", "broken"}
      BY DEF Inductive, Typed
    <3>4. /\ last[p] = "ok" => Reach(rows[p]) = "current"
          /\ last[p] = "broken" => Reach(rows[p]) = "failing"
          /\ last[p] \in {"none", "failed"} => Reach(rows[p]) = "never converged"
      BY DEF Inductive, Told, Reach
    <3> QED BY <3>2, <3>3, <3>4
  <2>2. ASSUME NEW a \in StaticPeers, Static(a) \in KnownPeers
        PROVE  Health[Static(a)] = "never converged"
    BY <2>2 DEF Inductive, Told, Health, Reach
  <2> QED BY <2>1, <2>2 DEF HealthHonest
<1> QED BY <1>1, AlwaysInductive, PTL

----------------------------------------------------------------------------
(* Type correctness, with the cap on inbound exchanges *)

\* The types Inductive leaves out.
Rest ==
    /\ backoff \in [Addr -> 0..(2 * MaxBackoff + 1)]
    /\ {wake, tick, jumped, before} \subseteq BOOLEAN
    /\ sighted \subseteq Peer /\ fresh \subseteq sighted
    /\ suspends \in 0..MaxSuspends /\ outdated \subseteq Addr
Counted == inbound \in [Peer -> 0..MaxInbound] /\ InFlight <= MaxInbound

\* The peers are listed in Order, so there are finitely many.
LEMMA PeersFinite == IsFiniteSet(Peer)
<1>1. PICK n \in Nat : Order \in [1..n -> ID]
  BY OrderAssumption
<1>2. Order \in Surjection(1..n, ID)
  BY <1>1, OrderAssumption DEF Surjection, Range
<1>3. IsFiniteSet(ID)
  BY <1>2, FS_Interval, FS_Surjection
<1> QED BY <1>3, FS_Subset DEF ID

LEMMA InFlightCounts ==
    ASSUME inbound \in [Peer -> 0..MaxInbound]
    PROVE  /\ InFlight = SumFunctionOnSet(inbound, Peer) /\ InFlight \in Nat
           /\ \A p \in Peer : inbound[p] \in Nat /\ inbound[p] <= InFlight
<1>1. \A p \in Peer : inbound[p] \in Nat
  BY CapAssumption
<1>2. InFlight = SumFunctionOnSet(inbound, Peer)
  BY DEF InFlight, SumFunction
<1> QED BY <1>1, <1>2, PeersFinite, SumType, SumMember

\* A penalty is at most the cap, one interval and the jitter.
LEMMA PenaltiesBounded ==
    ASSUME NEW a \in Addr, backoff[a] \in Nat
    PROVE  Penalties(a) \subseteq 0..(2 * MaxBackoff + 1)
<1>1. Wait(a) \in Nat /\ 1 <= Wait(a) /\ Wait(a) <= MaxBackoff
  BY CapAssumption DEF Wait, Capped
<1> DEFINE w == Wait(a)
<1>2. ASSUME NEW v \in Nat, 1 <= v, v <= MaxBackoff
      PROVE  /\ v + 1 \in 0..(2 * MaxBackoff + 1)
             /\ v + 1 + (v + 3) \div 4 \in 0..(2 * MaxBackoff + 1)
  BY <1>2, CapAssumption
<1> HIDE DEF w
<1>3. Penalties(a) = {w + 1, w + 1 + (w + 3) \div 4}
  BY DEF Penalties, w
<1>4. w \in Nat /\ 1 <= w /\ w <= MaxBackoff
  BY <1>1 DEF w
<1> QED BY <1>2, <1>3, <1>4

LEMMA InitTyped == Init => Rest /\ Counted
<1> SUFFICES ASSUME Init PROVE Rest /\ Counted
  OBVIOUS
<1>0. MaxSuspends \in Nat /\ MaxInbound \in Nat /\ MaxBackoff \in Nat
  BY CapAssumption
<1>1. Rest
  <2>1. 0 \in 0..(2 * MaxBackoff + 1) /\ MaxSuspends \in 0..MaxSuspends
    BY <1>0
  <2>2. backoff \in [Addr -> 0..(2 * MaxBackoff + 1)]
    BY <2>1 DEF Init
  <2> QED BY <2>1, <2>2 DEF Init, Rest
<1>2. inbound \in [Peer -> 0..MaxInbound] /\ \A p \in Peer : inbound[p] = 0
  <2>1. 0 \in 0..MaxInbound
    BY <1>0
  <2> QED BY <2>1 DEF Init
<1>3. SumFunctionOnSet(inbound, Peer) = 0
  BY <1>2, PeersFinite, SumZero
<1>4. InFlight = 0
  BY <1>2, <1>3, InFlightCounts
<1> QED BY <1>1, <1>2, <1>4, CapAssumption DEF Counted

\* An exchange another node opens is accepted below the cap only.
LEMMA CountedKept ==
    ASSUME Counted, NEW p \in Peer, Connect(p) \/ InboundEnds(p)
    PROVE  Counted'
<1>1. inbound \in [Peer -> 0..MaxInbound] /\ MaxInbound \in Nat /\ InFlight <= MaxInbound
  BY CapAssumption DEF Counted
<1>2. /\ InFlight = SumFunctionOnSet(inbound, Peer) /\ InFlight \in Nat
      /\ \A q \in Peer : inbound[q] \in Nat /\ inbound[q] <= InFlight
  BY <1>1, InFlightCounts
<1>3. CASE Connect(p)
  <2>1. InFlight + 1 <= MaxInbound /\ inbound' = [inbound EXCEPT ![p] = @ + 1]
    BY <1>1, <1>2, <1>3 DEF Connect
  <2>2. /\ \A q \in Peer : inbound'[q] = IF q = p THEN inbound[p] + 1 ELSE inbound[q]
        /\ inbound[p] + 1 \in 0..MaxInbound
    BY <1>1, <1>2, <2>1
  <2>3. inbound' \in [Peer -> 0..MaxInbound]
    BY <1>1, <2>1, <2>2
  <2>4. \A q \in Peer : inbound'[q] \in Nat
    BY <1>2, <2>2
  <2>5. SumFunctionOnSet(inbound', Peer) + inbound[p] = SumFunctionOnSet(inbound, Peer) + inbound'[p]
    BY <1>2, <2>2, <2>4, PeersFinite, SumChanged
  <2>6. InFlight' = SumFunctionOnSet(inbound', Peer) /\ InFlight' \in Nat
    BY <2>3, <2>4, PeersFinite, SumType DEF InFlight, SumFunction
  <2>7. InFlight' = InFlight + 1
    BY <1>2, <2>2, <2>5, <2>6
  <2> QED BY <2>1, <2>3, <2>7 DEF Counted
<1>4. CASE InboundEnds(p)
  <2>1. inbound[p] > 0 /\ inbound' = [inbound EXCEPT ![p] = @ - 1]
    BY <1>4 DEF InboundEnds
  <2>2. /\ \A q \in Peer : inbound'[q] = IF q = p THEN inbound[p] - 1 ELSE inbound[q]
        /\ inbound[p] - 1 \in 0..MaxInbound
    BY <1>1, <1>2, <2>1
  <2>3. inbound' \in [Peer -> 0..MaxInbound]
    BY <1>1, <2>1, <2>2
  <2>4. \A q \in Peer : inbound'[q] \in Nat
    BY <1>2, <2>2
  <2>5. SumFunctionOnSet(inbound', Peer) + inbound[p] = SumFunctionOnSet(inbound, Peer) + inbound'[p]
    BY <1>2, <2>2, <2>4, PeersFinite, SumChanged
  <2>6. InFlight' = SumFunctionOnSet(inbound', Peer) /\ InFlight' \in Nat
    BY <2>3, <2>4, PeersFinite, SumType DEF InFlight, SumFunction
  <2>7. InFlight' <= InFlight
    BY <1>2, <2>2, <2>5, <2>6
  <2> QED BY <1>1, <1>2, <2>3, <2>6, <2>7 DEF Counted
<1> QED BY <1>3, <1>4

LEMMA RestKept ==
    ASSUME Inductive, Rest, [Next]_vars
    PROVE  Rest'
<1>1. CASE DialLoop
  <2>1. CASE Woken \/ Ticked \/ Sweep \/ SweepEnds
    BY <1>1, <2>1 DEF Rest, Woken, Ticked, Sweep, SweepEnds, table, dialler, world
  <2>2. ASSUME NEW i \in ID, Skip(i) \/ Dial(i) \/ Exchanged(i) PROVE Rest'
    BY <2>2 DEF Rest, Skip, Dial, Exchanged, table, dialler, world
  <2>3. ASSUME NEW i \in ID, DialFails(i) PROVE Rest'
    <3> DEFINE a == Head(todo[i])
    <3>1. a \in Addr
      BY <2>3, AddressDialled DEF DialFails, Inductive
    <3>2. PICK w \in Penalties(a) : backoff' = [backoff EXCEPT ![a] = w]
      BY <2>3 DEF DialFails
    <3>3. outdated' \subseteq outdated \cup {a} /\ before' = FALSE
          /\ UNCHANGED <<wake, tick, sighted, fresh, suspends, jumped>>
      BY <2>3 DEF DialFails, world
    <3> HIDE DEF a
    <3>4. w \in 0..(2 * MaxBackoff + 1)
      BY <3>1, PenaltiesBounded DEF Inductive, Typed
    <3> QED BY <3>1, <3>2, <3>3, <3>4 DEF Rest
  <2>4. ASSUME NEW i \in ID, DialAnswered(i) PROVE Rest'
    <3>1. 0 \in 0..(2 * MaxBackoff + 1)
      BY CapAssumption
    <3> QED BY <2>4, <3>1 DEF Rest, DialAnswered, table, world
  <2> QED BY <1>1, <2>1, <2>2, <2>3, <2>4 DEF DialLoop
<1>2. ASSUME NEW p \in Peer, Heard(p) \/ Connect(p) \/ InboundEnds(p) \/ ComeAndGo(p)
      PROVE  Rest'
  BY <1>2 DEF Rest, Heard, Connect, InboundEnds, ComeAndGo, table, dialler, world
<1>3. CASE Sighted
  <2>1. heard \in Peer
    BY <1>3 DEF Sighted, Inductive, Typed
  <2> QED BY <1>3, <2>1 DEF Rest, Sighted, Nudge, table, dialler, world
<1>4. CASE Minute \/ Wake \/ \E a \in Addr : Expire(a)
  <2>1. \A a \in Addr : IF backoff[a] > 0 THEN backoff[a] - 1 \in 0..(2 * MaxBackoff + 1)
                                          ELSE 0 \in 0..(2 * MaxBackoff + 1)
    BY CapAssumption DEF Rest
  <2>2. 0 \in 0..(2 * MaxBackoff + 1)
    BY CapAssumption
  <2>3. CASE Minute
    <3>1. backoff' \in [Addr -> 0..(2 * MaxBackoff + 1)]
      BY <2>1, <2>3 DEF Minute
    <3> QED BY <2>3, <3>1 DEF Minute, Rest, table, dialler, world
  <2>4. CASE Wake
    BY <2>2, <2>4 DEF Wake, ClearBackoff, Nudge, Rest, table, world
  <2>5. ASSUME NEW a \in Addr, Expire(a) PROVE Rest'
    BY <2>2, <2>5 DEF Expire, Rest, table, dialler, world
  <2> QED BY <1>4, <2>3, <2>4, <2>5
<1>5. CASE Suspend
  <2>1. suspends' \in 0..MaxSuspends
    BY <1>5, CapAssumption DEF Suspend, Rest
  <2> QED BY <1>5, <2>1 DEF Suspend, Rest, table, dialler
<1>6. CASE UNCHANGED vars
  BY <1>6 DEF vars, Rest
<1> QED BY <1>1, <1>2, <1>3, <1>4, <1>5, <1>6 DEF Next

\* Every variable keeps its type, and accept never lets in more exchanges than
\* its cap, with any number of them ending at the same time.
THEOREM PeeringTyped == Spec => []TypeOK
<1>1. Init => Rest /\ Counted
  BY InitTyped
<1>2. Inductive /\ Rest /\ Counted /\ [Next]_vars => Rest' /\ Counted'
  <2> SUFFICES ASSUME Inductive, Rest, Counted, [Next]_vars PROVE Rest' /\ Counted'
    OBVIOUS
  <2>1. Rest'
    BY RestKept
  <2>2. CASE \E p \in Peer : Connect(p) \/ InboundEnds(p)
    BY <2>1, <2>2, CountedKept
  <2>3. CASE ~ \E p \in Peer : Connect(p) \/ InboundEnds(p)
    <3>1. inbound' = inbound
      BY <2>3 DEF Next, DialLoop, vars, Woken, Ticked, Sweep, SweepEnds, Skip, Dial, DialFails,
         DialAnswered, Exchanged, Heard, ComeAndGo, Expire, Sighted, Minute, Suspend, Wake
    <3> QED BY <2>1, <3>1 DEF Counted, InFlight
  <2> QED BY <2>2, <2>3
<1>3. Inductive /\ Rest /\ Counted => TypeOK
  BY DEF Inductive, Typed, Rest, Counted, TypeOK
<1> QED BY <1>1, <1>2, <1>3, AlwaysInductive, PTL DEF Spec
=============================================================================
