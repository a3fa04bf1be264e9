-------------------------- MODULE CollectorProofs --------------------------
(* A collector skips nothing and never resumes inside a line: for any      *)
(* number of transcripts, sizes of reads and batches, and faults, as long  *)
(* as a new file never has the identity of the one it replaces.            *)
EXTENDS Collector, SequenceTheorems, WellFoundedInduction, TLAPS

----------------------------------------------------------------------------
(* The inductive invariant *)

\* What is in the archive, or will be after the next upload.
Stored == archive \cup {r.data : r \in records}

\* A file is lines of two chunks, the last of which may lack its second.
Paired(content, top) ==
    \A i \in 1..Len(content) :
        /\ content[i].line <= top
        /\ content[i].last <=> i > 1 /\ ~content[i - 1].last
        /\ content[i].last => content[i - 1].line = content[i].line

FileAt(file, s, most, top) ==
    file # Gone =>
        /\ Paired(file.content, top)
        /\ file.id <= most
        /\ file.id = 0 <=> s \notin HasIdentity

\* The cursor was made from this file: the same identity or, where there are
\* none, the same first line.
Applies(c, file) ==
    /\ c.id = file.id
    /\ c.id = 0 =>
          /\ c.fingerprint # <<>> /\ file.content # <<>>
          /\ c.fingerprint[1] = file.content[1]

\* If it was, it stands at the end of a line, and all lines before are stored.
Covers(c, file, stored) ==
    file # Gone /\ Applies(c, file) =>
        /\ c.offset <= Len(file.content)
        /\ c.offset = 0 \/ file.content[c.offset].last
        /\ \A i \in 1..c.offset :
              file.content[i].last => Whole(file.content[i].line) \in stored

\* It never applies to a file that is yet to come.
Fits(c, s, most, top) ==
    /\ c.id <= most
    /\ c.fingerprint # <<>> => c.fingerprint[1].line <= top
    /\ c.offset > 0 => c.fingerprint # <<>> /\ (c.id = 0 <=> s \notin HasIdentity)

Files == \A s \in Stream : FileAt(files[s], s, created, written)

Honest(c, s, stored) == Fits(c, s, created, written) /\ Covers(c, files[s], stored)

\* Saved cursors answer for the archive; those of the pass for its batch too.
Cursors ==
    /\ \A s \in Stream : Honest(cursors[s], s, archive)
    /\ \A s \in DOMAIN pending : Honest(pending[s], s, Stored)
    /\ Honest(from, current, Stored)

Statted ==
    phase = "statted" =>
        info.id <= created /\ (info.id = 0 <=> current \notin HasIdentity)

Uploaded == phase = "committing" => Stored = archive

Inductive == TypeOK /\ Files /\ Cursors /\ Statted /\ Uploaded

----------------------------------------------------------------------------
(* Numbers *)

\* A set of naturals that is not empty has a least element.
LEMMA LeastExists ==
    ASSUME NEW S \in SUBSET Nat, S # {}
    PROVE  \E x \in S : \A y \in S : x <= y
<1>1. \E x \in S : \A y \in S : <<y, x>> \notin OpToRel(<, Nat)
  BY NatLessThanWellFounded, WFMin
<1>2. \A x, y \in Nat : x < y => <<x, y>> \in OpToRel(<, Nat)
  BY DEF OpToRel
<1>3. \E x \in S : \A y \in S : ~ (y < x)
  BY <1>1, <1>2, Zenon
<1> QED BY <1>3

\* Min picks it.
LEMMA MinProperty ==
    ASSUME NEW S \in SUBSET Nat, S # {}
    PROVE  Min(S) \in S /\ \A y \in S : Min(S) <= y
  BY LeastExists DEF Min

\* Max picks the greatest of some positions, or 0.
LEMMA MaxProperty ==
    ASSUME NEW n \in Nat, NEW S \in SUBSET (1..n)
    PROVE  LET m == Max({0} \cup S) IN
           m \in {0} \cup S /\ m \in 0..n /\ \A y \in S : y <= m
<1> DEFINE T == {0} \cup S
           Gap == {n - x : x \in T}
<1>1. Gap \in SUBSET Nat /\ Gap # {}
  OBVIOUS
<1> HIDE DEF Gap
<1>2. PICK g \in Gap : \A h \in Gap : g <= h
  BY <1>1, LeastExists
<1> USE DEF Gap
<1>3. PICK x \in T : g = n - x
  BY <1>2
<1>4. \A y \in T : n - x <= n - y
  BY <1>2, <1>3
<1>5. \A y \in T : x >= y
  BY <1>4
<1> HIDE DEF Gap
<1>6. Max(T) \in T /\ \A y \in T : Max(T) >= y
  BY <1>3, <1>5 DEF Max
<1>7. T \subseteq 0..n /\ S \subseteq T
  OBVIOUS
<1> HIDE DEF T
<1>8. Max(T) \in T /\ Max(T) \in 0..n /\ \A y \in S : y <= Max(T)
  BY <1>6, <1>7
<1> QED BY <1>8 DEF T

----------------------------------------------------------------------------
(* Reading *)

\* What a read gets stands in the file from where it starts.
LEMMA WindowInFile ==
    ASSUME NEW content \in Seq(Chunk), NEW start \in Nat, NEW size \in Nat
    PROVE  LET w == Window(content, start, size) IN
           /\ w \in Seq(Chunk)
           /\ \A i \in 1..Len(w) : start + i \in 1..Len(content) /\ w[i] = content[start + i]
           /\ size = 0 => w = <<>>
<1> DEFINE top == Min({size, start + MaxRead, Len(content)})
           w == Window(content, start, size)
<1>1. top \in Nat /\ top <= Len(content) /\ top <= size
  <2>1. {size, start + MaxRead, Len(content)} \in SUBSET Nat
    BY SizeAssumption
  <2> QED BY <2>1, MinProperty
<1>2. w = SubSeq(content, start + 1, top)
  BY DEF Window
<1> HIDE DEF top, w
<1>3. /\ w \in Seq(Chunk)
      /\ Len(w) = IF start + 1 <= top THEN top - start ELSE 0
      /\ \A i \in 1..Len(w) : start + i \in 1..Len(content) /\ w[i] = content[start + i]
  BY <1>1, <1>2
<1>4. size = 0 => w = <<>>
  BY <1>1, <1>3, EmptySeq
<1> QED BY <1>3, <1>4 DEF w

\* Complete lines of a read that starts at the end of one are pairs of chunks.
LEMMA LinesOfWindow ==
    ASSUME NEW content \in Seq(Chunk), NEW top, Paired(content, top),
           NEW start \in 0..Len(content), start = 0 \/ content[start].last,
           NEW w \in Seq(Chunk),
           \A i \in 1..Len(w) : start + i \in 1..Len(content) /\ w[i] = content[start + i],
           NEW i \in Ends(w)
    PROVE  /\ Max({0} \cup {j \in Ends(w) : j < i}) = i - 2
           /\ SubSeq(w, i - 1, i) = Whole(w[i].line)
<1> DEFINE earlier == {j \in Ends(w) : j < i}
           before == Max({0} \cup earlier)
<1>1. /\ Ends(w) \subseteq 1..Len(w) /\ i \in 1..Len(w) /\ w[i].last
      /\ \A j \in 1..Len(w) : j \in Ends(w) <=> w[j].last
      /\ Len(w) \in Nat
  BY DEF Ends
<1>2. i >= 2 /\ ~content[start + i - 1].last
      /\ content[start + i - 1].line = content[start + i].line
  <2> DEFINE q == start + i
  <2>1. q \in 1..Len(content) /\ content[q].last
    BY <1>1
  <2> HIDE DEF q
  <2>2. q > 1 /\ ~content[q - 1].last /\ content[q - 1].line = content[q].line
    BY <2>1 DEF Paired
  <2> USE DEF q
  <2>3. i # 1
    <3>1. CASE i = 1
      <4>1. q - 1 = start
        BY <3>1
      <4> QED BY <2>2, <4>1
    <3> QED BY <3>1
  <2> QED BY <1>1, <2>2, <2>3
<1>3. /\ ~w[i - 1].last /\ w[i - 1].line = w[i].line
      /\ w[i - 1] = content[start + i - 1] /\ start + i - 1 \in 1..Len(content)
  <2> DEFINE h == i - 1
  <2>1. h \in 1..Len(w)
    BY <1>1, <1>2
  <2>2. w[h] = content[start + h] /\ start + h \in 1..Len(content)
    BY <2>1
  <2>3. start + h = start + i - 1
    BY <1>1
  <2> QED BY <1>1, <1>2, <2>2, <2>3
<1>4. i = 2 \/ i - 2 \in earlier
  <2>1. CASE i > 2
    <3> DEFINE h == i - 2
               q == start + i - 1
    <3>1. h \in 1..Len(w) /\ q > 1 /\ q - 1 = start + h
      BY <1>1, <2>1
    <3>2. q \in 1..Len(content) /\ ~content[q].last
      BY <1>2, <1>3
    <3> HIDE DEF q
    <3>3. content[q - 1].last
      BY <3>1, <3>2 DEF Paired
    <3>4. w[h].last
      BY <3>1, <3>3
    <3> QED BY <1>1, <3>1, <3>4
  <2> QED BY <1>1, <1>2, <2>1
<1>5. earlier \in SUBSET (1..Len(w)) /\ i - 1 \notin earlier
  BY <1>1, <1>3
<1>6. before \in {0} \cup earlier /\ before \in 0..Len(w) /\ \A y \in earlier : y <= before
  <2> HIDE DEF earlier
  <2> QED BY <1>1, <1>5, MaxProperty
<1>7. before = i - 2
  <2>1. before <= i - 2
    BY <1>1, <1>2, <1>5, <1>6
  <2>2. i - 2 <= before
    BY <1>2, <1>4, <1>6
  <2> HIDE DEF before
  <2> QED BY <1>1, <1>6, <2>1, <2>2
<1>8. SubSeq(w, i - 1, i) = <<w[i - 1], w[i]>>
  <2> DEFINE h == i - 1
             part == SubSeq(w, h, i)
  <2>1. h \in 1..Len(w) /\ i = h + 1
    BY <1>1, <1>2
  <2>2. /\ part \in Seq(Chunk) /\ Len(part) = 2
        /\ part[1] = w[h] /\ part[2] = w[h + 1]
    <3> HIDE DEF h
    <3> QED BY <1>1, <2>1, SubSeqProperties
  <2>3. <<w[h], w[i]>> \in Seq(Chunk)
    BY <1>1, <2>1
  <2> HIDE DEF part
  <2>4. part = <<w[h], w[i]>>
    BY <2>1, <2>2, <2>3, SeqEqual
  <2> QED BY <2>4 DEF part
<1>9. w[i - 1] = Half(w[i].line) /\ w[i] = Rest(w[i].line)
  <2>1. w[i - 1] \in Chunk /\ w[i] \in Chunk
    BY <1>1, <1>2
  <2> QED BY <1>1, <1>3, <2>1 DEF Chunk, Half, Rest
<1> QED BY <1>7, <1>8, <1>9 DEF Whole

\* The hashed prefix begins like the file, and is empty only for an empty size.
LEMMA PrefixOfFile ==
    ASSUME NEW content \in Seq(Chunk), NEW size \in Nat,
           ~(Len(content) < Min({FingerprintSize, size}))
    PROVE  LET p == Prefix(content, size) IN
           /\ p \in Seq(Chunk)
           /\ p # <<>> => content # <<>> /\ p[1] = content[1]
           /\ size > 0 => p # <<>>
<1> DEFINE m == Min({FingerprintSize, size})
           p == Prefix(content, size)
<1>1. m \in Nat /\ m <= Len(content) /\ (size > 0 => m > 0)
  <2>1. {FingerprintSize, size} \in SUBSET Nat /\ FingerprintSize > 0
    BY SizeAssumption
  <2>2. m \in {FingerprintSize, size}
    BY <2>1, MinProperty
  <2> QED BY <2>1, <2>2
<1>2. p = SubSeq(content, 1, m)
  BY DEF Prefix
<1> HIDE DEF m, p
<1>3. p \in Seq(Chunk) /\ Len(p) = m /\ \A i \in 1..m : p[i] = content[i]
  BY <1>1, <1>2
<1>4. p # <<>> => m > 0
  BY <1>1, <1>3, EmptySeq
<1>5. m > 0 => p # <<>> /\ content # <<>> /\ p[1] = content[1]
  BY <1>1, <1>3, EmptySeq
<1> QED BY <1>1, <1>3, <1>4, <1>5 DEF p

----------------------------------------------------------------------------
(* Cursors *)

\* What is stored stays stored.
LEMMA CoversMore ==
    ASSUME NEW c, NEW file, NEW stored, NEW more, stored \subseteq more,
           Covers(c, file, stored)
    PROVE  Covers(c, file, more)
  BY DEF Covers

\* A cursor that has read nothing claims nothing.
LEMMA FreshHonest ==
    ASSUME TypeOK, NEW s, NEW stored
    PROVE  Fresh \in Cursor /\ Honest(Fresh, s, stored)
  BY DEF Fresh, Cursor, Honest, Fits, Covers, Applies, TypeOK

\* A cursor claims of a file that has grown what it claimed before: it does not
\* come to apply to a file because the first line of that is new.
LEMMA CoversGrown ==
    ASSUME NEW c \in Cursor, NEW s, NEW stored, NEW most, NEW top \in Nat,
           NEW old \in File, NEW new \in File, old # Gone, new # Gone,
           Fits(c, s, most, top), Covers(c, old, stored), new.id = old.id,
           Len(old.content) <= Len(new.content),
           \A i \in 1..Len(old.content) : new.content[i] = old.content[i],
           old.content = <<>> => new.content[1].line > top
    PROVE  Covers(c, new, stored)
<1> SUFFICES ASSUME Applies(c, new)
             PROVE  /\ c.offset <= Len(new.content)
                    /\ c.offset = 0 \/ new.content[c.offset].last
                    /\ \A i \in 1..c.offset :
                          new.content[i].last => Whole(new.content[i].line) \in stored
  BY DEF Covers
<1>1. /\ c.offset \in Nat /\ c.fingerprint \in Seq(Chunk)
      /\ old.content \in Seq(Chunk) /\ new.content \in Seq(Chunk)
  BY DEF Cursor, File
<1>2. Applies(c, old)
  <2>1. CASE c.id # 0
    BY <2>1 DEF Applies
  <2>2. CASE c.id = 0
    <3>1. c.fingerprint # <<>> /\ new.content # <<>> /\ c.fingerprint[1] = new.content[1]
      BY <2>2 DEF Applies
    <3>2. c.fingerprint[1] \in Chunk /\ c.fingerprint[1].line <= top
      BY <1>1, <3>1, EmptySeq DEF Fits
    <3>3. old.content # <<>>
      BY <3>1, <3>2 DEF Chunk
    <3>4. 1 \in 1..Len(old.content)
      BY <1>1, <3>3, EmptySeq
    <3> QED BY <2>2, <3>1, <3>3, <3>4 DEF Applies
  <2> QED BY <2>1, <2>2
<1>3. /\ c.offset <= Len(old.content)
      /\ c.offset = 0 \/ old.content[c.offset].last
      /\ \A i \in 1..c.offset :
            old.content[i].last => Whole(old.content[i].line) \in stored
  BY <1>2 DEF Covers
<1>4. \A i \in 1..c.offset : i \in 1..Len(old.content)
  BY <1>1, <1>3
<1> QED BY <1>1, <1>3, <1>4

----------------------------------------------------------------------------
(* The assistant *)

\* A step that changes nothing but the file at one path.
LEMMA FileStep ==
    ASSUME Inductive, NEW s \in Stream, NEW file \in File \cup {Gone},
           files' = [files EXCEPT ![s] = file],
           written' \in Nat, written <= written', created' \in Nat, created <= created',
           FileAt(file, s, created', written'),
           \A c \in Cursor : \A stored :
              Fits(c, s, created, written) /\ Covers(c, files[s], stored)
                  => Covers(c, file, stored),
           UNCHANGED <<durable, phase, queue, current, from, info, batch, after, faults>>
    PROVE  Inductive'
<1> USE DEF durable, batch
<1>1. TypeOK'
  BY DEF Inductive, TypeOK
<1>2. files'[s] = file /\ \A t \in Stream : t # s => files'[t] = files[t]
  BY DEF Inductive, TypeOK
<1>3. Files'
  <2>1. ASSUME NEW t \in Stream, t # s
        PROVE  FileAt(files[t], t, created', written')
    <3>1. files[t] \in File \cup {Gone} /\ FileAt(files[t], t, created, written)
      BY DEF Inductive, Files, TypeOK
    <3>2. CASE files[t] = Gone
      BY <3>2 DEF FileAt
    <3>3. CASE files[t] # Gone
      <4>1. files[t].id \in Nat /\ files[t].content \in Seq(Chunk)
        BY <3>1, <3>3 DEF File
      <4>2. \A i \in 1..Len(files[t].content) : files[t].content[i].line \in Nat
        <5>1. \A i \in 1..Len(files[t].content) : files[t].content[i] \in Chunk
          BY <4>1
        <5> QED BY <5>1 DEF Chunk
      <4>3. Paired(files[t].content, written')
        <5>1. written \in Nat
          BY DEF Inductive, TypeOK
        <5> QED BY <3>1, <3>3, <4>2, <5>1 DEF FileAt, Paired
      <4>4. files[t].id <= created'
        BY <3>1, <3>3, <4>1 DEF FileAt, Inductive, TypeOK
      <4> QED BY <3>1, <4>3, <4>4 DEF FileAt
    <3> QED BY <3>2, <3>3
  <2> QED BY <1>2, <2>1 DEF Files
<1>4. ASSUME NEW c \in Cursor, NEW t \in Stream, NEW stored, Honest(c, t, stored)
      PROVE  Fits(c, t, created', written') /\ Covers(c, files'[t], stored)
  <2>1. Fits(c, t, created', written')
    <3>1. c.id \in Nat /\ c.fingerprint \in Seq(Chunk) /\ created \in Nat /\ written \in Nat
      BY DEF Cursor, Inductive, TypeOK
    <3>2. c.fingerprint # <<>> => c.fingerprint[1].line \in Nat
      <4>1. ASSUME c.fingerprint # <<>> PROVE c.fingerprint[1] \in Chunk
        BY <3>1, <4>1, EmptySeq
      <4> QED BY <4>1 DEF Chunk
    <3> QED BY <1>4, <3>1, <3>2 DEF Honest, Fits
  <2>2. Covers(c, files'[t], stored)
    BY <1>2, <1>4 DEF Honest
  <2> QED BY <2>1, <2>2
<1>5. Cursors'
  <2>1. \A t \in Stream : cursors[t] \in Cursor
    BY DEF Inductive, TypeOK
  <2>2. \A t \in DOMAIN pending : t \in Stream /\ pending[t] \in Cursor
    BY DEF Inductive, TypeOK
  <2>3. from \in Cursor /\ current \in Stream
    BY DEF Inductive, TypeOK
  <2>4. \A t \in Stream : Honest(cursors[t], t, archive)'
    BY <1>4, <2>1 DEF Inductive, Cursors, Honest
  <2>5. \A t \in DOMAIN pending : Honest(pending[t], t, Stored)'
    <3>1. Stored' = Stored
      BY DEF Stored
    <3> QED BY <1>4, <2>2, <3>1 DEF Inductive, Cursors, Honest
  <2>6. Honest(from, current, Stored)'
    <3>1. Stored' = Stored
      BY DEF Stored
    <3> QED BY <1>4, <2>3, <3>1 DEF Inductive, Cursors, Honest
  <2> QED BY <2>4, <2>5, <2>6 DEF Cursors
<1>6. Statted' /\ Uploaded'
  BY DEF Inductive, Statted, Uploaded, Stored, TypeOK
<1> QED BY <1>1, <1>3, <1>5, <1>6 DEF Inductive

LEMMA WriteHalfStep ==
    ASSUME Inductive, NEW s \in Stream, WriteHalf(s)
    PROVE  Inductive'
<1> DEFINE old == files[s]
           content == old.content
           chunk == Half(written + 1)
           longer == Append(content, chunk)
           new == [old EXCEPT !.content = longer]
<1>1. /\ old \in File /\ old # Gone /\ content \in Seq(Chunk) /\ old.id \in Nat
      /\ written \in Nat /\ created \in Nat /\ Complete(content)
      /\ FileAt(old, s, created, written)
  BY DEF WriteHalf, Inductive, TypeOK, Files, File
<1>2. chunk \in Chunk /\ chunk.line = written + 1 /\ ~chunk.last
  BY <1>1 DEF Half, Chunk
<1>3. /\ longer \in Seq(Chunk) /\ Len(longer) = Len(content) + 1
      /\ \A i \in 1..Len(content) : longer[i] = content[i]
      /\ longer[Len(content) + 1] = chunk /\ Len(content) \in Nat
  BY <1>1, <1>2, AppendProperties
<1>4. new \in File /\ new # Gone /\ new.content = longer /\ new.id = old.id
  BY <1>1, <1>3, GoneAssumption DEF File
<1>5. files' = [files EXCEPT ![s] = new] /\ written' = written + 1
  BY DEF WriteHalf
<1> HIDE DEF content, longer, new, chunk
<1>6. Paired(longer, written + 1)
  <2> SUFFICES ASSUME NEW i \in 1..Len(longer)
               PROVE  /\ longer[i].line <= written + 1
                      /\ longer[i].last <=> i > 1 /\ ~longer[i - 1].last
                      /\ longer[i].last => longer[i - 1].line = longer[i].line
    BY DEF Paired
  <2>1. Paired(content, written)
    BY <1>1 DEF FileAt, content
  <2>2. CASE i = Len(content) + 1
    <3>1. CASE Len(content) = 0
      BY <1>1, <1>2, <1>3, <2>2, <3>1
    <3>2. CASE Len(content) > 0
      <4>1. content[Len(content)].last
        BY <1>1, <1>3, <3>2 DEF Complete
      <4>2. longer[i - 1] = content[Len(content)]
        BY <1>3, <2>2, <3>2
      <4> QED BY <1>1, <1>2, <1>3, <2>2, <3>2, <4>1, <4>2
    <3> QED BY <1>3, <3>1, <3>2
  <2>3. CASE i # Len(content) + 1
    <3>1. i \in 1..Len(content) /\ longer[i] = content[i]
      BY <1>3, <2>3
    <3>2. i > 1 => longer[i - 1] = content[i - 1]
      BY <1>3, <3>1
    <3>3. content[i].line \in Nat
      <4>1. content[i] \in Chunk
        BY <1>1, <3>1
      <4> QED BY <4>1 DEF Chunk
    <3> QED BY <1>1, <2>1, <3>1, <3>2, <3>3 DEF Paired
  <2> QED BY <2>2, <2>3
<1>7. FileAt(new, s, created', written')
  BY <1>1, <1>4, <1>5, <1>6 DEF FileAt, WriteHalf
<1>8. content = <<>> => longer[1].line > written
  BY <1>1, <1>2, <1>3, EmptySeq
<1>9. ASSUME NEW c \in Cursor, NEW stored,
             Fits(c, s, created, written), Covers(c, old, stored)
      PROVE  Covers(c, new, stored)
  BY <1>1, <1>3, <1>4, <1>8, <1>9, CoversGrown DEF content
<1>10. \A c \in Cursor : \A stored :
          Fits(c, s, created, written) /\ Covers(c, old, stored) => Covers(c, new, stored)
  BY <1>9
<1>11. /\ new \in File \cup {Gone}
       /\ written' \in Nat /\ written <= written' /\ created' \in Nat /\ created <= created'
       /\ UNCHANGED <<durable, phase, queue, current, from, info, batch, after, faults>>
  BY <1>1, <1>4, <1>5 DEF WriteHalf
<1> QED BY <1>5, <1>7, <1>10, <1>11, FileStep

LEMMA WriteRestStep ==
    ASSUME Inductive, NEW s \in Stream, WriteRest(s)
    PROVE  Inductive'
<1> DEFINE old == files[s]
           content == old.content
           n == Len(content)
           chunk == Rest(content[n].line)
           longer == Append(content, chunk)
           new == [old EXCEPT !.content = longer]
<1>1. /\ old \in File /\ old # Gone /\ content \in Seq(Chunk) /\ old.id \in Nat
      /\ written \in Nat /\ created \in Nat /\ ~Complete(content)
      /\ FileAt(old, s, created, written)
  BY DEF WriteRest, Inductive, TypeOK, Files, File
<1>2. n \in Nat /\ n > 0 /\ ~content[n].last
  BY <1>1 DEF Complete
<1>3. content[n] \in Chunk
  BY <1>1, <1>2
<1>4. chunk \in Chunk /\ chunk.line = content[n].line /\ chunk.last
  BY <1>3 DEF Rest, Chunk
<1>5. /\ longer \in Seq(Chunk) /\ Len(longer) = n + 1
      /\ \A i \in 1..n : longer[i] = content[i]
      /\ longer[n + 1] = chunk
  BY <1>1, <1>4, AppendProperties
<1>6. new \in File /\ new # Gone /\ new.content = longer /\ new.id = old.id
  BY <1>1, <1>5, GoneAssumption DEF File
<1>7. files' = [files EXCEPT ![s] = new]
  BY DEF WriteRest
<1> HIDE DEF content, longer, new, chunk, n
<1>8. Paired(longer, written)
  <2> SUFFICES ASSUME NEW i \in 1..Len(longer)
               PROVE  /\ longer[i].line <= written
                      /\ longer[i].last <=> i > 1 /\ ~longer[i - 1].last
                      /\ longer[i].last => longer[i - 1].line = longer[i].line
    BY DEF Paired
  <2>1. Paired(content, written) /\ n = Len(content)
    BY <1>1 DEF FileAt, content, n
  <2>2. CASE i = n + 1
    <3>1. longer[i - 1] = content[n] /\ n \in 1..Len(content)
      BY <1>2, <1>5, <2>1, <2>2
    <3>2. content[n].line <= written
      BY <2>1, <3>1 DEF Paired
    <3> QED BY <1>2, <1>4, <1>5, <2>2, <3>1, <3>2
  <2>3. CASE i # n + 1
    <3>1. i \in 1..n /\ longer[i] = content[i]
      BY <1>2, <1>5, <2>3
    <3>2. i > 1 => longer[i - 1] = content[i - 1]
      BY <1>2, <1>5, <3>1
    <3> QED BY <2>1, <3>1, <3>2 DEF Paired
  <2> QED BY <2>2, <2>3
<1>9. FileAt(new, s, created', written')
  BY <1>1, <1>6, <1>8 DEF FileAt, WriteRest
<1>10. content # <<>>
  BY <1>1, <1>2, EmptySeq DEF n
<1>11. ASSUME NEW c \in Cursor, NEW stored,
              Fits(c, s, created, written), Covers(c, old, stored)
       PROVE  Covers(c, new, stored)
  BY <1>1, <1>2, <1>5, <1>6, <1>10, <1>11, CoversGrown DEF content, n
<1>12. \A c \in Cursor : \A stored :
          Fits(c, s, created, written) /\ Covers(c, old, stored) => Covers(c, new, stored)
  BY <1>11
<1>13. /\ new \in File \cup {Gone}
       /\ written' \in Nat /\ written <= written' /\ created' \in Nat /\ created <= created'
       /\ UNCHANGED <<durable, phase, queue, current, from, info, batch, after, faults>>
  BY <1>1, <1>6 DEF WriteRest
<1> QED BY <1>7, <1>9, <1>12, <1>13, FileStep

LEMMA DeleteStep ==
    ASSUME Inductive, NEW s \in Stream, Delete(s)
    PROVE  Inductive'
<1>1. FileAt(Gone, s, created', written') /\ \A c, stored : Covers(c, Gone, stored)
  BY DEF FileAt, Covers
<1>2. written \in Nat /\ created \in Nat
  BY DEF Inductive, TypeOK
<1>3. /\ Gone \in File \cup {Gone} /\ files' = [files EXCEPT ![s] = Gone]
      /\ written' \in Nat /\ written <= written' /\ created' \in Nat /\ created <= created'
      /\ UNCHANGED <<durable, phase, queue, current, from, info, batch, after, faults>>
  BY <1>2 DEF Delete
<1> QED BY <1>1, <1>3, FileStep

\* A new file has a new identity or, where there are none, no first line yet.
LEMMA CreateStep ==
    ASSUME ~Reused, Inductive, NEW s \in Stream, NEW id \in Identities(s), Create(s, id)
    PROVE  Inductive'
<1> DEFINE new == [id |-> id, content |-> <<>>]
<1>1. written \in Nat /\ created \in Nat /\ created' = created + 1
  BY DEF Inductive, TypeOK, Create
<1>2. id \in Nat /\ id <= created + 1 /\ (id = 0 <=> s \notin HasIdentity)
      /\ (id = 0 \/ id = created + 1)
  BY <1>1 DEF Identities
<1>3. <<>> \in Seq(Chunk) /\ Len(<<>>) = 0
  BY EmptySeq
<1>4. new \in File /\ new.id = id /\ new.content = <<>>
  BY <1>2, <1>3 DEF File
<1> HIDE DEF new
<1>5. FileAt(new, s, created', written')
  BY <1>1, <1>2, <1>3, <1>4 DEF FileAt, Paired
<1>6. ASSUME NEW c \in Cursor, NEW stored, Fits(c, s, created, written)
      PROVE  Covers(c, new, stored)
  <2>1. ~Applies(c, new)
    <3>1. c.id \in Nat /\ c.id <= created
      BY <1>6 DEF Fits, Cursor
    <3> QED BY <1>1, <1>2, <1>4, <3>1 DEF Applies
  <2> QED BY <2>1 DEF Covers
<1>7. files' = [files EXCEPT ![s] = new]
  BY DEF Create, new
<1>8. \A c \in Cursor : \A stored :
         Fits(c, s, created, written) /\ Covers(c, files[s], stored) => Covers(c, new, stored)
  BY <1>6
<1>9. /\ new \in File \cup {Gone}
      /\ written' \in Nat /\ written <= written' /\ created' \in Nat /\ created <= created'
      /\ UNCHANGED <<durable, phase, queue, current, from, info, batch, after, faults>>
  BY <1>1, <1>4 DEF Create
<1> QED BY <1>5, <1>7, <1>8, <1>9, FileStep

----------------------------------------------------------------------------
(* Reading *)

\* What a read knows of the file opened, of what Stat said, and of its cursor.
Reading(c, stat, file, s, stored, most, top) ==
    /\ file # Gone /\ FileAt(file, s, most, top)
    /\ Fits(c, s, most, top) /\ Covers(c, file, stored)
    /\ stat.id <= most /\ (stat.id = 0 <=> s \notin HasIdentity)
    /\ Trusted(c, stat) \/ ~(Len(file.content) < Min({FingerprintSize, stat.size}))

\* The cursor it makes.
NextCursor(c, stat, content) ==
    LET start == Start(c, stat, content) IN
    [offset |-> start + Consumed(Window(content, start, stat.size)),
     fingerprint |-> Fingerprint(c, stat, content),
     id |-> stat.id]

\* What is consumed is nothing, or ends with a complete line.
LEMMA ConsumedLines ==
    ASSUME NEW w \in Seq(Chunk)
    PROVE  /\ Consumed(w) \in 0..Len(w) /\ Ends(w) \in SUBSET (1..Len(w))
           /\ Consumed(w) = 0 \/ w[Consumed(w)].last
<1>1. Len(w) \in Nat /\ Ends(w) \in SUBSET (1..Len(w)) /\ \A i \in Ends(w) : w[i].last
  BY DEF Ends
<1>2. Consumed(w) \in {0} \cup Ends(w) /\ Consumed(w) \in 0..Len(w)
  BY <1>1, MaxProperty DEF Consumed
<1> QED BY <1>1, <1>2

\* A read starts at the beginning, or where the cursor stands in this very file.
LEMMA StartsHere ==
    ASSUME NEW s \in Stream, NEW file \in File, NEW c \in Cursor,
           NEW stat \in [size : Nat, id : Nat], NEW stored, NEW most, NEW top \in Nat,
           Reading(c, stat, file, s, stored, most, top), stat.id = file.id
    PROVE  LET start == Start(c, stat, file.content) IN
           /\ start \in 0..Len(file.content)
           /\ start = 0 \/ file.content[start].last
           /\ \A i \in 1..start :
                 file.content[i].last => Whole(file.content[i].line) \in stored
<1> DEFINE content == file.content
           start == Start(c, stat, content)
<1>1. /\ c.offset \in Nat /\ c.fingerprint \in Seq(Chunk) /\ c.id \in Nat
      /\ content \in Seq(Chunk) /\ stat.size \in Nat /\ stat.id \in Nat
      /\ Len(content) \in Nat
  BY DEF Cursor, File
<1>2. start = 0 \/ (start = c.offset /\ c.offset > 0)
  <2>1. start \in {0, c.offset}
    BY DEF Start
  <2> HIDE DEF start
  <2> QED BY <1>1, <2>1
<1>3. CASE start = 0
  BY <1>1, <1>3
<1>4. CASE start = c.offset /\ c.offset > 0
  <2>1. ~Truncated(c, stat) /\ ~ReplacedById(c, stat) /\ ~ReplacedByContent(c, stat, content)
    BY <1>1, <1>4 DEF Start
  <2>2. c.fingerprint # <<>> /\ (c.id = 0 <=> s \notin HasIdentity)
        /\ (stat.id = 0 <=> s \notin HasIdentity)
    BY <1>4 DEF Reading, Fits
  <2>3. c.id = file.id
    BY <2>1, <2>2 DEF ReplacedById, Identified
  <2>4. ASSUME c.id = 0
        PROVE  content # <<>> /\ c.fingerprint[1] = content[1]
    <3>1. ~Trusted(c, stat)
      BY <2>4 DEF Trusted, Identified
    <3>2. Prefix(content, stat.size) = c.fingerprint
      BY <2>1, <2>2, <3>1 DEF ReplacedByContent
    <3>3. ~(Len(content) < Min({FingerprintSize, stat.size}))
      BY <3>1 DEF Reading
    <3> HIDE DEF content
    <3> QED BY <1>1, <2>2, <3>2, <3>3, PrefixOfFile
  <2>5. Applies(c, file)
    BY <2>2, <2>3, <2>4 DEF Applies
  <2>6. /\ c.offset <= Len(content)
        /\ c.offset = 0 \/ content[c.offset].last
        /\ \A i \in 1..c.offset :
              content[i].last => Whole(content[i].line) \in stored
    BY <2>5 DEF Reading, Covers
  <2> HIDE DEF content, start
  <2>7. /\ start \in 0..Len(content)
        /\ start = 0 \/ content[start].last
        /\ \A i \in 1..start : content[i].last => Whole(content[i].line) \in stored
    BY <1>1, <1>4, <2>6
  <2> QED BY <2>7 DEF start, content
<1> QED BY <1>2, <1>3, <1>4

\* The new cursor is one, and identifies no file to come.
LEMMA NextFits ==
    ASSUME NEW s \in Stream, NEW file \in File, NEW c \in Cursor,
           NEW stat \in [size : Nat, id : Nat], NEW stored, NEW most, NEW top \in Nat,
           Reading(c, stat, file, s, stored, most, top)
    PROVE  LET next == NextCursor(c, stat, file.content) IN
           next \in Cursor /\ Fits(next, s, most, top)
<1> DEFINE content == file.content
           start == Start(c, stat, content)
           w == Window(content, start, stat.size)
           print == Fingerprint(c, stat, content)
           next == NextCursor(c, stat, content)
<1>1. /\ c.offset \in Nat /\ c.fingerprint \in Seq(Chunk) /\ c.id \in Nat
      /\ content \in Seq(Chunk) /\ stat.size \in Nat /\ stat.id \in Nat
  BY DEF Cursor, File
<1>2. /\ start \in Nat
      /\ start = 0 \/ (start = c.offset /\ ~Truncated(c, stat))
  <2>1. start = 0 \/ (start = c.offset /\ ~Truncated(c, stat))
    BY DEF Start
  <2> HIDE DEF start
  <2> QED BY <1>1, <2>1
<1>3. next.offset = start + Consumed(w) /\ next.fingerprint = print /\ next.id = stat.id
      /\ next = [offset |-> next.offset, fingerprint |-> next.fingerprint, id |-> next.id]
  BY DEF NextCursor
<1> HIDE DEF next
<1>4. /\ w \in Seq(Chunk) /\ Len(w) \in Nat /\ Consumed(w) \in 0..Len(w)
      /\ stat.size = 0 => w = <<>>
  <2> HIDE DEF content, start
  <2>1. w \in Seq(Chunk) /\ (stat.size = 0 => w = <<>>)
    BY <1>1, <1>2, WindowInFile
  <2> QED BY <2>1, ConsumedLines
<1> HIDE DEF w
<1>5. next.offset > 0 => stat.size > 0 \/ (c.offset > 0 /\ start = c.offset)
  <2>1. CASE start = 0
    <3>1. next.offset > 0 => w # <<>>
      BY <1>3, <1>4, <2>1, EmptySeq
    <3> QED BY <1>1, <1>4, <3>1
  <2>2. CASE start # 0
    BY <1>1, <1>2, <2>2
  <2> QED BY <2>1, <2>2
<1>6. CASE Trusted(c, stat)
  <2>1. print = c.fingerprint
    BY <1>6 DEF Fingerprint
  <2>2. c.fingerprint # <<>>
    BY <1>1, <1>6 DEF Trusted, Reading, Fits
  <2> HIDE DEF print
  <2>3. next \in Cursor
    BY <1>1, <1>2, <1>3, <1>4, <2>1 DEF Cursor
  <2>4. print[1].line <= top /\ print # <<>>
    BY <2>1, <2>2 DEF Reading, Fits
  <2> QED BY <1>3, <2>3, <2>4 DEF Reading, Fits, next, content
<1>7. CASE ~Trusted(c, stat)
  <2>1. print = Prefix(content, stat.size) /\ ~(Len(content) < Min({FingerprintSize, stat.size}))
    BY <1>7 DEF Fingerprint, Reading
  <2> HIDE DEF print, content
  <2>2. /\ print \in Seq(Chunk)
        /\ print # <<>> => content # <<>> /\ print[1] = content[1]
        /\ stat.size > 0 => print # <<>>
    BY <1>1, <2>1, PrefixOfFile
  <2>3. next \in Cursor
    BY <1>1, <1>2, <1>3, <1>4, <2>2 DEF Cursor
  <2>4. print # <<>> => print[1].line <= top
    <3>1. ASSUME content # <<>> PROVE content[1].line <= top
      <4>1. 1 \in 1..Len(content)
        BY <1>1, <3>1, EmptySeq
      <4>2. Paired(content, top)
        BY DEF Reading, FileAt, content
      <4> QED BY <4>1, <4>2 DEF Paired
    <3> QED BY <2>2, <3>1
  <2>5. next.offset > 0 => stat.size > 0
    BY <1>1, <1>2, <1>5 DEF Truncated
  <2> QED BY <1>3, <2>2, <2>3, <2>4, <2>5 DEF Reading, Fits, next, content
<1> QED BY <1>6, <1>7

\* It stands at the end of a line, all before it stored or among the lines read.
LEMMA NextCovers ==
    ASSUME NEW s \in Stream, NEW file \in File, NEW c \in Cursor,
           NEW stat \in [size : Nat, id : Nat], NEW stored, NEW most, NEW top \in Nat,
           Reading(c, stat, file, s, stored, most, top)
    PROVE  LET content == file.content
               start == Start(c, stat, content)
               lines == RawLines(s, start, Window(content, start, stat.size))
           IN  Covers(NextCursor(c, stat, content), file, stored \cup {r.data : r \in lines})
<1> DEFINE content == file.content
           start == Start(c, stat, content)
           w == Window(content, start, stat.size)
           lines == RawLines(s, start, w)
           more == stored \cup {r.data : r \in lines}
           next == NextCursor(c, stat, content)
           n == Consumed(w)
<1>1. next.id = stat.id /\ next.offset = start + n
  BY DEF NextCursor
<1> SUFFICES ASSUME stat.id = file.id
             PROVE  /\ start + n <= Len(content)
                    /\ start + n = 0 \/ content[start + n].last
                    /\ \A i \in 1..(start + n) :
                          content[i].last => Whole(content[i].line) \in more
  BY <1>1 DEF Covers, Applies
<1>2. /\ start \in 0..Len(content) /\ Len(content) \in Nat
      /\ start = 0 \/ content[start].last
      /\ \A i \in 1..start : content[i].last => Whole(content[i].line) \in stored
      /\ content \in Seq(Chunk) /\ stat.size \in Nat /\ Paired(content, top)
  <2>1. content \in Seq(Chunk) /\ stat.size \in Nat /\ Paired(content, top)
    BY DEF File, Reading, FileAt
  <2>2. /\ start \in 0..Len(content)
        /\ start = 0 \/ content[start].last
        /\ \A i \in 1..start : content[i].last => Whole(content[i].line) \in stored
    BY StartsHere
  <2> QED BY <2>1, <2>2
<1> HIDE DEF content, start
<1>3. /\ w \in Seq(Chunk) /\ Len(w) \in Nat
      /\ \A i \in 1..Len(w) : start + i \in 1..Len(content) /\ w[i] = content[start + i]
  BY <1>2, WindowInFile
<1> HIDE DEF w
<1>4. n \in 0..Len(w) /\ (n = 0 \/ w[n].last) /\ Ends(w) \in SUBSET (1..Len(w))
  BY <1>3, ConsumedLines
<1> HIDE DEF n
<1>5. start + n <= Len(content) /\ (start + n = 0 \/ content[start + n].last)
  <2>1. CASE n = 0
    BY <1>2, <2>1
  <2>2. CASE n # 0
    <3>1. n \in 1..Len(w)
      BY <1>3, <1>4, <2>2
    <3> QED BY <1>2, <1>3, <1>4, <2>2, <3>1
  <2> QED BY <2>1, <2>2
<1>6. ASSUME NEW i \in 1..(start + n), content[i].last
      PROVE  Whole(content[i].line) \in more
  <2>1. CASE i <= start
    BY <1>2, <1>6, <2>1
  <2>2. CASE i > start
    <3> DEFINE j == i - start
    <3>1. j \in 1..Len(w) /\ start + j = i
      BY <1>2, <1>3, <1>4, <2>2
    <3> HIDE DEF j
    <3>2. w[j] = content[i]
      BY <1>3, <3>1
    <3>3. j \in Ends(w)
      BY <1>3, <1>6, <3>1, <3>2 DEF Ends
    <3>4. /\ Max({0} \cup {k \in Ends(w) : k < j}) = j - 2
          /\ SubSeq(w, j - 1, j) = Whole(w[j].line)
      <4>1. /\ content \in Seq(Chunk) /\ Paired(content, top)
            /\ start \in 0..Len(content)
            /\ start = 0 \/ content[start].last
        BY <1>2
      <4>2. /\ w \in Seq(Chunk)
            /\ \A k \in 1..Len(w) : start + k \in 1..Len(content) /\ w[k] = content[start + k]
        BY <1>3
      <4> HIDE DEF more, lines, next
      <4> QED BY <3>3, <4>1, <4>2, LinesOfWindow
    <3> DEFINE before == Max({0} \cup {k \in Ends(w) : k < j})
               r == [stream |-> s, offset |-> start + before, data |-> SubSeq(w, before + 1, j)]
    <3>5. r \in lines /\ r.data = SubSeq(w, before + 1, j)
      BY <3>3 DEF RawLines
    <3>6. (j - 2) + 1 = j - 1
      BY <3>1
    <3>7. r.data = Whole(content[i].line)
      <4> HIDE DEF r
      <4> QED BY <3>2, <3>4, <3>5, <3>6
    <3> HIDE DEF r, lines
    <3> QED BY <3>5, <3>7
  <2> QED BY <1>2, <2>1, <2>2
<1> QED BY <1>5, <1>6

\* What is read are lines of this stream.
LEMMA LinesTyped ==
    ASSUME NEW s \in Stream, NEW start \in Nat, NEW w \in Seq(Chunk)
    PROVE  RawLines(s, start, w) \in SUBSET RawLine
<1> SUFFICES ASSUME NEW i \in Ends(w)
             PROVE  LET m == Max({0} \cup {j \in Ends(w) : j < i}) IN
                    start + m \in Nat /\ SubSeq(w, m + 1, i) \in Seq(Chunk)
  <2>1. ASSUME NEW o \in Nat, NEW d \in Seq(Chunk)
        PROVE  [stream |-> s, offset |-> o, data |-> d] \in RawLine
    BY DEF RawLine
  <2> QED BY <2>1 DEF RawLines
<1> DEFINE earlier == {j \in Ends(w) : j < i}
           m == Max({0} \cup earlier)
<1>1. Ends(w) \in SUBSET (1..Len(w)) /\ Len(w) \in Nat /\ i \in 1..Len(w)
  BY DEF Ends
<1>2. earlier \in SUBSET (1..Len(w))
  BY <1>1
<1> HIDE DEF earlier
<1>3. m \in 0..Len(w)
  BY <1>1, <1>2, MaxProperty
<1> HIDE DEF m
<1>4. start + m \in Nat /\ SubSeq(w, m + 1, i) \in Seq(Chunk)
  BY <1>1, <1>3
<1> QED BY <1>4 DEF m, earlier

----------------------------------------------------------------------------
(* The pass *)

\* A step of the pass leaves the files alone: what remains is its cursors.
LEMMA PassStep ==
    ASSUME Inductive, UNCHANGED transcripts, TypeOK',
           \A t \in Stream : Honest(cursors'[t], t, archive'),
           \A t \in DOMAIN pending' : Honest(pending'[t], t, Stored'),
           Honest(from', current', Stored'),
           Statted', Uploaded'
    PROVE  Inductive'
<1>1. files' = files /\ written' = written /\ created' = created
  BY DEF transcripts
<1>2. Files'
  BY <1>1 DEF Inductive, Files
<1>3. Cursors'
  BY <1>1 DEF Cursors, Honest
<1> QED BY <1>2, <1>3 DEF Inductive

\* As long as what is stored is kept, so are the cursors.
LEMMA KeptCursors ==
    ASSUME Inductive
    PROVE  /\ \A t \in Stream : Honest(cursors[t], t, archive) /\ Honest(cursors[t], t, Stored)
           /\ \A t \in DOMAIN pending : Honest(pending[t], t, Stored)
           /\ Honest(from, current, Stored)
<1>1. archive \subseteq Stored
  BY DEF Stored
<1> QED BY <1>1, CoversMore DEF Inductive, Cursors, Honest

LEMMA NobodyTyped == Nobody \in Stream
  BY StreamAssumption DEF Nobody

\* A pass that ends leaves nothing but what is durable.
LEMMA OverStep ==
    ASSUME Inductive, NoPass, phase' = "idle", faults' \in Nat,
           UNCHANGED <<transcripts, durable>>
    PROVE  Inductive'
<1>1. Stored' = archive /\ archive' = archive /\ cursors' = cursors
  BY DEF NoPass, Stored, durable
<1>2. TypeOK /\ Fresh \in Cursor /\ Nobody \in Stream
  BY NobodyTyped, FreshHonest DEF Inductive
<1>3. DOMAIN Nowhere = {}
  BY DEF Nowhere
<1>4. TypeOK'
  BY <1>2, <1>3 DEF TypeOK, NoPass, transcripts, durable, Phase, Unknown
<1>5. Honest(from', current', Stored')
  BY <1>2, FreshHonest DEF NoPass
<1>6. \A t \in Stream : Honest(cursors'[t], t, archive')
  BY <1>1, KeptCursors
<1>7. \A t \in DOMAIN pending' : Honest(pending'[t], t, Stored')
  BY <1>3 DEF NoPass
<1>8. Statted' /\ Uploaded'
  BY DEF Statted, Uploaded
<1> QED BY <1>4, <1>5, <1>6, <1>7, <1>8, PassStep

LEMMA BeginStep ==
    ASSUME Inductive, Begin
    PROVE  Inductive'
<1> USE DEF Begin, batch, durable
<1>1. Stored' = Stored
  BY DEF Stored
<1>2. TypeOK'
  BY DEF Inductive, TypeOK, transcripts, Phase
<1>3. Statted' /\ Uploaded'
  BY DEF Statted, Uploaded
<1> QED BY <1>1, <1>2, <1>3, KeptCursors, PassStep

LEMMA OpenStep ==
    ASSUME Inductive, NEW s \in Stream, Open(s)
    PROVE  Inductive'
<1> USE DEF Open, batch, durable
<1>1. Stored' = Stored
  BY DEF Stored
<1>2. TypeOK'
  BY DEF Inductive, TypeOK, transcripts, Phase
<1>3. Statted' /\ Uploaded'
  BY DEF Statted, Uploaded
<1> QED BY <1>1, <1>2, <1>3, KeptCursors, PassStep

LEMMA StatStep ==
    ASSUME Inductive, Stat
    PROVE  Inductive'
<1> USE DEF Stat, batch, durable
<1>1. Stored' = Stored
  BY DEF Stored
<1>2. files[current] \in File /\ FileAt(files[current], current, created, written)
  BY DEF Inductive, TypeOK, Files
<1>3. files[current].id \in Nat /\ Len(files[current].content) \in Nat
  BY <1>2 DEF File
<1>4. TypeOK'
  BY <1>3 DEF Inductive, TypeOK, transcripts, Phase
<1>5. Statted' /\ Uploaded'
  BY <1>2 DEF Statted, Uploaded, FileAt, transcripts
<1> QED BY <1>1, <1>4, <1>5, KeptCursors, PassStep

LEMMA VanishedStep ==
    ASSUME Inductive, Vanished
    PROVE  Inductive'
<1> USE DEF Vanished, batch, durable
<1>1. Stored' = Stored
  BY DEF Stored
<1>2. TypeOK /\ Fresh \in Cursor /\ Nobody \in Stream
  BY NobodyTyped, FreshHonest DEF Inductive
<1>3. TypeOK'
  BY <1>2 DEF TypeOK, transcripts, Phase, Unknown
<1>4. Honest(from', current', Stored')
  BY <1>2, FreshHonest
<1>5. Statted' /\ Uploaded'
  BY DEF Statted, Uploaded
<1> QED BY <1>1, <1>3, <1>4, <1>5, KeptCursors, PassStep

LEMMA LastFlushStep ==
    ASSUME Inductive, LastFlush
    PROVE  Inductive'
<1> USE DEF LastFlush, batch, durable
<1>1. Stored' = Stored
  BY DEF Stored
<1>2. TypeOK'
  BY DEF Inductive, TypeOK, transcripts, Phase
<1>3. Statted' /\ Uploaded'
  BY DEF Statted, Uploaded
<1> QED BY <1>1, <1>2, <1>3, KeptCursors, PassStep

\* The batch is stored, so that what was claimed of both now holds of the archive.
LEMMA UploadStep ==
    ASSUME Inductive, Upload
    PROVE  Inductive'
<1> USE DEF Upload, batch, durable
<1>1. archive' = Stored /\ Stored' = Stored
  BY DEF Stored
<1>2. \A r \in records : r.data \in Seq(Chunk)
  BY DEF Inductive, TypeOK, RawLine
<1>3. TypeOK'
  BY <1>2 DEF Inductive, TypeOK, transcripts, Phase
<1>4. Statted' /\ Uploaded'
  BY <1>1 DEF Statted, Uploaded
<1> QED BY <1>1, <1>3, <1>4, KeptCursors, PassStep

\* A cursor is saved only when what it answers for is in the archive.
LEMMA SaveStep ==
    ASSUME Inductive, NEW s \in Stream, Save(s)
    PROVE  Inductive'
<1> USE DEF Save, batch, durable
<1>1. Stored' = Stored /\ Stored = archive
  BY DEF Stored, Inductive, Uploaded
<1>2. TypeOK /\ cursors \in [Stream -> Cursor] /\ pending[s] \in Cursor
  BY DEF Inductive, TypeOK
<1>3. cursors' = [cursors EXCEPT ![s] = pending[s]] /\ cursors' \in [Stream -> Cursor]
  BY <1>2
<1>4. DOMAIN pending' = DOMAIN pending \ {s} /\ \A t \in DOMAIN pending' : pending'[t] = pending[t]
  OBVIOUS
<1>5. TypeOK'
  BY <1>2, <1>3, <1>4 DEF TypeOK, transcripts
<1>6. \A t \in Stream : Honest(cursors'[t], t, archive')
  BY <1>1, <1>2, <1>3, KeptCursors
<1>7. \A t \in DOMAIN pending' : Honest(pending'[t], t, Stored')
  BY <1>1, <1>4, KeptCursors
<1>8. Statted' /\ Uploaded'
  BY <1>1 DEF Statted, Uploaded
<1> QED BY <1>1, <1>5, <1>6, <1>7, <1>8, KeptCursors, PassStep

LEMMA FlushedStep ==
    ASSUME Inductive, Flushed
    PROVE  Inductive'
<1> USE DEF Flushed
<1>1. CASE after = "idle"
  BY <1>1, OverStep DEF Inductive, TypeOK
<1>2. CASE after # "idle"
  <2>1. /\ phase' = after /\ records' = {} /\ after' = "idle"
        /\ UNCHANGED <<transcripts, cursors, archive, queue, current, from, info, pending, faults>>
    BY <1>2 DEF durable
  <2>2. Stored' = archive /\ Stored = archive
    BY <2>1 DEF Stored, Inductive, Uploaded
  <2>3. after \in {"walking", "reading"}
    BY <1>2 DEF Inductive, TypeOK
  <2>4. TypeOK'
    BY <2>1, <2>3 DEF Inductive, TypeOK, transcripts, Phase
  <2>5. Statted' /\ Uploaded'
    BY <2>1, <2>3 DEF Statted, Uploaded
  <2> QED BY <2>1, <2>2, <2>4, <2>5, KeptCursors, PassStep
<1> QED BY <1>1, <1>2

LEMMA ReadStep ==
    ASSUME Inductive, Read
    PROVE  Inductive'
<1> DEFINE file == files[current]
           content == file.content
           start == Start(from, info, content)
           window == Window(content, start, info.size)
           lines == RawLines(current, start, window)
           next == NextCursor(from, info, content)
<1>1. /\ file \in File /\ current \in Stream /\ from \in Cursor
      /\ info \in [size : Nat, id : Nat] /\ written \in Nat /\ TypeOK
      /\ Reading(from, info, file, current, Stored, created, written)
  <2>1. TypeOK /\ file # Gone /\ phase = "statted"
    BY DEF Read, Inductive
  <2>2. FileAt(file, current, created, written)
    BY <2>1 DEF Inductive, Files, TypeOK
  <2>3. Honest(from, current, Stored)
    BY KeptCursors
  <2>4. Trusted(from, info) \/ ~(Len(content) < Min({FingerprintSize, info.size}))
    BY DEF Read, ShortOfPrefix
  <2> QED BY <2>1, <2>2, <2>3, <2>4 DEF Reading, Honest, Inductive, Statted, TypeOK
<1>2. /\ UNCHANGED <<transcripts, cursors, archive, queue, faults>>
      /\ records' = records \cup lines
      /\ pending' = [s \in DOMAIN pending \cup {current} |->
                        IF s = current THEN next ELSE pending[s]]
      /\ \/ current' = current /\ from' = next
         \/ current' = Nobody /\ from' = Fresh
      /\ info' = Unknown
      /\ phase' \in {"flushing", "walking", "reading"}
      /\ after' \in {after, "walking", "reading"}
  BY DEF Read, durable, NextCursor
<1>3. /\ next \in Cursor /\ Fits(next, current, created, written)
  BY <1>1, NextFits
<1>4. Covers(next, file, Stored \cup {r.data : r \in lines})
  BY <1>1, NextCovers
<1>5. lines \in SUBSET RawLine
  <2>1. content \in Seq(Chunk) /\ start \in Nat /\ info.size \in Nat
    BY <1>1 DEF File, Start, Cursor
  <2> HIDE DEF content, start
  <2>2. window \in Seq(Chunk)
    BY <2>1, WindowInFile
  <2> HIDE DEF window
  <2> QED BY <1>1, <2>1, <2>2, LinesTyped
<1> HIDE DEF next, lines, file
<1>6. Stored' = Stored \cup {r.data : r \in lines} /\ Stored \subseteq Stored'
  BY <1>2 DEF Stored
<1>7. TypeOK'
  <2>1. Fresh \in Cursor /\ Nobody \in Stream /\ Unknown \in [size : Nat, id : Nat]
    BY <1>1, FreshHonest, NobodyTyped DEF Unknown
  <2>2. DOMAIN pending' \subseteq Stream /\ \A s \in DOMAIN pending' : pending'[s] \in Cursor
    BY <1>1, <1>2, <1>3 DEF TypeOK
  <2> QED BY <1>1, <1>2, <1>3, <1>5, <2>1, <2>2 DEF TypeOK, transcripts, Phase
<1>8. Honest(next, current, Stored')
  BY <1>3, <1>4, <1>6 DEF Honest, file
<1>9. \A t \in Stream : Honest(cursors'[t], t, archive')
  BY <1>2, KeptCursors
<1>10. \A t \in DOMAIN pending' : Honest(pending'[t], t, Stored')
  <2>1. \A t \in DOMAIN pending : Honest(pending[t], t, Stored')
    BY <1>6, KeptCursors, CoversMore DEF Honest
  <2> QED BY <1>2, <1>8, <2>1
<1>11. Honest(from', current', Stored')
  BY <1>1, <1>2, <1>8, FreshHonest
<1>12. Statted' /\ Uploaded'
  BY <1>2 DEF Statted, Uploaded
<1>13. UNCHANGED transcripts
  BY <1>2
<1> QED BY <1>7, <1>9, <1>10, <1>11, <1>12, <1>13, PassStep

----------------------------------------------------------------------------
(* The theorems *)

LEMMA InitInductive == Init => Inductive
<1> SUFFICES ASSUME Init PROVE Inductive
  OBVIOUS
<1>1. Fresh \in Cursor /\ Nobody \in Stream /\ DOMAIN Nowhere = {}
  <2>1. <<>> \in Seq(Chunk)
    BY EmptySeq
  <2> QED BY <2>1, NobodyTyped DEF Fresh, Cursor, Nowhere
<1>2. TypeOK
  BY <1>1 DEF Init, TypeOK, Phase, Unknown
<1>3. Files
  BY DEF Init, Files, FileAt
<1>4. Cursors
  BY <1>1, <1>2, FreshHonest DEF Init, Cursors
<1>5. Statted /\ Uploaded
  BY DEF Init, Statted, Uploaded
<1> QED BY <1>2, <1>3, <1>4, <1>5 DEF Inductive

LEMMA NextInductive ==
    ASSUME ~Reused, Inductive, [Next]_vars
    PROVE  Inductive'
<1>1. ASSUME NEW s \in Stream, Assistant(s)
      PROVE  Inductive'
  <2>1. CASE WriteHalf(s)
    BY <2>1, WriteHalfStep
  <2>2. CASE WriteRest(s)
    BY <2>2, WriteRestStep
  <2>3. CASE Delete(s)
    BY <2>3, DeleteStep
  <2>4. ASSUME NEW id \in Identities(s), Create(s, id)
        PROVE  Inductive'
    BY <2>4, CreateStep
  <2> QED BY <1>1, <2>1, <2>2, <2>3, <2>4 DEF Assistant
<1>2. ASSUME Pass
      PROVE  Inductive'
  <2>1. CASE Begin
    BY <2>1, BeginStep
  <2>2. CASE Stat
    BY <2>2, StatStep
  <2>3. CASE Vanished
    BY <2>3, VanishedStep
  <2>4. CASE Read
    BY <2>4, ReadStep
  <2>5. CASE ShortRead
    BY <2>5, OverStep DEF ShortRead, Abandon, Inductive, TypeOK
  <2>6. CASE LastFlush
    BY <2>6, LastFlushStep
  <2>7. CASE Upload
    BY <2>7, UploadStep
  <2>8. CASE Flushed
    BY <2>8, FlushedStep
  <2>9. ASSUME NEW s \in Stream, Open(s) \/ Save(s)
        PROVE  Inductive'
    BY <2>9, OpenStep, SaveStep
  <2> QED BY <1>2, <2>1, <2>2, <2>3, <2>4, <2>5, <2>6, <2>7, <2>8, <2>9 DEF Pass
<1>3. CASE Fail
  BY <1>3, OverStep DEF Fail, Abandon, Inductive, TypeOK
<1>4. CASE UNCHANGED vars
  BY <1>4 DEF vars, Inductive, TypeOK, Files, Cursors, Honest, Stored, Statted, Uploaded
<1> QED BY <1>1, <1>2, <1>3, <1>4 DEF Next

\* The inductive invariant holds, as long as identities are not reused.
THEOREM CursorInvariant ==
    ASSUME ~Reused
    PROVE  Spec => []Inductive
<1>1. Init => Inductive
  BY InitInductive
<1>2. Inductive /\ [Next]_vars => Inductive'
  BY NextInductive
<1> QED BY <1>1, <1>2, PTL DEF Spec

\* The collector's state has its type (internal/collector, internal/source).
THEOREM CollectorTyped ==
    ASSUME ~Reused
    PROVE  Spec => []TypeOK
<1>1. Inductive => TypeOK
  BY DEF Inductive
<1> QED BY <1>1, CursorInvariant, PTL

\* A cursor that the next pass would resume from was made from the file there.
LEMMA ResumesHere ==
    ASSUME Inductive, NEW s \in Stream, files[s] # Gone
    PROVE  /\ ResumeAt(s) \in Nat
           /\ ResumeAt(s) = 0 \/ files[s].content[ResumeAt(s)].last
           /\ \A i \in 1..ResumeAt(s) :
                 files[s].content[i].last => Whole(files[s].content[i].line) \in archive
<1> DEFINE file == files[s]
           c == cursors[s]
           stat == [size |-> Len(file.content), id |-> file.id]
<1>1. /\ file \in File /\ c \in Cursor /\ written \in Nat
      /\ FileAt(file, s, created, written) /\ Honest(c, s, archive)
  BY KeptCursors DEF Inductive, TypeOK, Files
<1>2. /\ file.content \in Seq(Chunk) /\ Len(file.content) \in Nat /\ file.id \in Nat
  BY <1>1 DEF File
<1>3. stat \in [size : Nat, id : Nat] /\ stat.id = file.id /\ stat.size = Len(file.content)
  BY <1>2
<1>4. ~(Len(file.content) < Min({FingerprintSize, stat.size}))
  <2>1. {FingerprintSize, stat.size} \in SUBSET Nat
    BY <1>3, SizeAssumption
  <2>2. Min({FingerprintSize, stat.size}) <= stat.size /\ Min({FingerprintSize, stat.size}) \in Nat
    BY <2>1, MinProperty
  <2> QED BY <1>2, <1>3, <2>2
<1>5. ResumeAt(s) = Start(c, stat, file.content)
  BY DEF ResumeAt
<1> HIDE DEF stat, c
<1>6. Reading(c, stat, file, s, archive, created, written)
  BY <1>1, <1>3, <1>4 DEF Reading, Honest, FileAt
<1> HIDE DEF file
<1> QED BY <1>1, <1>2, <1>3, <1>5, <1>6, StartsHere DEF file

\* Nothing is skipped (collector.go flushes the batch before it saves cursors).
THEOREM NothingLost ==
    ASSUME ~Reused
    PROVE  Spec => []NothingSkipped
<1>1. Inductive => NothingSkipped
  BY ResumesHere DEF NothingSkipped
<1> QED BY <1>1, CursorInvariant, PTL

\* No pass resumes inside a line (tail.go consumes complete lines only).
THEOREM ResumesWhole ==
    ASSUME ~Reused
    PROVE  Spec => []ResumesAtLine
<1>1. Inductive => ResumesAtLine
  BY ResumesHere DEF ResumesAtLine
<1> QED BY <1>1, CursorInvariant, PTL
=============================================================================
