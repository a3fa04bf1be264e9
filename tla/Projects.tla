------------------------------ MODULE Projects ------------------------------
(***************************************************************************)
(* Which project a working directory belongs to (derive/project.go).  A    *)
(* path is the sequence of the names between its separators, a name that   *)
(* of the words between its hyphens and underscores, so that a path split  *)
(* on separators is what the code has and a name split on words what its   *)
(* suffix rules look at.  Which of the two separators stands between two   *)
(* segments or two words is left out.                                      *)
(***************************************************************************)
EXTENDS Integers, SequencesExt

CONSTANTS
    Lower(_),   \* a word in lower case
    Numeral,    \* words that are all digits
    Drive,      \* words that are a bare Windows drive
    Directory   \* the working directories, in the order of their spelling

\* The suffix words and the one nested layout the code has.
worktreeWords == {"issue", "issues", "wt", "worktree", "pr", "branch", "agent"}
Marker == <<".claude">>
Child == <<"worktrees">>

ASSUME DirectoryAssumption ==
    /\ Directory \in Seq(Range(Directory)) /\ IsInjective(Directory)
    /\ \A path \in Range(Directory) : path \in Seq(Range(path))

\* No name at all: "", which no project is called.
Unnamed == <<>>

pathSegments(path) ==
    LET Passed(segs, name) == IF name \in {<<>>, <<".">>} THEN segs ELSE Append(segs, name)
    IN  FoldLeft(Passed, <<>>, path)

FoldCase(name) == [i \in DOMAIN name |-> Lower(name[i])]
segmentKey(segs) == [i \in DOMAIN segs |-> FoldCase(segs[i])]

UpTo(seq, n) == SubSeq(seq, 1, n)

\* The path above the first worktree marker that has something above it.
stripWorktree(segs) ==
    LET nested == {i \in 2..(Len(segs) - 1) : segs[i] = Marker /\ segs[i + 1] = Child}
    IN  IF nested = {} THEN segs ELSE UpTo(segs, Min(nested) - 1)

Segments(dir) == stripWorktree(pathSegments(dir))

\* Cut at the leftmost separator whose remainder is a suffix.
foldSibling(name) ==
    LET cuts == {i \in 1..(Len(name) - 1) :
                    /\ name[i + 1] \in Numeral \cup worktreeWords
                    /\ i = 1 => name[1] # "" /\ Lower(name[1]) \notin worktreeWords}
    IN  IF cuts = {} THEN name ELSE UpTo(name, Min(cuts))

isRoot(name) == Len(name) = 1 /\ name[1] \in Drive

nameProject(segs) ==
    IF segs = <<>> \/ isRoot(Last(segs)) THEN Unnamed ELSE foldSibling(Last(segs))

\* A repository is the sequence of the names between its slashes.
repoName(repo) == Last(repo)

\* The path's own spelling of a name.  A path without segments has no last one:
\* see Panics.
matchInPath(segs, name) ==
    LET same == {i \in DOMAIN segs : FoldCase(segs[i]) = FoldCase(name)}
    IN  IF same # {} THEN segs[Min(same)]
        ELSE IF IsStrictPrefix(FoldCase(name), FoldCase(Last(segs)))
        THEN UpTo(Last(segs), Len(name))
        ELSE Unnamed

\* Repositories that the path does not mention say nothing, and those that
\* disagree fold nothing.
shippedProject(segs, shippedTo) ==
    LET hits == {matchInPath(segs, repoName(repo)) : repo \in shippedTo} \ {Unnamed}
    IN  IF Cardinality(hits) = 1 THEN CHOOSE hit \in hits : TRUE ELSE Unnamed

\* The innermost enclosing directory that is a project.  The mutant takes the
\* outermost.
ancestorOutermost(segs, projects) ==
    LET cuts == {n \in 1..(Len(segs) - 1) : segmentKey(UpTo(segs, n)) \in DOMAIN projects}
    IN  IF cuts = {} THEN Unnamed ELSE projects[segmentKey(UpTo(segs, Min(cuts)))]
ancestorProject(segs, projects) ==
    LET cuts == {n \in 1..(Len(segs) - 1) : segmentKey(UpTo(segs, n)) \in DOMAIN projects}
    IN  IF cuts = {} THEN Unnamed ELSE projects[segmentKey(UpTo(segs, Max(cuts)))]

Either(p, q) == IF p # Unnamed THEN p ELSE q

\* resolve indexes the last segment of a path that has none, the root of a
\* POSIX file system, when a session that ran there shipped something.
Panics(dirs, shipped) == \E dir \in dirs : Segments(dir) = <<>> /\ shipped[dir] # {}

\* Shortest first, then in the order of their spelling: the last of some is
\* walked after all others.
Walked(indices) ==
    LET length(i) == Len(Segments(Directory[i]))
    IN  CHOOSE i \in indices : \A j \in indices :
            length(j) < length(i) \/ (length(j) = length(i) /\ j <= i)

\* An entry for x, unless there is one.
Entered(map, x, value) ==
    [y \in DOMAIN map \cup {x} |-> IF y \in DOMAIN map THEN map[y] ELSE value]

\* What one directory is, and the projects that can claim what follows, first
\* writer first.
Claim(shipped, i, acc) ==
    LET dir == Directory[i]
        segs == Segments(dir)
        own == IF shipped[dir] = {} THEN Unnamed ELSE shippedProject(segs, shipped[dir])
        project == Either(Either(own, ancestorProject(segs, acc.projects)), nameProject(segs))
    IN  [out |-> Entered(acc.out, dir, project),
         projects |-> IF project = Unnamed THEN acc.projects
                      ELSE Entered(acc.projects, segmentKey(segs), project)]

\* One pass.
resolve(dirs, shipped) ==
    MapThenFoldSet(LAMBDA i, acc : Claim(shipped, i, acc), [out |-> <<>>, projects |-> <<>>],
        LAMBDA i : i, Walked, {i \in DOMAIN Directory : Directory[i] \in dirs}).out

----------------------------------------------------------------------------
\* What resolve promises, said of its result and of no order: evidence first,
\* then the innermost directory around this one that is a project, then the
\* directory's own name.
Encloses(e, d) ==
    IsStrictPrefix(segmentKey(Segments(e)), segmentKey(Segments(d)))

ResolvedByContainment(dirs, shipped, out) ==
    \A d \in dirs :
        LET own == IF shipped[d] = {} THEN Unnamed ELSE shippedProject(Segments(d), shipped[d])
            around == {e \in dirs : Encloses(e, d) /\ out[e] # Unnamed}
            inner == {e \in around : \A f \in around : ~Encloses(e, f)}
        IN  out[d] \in IF own # Unnamed THEN {own}
                       ELSE IF inner # {} THEN {out[e] : e \in inner}
                       ELSE {nameProject(Segments(d))}
=============================================================================
