----------------------------- MODULE MCReports -----------------------------
(***************************************************************************)
(* Origin 1 cannot be read, 2 is this node, 3 a peer.  A session is        *)
(* resumed on another machine, one opens two pull requests, a repository   *)
(* lies inside another and a directory inside that is spelled otherwise, a *)
(* record has no day, and a model is not in the price table.               *)
(***************************************************************************)
EXTENDS Reports

CONSTANTS s1, s2, s3, s4, q1, q2, q3, q4, q5, main, d1, d2

LowerCase(word) ==
    CASE word = "Lastrada" -> "lastrada" [] word = "D:" -> "d:" [] OTHER -> word
Digits == {"105"}
Drives == {"D:", "d:"}

Outer == << <<"D:">>, <<"Lastrada">> >>
Inner == Outer \o << <<"plugins">>, <<"morph">> >>
Beneath == << <<"d:">>, <<"lastrada">>, <<"plugins">>, <<"morph">>, <<"build">> >>
Worktree == Outer \o << <<".claude">>, <<"worktrees">>, <<"issue", "7">> >>
Sibling == << <<>>, <<"home">>, <<"fastcached", "issue", "105">> >>
Nowhere == <<>>
Paths == <<Nowhere, Sibling, Worktree, Outer, Inner, Beneath>>

Opus == <<"opus", "1m">>
Haiku == <<"haiku", "20251001">>
Unknown == <<"gpt", "">>
Rates == [m \in {"opus", "haiku"} |->
            [input |-> IF m = "opus" THEN 100 ELSE 20, output |-> 30,
             cache_read |-> 0, cache_write_5m |-> 0, cache_write_1h |-> 0]]

Usage(in, out, read) ==
    [input |-> in, output |-> out, cache_read |-> read,
     cache_write_5m |-> 1, cache_write_1h |-> 0]

Blank == [type |-> "user", session |-> None, day |-> None, request |-> None,
          model |-> None, usage |-> None, pr |-> None, cwd |-> Nowhere, branch |-> None]
Answer(session, request, model, day, cwd, branch) ==
    [Blank EXCEPT !.type = "assistant", !.session = session, !.request = request,
                  !.model = model, !.usage = Usage(3, 5, 7), !.day = day,
                  !.cwd = cwd, !.branch = branch]
Opened(session, pr, cwd) ==
    [Blank EXCEPT !.type = "pr-link", !.session = session, !.pr = pr, !.cwd = cwd]

lastrada1 == [repo |-> << <<"acme">>, <<"lastrada">> >>, number |-> 1]
morph2 == [repo |-> << <<"acme">>, <<"tools">>, <<"morph">> >>, number |-> 2]

Lines ==
    << << Answer(s4, q5, Haiku, None, Sibling, main) >>,
       << Answer(s1, q1, Opus, d1, Outer, main),
          Opened(s1, lastrada1, Outer),
          Answer(s2, q2, Unknown, d1, Beneath, Detached) >>,
       << Answer(s3, q1, Opus, d1, Inner, main),
          Opened(s3, morph2, Inner),
          Answer(s3, q4, Opus, d2, Inner, main),
          Opened(s1, morph2, Worktree) >> >>

FromOlderBuilds == {<<1, 1>>, <<3, 1>>, <<3, 2>>}

Lengths == [o \in 1..3 |-> Len(Lines[o])]

Order == [stack \in Stack |->
    CASE stack = "model" -> <<Opus, Haiku, Unknown, NoneKey>>
      [] stack = "project" -> << <<"Lastrada">>, NoneKey, <<"build">>, <<"fastcached">>,
                                 <<"morph">> >>
      [] stack = "branch" -> <<main, NoneKey>>
      [] stack = "pull_request" -> <<lastrada1, morph2, NoneKey>>
      [] stack = "session" -> <<s1, s2, s3, s4, NoneKey>>
      [] stack = "peer" -> <<1, 2, 3, NoneKey>>]
=============================================================================
