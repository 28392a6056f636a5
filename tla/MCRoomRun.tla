------------------------------ MODULE MCRoomRun ------------------------------
(* Three templates in the shape of the shipped rooms, and everything an       *)
(* author can turn them into with two edits.                                  *)
EXTENDS RoomRun

CONSTANTS a, b, i, v, g, s,          \* seats
          p1, p2, tasks, notes, app, sha, rec, cat,
          build, finalize, ready, merge, tree1, tree2

NoRecord == [x \in {cat} |-> rec]
NoImplicit == [c \in {build, finalize, ready, merge} |->
                 IF c = build THEN {tasks} ELSE {}]

Only(f, d) == [x \in Seats |-> IF x \in DOMAIN f THEN f[x] ELSE d]
Put(x, y) == [z \in {x} |-> y]
And(f, h) == [x \in DOMAIN f \cup DOMAIN h |-> IF x \in DOMAIN f THEN f[x] ELSE h[x]]
Pairs(ps) == [x \in {q[1] : q \in ps} |-> (CHOOSE q \in ps : q[1] = x)[2]]

Plain ==
  [stage |-> Only(Pairs({<<a, {1}>>, <<b, {1}>>, <<i, {2}>>, <<v, {3}>>, <<g, {4}>>}), {}),
   to |-> Only(Pairs({<<a, {i}>>, <<b, {i}>>, <<i, {v}>>, <<v, {g}>>}), {}),
   reads |-> Only(Pairs({<<i, {tasks}>>, <<g, {notes}>>}), {}),
   writes |-> Only(Pairs({<<i, {notes}>>, <<v, {app}>>}), {}),
   proposes |-> Only(Pairs({<<a, {tasks}>>, <<b, {tasks}>>}), {}),
   commands |-> Only(Pairs({<<a, {build}>>, <<g, {merge}>>}), {}),
   human |-> Only(<<>>, None), applies |-> Only(<<>>, {}),
   agent |-> Only(<<>>, "isolated"), workspace |-> Only(<<>>, None),
   profiles |-> {p1, p2}, steward |-> s, owns |-> {tasks}, through |-> 0,
   gate |-> merge, requires |-> {notes}, assumes |-> {}, covers |-> {},
   locks |-> {<<notes, i>>}, evidence |-> None, worktrees |-> None,
   loop |-> {{i}, {v}}, laps |-> 1]

\* Parallel builders in worktrees, an integrator, a verifier, a gate.
Trees == [Plain EXCEPT
   !.workspace = Only(Pairs({<<a, tree1>>, <<b, tree2>>}), None),
   !.reads = Only(Pairs({<<a, {sha}>>, <<b, {sha}>>, <<v, {sha, notes}>>, <<g, {sha, notes}>>}), {}),
   !.writes = Only(Pairs({<<a, {app}>>, <<i, {notes}>>}), {}),
   !.worktrees = [seat |-> i, complete |-> TRUE, mode |-> "merge",
                  verify |-> {v, g}, verifyFinal |-> {}]]

\* The production room: freeze, finalizer, output-only gate.
Release == [Plain EXCEPT
   !.stage = Only(Pairs({<<a, {1}>>, <<b, {1}>>, <<i, {2}>>, <<v, {3}>>, <<g, {4}>>, <<s, {2}>>}), {}),
   !.to = Only(Pairs({<<a, {i}>>, <<b, {i, s}>>, <<i, {v}>>, <<s, {v}>>, <<v, {g}>>}), {}),
   !.reads = Only(Pairs({<<i, {tasks}>>, <<v, {sha}>>, <<g, {notes}>>}), {}),
   !.writes = Only(Pairs({<<i, {notes}>>, <<v, {rec}>>}), {}),
   !.commands = Only(Pairs({<<a, {build}>>, <<g, {ready}>>}), {}),
   !.human = Only(Pairs({<<v, finalize>>}), None),
   !.gate = ready, !.covers = {cat}, !.through = 2, !.loop = {{a, b}},
   !.evidence = [finalizer |-> v, after |-> 2, before |-> 3]]

Flip(S, x) == IF x \in S THEN S \ {x} ELSE S \cup {x}

Edits(r) ==
  {[r EXCEPT !.writes[x] = Flip(@, f)] : x \in Seats, f \in {tasks, notes, app}}
  \cup {[r EXCEPT !.reads[x] = Flip(@, f)] : x \in {b, i, v}, f \in {tasks, notes, sha}}
  \cup {[r EXCEPT !.proposes[x] = Flip(@, tasks)] : x \in {a, i, v, g}}
  \cup {[r EXCEPT !.to[x] = Flip(@, t)] : x \in {a, i, v}, t \in {b, v, g}}
  \cup {[r EXCEPT !.stage[x] = {n}] : x \in {b, i, v, s}, n \in {1, 2, 3, 4}}
  \cup {[r EXCEPT !.applies[x] = {p1}] : x \in {a, i, v, g}}
  \cup {[r EXCEPT !.commands[x] = Flip(@, c)] : x \in {b, v, s}, c \in {build, merge}}
  \cup {[r EXCEPT !.through = n] : n \in 0..3}
  \cup {[r EXCEPT !.workspace[x] = w] : x \in {b, i}, w \in {tree1, tree2}}
  \cup {[r EXCEPT !.loop = l] : l \in {{}, {{i}}, {{a, b}, {i, s}}, {{i, s}, {v}}, {{v}, {g}},
                                          {{a, b}, {i}, {v}}, {{a, b}, {i, s}, {v}, {g}}}}
  \cup {[r EXCEPT !.profiles = {}], [r EXCEPT !.steward = None],
        [r EXCEPT !.gate = None], [r EXCEPT !.assumes = {tasks}],
        [r EXCEPT !.stage[b] = {4}, !.to[b] = {}, !.to[v] = @ \cup {b}]}
  \cup (IF r.worktrees = None THEN {} ELSE
          {[r EXCEPT !.worktrees.seat = x] : x \in {a, v, s}}
          \cup {[r EXCEPT !.worktrees.verify = {v}], [r EXCEPT !.worktrees.verify = {b, g}]})
  \cup (IF r.evidence = None THEN {} ELSE
          {[r EXCEPT !.evidence.after = n, !.evidence.before = n + 1] : n \in {1, 3}}
          \cup {[r EXCEPT !.evidence.finalizer = i], [r EXCEPT !.writes[v] = {}],
                [r EXCEPT !.covers = {}]})

Templates == {Plain, Trees, Release}

MCInit ==
  /\ \E r \in Templates : \E e \in {r} \cup Edits(r) : room \in {e} \cup Edits(e)
  /\ Fresh

MCSpec == MCInit /\ [][Next]_vars
==============================================================================
