---------------------------- MODULE Composition ----------------------------
(* Composers that run their children in order, and what a reader sees of   *)
(* them: sequence.ts, chain.ts, scope.ts, loop.ts, pipe.ts, compose.ts,    *)
(* step.ts and parallel.ts of src/src/core with the spans that runner.ts   *)
(* opens for them, and the trees of describe.ts and diagram.ts.            *)
(*                                                                         *)
(* A flow is a tree of steps of the kinds that flow_schema.ts lists.  Any  *)
(* function in it may throw, and the run may be aborted at any moment.     *)
EXTENDS Naturals, Sequences, FiniteSets, Functions, TLC

CONSTANTS
  Nodes,      \* the steps of the flows
  Roots,
  Kind,
  Kids,
  Plan,       \* the entries of each chain: a stage by its name, a child as Child
  Child,
  Key,        \* the key of each stash and use
  MaxRounds,  \* that of each loop
  Graphs,     \* step graphs that describe may meet, which may have cycles
  NoPath

VARIABLES
  root,
  at,         \* of each step: "idle", "running", "ok" or "failed"
  pos,        \* how many entries the body of each step has taken up
  spans,      \* in the order they opened: what each is of, its parent and its end
  span,       \* the parent_span_id that the children of each step get
  stage,      \* the open stage span of each chain, or 0
  state,      \* the scope whose map each step sees, or 0 outside any scope
  map,        \* the map of each scope: the span that wrote each key
  converged,  \* the loops whose guard said stop
  log,        \* the scopes that opened and the stashes that wrote, in order: step and span
  reads,      \* of each use that ran: what it saw, and how long the log was
  aborted

vars == <<root, at, pos, spans, span, stage, state, map, converged, log, reads, aborted>>

data == <<map, log, reads>>

body == <<at, pos, span, stage, state, converged>>

Children(n) == Range(Kids[n])

Parent == [n \in Nodes \ Roots |-> CHOOSE p \in Nodes : n \in Children(p)]

Below ==
  LET below[n \in Nodes] == {n} \union UNION {below[k] : k \in Children(n)} IN [n \in Nodes |-> below[n]]

Holds(a, n) == n \in Below[a]

Unwritten == [k \in Range(Key) |-> 0]

----------------------------------------------------------------------------
(* flow_schema.ts: how many steps a node of each kind is written over.  A  *)
(* stash and a use are entries of a scope, at any depth below it here.     *)

step_config == [step |-> 0 .. 1]   \* fn, and the arm that it calls

list_config == [kind \in {"sequence", "parallel"} |-> Nat]

pipe_config == [pipe |-> {1}]

loop_config == [compose |-> {1}, loop |-> 1 .. 2]   \* do; body and guard

scope_config == [scope |-> Nat, stash |-> {1}, use |-> {0}]

chain_config == [chain |-> Nat \ {0}]   \* the bindings and the output

node == step_config @@ list_config @@ pipe_config @@ loop_config @@ scope_config @@ chain_config

(* make_chain: an entry of the plan for each binding and for the output.   *)
HasItsEntries(n) == Kind[n] = "chain" => Len(SelectSeq(Plan[n], LAMBDA e : e = Child)) = Len(Kids[n])

IsFlow(r) == \A n \in Below[r] : Len(Kids[n]) \in node[Kind[n]] /\ HasItsEntries(n)

----------------------------------------------------------------------------
(* The run. *)

Span(of, parent) == [of |-> of, parent |-> parent, end |-> "open"]

Ended(ss, i, how) == IF i = 0 THEN ss ELSE [ss EXCEPT ![i].end = how]

Of(n) == <<n, 0>>   \* what a span or a row is of: a step, or a stage of a chain

Entry(n, s) == [step |-> n, by |-> s]

(* The root context; a span for the flow itself. *)
Init ==
  /\ root \in {r \in Roots : IsFlow(r)}
  /\ at = [n \in Nodes |-> IF n = root THEN "running" ELSE "idle"]
  /\ pos = [n \in Nodes |-> 0]
  /\ spans = <<Span(Of(root), 0)>>
  /\ span = [n \in Nodes |-> IF n = root THEN 1 ELSE 0]
  /\ stage = [n \in Nodes |-> 0]
  /\ state = [n \in Nodes |-> IF n = root /\ Kind[n] = "scope" THEN n ELSE 0]
  /\ map = [n \in Nodes |-> Unwritten]
  /\ converged = {}
  /\ log = IF Kind[root] = "scope" THEN <<Entry(root, 1)>> ELSE <<>>
  /\ reads = {}
  /\ aborted = FALSE

(* How many entries a body has, and the child that entry i dispatches. *)
Entries(n) ==
  CASE Kind[n] = "chain" -> Len(Plan[n])
    [] Kind[n] = "loop" -> MaxRounds * Len(Kids[n])
    [] OTHER -> Len(Kids[n])

IsStage(n, i) == Kind[n] = "chain" /\ Plan[n][i] # Child

chain_child(n, i) == Kids[n][Cardinality({j \in 1 .. i : Plan[n][j] = Child})]

loop_child(n, i) == Kids[n][((i - 1) % Len(Kids[n])) + 1]

ChildAt(n, i) ==
  CASE Kind[n] = "chain" -> chain_child(n, i)
    [] Kind[n] = "loop" -> loop_child(n, i)
    [] OTHER -> Kids[n][i]

(* The composers that look at the signal before each entry, and those that *)
(* call a function of their own once they have dispatched what they wrap.  *)
Checks(n) == Kind[n] \in {"sequence", "scope", "chain", "loop"}

CallsAFunction(n) == Kind[n] \in {"step", "use", "pipe", "loop"}

(* scope: a map of its own that starts as the one around it.               *)
scope_map(outer) == IF outer = 0 THEN Unwritten ELSE map[outer]

(* stash, once its source has returned. *)
stash(n) ==
  /\ map' = [map EXCEPT ![state[n]][Key[n]] = span[n]]
  /\ log' = Append(log, Entry(n, span[n]))

(* The value that use projects. *)
projection(n) == map[state[n]][Key[n]]

(* A parallel step starts its members in one go. *)
Started == \A p \in Nodes : (at[p] = "running" /\ Kind[p] = "parallel") => pos[p] = Len(Kids[p])

Waits(n) == \E k \in Children(n) : at[k] = "running"

Broken(n) == \E k \in Children(n) : at[k] = "failed"

InBody(n) == /\ at[n] = "running"
             /\ IF Kind[n] = "parallel" THEN pos[n] < Entries(n) ELSE Started /\ ~Waits(n) /\ ~Broken(n)

OutsideAnyScope(n) == Kind[n] \in {"stash", "use"} /\ state[n] = 0

HasNext(n) == pos[n] < Entries(n) /\ n \notin converged /\ ~OutsideAnyScope(n)

GoesOn(n) == InBody(n) /\ HasNext(n) /\ ~(Checks(n) /\ aborted)

(* What a child's context carries: the parent span and the scope's map. *)
ChildSpan(n) == IF stage[n] = 0 THEN span[n] ELSE stage[n]

(* The child k of n gets a span, and everything below it a clean slate. *)
dispatch_step(n) ==
  /\ GoesOn(n) /\ ~IsStage(n, pos[n] + 1)
  /\ LET k     == ChildAt(n, pos[n] + 1)
         opens == Kind[k] = "scope"
     IN
     /\ at' = [m \in Nodes |-> IF m = k THEN "running" ELSE IF Holds(k, m) THEN "idle" ELSE at[m]]
     /\ pos' = [m \in Nodes |-> IF m = n THEN pos[n] + 1 ELSE IF Holds(k, m) THEN 0 ELSE pos[m]]
     /\ converged' = converged \ Below[k]
     /\ spans' = Append(spans, Span(Of(k), ChildSpan(n)))
     /\ span' = [span EXCEPT ![k] = Len(spans) + 1]
     /\ stage' = [stage EXCEPT ![k] = 0]
     /\ state' = [state EXCEPT ![k] = IF opens THEN k ELSE state[n]]
     /\ map' = IF opens THEN [map EXCEPT ![k] = scope_map(state[n])] ELSE map
     /\ log' = IF opens THEN Append(log, Entry(k, Len(spans) + 1)) ELSE log
  /\ UNCHANGED <<root, reads, aborted>>

(* chain: the stage before ends, the next one opens; its projection may    *)
(* throw.                                                                  *)
end_stage_if_ok(n, how) == IF how = "ok" THEN Ended(spans, stage[n], how) ELSE spans

end_stage(n, how) == Ended(spans, stage[n], how)

EnterStage(n) ==
  /\ GoesOn(n) /\ IsStage(n, pos[n] + 1)
  /\ \E throws \in BOOLEAN :
       LET opened == Append(end_stage(n, "ok"), Span(<<n, pos[n] + 1>>, span[n])) IN
       /\ spans' = IF throws THEN Ended(Ended(opened, Len(opened), "error"), span[n], "error") ELSE opened
       /\ at' = [at EXCEPT ![n] = IF throws THEN "failed" ELSE @]
  /\ stage' = [stage EXCEPT ![n] = Len(spans) + 1]
  /\ pos' = [pos EXCEPT ![n] = @ + 1]
  /\ UNCHANGED <<root, span, state, converged, data, aborted>>

(* loop: the guard's answer, when it has said stop. *)
guard_stops(n) ==
  /\ Kind[n] = "loop" /\ Len(Kids[n]) = 2 /\ InBody(n) /\ n \notin converged
  /\ pos[n] > 0 /\ pos[n] % 2 = 0
  /\ converged' = converged \union {n}
  /\ UNCHANGED <<root, at, pos, spans, span, stage, state, data, aborted>>

Settle(n, how) ==
  /\ at' = [at EXCEPT ![n] = how]
  /\ spans' = Ended(end_stage(n, IF how = "ok" THEN "ok" ELSE "error"), span[n], IF how = "ok" THEN "ok" ELSE "error")
  /\ UNCHANGED <<root, pos, span, stage, state, converged, aborted>>

Resolves(n) ==
  /\ Started /\ at[n] = "running" /\ ~Waits(n) /\ ~Broken(n) /\ ~HasNext(n) /\ ~OutsideAnyScope(n)
  /\ Kind[n] = "parallel" => ~aborted
  /\ Settle(n, "ok")
  /\ IF Kind[n] = "stash" THEN stash(n) ELSE UNCHANGED <<map, log>>
  /\ reads' = IF Kind[n] # "use" THEN reads
              ELSE reads \union {[use |-> n, saw |-> projection(n), after |-> Len(log)]}

(* A function of the step threw, a child failed, the signal was seen, or a *)
(* stash or a use has no scope.                                            *)
Throws(n) ==
  /\ Started /\ at[n] = "running" /\ ~Waits(n)
  /\ \/ Broken(n)
     \/ OutsideAnyScope(n)
     \/ aborted /\ HasNext(n) /\ Checks(n)
     \/ ~HasNext(n) /\ CallsAFunction(n)
     \/ aborted /\ Kind[n] = "parallel"
  /\ Settle(n, "failed")
  /\ UNCHANGED data

Aborts ==
  /\ Started /\ ~aborted /\ at[root] = "running"
  /\ aborted' = TRUE
  /\ UNCHANGED <<root, body, spans, data>>

Body(n) == dispatch_step(n) \/ EnterStage(n) \/ guard_stops(n) \/ Resolves(n) \/ Throws(n)

Next == Aborts \/ \E n \in Below[root] : Body(n)

Spec == Init /\ [][Next]_vars

----------------------------------------------------------------------------
(* diagram.ts: the row that each row is drawn under.  A chain's children   *)
(* come in the order of its plan, under the last stage before them.        *)

Rows == Nodes \X {0} \union UNION {{n} \X DOMAIN Plan[n] : n \in Nodes}

staged_items(n) ==
  LET step[i \in 0 .. Len(Plan[n])] ==
        IF i = 0 THEN [target |-> Of(n), next |-> 0, under |-> <<>>]
        ELSE LET acc == step[i - 1] IN
             IF Plan[n][i] = Child
             THEN [acc EXCEPT !.next = @ + 1, !.under = Append(@, acc.target)]
             ELSE [acc EXCEPT !.target = <<n, i>>]
  IN step[Len(Plan[n])].under

DrawnUnder == [row \in Rows |->
  IF row[2] # 0 THEN Of(row[1])
  ELSE IF row[1] \in Roots THEN row
  ELSE LET p == Parent[row[1]]
           i == CHOOSE j \in DOMAIN Kids[p] : Kids[p][j] = row[1]
       IN  IF Kind[p] = "chain" THEN staged_items(p)[i] ELSE Of(p)]

(* describe.ts: the tree of a graph of steps, which need not be a tree.    *)

Steps(g) == DOMAIN g

render_json(g) ==
  LET json[n \in Steps(g), path \in SUBSET Steps(g)] ==
        IF n \in path THEN [id |-> n, cycle |-> TRUE, children |-> <<>>]
        ELSE [id |-> n, cycle |-> FALSE, children |-> [i \in DOMAIN g[n] |-> json[g[n][i], path \union {n}]]]
  IN json[1, {}]

(* With strict, a cycle is thrown as soon as one is met. *)
strict_throws(g) ==
  LET throws[n \in Steps(g), path \in SUBSET Steps(g)] ==
        n \in path \/ \E i \in DOMAIN g[n] : throws[g[n][i], path \union {n}]
  IN throws[1, {}]

(* compose.ts: the child indices from the step 1 to a part, depth first;   *)
(* seen keeps a shared step from being walked twice.                       *)
path_to(g, target) ==
  LET walk[n \in Steps(g), seen \in SUBSET Steps(g)] ==
        IF n = target THEN [path |-> <<>>, seen |-> seen]
        ELSE IF n \in seen THEN [path |-> NoPath, seen |-> seen]
        ELSE LET upto[i \in 0 .. Len(g[n])] ==
                   IF i = 0 THEN [path |-> NoPath, seen |-> seen \union {n}]
                   ELSE IF upto[i - 1].path # NoPath THEN upto[i - 1]
                   ELSE LET rest == walk[g[n][i], upto[i - 1].seen] IN
                        IF rest.path = NoPath THEN rest
                        ELSE [rest EXCEPT !.path = <<i>> \o @]
             IN upto[Len(g[n])]
  IN walk[1, {}].path

(* diagram.ts: the node that a path of child indices leads to. *)
follow(tree, path) ==
  LET at_[i \in 0 .. Len(path)] == IF i = 0 THEN tree ELSE at_[i - 1].children[path[i]] IN at_[Len(path)]

----------------------------------------------------------------------------
(* Properties. *)

TypeOK ==
  /\ root \in Roots
  /\ at \in [Nodes -> {"idle", "running", "ok", "failed"}]
  /\ pos \in [Nodes -> Nat]
  /\ \A i \in DOMAIN spans : spans[i].of \in Rows /\ spans[i].parent \in 0 .. i - 1
  /\ state \in [Nodes -> {0} \union Nodes]

(* The trajectory nests as the diagram does: whatever ran opened its span  *)
(* right under the span of the row that it is drawn under, the entries of  *)
(* a chain's stage under that stage.                                       *)
RunsAsDrawn == \A i \in DOMAIN spans : spans[i].parent # 0 => DrawnUnder[spans[i].of] = spans[spans[i].parent].of

(* A span ends after all the spans below it, the span of a step is open    *)
(* just while the step runs, and a composer that runs its children in      *)
(* order opens none after one of them, or one of its stages, has failed.   *)
SpansNest ==
  /\ \A i \in DOMAIN spans : spans[i].end = "open" =>
       /\ spans[i].parent = 0 \/ spans[spans[i].parent].end = "open"
       /\ at[spans[i].of[1]] = "running"
  /\ \A n \in Below[root] : at[n] = "running" => spans[span[n]].end = "open"
  /\ \A i, j \in DOMAIN spans :
       (i < j /\ spans[i].parent = spans[j].parent /\ spans[i].parent # 0
          /\ Kind[spans[spans[i].parent].of[1]] # "parallel") => spans[i].end = "ok"

(* What a key is in the map of scope s after the first i entries of the    *)
(* log, by where the steps are in the flow.                                *)
Enclosing == [n \in Nodes |->
  LET scopes == {s \in Nodes : s # n /\ Kind[s] = "scope" /\ Holds(s, n)} IN
  IF scopes = {} THEN 0 ELSE CHOOSE s \in scopes : \A t \in scopes : Holds(t, s)]

Written(s, key, length) ==
  LET value[i \in 0 .. length, scope \in Nodes] ==
        IF i = 0 THEN 0
        ELSE LET e == log[i] IN
             IF e.step = scope
             THEN IF Enclosing[scope] = 0 THEN 0 ELSE value[i - 1, Enclosing[scope]]
             ELSE IF Kind[e.step] = "stash" /\ Enclosing[e.step] = scope /\ Key[e.step] = key THEN e.by
             ELSE value[i - 1, scope]
  IN value[length, s]

(* A use sees what the scope around it, or one around that before this one *)
(* opened, last got from a stash, and nothing that a scope inside or       *)
(* beside it wrote.                                                        *)
UseSeesItsScope == \A r \in reads : r.saw = Written(Enclosing[r.use], Key[r.use], r.after)

(* describe and the parts of compose: strict throws just when a cycle can  *)
(* be reached, a part has a path just when it is inside, and the path      *)
(* leads to it in the tree that describe.json makes.                       *)
Reached(g, from) ==
  LET near[k \in 0 .. Cardinality(Steps(g))] ==
        IF k = 0 THEN {from} ELSE near[k - 1] \union UNION {Range(g[n]) : n \in near[k - 1]}
  IN near[Cardinality(Steps(g))]

ShapeIsTold(g) ==
  LET reach == [n \in Steps(g) |-> Reached(g, n)] IN
  /\ strict_throws(g) = \E n \in reach[1] : \E m \in Range(g[n]) : n \in reach[m]
  /\ \A part \in Steps(g) :
       /\ (path_to(g, part) = NoPath) = (part \notin reach[1])
       /\ path_to(g, part) # NoPath => LET found == follow(render_json(g), path_to(g, part))
                                       IN found.id = part /\ ~found.cycle

ShapesAreTold == \A g \in Graphs : ShapeIsTold(g)

(* A flow is described before it is run. *)
Unrun == \A n \in Nodes : pos[n] = 0

FlowIsAsTold == TypeOK /\ RunsAsDrawn /\ SpansNest /\ UseSeesItsScope /\ (Unrun => ShapesAreTold)
=============================================================================
