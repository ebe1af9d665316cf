----------------------------- MODULE Published -----------------------------
(***************************************************************************)
(* What the publish gate promises the engine.  Accepted(g) is the verdict  *)
(* of the validator on a process g; the actions are the engine's walk over *)
(* a process that passed: a token follows flows, forks at a split, halts   *)
(* at a join, enters and leaves transactions and sub-processes, is         *)
(* diverted by an error, a cancel end or a timer.                          *)
(*                                                                         *)
(* A token is named by the forks it descends from, as token_id is.  Left   *)
(* out: handlers, call and multi-instance activities, receive tasks, error *)
(* codes (an error boundary catches all), two flows between the same two   *)
(* nodes.  A condition may hold or not; any timer may be due.              *)
(***************************************************************************)
EXTENDS Naturals, Sequences, FiniteSets

CONSTANT Graphs  \* the processes submitted

Boundaries == {"onTimer", "onError", "onCancel"}
Ends == {"end", "error", "cancel"}
Forking == {"and", "or"}
Choosing == {"xor", "or"}
Scoped == {"tx", "sub"}
TokenKinds == Ends \cup Forking \cup Scoped \cup {"start", "task", "wait", "xor", "gate"}

-----------------------------------------------------------------------------
(* Reading a process. *)

Of(g, kinds) == {x \in DOMAIN g.kind : g.kind[x] \in kinds}
Out(g, x) == {y \in DOMAIN g.kind : <<x, y>> \in g.flow}
In(g, x) == {y \in DOMAIN g.kind : <<y, x>> \in g.flow}
On(g, x, kinds) == {b \in DOMAIN g.host : g.host[b] = x /\ g.kind[b] \in kinds}
Scopes(g) == {"process"} \cup Of(g, Scoped)
Within(g, s) == {x \in DOMAIN g.kind : g.scope[x] = s}
Starts(g, s) == {x \in Within(g, s) : g.kind[x] = "start"}

Onward(edges, near) == near \cup {e[2] : e \in {e \in edges : e[1] \in near}}
Reached(edges, from) ==
  LET grow[near \in SUBSET (from \cup {e[2] : e \in edges})] ==
        LET more == Onward(edges, near)
        IN  IF more = near THEN near ELSE grow[more]
  IN  grow[from]

\* An element with the scopes around it.
Around(g, x) == Reached({<<y, g.scope[y]>> : y \in DOMAIN g.kind}, {x})

\* errorEndCatchBoundaryId, errorCatchTarget: the nearest scope with an error boundary.
Catcher(g, s) ==
  LET catching == {c \in Around(g, s) : c = "process" \/ On(g, c, {"onError"}) # {}}
  IN  CHOOSE c \in catching : catching \subseteq Around(g, c)

\* What the parser yields: elements of one tree of scopes, flows and hosts between them.
ASSUME Parsed ==
  \A g \in Graphs :
    /\ IsFiniteSet(DOMAIN g.kind) /\ {"process", "source", "sink"} \cap DOMAIN g.kind = {}
    /\ \A x \in DOMAIN g.kind : g.kind[x] \in TokenKinds \cup Boundaries
    /\ g.scope \in [DOMAIN g.kind -> Scopes(g)]
    /\ \A x \in DOMAIN g.kind : x \notin Around(g, g.scope[x])
    /\ g.flow \subseteq (DOMAIN g.kind) \X (DOMAIN g.kind) /\ g.guarded \subseteq g.flow
    /\ g.host \in [Of(g, Boundaries) -> DOMAIN g.kind]

-----------------------------------------------------------------------------
(* The rules on flows, degrees, conditions and boundary events. *)

Endpoints(g) ==
  /\ \A f \in g.flow : g.scope[f[1]] = g.scope[f[2]]
                       /\ g.kind[f[2]] \notin Boundaries \cup {"start"}
  /\ \A f \in g.guarded : g.kind[f[1]] \in Choosing

Degrees(g) ==
  /\ \A s \in Scopes(g) : Cardinality(Starts(g, s)) = 1
                          /\ \E x \in Within(g, s) : g.kind[x] = "end"
  /\ \A x \in Of(g, {"cancel"}) : g.scope[x] # "process" /\ g.kind[g.scope[x]] = "tx"
  /\ \A x \in Of(g, TokenKinds) :
       /\ g.kind[x] \in Ends <=> Out(g, x) = {}
       /\ Cardinality(Out(g, x)) <= 1 \/ g.kind[x] \in Forking \cup {"xor", "gate"}
       /\ g.kind[x] = "start" \/ In(g, x) # {}

\* A split has one flow without a condition at the most, its default.
Conditions(g) ==
  \A x \in Of(g, Choosing) : Cardinality(Out(g, x)) > 1 =>
    Cardinality({y \in Out(g, x) : <<x, y>> \notin g.guarded}) <= 1

Attached(g) ==
  \A b \in DOMAIN g.host :
    /\ g.scope[b] = g.scope[g.host[b]] /\ Cardinality(Out(g, b)) = 1
    /\ g.kind[g.host[b]] \in IF g.kind[b] = "onCancel" THEN {"tx"} ELSE Scoped \cup {"task"}

\* A nested transaction goes on at its cancel boundary.
CancelsCaught(g) ==
  \A x \in Of(g, {"cancel"}) :
    g.scope[g.scope[x]] # "process" => On(g, g.scope[x], {"onCancel"}) # {}

OneOfAKind(g) ==
  \A x \in DOMAIN g.kind : \A k \in {"onError", "onTimer"} : Cardinality(On(g, x, {k})) <= 1

Waits(g) ==
  /\ \A x \in Of(g, {"wait"}) : Cardinality(In(g, x)) = 1
  /\ \A x \in Of(g, {"gate"}) : Cardinality(Out(g, x)) > 1
                                /\ \A y \in Out(g, x) : g.kind[y] = "wait"

AllReachable(g) ==
  \A s \in Scopes(g) :
    LET attached == {<<g.host[b], b>> : b \in DOMAIN g.host}
    IN  Within(g, s) \subseteq Reached(g.flow \cup attached, Starts(g, s))

-----------------------------------------------------------------------------
(* Re-entry after an abnormal skip: the traversal of reEntersScope. *)

Free(g, x) == {y \in Out(g, x) : <<x, y>> \notin g.guarded}

\* mutant: an error end inside a scope that is passed by is not followed out of it.
NoErrorExits(g, c) == {}
ErrorExits(g, c) ==
  LET inside == {e \in Of(g, {"error"}) : c \in Around(g, e)}
      caught == {Catcher(g, g.scope[e]) : e \in inside}
  IN  UNION {On(g, h, {"onError"}) : h \in {h \in caught : h # "process" /\ c \notin Around(g, h)}}

Continues(g) ==
  LET flows == {f \in g.flow : f \notin g.guarded}
      attached == {<<g.host[b], b>> : b \in DOMAIN g.host}
      thrown == UNION {{c} \X ErrorExits(g, c) : c \in Of(g, Scoped)}
      ends == {e \in Of(g, Ends) : g.scope[e] # "process"}
      left == UNION {{e} \X (Free(g, g.scope[e]) \cup On(g, g.scope[e], Boundaries)) : e \in ends}
  IN  flows \cup attached \cup thrown \cup left

Skips(g) ==
  {b \in Of(g, {"onTimer"}) : g.kind[g.host[b]] \in Scoped}
    \cup {b \in Of(g, {"onCancel"}) : \E e \in Of(g, {"cancel"}) : g.scope[e] = g.host[b]}

NoFreeReentry(g) ==
  LET edges == Continues(g)
  IN  \A b \in Skips(g) :
        Reached(edges, Free(g, b)) \cap Of(g, Scoped) \cap Around(g, g.host[b]) = {}

-----------------------------------------------------------------------------
(* Regions: a split, its join, and what lies between them. *)

\* The control-flow graph of a scope.
Control(g, s) ==
  LET inner == Within(g, s)
  IN  {f \in g.flow : f[1] \in inner} \cup {<<g.host[b], b>> : b \in DOMAIN g.host \cap inner}
        \cup {<<"source", x>> : x \in Starts(g, s)}
        \cup {<<x, "sink">> : x \in {x \in inner : Out(g, x) = {}}}

\* dominators: what is reached from the root only through d.
Dominated(edges, root) ==
  LET all == Reached(edges, {root})
      Past(d) == Reached({e \in edges : d \notin {e[1], e[2]}}, {root} \ {d})
  IN  [d \in all |-> {d} \cup (all \ Past(d))]

\* y is the nearest of those x depends on.
Nearest(below, y, x) ==
  /\ y \in DOMAIN below /\ x \in below[y] \ {y}
  /\ \A d \in DOMAIN below \ {x} : x \in below[d] => y \in below[d]

\* mutant: the join may be reached past the split.
EntryOpen(below, s, j) == TRUE
SingleEntry(below, s, j) == Nearest(below, s, j)

\* mutant: a member may lead out of the region.
NotConfined(g, members, j) == TRUE
ConfinedTo(g, members, j) == \A x \in members \ {j} : Out(g, x) \subseteq members \cup {j}

\* The region of a split, none when the rules refuse it.
RegionOf(g, below, above, s) ==
  LET joins == {j \in Of(g, {g.kind[s]}) : /\ Cardinality(In(g, j)) > 1
                                           /\ Nearest(above, j, s) /\ SingleEntry(below, s, j)}
      Members(j) == below[s] \cap above[j]
      Merges(x) == \/ Cardinality(In(g, x)) <= 1
                   \/ g.kind[x] \in Boundaries \cup Forking \cup {"xor"}
      kept == {j \in joins : /\ ConfinedTo(g, Members(j), j)
                             /\ \A x \in Members(j) \ {s} : Merges(x)}
  IN  {[split |-> s, join |-> j, members |-> Members(j)] : j \in kept}

Splits(g, s) == {x \in Within(g, s) : g.kind[x] \in Forking /\ Cardinality(Out(g, x)) > 1}
RegionsOf(g, s) ==
  LET control == Control(g, s)
      below == Dominated(control, "source")
      above == Dominated({<<e[2], e[1]>> : e \in control}, "sink")
  IN  UNION {RegionOf(g, below, above, x) : x \in {x \in Splits(g, s) : x \in DOMAIN below}}

\* mutant: a gateway with several incoming flows may be no join.
AnyMerge(g, s, found) == TRUE
MergesAreJoins(g, s, found) ==
  \A x \in Within(g, s) : g.kind[x] \in Forking /\ Cardinality(In(g, x)) > 1 =>
    \E r \in found : r.join = x

Balanced(g, s) ==
  LET found == RegionsOf(g, s)
  IN  /\ {r.split : r \in found} = Splits(g, s) /\ MergesAreJoins(g, s, found)
      /\ \A r, q \in found : \/ r.members \cap q.members = {}
                             \/ r.members \subseteq q.members \/ q.members \subseteq r.members

Accepted(g) ==
  /\ Endpoints(g) /\ Degrees(g) /\ Conditions(g)
  /\ Attached(g) /\ CancelsCaught(g) /\ OneOfAKind(g) /\ Waits(g)
  /\ AllReachable(g) /\ NoFreeReentry(g) /\ \A s \in Scopes(g) : Balanced(g, s)

(***************************************************************************)
(* Processes set apart, for the gate lets them pass and the engine stops   *)
(* at them, or leaves a region: a condition where nothing is chosen, a     *)
(* parallel or inclusive gateway with one flow in and one out, an element  *)
(* from which no end is reached, a flow into a region from behind it, an   *)
(* error that passes by a scope around a scope that may be skipped.        *)
(* Regions are considered at the top level only, where nothing drains one. *)
(***************************************************************************)
EntersFromBehind(g) ==
  LET control == Control(g, "process")
      below == Dominated(control, "source")
  IN  \E r \in RegionsOf(g, "process") : \E e \in control :
        e[2] \in r.members \ {r.split} /\ e[1] \in below[r.split] \ r.members

\* The gate follows an error end out of its own scope, and out of one that is passed by; it
\* does not follow the error of a task.
Unfollowed(g, x, b) ==
  LET catcher == Catcher(g, g.scope[x])
  IN  /\ catcher # "process" /\ catcher \in Around(g, b)
      /\ \/ g.kind[x] = "task" /\ On(g, x, {"onError"}) = {}
         \/ g.kind[x] = "error" /\ catcher # g.scope[x] /\ g.scope[x] \in Around(g, b)

Regular(g) ==
  /\ \A f \in g.guarded : Cardinality(Out(g, f[1])) > 1
  /\ \A x \in Of(g, Forking) : /\ g.scope[x] = "process"
                               /\ Cardinality(Out(g, x)) > 1 \/ Cardinality(In(g, x)) > 1
  /\ Within(g, "process") \subseteq
       Reached({<<e[2], e[1]>> : e \in Control(g, "process")}, {"sink"})
  /\ ~EntersFromBehind(g)
  /\ \A x \in Of(g, {"task", "error"}), b \in Skips(g) : ~Unfollowed(g, x, b)

-----------------------------------------------------------------------------
VARIABLES
  graph,    \* the published process
  regions,  \* its regions, as the version stores them
  token,    \* the live tokens: where each is, and the scopes skipped on its way since
            \* a condition was last met
  open,     \* the split each token has forked at, and the branches taken
  skipped,  \* skippedScopes
  over      \* why the walk stopped
vars == <<graph, regions, token, open, skipped, over>>

Root == <<>>
Start(s) == CHOOSE x \in Starts(graph, s) : TRUE

Init ==
  /\ graph \in {g \in Graphs : Accepted(g) /\ Regular(g)}
  /\ regions = UNION {RegionsOf(graph, s) : s \in Scopes(graph)}
  /\ token = [t \in {Root} |-> [at |-> Start("process"), skips |-> {}]]
  /\ open = [t \in {} |-> {}] /\ skipped = {} /\ over = "no"

-----------------------------------------------------------------------------
(* One step of the walk.  A node that is a split or a join is looked up before its kind. *)

SplitAt(x) == {r \in regions : r.split = x}
JoinAt(x) == {r \in regions : r.join = x}
Moving == {t \in DOMAIN token \ DOMAIN open : over = "no"}

\* Token t moves as a leaf, at a node of one of these kinds.
Leaf(t, kinds) ==
  LET x == token[t].at
  IN  t \in Moving /\ graph.kind[x] \in kinds /\ SplitAt(x) = {} /\ JoinAt(x) = {}

Go(t, y, skips) ==
  /\ token' = [token EXCEPT ![t] = [at |-> y, skips |-> skips]]
  /\ UNCHANGED <<graph, regions, open, over>>
Stop(why) == over' = why /\ UNCHANGED <<graph, regions, token, open, skipped>>

\* The scopes skipped that are still told on the other side of a flow.
Carried(t, y) == IF <<token[t].at, y>> \in graph.guarded THEN {} ELSE token[t].skips

Follow(t) ==
  /\ Leaf(t, {"start", "task", "wait", "xor", "gate"})
  /\ \E y \in Out(graph, token[t].at) : Go(t, y, Carried(t, y)) /\ UNCHANGED skipped

\* decideGateway, resolveActivatedFlows: no condition holds and there is no default.
NoPath(t) ==
  /\ t \in Moving /\ graph.kind[token[t].at] \in Choosing /\ Free(graph, token[t].at) = {}
  /\ Stop("noPath")

\* resolveActivatedFlows: all flows, or those whose condition holds, or else the default.
Activations(x) ==
  IF graph.kind[x] = "and" THEN {Out(graph, x)}
  ELSE ((SUBSET (Out(graph, x) \ Free(graph, x))) \cup {Free(graph, x)}) \ {{}}

Fork(t) ==
  /\ t \in Moving
  /\ \E r \in SplitAt(token[t].at) : \E taken \in Activations(r.split) :
       /\ open' = [u \in DOMAIN open \cup {t} |->
                     IF u = t THEN [region |-> r, taken |-> taken] ELSE open[u]]
       /\ LET Branch(y) == Append(t, <<r.split, y>>)
          IN  token' = [u \in DOMAIN token \cup {Branch(y) : y \in taken} |->
                IF u \in DOMAIN token THEN token[u]
                ELSE [at |-> u[Len(u)][2], skips |-> Carried(t, u[Len(u)][2])]]
       /\ UNCHANGED <<graph, regions, skipped, over>>

\* joinBarrierSatisfied: a branch has arrived when its token is halted at the join.
Branches(owner) == {Append(owner, <<open[owner].region.split, y>>) : y \in open[owner].taken}
Arrived(owner) ==
  \A u \in Branches(owner) :
    u \in DOMAIN token \ DOMAIN open /\ token[u].at = open[owner].region.join
Merge(owner) ==
  /\ over = "no" /\ owner \in DOMAIN open /\ Arrived(owner)
  /\ \E y \in Out(graph, open[owner].region.join) :
       token' = [u \in DOMAIN token \ Branches(owner) |->
                   IF u # owner THEN token[u]
                   ELSE [at |-> y, skips |-> UNION {token[b].skips : b \in Branches(owner)}]]
  /\ open' = [u \in DOMAIN open \ {owner} |-> open[u]]
  /\ UNCHANGED <<graph, regions, skipped, over>>

\* A scope skipped before is not entered again.
Enter(t) ==
  /\ Leaf(t, Scoped)
  /\ IF token[t].at \in skipped THEN Stop("reentry")
     ELSE Go(t, Start(token[t].at), token[t].skips) /\ UNCHANGED skipped

\* commitTransaction, exitScope
Leave(t) ==
  /\ Leaf(t, {"end"}) /\ graph.scope[token[t].at] # "process"
  /\ \E y \in Out(graph, graph.scope[token[t].at]) : Go(t, y, token[t].skips) /\ UNCHANGED skipped

\* consumeTokenAtEnd, settleFrontierCompletion
Finish(t) ==
  /\ Leaf(t, {"end"}) /\ graph.scope[token[t].at] = "process"
  /\ token' = [u \in DOMAIN token \ {t} |-> token[u]]
  /\ UNCHANGED <<graph, regions, open, skipped, over>>

\* A business error of a task, or an error end.
Throw(t) ==
  LET x == token[t].at
      host == IF On(graph, x, {"onError"}) # {} THEN x ELSE Catcher(graph, graph.scope[x])
  IN  /\ Leaf(t, {"task", "error"})
      /\ IF host = "process" THEN Stop("uncaught")
         ELSE \E b \in On(graph, host, {"onError"}) : \E y \in Out(graph, b) :
                Go(t, y, token[t].skips) /\ UNCHANGED skipped

\* The interior is not walked any more.
Skip(t, scope, b) ==
  /\ \E y \in Out(graph, b) : Go(t, y, token[t].skips \cup {scope})
  /\ skipped' = skipped \cup {scope}

\* settleAfterCompensation
Cancel(t) ==
  LET tx == graph.scope[token[t].at]
  IN  /\ Leaf(t, {"cancel"})
      /\ IF graph.scope[tx] = "process" THEN Stop("compensated")
         ELSE \E b \in On(graph, tx, {"onCancel"}) : Skip(t, tx, b)

Interrupt(t) ==
  /\ t \in Moving
  /\ \E b \in Of(graph, {"onTimer"}) :
       LET h == graph.host[b]
       IN  IF graph.kind[h] = "task"
           THEN /\ token[t].at = h
                /\ \E y \in Out(graph, b) : Go(t, y, token[t].skips) /\ UNCHANGED skipped
           ELSE token[t].at # h /\ h \in Around(graph, token[t].at) /\ Skip(t, h, b)

\* The end of driveLeaf: at such a node the engine only raises an incident.
Strange(t) == Leaf(t, Forking \cup Boundaries)

Next ==
  \/ \E t \in DOMAIN token :
       \/ Follow(t) \/ NoPath(t) \/ Fork(t) \/ Enter(t) \/ Leave(t) \/ Finish(t) \/ Throw(t)
       \/ Cancel(t) \/ Interrupt(t)
  \/ \E t \in DOMAIN open : Merge(t)
Spec == Init /\ [][Next]_vars

-----------------------------------------------------------------------------
(* Properties. *)

(* A branch stays in its region until the join: whatever the conditions, errors and timers on    *)
(* its way, no token of a branch is ever at an element outside the members the gate computed      *)
(* (rule 5 of validateRegions).                                                                   *)
Confined ==
  \A t \in DOMAIN token : \A i \in 1..Len(t) : \A r \in SplitAt(t[i][1]) :
    Around(graph, token[t].at) \cap r.members # {}

(* A process that was published never hangs: while the walk has not stopped, some token can go    *)
(* on or some join has all the branches it waits for, and no token comes to a node the engine     *)
(* has no step for ("the validator should have rejected this model").                             *)
NeverStalls ==
  /\ \A t \in DOMAIN token : ~Strange(t)
  /\ over = "no" /\ DOMAIN token # {} =>
       \/ \E t \in Moving : SplitAt(token[t].at) # {} \/ JoinAt(token[t].at) = {}
       \/ \E t \in DOMAIN open : Arrived(t)

(* A scope whose interior was skipped, by its timer or its cancel end, is come to again only      *)
(* after a condition was met on the way: the gate refuses every way back without one, also        *)
(* through the ends and the errors of other scopes (reEntersScope).                               *)
ReentryIsGuarded == \A t \in DOMAIN token : token[t].at \notin token[t].skips

(* A token halts at a join only as a branch of the split that join belongs to, so the join        *)
(* counts it under the activation it waits for (recordJoinArrival).                               *)
ArrivesAtItsJoin ==
  \A t \in DOMAIN token \ DOMAIN open : \A r \in JoinAt(token[t].at) :
    t # Root /\ t[Len(t)][1] = r.split
=============================================================================
