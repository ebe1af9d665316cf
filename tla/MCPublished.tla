---------------------------- MODULE MCPublished ----------------------------
(* Processes for TLC: families that fix the nodes and leave the flows, or some of them, open. *)
EXTENDS Published, FiniteSetsExt, TLC

\* Every choice of one set of targets per node.
FlowSets(targets) ==
  FoldSet(LAMBDA x, flows : {f \cup ({x} \X ys) : f \in flows, ys \in targets[x]}, {{}},
          DOMAIN targets)

\* A flow of a split has a condition if it is not a default.
Process(kind, scope, host, flow, defaults) ==
  [kind |-> kind, host |-> host, flow |-> flow,
   scope |-> [x \in DOMAIN kind |-> IF x \in DOMAIN scope THEN scope[x] ELSE "process"],
   guarded |-> {e \in flow \ defaults : /\ kind[e[1]] \in Choosing
                                        /\ \E d \in flow : d[1] = e[1] /\ d # e}]
Family(kind, scope, host, targets, defaults) ==
  {Process(kind, scope, host, flow, defaults) : flow \in FlowSets(targets)}

NoHost == [b \in {} |-> "process"]
To(ys) == {{y} : y \in ys}
Some(ys) == (SUBSET ys) \ {{}}
Ended == "S" :> "start" @@ "E" :> "end"

\* Three gateways and a task, linked at will.
Gateways ==
  LET all == {"a", "b", "c", "t", "E"}
      Kind(k) == Ended @@ "a" :> k[1] @@ "b" :> k[2] @@ "c" :> k[3] @@ "t" :> "task"
      kinds == {<<"and", "xor", "and">>, <<"xor", "and", "and">>}
  IN  {Process(Kind(k), <<>>, NoHost, {<<"S", "a">>, <<"t", t>>} \cup ({"a"} \X a) \cup ({"b"} \X b)
                 \cup ({"c"} \X c), {<<"a", "c">>, <<"b", "E">>}) :
         k \in kinds, a \in Some(all \ {"a"}), b \in Some(all \ {"b"}), c \in Some({"a", "b", "E"}),
         t \in all \ {"t"}}

\* A pair of gateways, perhaps with another one inside.
Nested ==
  LET Kind(k) == Ended @@ "a" :> k[1] @@ "d" :> k[1] @@ "b" :> k[2] @@ "c" :> k[2]
                   @@ "t" :> "task" @@ "u" :> "task"
      kinds == {<<"and", "or">>, <<"or", "and">>, <<"and", "xor">>, <<"xor", "and">>}
  IN  {Process(Kind(k), <<>>, NoHost,
         {<<"S", "a">>, <<"d", "E">>, <<"t", t>>, <<"u", u>>} \cup back \cup ({"a"} \X a)
           \cup ({"b"} \X b) \cup ({"c"} \X c), {<<"b", "t">>, <<"d", "E">>}) :
         k \in kinds, a \in Some({"b", "t", "u", "d"}), b \in Some({"c", "t"}),
         c \in Some({"b", "d"}), t \in {"b", "c", "d"}, u \in {"c", "d"},
         back \in {{}, {<<"d", "a">>}}}

\* A race of two waits, and a task with a deadline, in a branch.
Waiting ==
  Family(Ended @@ "a" :> "and" @@ "g" :> "gate" @@ "v" :> "wait" @@ "w" :> "wait" @@ "c" :> "xor"
           @@ "t" :> "task" @@ "o" :> "onTimer" @@ "d" :> "and", <<>>, "o" :> "t",
         "S" :> {{"a"}} @@ "a" :> {{"g", "t"}, {"g", "t", "d"}} @@ "g" :> {{"v", "w"}, {"v", "c"}}
           @@ "v" :> To({"c", "d"}) @@ "w" :> To({"c", "E"}) @@ "c" :> To({"d", "E"})
           @@ "t" :> To({"c", "d", "w"}) @@ "o" :> To({"c", "d", "E"}) @@ "d" :> {{"E"}}, {})

\* A transaction in a branch.
Housed ==
  LET Kind(o, z) == Ended @@ "a" :> "and" @@ "q" :> "tx" @@ "t" :> "task" @@ "c" :> "xor"
                      @@ "d" :> "and" @@ "o" :> o @@ "s" :> "start" @@ "x" :> "xor"
                      @@ "y" :> "end" @@ "z" :> z
      targets == "S" :> {{"a"}} @@ "a" :> {{"q", "t"}} @@ "q" :> To({"c", "d"})
                   @@ "c" :> Some({"q", "d", "E"}) @@ "t" :> To({"c", "d"})
                   @@ "o" :> To({"c", "d", "q", "E"}) @@ "d" :> {{"E"}}
                   @@ "s" :> {{"x"}} @@ "x" :> {{"y", "z"}}
  IN  UNION {Family(Kind(o, z), [x \in {"s", "x", "y", "z"} |-> "q"], "o" :> "q", targets,
                    {<<"c", "q">>}) :
               o \in {"onTimer", "onError", "onCancel"}, z \in {"cancel", "error"}}

\* A scope that may be skipped, beside one an error leaves, in a scope that catches it.
Skipping ==
  LET Kind(k) == Ended @@ "m" :> "xor" @@ "q" :> "sub" @@ "bq" :> "onError"
           @@ "sq" :> "start" @@ "n" :> "xor" @@ "p" :> "tx" @@ "r" :> "sub" @@ "eq" :> "end"
           @@ "bp" :> k @@ "sp" :> "start" @@ "xp" :> "xor" @@ "ep" :> "end"
           @@ "kp" :> (IF k = "onCancel" THEN "cancel" ELSE "error")
           @@ "sr" :> "start" @@ "xr" :> "xor" @@ "er" :> "end" @@ "kr" :> "error"
      scope == [x \in {"sq", "n", "p", "r", "eq", "bp"} |-> "q"]
           @@ [x \in {"sp", "xp", "ep", "kp"} |-> "p"] @@ [x \in {"sr", "xr", "er", "kr"} |-> "r"]
      targets == "S" :> {{"m"}} @@ "m" :> {{"q", "E"}} @@ "q" :> {{"E"}} @@ "bq" :> To({"m", "E"})
           @@ "sq" :> To({"n", "p"}) @@ "n" :> {{"p", "r", "eq"}, {"r", "eq"}}
           @@ "p" :> To({"n", "eq"}) @@ "bp" :> To({"n", "r", "eq"}) @@ "r" :> To({"n", "eq"})
           @@ "sp" :> {{"xp"}} @@ "xp" :> {{"ep", "kp"}}
           @@ "sr" :> {{"xr"}} @@ "xr" :> {{"er", "kr"}}
      defaults == {{<<"m", m>>, <<"n", n>>, <<"xr", "kr">>} : m \in {"q", "E"},
                                                              n \in {"p", "r", "eq"}}
  IN  UNION {Family(Kind(k), scope, "bq" :> "q" @@ "bp" :> "p", targets, d) :
               k \in {"onCancel", "onTimer"}, d \in defaults}

MCGraphs == Gateways \cup Nested \cup Waiting \cup Housed \cup Skipping
=============================================================================
