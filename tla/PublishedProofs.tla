------------------------ MODULE PublishedProofs ------------------------
EXTENDS Published, FiniteSetTheorems, WellFoundedInduction, TLAPS

-----------------------------------------------------------------------------
(* What is reached: the recursion of Reached computes the least closed set.    *)

Nodes(edges, from) == from \cup {e[2] : e \in edges}
Closed(edges, S) == \A e \in edges : e[1] \in S => e[2] \in S
Closure(edges, all, near) ==
  {n \in all : \A S \in SUBSET all : near \subseteq S /\ Closed(edges, S) => n \in S}
Growth(edges, all, grow) ==
  grow = [near \in SUBSET all |->
            IF Onward(edges, near) = near THEN near ELSE grow[Onward(edges, near)]]

LEMMA OnwardClosed ==
  ASSUME NEW edges, NEW S
  PROVE  /\ S \subseteq Onward(edges, S)
         /\ Onward(edges, S) = S <=> Closed(edges, S)
         /\ \A T : S \subseteq T /\ Closed(edges, T) => Onward(edges, S) \subseteq T
  BY DEF Onward, Closed

\* The least closed sets solve the recursive equation, so the recursion has a solution.
LEMMA ClosureGrows ==
  ASSUME NEW edges, NEW from, NEW F,
         F = [near \in SUBSET Nodes(edges, from) |-> Closure(edges, Nodes(edges, from), near)]
  PROVE  Growth(edges, Nodes(edges, from), F)
<1> DEFINE all == Nodes(edges, from)
<1>1. ASSUME NEW near \in SUBSET all PROVE Onward(edges, near) \in SUBSET all
  BY <1>1 DEF Onward, Nodes
<1>2. ASSUME NEW near \in SUBSET all, Onward(edges, near) = near
      PROVE  Closure(edges, all, near) = near
  <2>1. Closed(edges, near)
    BY <1>2, OnwardClosed
  <2> HIDE DEF all
  <2> QED BY <2>1 DEF Closure
<1>3. ASSUME NEW near \in SUBSET all
      PROVE  Closure(edges, all, near) = Closure(edges, all, Onward(edges, near))
  <2>1. \A S \in SUBSET all : Closed(edges, S) => (near \subseteq S <=> Onward(edges, near) \subseteq S)
    BY OnwardClosed
  <2> HIDE DEF all
  <2> QED BY <2>1 DEF Closure
<1>4. \A near \in SUBSET all :
        Closure(edges, all, near)
          = IF Onward(edges, near) = near THEN near ELSE F[Onward(edges, near)]
  BY <1>1, <1>2, <1>3
<1> QED BY <1>4 DEF Growth

\* Reached is the value at from of some solution.
LEMMA ReachedGrows ==
  ASSUME NEW edges, NEW from
  PROVE  \E grow : /\ Growth(edges, Nodes(edges, from), grow)
                   /\ Reached(edges, from) = grow[from]
<1> DEFINE Is(grow) == Growth(edges, Nodes(edges, from), grow)
<1>1. Reached(edges, from) = (CHOOSE grow : Is(grow))[from]
  BY DEF Reached, Growth, Nodes
<1>2. \E grow : Is(grow)
  BY ClosureGrows
<1> QED BY <1>1, <1>2

\* Of finite sets some is smallest, and some is largest.
LEMMA Smallest ==
  ASSUME NEW all, IsFiniteSet(all), NEW B, B \subseteq SUBSET all, B # {}
  PROVE  \E x \in B : \A y \in B : y \subseteq x => y = x
<1> DEFINE R == StrictSubsetOrdering(all)
           D == SUBSET all
<1>1. IsWellFoundedOn(R, D)
  BY FS_StrictSubsetOrderingWellFounded, FS_FiniteSubsetsOfFinite
<1>2. B \subseteq D /\ B # {}
  OBVIOUS
<1>3. \E x \in B : \A y \in B : ~(<<y, x>> \in R)
  <2> HIDE DEF R, D
  <2> QED BY ONLY <1>1, <1>2, WFMin
<1> QED BY <1>3 DEF StrictSubsetOrdering

LEMMA Largest ==
  ASSUME NEW all, IsFiniteSet(all), NEW B, B \subseteq SUBSET all, B # {}
  PROVE  \E x \in B : \A y \in B : x \subseteq y => y = x
<1> DEFINE C == {all \ x : x \in B}
<1>1. C \subseteq SUBSET all /\ C # {}
  <2>1. PICK x \in B : TRUE
    OBVIOUS
  <2>2. all \ x \in C
    BY <2>1
  <2>3. C # {}
    <3> HIDE DEF C
    <3> QED BY <2>2
  <2>4. \A z \in C : z \subseteq all
    OBVIOUS
  <2> HIDE DEF C
  <2> QED BY <2>3, <2>4
<1>2. PICK z \in C : \A y \in C : y \subseteq z => y = z
  <2> HIDE DEF C
  <2> QED BY <1>1, Smallest
<1>3. PICK x \in B : z = all \ x
  OBVIOUS
<1>4. ASSUME NEW y \in B, x \subseteq y PROVE y = x
  <2>1. all \ y \in C /\ all \ y \subseteq z
    BY <1>3, <1>4
  <2>2. all \ y = z
    BY <1>2, <2>1
  <2>3. x \in SUBSET all /\ y \in SUBSET all
    OBVIOUS
  <2> QED BY <1>3, <2>2, <2>3
<1> QED BY <1>4

\* On a finite graph the recursion has one solution.
LEMMA GrowsToClosure ==
  ASSUME NEW edges, NEW from, IsFiniteSet(Nodes(edges, from)), NEW grow,
         Growth(edges, Nodes(edges, from), grow)
  PROVE  \A near \in SUBSET Nodes(edges, from) :
           grow[near] = Closure(edges, Nodes(edges, from), near)
<1> DEFINE all == Nodes(edges, from)
           F == [near \in SUBSET all |-> Closure(edges, all, near)]
           B == {near \in SUBSET all : grow[near] # F[near]}
<1>1. Growth(edges, all, F)
  BY ClosureGrows
<1>2. SUFFICES ASSUME B # {} PROVE FALSE
  OBVIOUS
<1>3. PICK near \in B : \A y \in B : near \subseteq y => y = near
  <2>1. B \subseteq SUBSET all
    OBVIOUS
  <2> HIDE DEF B, all
  <2> QED BY <1>2, <2>1, Largest DEF all
<1> DEFINE more == Onward(edges, near)
<1>4. near \subseteq more /\ more \in SUBSET all
  BY <1>3 DEF Onward, Nodes
<1>5. more = near \/ grow[more] = F[more]
  <2>1. more \in B => more = near
    BY <1>3, <1>4
  <2> QED BY <1>4, <2>1
<1>6. grow[near] = IF more = near THEN near ELSE grow[more]
  BY <1>3 DEF Growth
<1>7. F[near] = IF more = near THEN near ELSE F[more]
  <2> HIDE DEF F, B
  <2>1. near \in SUBSET all
    BY <1>3 DEF B
  <2> QED BY <1>1, <2>1 DEF Growth
<1> HIDE DEF F
<1>8. grow[near] = F[near]
  BY <1>5, <1>6, <1>7
<1> QED BY <1>3, <1>8

\* Reached holds where it starts, is closed, and is in every closed set that holds that.
LEMMA ReachedLeast ==
  ASSUME NEW edges, NEW from, NEW all, IsFiniteSet(all), Nodes(edges, from) \subseteq all
  PROVE  /\ from \subseteq Reached(edges, from)
         /\ Closed(edges, Reached(edges, from))
         /\ \A S : from \subseteq S /\ Closed(edges, S) => Reached(edges, from) \subseteq S
<1> DEFINE nodes == Nodes(edges, from)
<1>1. IsFiniteSet(nodes)
  BY FS_Subset
<1>2. Reached(edges, from) = Closure(edges, nodes, from)
  <2>1. PICK grow : Growth(edges, nodes, grow) /\ Reached(edges, from) = grow[from]
    BY ReachedGrows
  <2>2. \A near \in SUBSET nodes : grow[near] = Closure(edges, nodes, near)
    BY <1>1, <2>1, GrowsToClosure
  <2>3. from \in SUBSET nodes
    BY DEF Nodes
  <2> QED BY <2>1, <2>2, <2>3
<1>3. \A e \in edges : e[2] \in nodes
  BY DEF Nodes
<1>4. from \subseteq nodes
  BY DEF Nodes
<1>5. Closed(edges, Closure(edges, nodes, from))
  <2> HIDE DEF nodes
  <2> QED BY <1>3 DEF Closure, Closed
<1>6. ASSUME NEW S, from \subseteq S, Closed(edges, S)
      PROVE  Closure(edges, nodes, from) \subseteq S
  <2>1. S \cap nodes \in SUBSET nodes /\ from \subseteq S \cap nodes
    BY <1>4, <1>6
  <2>2. Closed(edges, S \cap nodes)
    BY <1>3, <1>6 DEF Closed
  <2> HIDE DEF nodes
  <2> QED BY <2>1, <2>2 DEF Closure
<1>7. from \subseteq Closure(edges, nodes, from)
  BY <1>4 DEF Closure
<1> QED BY <1>2, <1>5, <1>6, <1>7

-----------------------------------------------------------------------------
(* Scopes: what is around an element is a chain that ends at the process.      *)

Elements(g) == DOMAIN g.kind

LEMMA GraphType ==
  ASSUME NEW g \in Graphs
  PROVE  /\ IsFiniteSet(Elements(g))
         /\ "process" \notin Elements(g) /\ "source" \notin Elements(g) /\ "sink" \notin Elements(g)
         /\ \A x \in Elements(g) : /\ g.kind[x] \in TokenKinds \cup Boundaries
                                   /\ g.scope[x] \in Scopes(g)
                                   /\ x \notin Around(g, g.scope[x])
         /\ g.flow \subseteq Elements(g) \X Elements(g) /\ g.guarded \subseteq g.flow
         /\ DOMAIN g.host = Of(g, Boundaries)
         /\ \A b \in DOMAIN g.host : b \in Elements(g) /\ g.host[b] \in Elements(g)
         /\ Scopes(g) \subseteq {"process"} \cup Elements(g)
  BY Parsed DEF Elements, Scopes, Of

LEMMA AroundLeast ==
  ASSUME NEW g \in Graphs, NEW x
  PROVE  /\ x \in Around(g, x)
         /\ \A y \in Elements(g) : y \in Around(g, x) => g.scope[y] \in Around(g, x)
         /\ \A S : x \in S /\ (\A y \in Elements(g) : y \in S => g.scope[y] \in S)
                     => Around(g, x) \subseteq S
<1> DEFINE edges == {<<y, g.scope[y]>> : y \in Elements(g)}
           all == {x, "process"} \cup Elements(g)
<1>1. IsFiniteSet(all)
  <2>1. IsFiniteSet({x}) /\ IsFiniteSet({"process"})
    BY FS_Singleton
  <2>2. IsFiniteSet({x} \cup {"process"})
    BY <2>1, FS_Union
  <2>3. IsFiniteSet(({x} \cup {"process"}) \cup Elements(g))
    BY <2>2, GraphType, FS_Union
  <2>4. all = ({x} \cup {"process"}) \cup Elements(g)
    OBVIOUS
  <2> QED BY <2>3, <2>4
<1>2. Nodes(edges, {x}) \subseteq all
  BY GraphType DEF Nodes
<1>3. Around(g, x) = Reached(edges, {x})
  BY DEF Around, Elements
<1>4. ASSUME NEW S
      PROVE  Closed(edges, S) <=> \A y \in Elements(g) : y \in S => g.scope[y] \in S
  <2>1. \A y \in Elements(g) : <<y, g.scope[y]>> \in edges
    OBVIOUS
  <2>2. \A e \in edges : \E y \in Elements(g) : e[1] = y /\ e[2] = g.scope[y]
    OBVIOUS
  <2> HIDE DEF edges
  <2> QED BY <2>1, <2>2 DEF Closed
<1> HIDE DEF edges, all
<1>5. /\ {x} \subseteq Reached(edges, {x})
      /\ Closed(edges, Reached(edges, {x}))
      /\ \A S : {x} \subseteq S /\ Closed(edges, S) => Reached(edges, {x}) \subseteq S
  BY <1>1, <1>2, ReachedLeast
<1> QED BY <1>3, <1>4, <1>5

LEMMA AroundNests ==
  ASSUME NEW g \in Graphs, NEW x, NEW y \in Around(g, x)
  PROVE  Around(g, y) \subseteq Around(g, x)
  BY AroundLeast

LEMMA AroundStep ==
  ASSUME NEW g \in Graphs, NEW x \in Elements(g)
  PROVE  Around(g, x) = {x} \cup Around(g, g.scope[x])
<1> DEFINE S == {x} \cup Around(g, g.scope[x])
<1>1. Around(g, x) \subseteq S
  <2>1. \A y \in Elements(g) : y \in S => g.scope[y] \in S
    BY AroundLeast
  <2> HIDE DEF S
  <2>2. x \in S
    BY DEF S
  <2> QED BY <2>1, <2>2, AroundLeast
<1>2. S \subseteq Around(g, x)
  BY AroundLeast, AroundNests
<1> QED BY <1>1, <1>2

LEMMA AroundProcess == ASSUME NEW g \in Graphs PROVE Around(g, "process") = {"process"}
<1> DEFINE S == {"process"}
<1>1. "process" \in S /\ \A y \in Elements(g) : y \in S => g.scope[y] \in S
  BY GraphType
<1>2. Around(g, "process") \subseteq S
  <2> HIDE DEF S
  <2> QED BY <1>1, AroundLeast
<1> QED BY <1>2, AroundLeast

\* Whatever is around an element, other than itself, is a scope.
LEMMA AroundScopes ==
  ASSUME NEW g \in Graphs, NEW x
  PROVE  Around(g, x) \subseteq {x} \cup Scopes(g)
<1> DEFINE S == {x} \cup Scopes(g)
<1>1. x \in S /\ \A y \in Elements(g) : g.scope[y] \in S
  BY GraphType
<1> HIDE DEF S
<1>2. Around(g, x) \subseteq S
  BY <1>1, AroundLeast
<1> QED BY <1>2 DEF S

LEMMA AroundChain ==
  ASSUME NEW g \in Graphs, NEW x, NEW c \in Around(g, x), NEW d \in Around(g, x)
  PROVE  c \in Around(g, d) \/ d \in Around(g, c)
<1> DEFINE S == {n \in Around(g, x) : d \in Around(g, n) \/ n \in Around(g, d)}
<1>1. x \in S
  BY AroundLeast
<1>2. ASSUME NEW y \in Elements(g), y \in S PROVE g.scope[y] \in S
  <2>1. g.scope[y] \in Around(g, x)
    BY <1>2, AroundLeast
  <2>2. CASE y \in Around(g, d)
    <3>1. g.scope[y] \in Around(g, d)
      BY <2>2, AroundLeast
    <3> QED BY <2>1, <3>1
  <2>3. CASE d \in Around(g, y)
    <3>1. d = y \/ d \in Around(g, g.scope[y])
      BY <2>3, AroundStep
    <3>2. g.scope[y] \in Around(g, y)
      BY AroundLeast
    <3>3. d = y => g.scope[y] \in Around(g, d)
      BY <3>2
    <3> QED BY <2>1, <3>1, <3>3
  <2> QED BY <1>2, <2>2, <2>3
<1> HIDE DEF S
<1>3. Around(g, x) \subseteq S
  BY <1>1, <1>2, AroundLeast
<1> QED BY <1>3 DEF S

\* No scope is inside itself.
LEMMA AroundAcyclic ==
  ASSUME NEW g \in Graphs, NEW c \in Elements(g), NEW d \in Around(g, g.scope[c])
  PROVE  c \notin Around(g, d)
<1>1. Around(g, d) \subseteq Around(g, g.scope[c])
  BY AroundNests
<1>2. c \notin Around(g, g.scope[c])
  BY GraphType
<1> QED BY <1>1, <1>2

LEMMA AroundBounded ==
  ASSUME NEW g \in Graphs, NEW x \in {"process"} \cup Elements(g)
  PROVE  Around(g, x) \subseteq {"process"} \cup Elements(g)
<1>1. Scopes(g) \subseteq {"process"} \cup Elements(g)
  BY GraphType
<1> QED BY <1>1, AroundScopes

LEMMA AroundEnds ==
  ASSUME NEW g \in Graphs, NEW x \in {"process"} \cup Elements(g)
  PROVE  "process" \in Around(g, x)
<1> DEFINE all == {"process"} \cup Elements(g)
           B == {Around(g, y) : y \in Around(g, x)}
<1>1. IsFiniteSet(all)
  BY GraphType, FS_Singleton, FS_Union
<1>2. \A y \in all : Around(g, y) \subseteq all
  BY AroundBounded
<1>3. B \subseteq SUBSET all
  BY <1>2
<1>4. Around(g, x) \in B
  BY AroundLeast
<1>5. PICK A \in B : \A y \in B : y \subseteq A => y = A
  <2> HIDE DEF B, all
  <2> QED BY <1>1, <1>3, <1>4, Smallest
<1>6. PICK m \in Around(g, x) : A = Around(g, m)
  OBVIOUS
<1>7. ASSUME m \in Elements(g) PROVE FALSE
  <2>1. g.scope[m] \in Around(g, x)
    BY <1>7, AroundLeast
  <2>2. Around(g, g.scope[m]) \subseteq A
    BY <1>6, <1>7, AroundStep
  <2>3. Around(g, g.scope[m]) = A
    BY <1>5, <2>1, <2>2
  <2> QED BY <1>6, <1>7, <2>3, GraphType, AroundLeast
<1>8. m \in all
  BY <1>2
<1> QED BY <1>6, <1>7, <1>8

\* The nearest of the scopes that catch an error, or the process, is well defined.
LEMMA CatcherFound ==
  ASSUME NEW g \in Graphs, NEW s \in Scopes(g)
  PROVE  /\ Catcher(g, s) \in Around(g, s)
         /\ Catcher(g, s) = "process" \/ On(g, Catcher(g, s), {"onError"}) # {}
<1> DEFINE catching == {c \in Around(g, s) : c = "process" \/ On(g, c, {"onError"}) # {}}
           all == {"process"} \cup Elements(g)
           B == {Around(g, c) : c \in catching}
<1>1. s \in all
  BY GraphType
<1>2. IsFiniteSet(all)
  BY GraphType, FS_Singleton, FS_Union
<1>3. \A y \in all : Around(g, y) \subseteq all
  BY AroundBounded
<1>4. "process" \in catching
  BY <1>1, AroundEnds
<1>5. catching \subseteq all
  BY <1>1, <1>3
<1>6. B \subseteq SUBSET all /\ Around(g, "process") \in B
  BY <1>3, <1>4, <1>5
<1>7. PICK A \in B : \A y \in B : A \subseteq y => y = A
  <2> HIDE DEF B, all, catching
  <2> QED BY <1>2, <1>6, Largest
<1>8. PICK c \in catching : A = Around(g, c)
  OBVIOUS
<1>9. ASSUME NEW d \in catching PROVE d \in Around(g, c)
  <2>1. c \in Around(g, d) => Around(g, c) = Around(g, d)
    BY <1>7, <1>8, AroundNests
  <2> QED BY <2>1, AroundChain, AroundLeast
<1>10. \E c1 \in catching : catching \subseteq Around(g, c1)
  BY <1>9
<1>11. Catcher(g, s) = CHOOSE c1 \in catching : catching \subseteq Around(g, c1)
  BY DEF Catcher
<1>12. Catcher(g, s) \in catching
  <2> HIDE DEF catching
  <2> QED BY <1>10, <1>11
<1> QED BY <1>12

-----------------------------------------------------------------------------
(* Dominance: d dominates x when x is reached from the root only through d.    *)

Avoiding(edges, d) == {e \in edges : d \notin {e[1], e[2]}}
Past(edges, root, d) == Reached(Avoiding(edges, d), {root} \ {d})

LEMMA PastLeast ==
  ASSUME NEW edges, NEW root, NEW all, IsFiniteSet(all), Nodes(edges, {root}) \subseteq all, NEW d
  PROVE  /\ root # d => root \in Past(edges, root, d)
         /\ \A e \in edges : e[1] \in Past(edges, root, d) /\ e[2] # d
                              => e[2] \in Past(edges, root, d)
         /\ d \notin Past(edges, root, d)
         /\ \A S : (root # d => root \in S)
                    /\ (\A e \in edges : e[1] \in S /\ d \notin {e[1], e[2]} => e[2] \in S)
                    => Past(edges, root, d) \subseteq S
<1> DEFINE avoiding == Avoiding(edges, d)
           from == {root} \ {d}
<1>1. Nodes(avoiding, from) \subseteq all
  BY DEF Nodes, Avoiding
<1>2. /\ from \subseteq Past(edges, root, d)
      /\ Closed(avoiding, Past(edges, root, d))
      /\ \A S : from \subseteq S /\ Closed(avoiding, S) => Past(edges, root, d) \subseteq S
  <2> HIDE DEF avoiding, from
  <2>1. Past(edges, root, d) = Reached(avoiding, from)
    BY DEF Past, avoiding, from
  <2> QED BY <1>1, <2>1, ReachedLeast
<1>3. \A S : (\A e \in edges : e[1] \in S /\ d \notin {e[1], e[2]} => e[2] \in S)
              => Closed(avoiding, S)
  BY DEF Closed, Avoiding
<1>4. \A S : (root # d => root \in S) => from \subseteq S
  OBVIOUS
<1>5. root # d => root \in Past(edges, root, d)
  BY <1>2
<1>6. d \notin Past(edges, root, d)
  <2> DEFINE S == Past(edges, root, d) \ {d}
  <2>1. from \subseteq S
    BY <1>2
  <2>2. \A e \in avoiding : e[1] \in S => e[2] \in S
    BY <1>2 DEF Closed, Avoiding
  <2>3. Closed(avoiding, S)
    BY <2>2 DEF Closed
  <2>4. d \notin S
    OBVIOUS
  <2> HIDE DEF S, from, avoiding
  <2> QED BY <1>2, <2>1, <2>3, <2>4
<1>7. \A e \in edges : e[1] \in Past(edges, root, d) /\ e[2] # d
                        => e[2] \in Past(edges, root, d)
  BY <1>2, <1>6 DEF Closed, Avoiding
<1> HIDE DEF avoiding, from
<1>8. \A S : (root # d => root \in S)
            /\ (\A e \in edges : e[1] \in S /\ d \notin {e[1], e[2]} => e[2] \in S)
            => Past(edges, root, d) \subseteq S
  BY <1>2, <1>3, <1>4
<1> QED BY <1>5, <1>6, <1>7, <1>8

LEMMA DominatedDef ==
  ASSUME NEW edges, NEW root, NEW all, IsFiniteSet(all), Nodes(edges, {root}) \subseteq all
  PROVE  /\ DOMAIN Dominated(edges, root) = Reached(edges, {root})
         /\ root \in DOMAIN Dominated(edges, root)
         /\ Closed(edges, DOMAIN Dominated(edges, root))
         /\ \A d, x \in DOMAIN Dominated(edges, root) :
              x \in Dominated(edges, root)[d] <=> x = d \/ x \notin Past(edges, root, d)
         /\ \A d \in DOMAIN Dominated(edges, root) :
              d \in Dominated(edges, root)[d]
              /\ Dominated(edges, root)[d] \subseteq DOMAIN Dominated(edges, root)
<1> DEFINE D == Dominated(edges, root)
           reached == Reached(edges, {root})
<1>1. D = [d \in reached |-> {d} \cup (reached \ Past(edges, root, d))]
  BY DEF Dominated, Past, Avoiding
<1>2. {root} \subseteq reached /\ Closed(edges, reached)
  BY ReachedLeast
<1> HIDE DEF D, reached
<1>3. DOMAIN D = reached
  BY <1>1
<1>4. \A d \in reached : D[d] = {d} \cup (reached \ Past(edges, root, d))
  BY <1>1
<1> QED BY <1>2, <1>3, <1>4 DEF D, reached

\* Whatever leads to a dominated node, other than the dominator, is dominated.
LEMMA DominatedBack ==
  ASSUME NEW edges, NEW root, NEW all, IsFiniteSet(all), Nodes(edges, {root}) \subseteq all,
         NEW e \in edges, NEW d \in DOMAIN Dominated(edges, root),
         e[1] \in DOMAIN Dominated(edges, root), e[2] \in Dominated(edges, root)[d], e[2] # d
  PROVE  e[1] \in Dominated(edges, root)[d]
<1>1. e[2] \notin Past(edges, root, d)
  BY DominatedDef
<1>2. e[1] \notin Past(edges, root, d)
  BY <1>1, PastLeast
<1> QED BY <1>2, DominatedDef

LEMMA DominatesRoot ==
  ASSUME NEW edges, NEW root, NEW all, IsFiniteSet(all), Nodes(edges, {root}) \subseteq all,
         NEW d \in DOMAIN Dominated(edges, root), root \in Dominated(edges, root)[d]
  PROVE  d = root
<1>1. root = d \/ root \notin Past(edges, root, d)
  BY DominatedDef
<1>2. root # d => root \in Past(edges, root, d)
  BY PastLeast
<1> QED BY <1>1, <1>2

LEMMA DominatesBoth ==
  ASSUME NEW edges, NEW root, NEW all, IsFiniteSet(all), Nodes(edges, {root}) \subseteq all,
         NEW x \in DOMAIN Dominated(edges, root), NEW y \in DOMAIN Dominated(edges, root),
         x \in Dominated(edges, root)[y], y \in Dominated(edges, root)[x]
  PROVE  x = y
<1> SUFFICES ASSUME x # y PROVE FALSE
  OBVIOUS
<1> DEFINE P(d) == Past(edges, root, d)
           S == P(x) \cap P(y)
<1>1. x \notin P(y) /\ y \notin P(x)
  BY DominatedDef
<1>2. x \notin P(x) /\ y \notin P(y)
  BY PastLeast
<1>3. root # x /\ root # y
  BY DominatesRoot
<1>4. root \in P(x) /\ root \in P(y)
  BY <1>3, PastLeast
<1>5. ASSUME NEW e \in edges, e[1] \in S PROVE e[2] \in S
  <2>1. e[2] # x => e[2] \in P(x)
    BY <1>5, PastLeast
  <2>2. e[2] # y => e[2] \in P(y)
    BY <1>5, PastLeast
  <2> QED BY <1>1, <2>1, <2>2
<1>6. Closed(edges, S) /\ {root} \subseteq S
  BY <1>4, <1>5 DEF Closed
<1> HIDE DEF S
<1>7. Reached(edges, {root}) \subseteq S
  BY <1>6, ReachedLeast
<1>8. x \in S
  BY <1>7, DominatedDef
<1> QED BY <1>2, <1>8 DEF S

\* A node is the nearest of what another depends on for one node only.
LEMMA NearestUnique ==
  ASSUME NEW edges, NEW root, NEW all, IsFiniteSet(all), Nodes(edges, {root}) \subseteq all,
         NEW x, NEW y, NEW z,
         Nearest(Dominated(edges, root), y, x), Nearest(Dominated(edges, root), z, x)
  PROVE  y = z
<1> DEFINE D == Dominated(edges, root)
<1>1. y \in DOMAIN D /\ z \in DOMAIN D /\ x \in D[y] /\ x \in D[z] /\ x # y /\ x # z
  BY DEF Nearest
<1>2. y \in D[z] /\ z \in D[y]
  BY <1>1 DEF Nearest
<1> QED BY <1>1, <1>2, DominatesBoth

\* Every node but the root is entered from a node it does not dominate.
LEMMA EnteredFromOutside ==
  ASSUME NEW edges, NEW root, NEW all, IsFiniteSet(all), Nodes(edges, {root}) \subseteq all,
         NEW d \in DOMAIN Dominated(edges, root), d # root
  PROVE  \E e \in edges : /\ e[2] = d /\ e[1] \in DOMAIN Dominated(edges, root)
                          /\ e[1] \notin Dominated(edges, root)[d]
<1> DEFINE S == Past(edges, root, d) \cap DOMAIN Dominated(edges, root)
<1> SUFFICES ASSUME \A e \in edges : e[2] = d => e[1] \notin S PROVE FALSE
  <2>1. PICK e \in edges : e[2] = d /\ e[1] \in S
    OBVIOUS
  <2>2. e[1] # d
    BY <2>1, PastLeast
  <2>3. e[1] \notin Dominated(edges, root)[d]
    BY <2>1, <2>2, DominatedDef
  <2> QED BY <2>1, <2>3
<1>1. root \in S
  BY PastLeast, DominatedDef
<1>2. ASSUME NEW e \in edges, e[1] \in S PROVE e[2] \in S
  <2>1. e[2] # d
    BY <1>2
  <2>2. e[2] \in Past(edges, root, d)
    BY <1>2, <2>1, PastLeast
  <2>3. e[2] \in DOMAIN Dominated(edges, root)
    BY <1>2, DominatedDef DEF Closed
  <2> QED BY <2>2, <2>3
<1>3. Closed(edges, S) /\ {root} \subseteq S
  BY <1>1, <1>2 DEF Closed
<1>4. d \notin S
  BY PastLeast
<1> HIDE DEF S
<1>5. Reached(edges, {root}) \subseteq S
  BY <1>3, ReachedLeast
<1> QED BY <1>4, <1>5, DominatedDef

\* A node that is entered only from dominated ones is dominated.
LEMMA EnteredFromInside ==
  ASSUME NEW edges, NEW root, NEW all, IsFiniteSet(all), Nodes(edges, {root}) \subseteq all,
         NEW d \in DOMAIN Dominated(edges, root), NEW x \in DOMAIN Dominated(edges, root),
         x # root, \A e \in edges : e[2] = x => e[1] \in Dominated(edges, root)[d]
  PROVE  x \in Dominated(edges, root)[d]
<1> DEFINE S == Past(edges, root, d) \ {x}
<1>1. root # d => root \in S
  BY PastLeast
<1>2. ASSUME NEW e \in edges, e[1] \in S, d \notin {e[1], e[2]} PROVE e[2] \in S
  <2>1. e[2] \in Past(edges, root, d)
    BY <1>2, PastLeast
  <2>2. e[2] = x => e[1] \in DOMAIN Dominated(edges, root)
    BY DominatedDef
  <2>3. e[2] # x
    BY <1>2, <2>2, DominatedDef
  <2> QED BY <2>1, <2>3
<1>3. x \notin S
  OBVIOUS
<1> HIDE DEF S
<1>4. Past(edges, root, d) \subseteq S
  BY <1>1, <1>2, PastLeast
<1> QED BY <1>3, <1>4, DominatedDef

\* What the lemmas above say of a graph.
Dominance(edges, root, D) ==
  /\ root \in DOMAIN D
  /\ \A e \in edges : e[1] \in DOMAIN D => e[2] \in DOMAIN D
  /\ \A d \in DOMAIN D : d \in D[d] /\ D[d] \subseteq DOMAIN D
  /\ \A e \in edges : \A d \in DOMAIN D :
       e[1] \in DOMAIN D /\ e[2] \in D[d] /\ e[2] # d => e[1] \in D[d]
  /\ \A d \in DOMAIN D : root \in D[d] => d = root
  /\ \A x, y \in DOMAIN D : x \in D[y] /\ y \in D[x] => x = y
  /\ \A x, y, z : Nearest(D, y, x) /\ Nearest(D, z, x) => y = z
  /\ \A d \in DOMAIN D : d # root =>
       \E e \in edges : e[2] = d /\ e[1] \in DOMAIN D /\ e[1] \notin D[d]
  /\ \A d, x \in DOMAIN D :
       x # root /\ (\A e \in edges : e[2] = x => e[1] \in D[d]) => x \in D[d]
  /\ \A S : root \in S /\ (\A e \in edges : e[1] \in S => e[2] \in S) => DOMAIN D \subseteq S

LEMMA DominatedDominance ==
  ASSUME NEW edges, NEW root, NEW all, IsFiniteSet(all), Nodes(edges, {root}) \subseteq all
  PROVE  Dominance(edges, root, Dominated(edges, root))
<1> DEFINE D == Dominated(edges, root)
<1>1. /\ root \in DOMAIN D
      /\ \A e \in edges : e[1] \in DOMAIN D => e[2] \in DOMAIN D
      /\ \A d \in DOMAIN D : d \in D[d] /\ D[d] \subseteq DOMAIN D
  BY DominatedDef DEF Closed
<1>2. \A e \in edges : \A d \in DOMAIN D :
        e[1] \in DOMAIN D /\ e[2] \in D[d] /\ e[2] # d => e[1] \in D[d]
  BY DominatedBack
<1>3. \A d \in DOMAIN D : root \in D[d] => d = root
  BY DominatesRoot
<1>4. \A x, y \in DOMAIN D : x \in D[y] /\ y \in D[x] => x = y
  BY DominatesBoth
<1>5. \A x, y, z : Nearest(D, y, x) /\ Nearest(D, z, x) => y = z
  BY NearestUnique
<1>6. \A d \in DOMAIN D : d # root =>
        \E e \in edges : e[2] = d /\ e[1] \in DOMAIN D /\ e[1] \notin D[d]
  BY EnteredFromOutside
<1>7. \A d, x \in DOMAIN D :
        x # root /\ (\A e \in edges : e[2] = x => e[1] \in D[d]) => x \in D[d]
  BY EnteredFromInside
<1>8. ASSUME NEW S, root \in S, \A e \in edges : e[1] \in S => e[2] \in S
      PROVE  DOMAIN D \subseteq S
  <2>1. {root} \subseteq S /\ Closed(edges, S)
    BY <1>8 DEF Closed
  <2>2. Reached(edges, {root}) \subseteq S
    BY <2>1, ReachedLeast
  <2>3. DOMAIN D = Reached(edges, {root})
    BY DominatedDef
  <2> QED BY <2>2, <2>3
<1> HIDE DEF D
<1> QED BY <1>1, <1>2, <1>3, <1>4, <1>5, <1>6, <1>7, <1>8 DEF Dominance, D

-----------------------------------------------------------------------------
(* The control-flow graph of the process, and its regions.                      *)

Passed == {g \in Graphs : Accepted(g) /\ Regular(g)}
Backward(g) == {<<e[2], e[1]>> : e \in Control(g, "process")}
Below(g) == Dominated(Control(g, "process"), "source")
Above(g) == Dominated(Backward(g), "sink")
Found(g) == RegionsOf(g, "process")

LEMMA PassedType == ASSUME NEW g \in Passed PROVE g \in Graphs /\ Accepted(g) /\ Regular(g)
  BY DEF Passed

\* An element, its scope and those a flow or a boundary leads to are on one level.
LEMMA FlowLevel ==
  ASSUME NEW g \in Passed
  PROVE  /\ \A x, y : <<x, y>> \in g.flow =>
              /\ x \in Elements(g) /\ y \in Elements(g) /\ g.scope[y] = g.scope[x]
              /\ g.kind[y] \notin Boundaries \cup {"start"}
         /\ \A x, y : y \in Out(g, x) <=> y \in Elements(g) /\ <<x, y>> \in g.flow
         /\ \A b \in DOMAIN g.host :
              /\ b \in Elements(g) /\ g.kind[b] \in Boundaries
              /\ g.host[b] \in Elements(g) /\ g.kind[g.host[b]] \in Scoped \cup {"task"}
              /\ g.scope[b] = g.scope[g.host[b]]
         /\ \A b \in Elements(g) : g.kind[b] \in Boundaries => b \in DOMAIN g.host
<1>1. g \in Graphs /\ Endpoints(g) /\ Attached(g)
  BY DEF Passed, Accepted
<1>2. ASSUME NEW x, NEW y, <<x, y>> \in g.flow
      PROVE  /\ x \in Elements(g) /\ y \in Elements(g) /\ g.scope[y] = g.scope[x]
             /\ g.kind[y] \notin Boundaries \cup {"start"}
  <2>1. x \in Elements(g) /\ y \in Elements(g)
    BY <1>1, <1>2, GraphType
  <2>2. /\ g.scope[<<x, y>>[1]] = g.scope[<<x, y>>[2]]
        /\ g.kind[<<x, y>>[2]] \notin Boundaries \cup {"start"}
    BY <1>1, <1>2 DEF Endpoints
  <2> QED BY <2>1, <2>2
<1>3. \A x, y : y \in Out(g, x) <=> y \in Elements(g) /\ <<x, y>> \in g.flow
  BY DEF Out, Elements
<1>4. \A b \in DOMAIN g.host :
        /\ b \in Elements(g) /\ g.kind[b] \in Boundaries
        /\ g.host[b] \in Elements(g) /\ g.kind[g.host[b]] \in Scoped \cup {"task"}
        /\ g.scope[b] = g.scope[g.host[b]]
  <2>1. \A b \in DOMAIN g.host : b \in Elements(g) /\ g.kind[b] \in Boundaries
                                 /\ g.host[b] \in Elements(g)
    BY <1>1, GraphType DEF Of
  <2>2. \A b \in DOMAIN g.host : g.scope[b] = g.scope[g.host[b]]
                                 /\ g.kind[g.host[b]] \in Scoped \cup {"task"}
    BY <1>1 DEF Attached, Scoped
  <2> QED BY <2>1, <2>2
<1>5. \A b \in Elements(g) : g.kind[b] \in Boundaries => b \in DOMAIN g.host
  BY <1>1, GraphType DEF Of, Elements
<1> QED BY <1>2, <1>3, <1>4, <1>5

LEMMA OutLevel ==
  ASSUME NEW g \in Passed, NEW x, NEW y \in Out(g, x)
  PROVE  /\ x \in Elements(g) /\ y \in Elements(g) /\ g.scope[y] = g.scope[x]
         /\ g.kind[y] \notin Boundaries \cup {"start"} /\ <<x, y>> \in g.flow
<1>1. <<x, y>> \in g.flow
  BY DEF Out
<1> QED BY <1>1, FlowLevel

LEMMA ControlHas ==
  ASSUME NEW g \in Passed
  PROVE  /\ \A x \in Within(g, "process") : \A y \in Out(g, x) : <<x, y>> \in Control(g, "process")
         /\ \A b \in DOMAIN g.host : b \in Within(g, "process") =>
              <<g.host[b], b>> \in Control(g, "process")
         /\ \A x \in Starts(g, "process") : <<"source", x>> \in Control(g, "process")
         /\ \A x \in Within(g, "process") : Out(g, x) = {} => <<x, "sink">> \in Control(g, "process")
<1> DEFINE inner == Within(g, "process")
<1>1. ASSUME NEW x \in inner, NEW y \in Out(g, x) PROVE <<x, y>> \in Control(g, "process")
  <2>1. <<x, y>> \in g.flow /\ <<x, y>>[1] \in inner
    BY DEF Out
  <2> QED BY <2>1 DEF Control
<1>2. ASSUME NEW b \in DOMAIN g.host, b \in inner
      PROVE  <<g.host[b], b>> \in Control(g, "process")
  BY <1>2 DEF Control
<1>3. \A x \in Starts(g, "process") : <<"source", x>> \in Control(g, "process")
  BY DEF Control
<1>4. \A x \in inner : Out(g, x) = {} => <<x, "sink">> \in Control(g, "process")
  BY DEF Control
<1> QED BY <1>1, <1>2, <1>3, <1>4

LEMMA ControlIs ==
  ASSUME NEW g \in Passed, NEW e \in Control(g, "process")
  PROVE  /\ e = <<e[1], e[2]>>
         /\ \/ e[1] \in Within(g, "process") /\ e[2] \in Out(g, e[1])
            \/ e[2] \in DOMAIN g.host /\ e[2] \in Within(g, "process") /\ e[1] = g.host[e[2]]
            \/ e[1] = "source" /\ e[2] \in Starts(g, "process")
            \/ e[1] \in Within(g, "process") /\ Out(g, e[1]) = {} /\ e[2] = "sink"
<1> DEFINE inner == Within(g, "process")
<1>1. \/ e \in {f \in g.flow : f[1] \in inner}
      \/ e \in {<<g.host[b], b>> : b \in DOMAIN g.host \cap inner}
      \/ e \in {<<"source", x>> : x \in Starts(g, "process")}
      \/ e \in {<<x, "sink">> : x \in {x \in inner : Out(g, x) = {}}}
  BY DEF Control
<1>2. CASE e \in {f \in g.flow : f[1] \in inner}
  <2>1. PICK x \in Elements(g), y \in Elements(g) : e = <<x, y>>
    BY <1>2, PassedType, GraphType
  <2> QED BY <1>2, <2>1, FlowLevel
<1>3. CASE e \in {<<g.host[b], b>> : b \in DOMAIN g.host \cap inner}
  BY <1>3
<1>4. CASE e \in {<<"source", x>> : x \in Starts(g, "process")}
  BY <1>4
<1>5. CASE e \in {<<x, "sink">> : x \in {x \in inner : Out(g, x) = {}}}
  BY <1>5
<1> QED BY <1>1, <1>2, <1>3, <1>4, <1>5

LEMMA BackwardIs ==
  ASSUME NEW g \in Passed
  PROVE  /\ \A e \in Backward(g) : <<e[2], e[1]>> \in Control(g, "process")
         /\ \A e \in Control(g, "process") : <<e[2], e[1]>> \in Backward(g)
<1>1. ASSUME NEW e \in Backward(g) PROVE <<e[2], e[1]>> \in Control(g, "process")
  <2>1. PICK f \in Control(g, "process") : e = <<f[2], f[1]>>
    BY DEF Backward
  <2> QED BY <2>1, ControlIs
<1> QED BY <1>1 DEF Backward

LEMMA LevelElements ==
  ASSUME NEW g \in Passed
  PROVE  /\ Within(g, "process") = {x \in Elements(g) : g.scope[x] = "process"}
         /\ Starts(g, "process") \subseteq Within(g, "process")
         /\ \A x \in Within(g, "process") : Out(g, x) \subseteq Within(g, "process")
         /\ \A b \in DOMAIN g.host :
              b \in Within(g, "process") <=> g.host[b] \in Within(g, "process")
         /\ "source" \notin Within(g, "process") /\ "sink" \notin Within(g, "process")
<1>1. Within(g, "process") = {x \in Elements(g) : g.scope[x] = "process"}
  BY DEF Within, Elements
<1>2. Starts(g, "process") \subseteq Within(g, "process")
  BY DEF Starts
<1>3. \A x \in Within(g, "process") : Out(g, x) \subseteq Within(g, "process")
  BY <1>1, OutLevel
<1>4. \A b \in DOMAIN g.host : b \in Within(g, "process") <=> g.host[b] \in Within(g, "process")
  BY <1>1, FlowLevel
<1>5. "source" \notin Within(g, "process") /\ "sink" \notin Within(g, "process")
  BY <1>1, GraphType, PassedType
<1> QED BY <1>1, <1>2, <1>3, <1>4, <1>5

Places(g) == {"source", "sink"} \cup Within(g, "process")

LEMMA PlacesFinite == ASSUME NEW g \in Passed PROVE IsFiniteSet(Places(g))
<1>1. IsFiniteSet({"source", "sink"})
  <2>1. IsFiniteSet({"source"}) /\ IsFiniteSet({"sink"})
    BY FS_Singleton
  <2>2. IsFiniteSet({"source"} \cup {"sink"})
    BY <2>1, FS_Union
  <2>3. {"source", "sink"} = {"source"} \cup {"sink"}
    OBVIOUS
  <2> QED BY <2>2, <2>3
<1>2. IsFiniteSet(Within(g, "process"))
  BY LevelElements, GraphType, PassedType, FS_Subset
<1> QED BY <1>1, <1>2, FS_Union DEF Places

LEMMA ControlPlaces ==
  ASSUME NEW g \in Passed
  PROVE  /\ \A e \in Control(g, "process") : e[1] \in Places(g) /\ e[2] \in Places(g)
         /\ Nodes(Control(g, "process"), {"source"}) \subseteq Places(g)
         /\ Nodes(Backward(g), {"sink"}) \subseteq Places(g)
<1>1. \A e \in Control(g, "process") : e[1] \in Places(g) /\ e[2] \in Places(g)
  BY ControlIs, LevelElements DEF Places
<1>2. \A e \in Backward(g) : e[2] \in Places(g)
  BY <1>1 DEF Backward
<1> QED BY <1>1, <1>2 DEF Nodes, Places

LEMMA BelowDominance ==
  ASSUME NEW g \in Passed PROVE Dominance(Control(g, "process"), "source", Below(g))
  BY PlacesFinite, ControlPlaces, DominatedDominance DEF Below

LEMMA AboveDominance ==
  ASSUME NEW g \in Passed PROVE Dominance(Backward(g), "sink", Above(g))
  BY PlacesFinite, ControlPlaces, DominatedDominance DEF Above

\* Every element at the top level is reached, and reaches an end.
LEMMA AllBelow == ASSUME NEW g \in Passed PROVE Within(g, "process") \subseteq DOMAIN Below(g)
<1> DEFINE attached == {<<g.host[b], b>> : b \in DOMAIN g.host}
           edges == g.flow \cup attached
           R == Reached(edges, Starts(g, "process"))
           S == DOMAIN Below(g) \cup (Elements(g) \ Within(g, "process"))
<1>1. /\ "source" \in DOMAIN Below(g)
      /\ \A e \in Control(g, "process") : e[1] \in DOMAIN Below(g) => e[2] \in DOMAIN Below(g)
  BY BelowDominance DEF Dominance
<1>2. Starts(g, "process") \subseteq S
  <2>1. ASSUME NEW x \in Starts(g, "process") PROVE x \in DOMAIN Below(g)
    <3>1. <<"source", x>> \in Control(g, "process")
      BY ControlHas
    <3> QED BY <1>1, <3>1
  <2> QED BY <2>1
<1>3. ASSUME NEW e \in edges, e[1] \in S PROVE e[2] \in S
  <2>1. CASE e \in g.flow
    <3>1. PICK x \in Elements(g), y \in Elements(g) : e = <<x, y>>
      BY <2>1, PassedType, GraphType
    <3>2. y \in Out(g, x) /\ g.scope[x] = g.scope[y]
      BY <2>1, <3>1, FlowLevel
    <3>3. CASE x \in Within(g, "process")
      <4>1. <<x, y>> \in Control(g, "process")
        BY <3>2, <3>3, ControlHas
      <4> QED BY <1>1, <1>3, <3>1, <3>3, <4>1
    <3>4. CASE x \notin Within(g, "process")
      BY <3>1, <3>2, <3>4, LevelElements
    <3> QED BY <3>3, <3>4
  <2>2. CASE e \in attached
    <3>1. PICK b \in DOMAIN g.host : e = <<g.host[b], b>>
      BY <2>2
    <3>2. b \in Elements(g) /\ (b \in Within(g, "process") <=> g.host[b] \in Within(g, "process"))
      BY FlowLevel, LevelElements
    <3>3. CASE b \in Within(g, "process")
      <4>1. <<g.host[b], b>> \in Control(g, "process")
        BY <3>3, ControlHas
      <4> QED BY <1>1, <1>3, <3>1, <3>2, <3>3, <4>1
    <3>4. CASE b \notin Within(g, "process")
      BY <3>1, <3>2, <3>4
    <3> QED BY <3>3, <3>4
  <2> QED BY <2>1, <2>2
<1>4. /\ IsFiniteSet(Elements(g)) /\ Nodes(edges, Starts(g, "process")) \subseteq Elements(g)
  <2>1. \A e \in edges : e[2] \in Elements(g)
    BY FlowLevel, PassedType, GraphType
  <2>2. Starts(g, "process") \subseteq Elements(g)
    BY LevelElements
  <2> HIDE DEF edges
  <2> QED BY <2>1, <2>2, PassedType, GraphType DEF Nodes
<1>5. Within(g, "process") \subseteq R
  <2>1. AllReachable(g) /\ "process" \in Scopes(g)
    BY PassedType DEF Accepted, Scopes
  <2> QED BY <2>1 DEF AllReachable
<1> HIDE DEF S, edges
<1>6. Closed(edges, S)
  BY <1>3 DEF Closed
<1>7. R \subseteq S
  BY <1>2, <1>4, <1>6, ReachedLeast
<1> QED BY <1>5, <1>7 DEF S

LEMMA AllAbove == ASSUME NEW g \in Passed PROVE Within(g, "process") \subseteq DOMAIN Above(g)
<1>1. Within(g, "process") \subseteq Reached(Backward(g), {"sink"})
  BY PassedType DEF Regular, Backward
<1>2. DOMAIN Above(g) = Reached(Backward(g), {"sink"})
  BY PlacesFinite, ControlPlaces, DominatedDef DEF Above
<1> QED BY <1>1, <1>2

\* What the rules on regions say of one.
LEMMA RegionRules ==
  ASSUME NEW g \in Passed, NEW r \in Found(g)
  PROVE  /\ r = [split |-> r.split, join |-> r.join, members |-> r.members]
         /\ r.split \in Splits(g, "process") /\ r.split \in DOMAIN Below(g)
         /\ r.join \in Of(g, {g.kind[r.split]}) /\ Cardinality(In(g, r.join)) > 1
         /\ Nearest(Above(g), r.join, r.split) /\ Nearest(Below(g), r.split, r.join)
         /\ r.members = Below(g)[r.split] \cap Above(g)[r.join]
         /\ \A x \in r.members \ {r.join} : Out(g, x) \subseteq r.members \cup {r.join}
<1> DEFINE B == Below(g)
           A == Above(g)
<1>1. Found(g) = UNION {RegionOf(g, B, A, x) : x \in {x \in Splits(g, "process") : x \in DOMAIN B}}
  BY DEF Found, RegionsOf, Below, Above, Backward
<1>2. PICK s \in Splits(g, "process") : s \in DOMAIN B /\ r \in RegionOf(g, B, A, s)
  BY <1>1
<1>3. PICK j \in Of(g, {g.kind[s]}) :
        /\ Cardinality(In(g, j)) > 1 /\ Nearest(A, j, s) /\ SingleEntry(B, s, j)
        /\ ConfinedTo(g, B[s] \cap A[j], j)
        /\ r = [split |-> s, join |-> j, members |-> B[s] \cap A[j]]
  <2> HIDE DEF A, B
  <2> QED BY <1>2 DEF RegionOf
<1>4. r.split = s /\ r.join = j /\ r.members = B[s] \cap A[j]
  BY <1>3
<1> QED BY <1>2, <1>3, <1>4 DEF SingleEntry, ConfinedTo

LEMMA TwoOf ==
  ASSUME NEW S, IsFiniteSet(S), NEW a \in S, NEW b \in S, a # b
  PROVE  Cardinality(S) > 1
<1>1. IsFiniteSet({a}) /\ Cardinality({a}) = 1
  BY FS_Singleton
<1>2. IsFiniteSet({a} \cup {b}) /\ Cardinality({a} \cup {b}) = Cardinality({a}) + 1
  <2>1. b \notin {a}
    OBVIOUS
  <2> QED BY <1>1, <2>1, FS_AddElement
<1>3. {a} \cup {b} \subseteq S
  OBVIOUS
<1>4. Cardinality({a} \cup {b}) <= Cardinality(S)
  BY <1>3, FS_Subset
<1>5. Cardinality(S) \in Nat
  BY FS_CardinalityType
<1> QED BY <1>1, <1>2, <1>4, <1>5

LEMMA OutIn ==
  ASSUME NEW g \in Passed, NEW x
  PROVE  /\ IsFiniteSet(Out(g, x)) /\ IsFiniteSet(In(g, x))
         /\ \A y, z \in Out(g, x) : y # z => Cardinality(Out(g, x)) > 1
         /\ \A y, z \in In(g, x) : y # z => Cardinality(In(g, x)) > 1
<1>1. IsFiniteSet(Out(g, x)) /\ IsFiniteSet(In(g, x))
  BY PassedType, GraphType, FS_Subset DEF Out, In, Elements
<1> QED BY <1>1, TwoOf

LEMMA RegionEnds ==
  ASSUME NEW g \in Passed, NEW r \in Found(g)
  PROVE  /\ r.split \in r.members /\ r.join \in r.members /\ r.split # r.join
         /\ r.members \subseteq Within(g, "process")
         /\ r.members \subseteq DOMAIN Below(g) /\ r.members \subseteq DOMAIN Above(g)
         /\ r.split \in DOMAIN Below(g) /\ r.join \in DOMAIN Above(g)
         /\ r.members = Below(g)[r.split] \cap Above(g)[r.join]
         /\ g.kind[r.split] \in Forking /\ g.kind[r.join] \in Forking
<1> DEFINE s == r.split
           j == r.join
           B == Below(g)
           A == Above(g)
<1>1. /\ s \in Splits(g, "process") /\ s \in DOMAIN B /\ j \in Of(g, {g.kind[s]})
      /\ Nearest(A, j, s) /\ Nearest(B, s, j) /\ r.members = B[s] \cap A[j]
  BY RegionRules
<1>2. s \in Within(g, "process") /\ g.kind[s] \in Forking
  BY <1>1 DEF Splits
<1>3. j \in Elements(g) /\ g.kind[j] \in Forking
  BY <1>1, <1>2 DEF Of, Elements
<1>4. j \in DOMAIN A /\ s \in A[j] /\ j \in B[s] /\ s # j
  BY <1>1 DEF Nearest
<1>5. s \in B[s] /\ j \in A[j] /\ B[s] \subseteq DOMAIN B /\ A[j] \subseteq DOMAIN A
  BY <1>1, <1>4, BelowDominance, AboveDominance DEF Dominance
<1>6. DOMAIN B \subseteq Places(g)
  <2>1. "source" \in Places(g)
    BY DEF Places
  <2>2. \A e \in Control(g, "process") : e[1] \in Places(g) => e[2] \in Places(g)
    BY ControlPlaces
  <2> QED BY <2>1, <2>2, BelowDominance DEF Dominance
<1>7. "source" \notin B[s]
  <2>1. "source" \in B[s] => s = "source"
    BY <1>1, BelowDominance DEF Dominance
  <2> QED BY <1>2, <2>1, LevelElements
<1>8. "sink" \notin A[j]
  <2>1. "sink" \in A[j] => j = "sink"
    BY <1>4, AboveDominance DEF Dominance
  <2> QED BY <1>3, <2>1, PassedType, GraphType
<1>9. r.members \subseteq Within(g, "process")
  BY <1>1, <1>5, <1>6, <1>7, <1>8 DEF Places
<1> QED BY <1>1, <1>2, <1>3, <1>4, <1>5, <1>9

LEMMA RegionsBalanced ==
  ASSUME NEW g \in Passed
  PROVE  /\ \A x \in Splits(g, "process") : \E r \in Found(g) : r.split = x
         /\ \A r \in Found(g) : r.split \in Splits(g, "process")
         /\ \A x \in Within(g, "process") :
              g.kind[x] \in Forking /\ Cardinality(In(g, x)) > 1 => \E r \in Found(g) : r.join = x
         /\ \A r, q \in Found(g) : \/ r.members \cap q.members = {}
                                   \/ r.members \subseteq q.members \/ q.members \subseteq r.members
<1>1. Balanced(g, "process")
  BY PassedType DEF Accepted, Scopes
<1> QED BY <1>1 DEF Balanced, MergesAreJoins, Found

\* A region is told by its split and by its join, and what it holds lies between them.
LEMMA RegionOrder ==
  ASSUME NEW g \in Passed, NEW r \in Found(g), NEW q \in Found(g)
  PROVE  /\ r.split = q.split => r = q
         /\ r.join = q.join => r = q
         /\ r.members \subseteq q.members /\ q.split \in r.members => r = q
         /\ r.members \subseteq q.members /\ q.join \in r.members => r = q
         /\ r.split # q.join
<1> DEFINE B == Below(g)
           A == Above(g)
<1>1. /\ \A x, y \in DOMAIN B : x \in B[y] /\ y \in B[x] => x = y
      /\ \A x, y, z : Nearest(B, y, x) /\ Nearest(B, z, x) => y = z
  BY BelowDominance DEF Dominance
<1>2. /\ \A x, y \in DOMAIN A : x \in A[y] /\ y \in A[x] => x = y
      /\ \A x, y, z : Nearest(A, y, x) /\ Nearest(A, z, x) => y = z
  BY AboveDominance DEF Dominance
<1>3. r.split = q.split => r.join = q.join
  BY <1>2, RegionRules
<1>4. r.join = q.join => r.split = q.split
  BY <1>1, RegionRules
<1>5. r.split = q.split => r = q
  <2>1. r.members = B[r.split] \cap A[r.join] /\ q.members = B[q.split] \cap A[q.join]
    BY RegionRules
  <2>2. /\ r = [split |-> r.split, join |-> r.join, members |-> r.members]
        /\ q = [split |-> q.split, join |-> q.join, members |-> q.members]
    BY RegionRules
  <2> HIDE DEF A, B
  <2> QED BY <1>3, <2>1, <2>2
<1>6. r.members \subseteq q.members /\ q.split \in r.members => r = q
  <2>1. r.split \in r.members /\ r.members \subseteq B[r.split] /\ q.members \subseteq B[q.split]
        /\ r.split \in DOMAIN B /\ q.split \in DOMAIN B
    BY RegionEnds
  <2> QED BY <1>1, <1>5, <2>1
<1>7. r.members \subseteq q.members /\ q.join \in r.members => r = q
  <2>1. r.join \in r.members /\ r.members \subseteq A[r.join] /\ q.members \subseteq A[q.join]
        /\ r.join \in DOMAIN A /\ q.join \in DOMAIN A
    BY RegionEnds
  <2> QED BY <1>2, <1>4, <1>5, <2>1
<1>8. ASSUME r.split = q.join PROVE FALSE
  <2>1. r.split \in r.members /\ q.join \in q.members /\ r.split # r.join
    BY RegionEnds
  <2>2. r # q
    BY <1>8, <2>1
  <2>3. r.members \subseteq q.members \/ q.members \subseteq r.members
    BY <1>8, <2>1, RegionsBalanced
  <2>4. ~(r.members \subseteq q.members)
    BY <1>7, <1>8, <2>1, <2>2
  <2>5. CASE q.members \subseteq r.members
    <3>1. r.split \in q.members
      BY <1>8, <2>1
    <3>2. q.split \in r.members /\ q.split \in q.members
      BY <2>5, RegionEnds
    <3>3. q.split \in B[r.split] /\ r.split \in B[q.split]
          /\ q.split \in DOMAIN B /\ r.split \in DOMAIN B
      BY <3>1, <3>2, RegionEnds
    <3> QED BY <1>1, <1>5, <2>2, <3>3
  <2> QED BY <2>3, <2>4, <2>5
<1> QED BY <1>4, <1>5, <1>6, <1>7, <1>8

-----------------------------------------------------------------------------
(* How flows and boundary events cross a region: in at the split, out at the   *)
(* join, and never from behind.                                                *)

LEMMA Kinds ==
  /\ Forking \cap Boundaries = {} /\ Forking \cap Ends = {} /\ Forking \cap Scoped = {}
  /\ "start" \notin Forking /\ "task" \notin Forking /\ "start" \notin Boundaries
  /\ TokenKinds \cap Boundaries = {} /\ Forking \subseteq TokenKinds /\ Scoped \subseteq TokenKinds
  /\ Scoped \cap Choosing = {} /\ Boundaries \cap Choosing = {} /\ Ends \cap Choosing = {}
  /\ Scoped \cap Ends = {} /\ Scoped \cap Boundaries = {}
  BY DEF Forking, Boundaries, Ends, Scoped, TokenKinds, Choosing

LEMMA FlowInto ==
  ASSUME NEW g \in Passed, NEW e \in Control(g, "process"), e[2] \in Within(g, "process"),
         g.kind[e[2]] \in Forking
  PROVE  e[1] \in Within(g, "process") /\ e[2] \in Out(g, e[1]) /\ e[1] \in In(g, e[2])
<1>1. g.kind[e[2]] \notin Boundaries /\ g.kind[e[2]] # "start" /\ e[2] # "sink"
  BY Kinds, LevelElements
<1>2. e[2] \notin DOMAIN g.host
  BY <1>1, FlowLevel
<1>3. e[2] \notin Starts(g, "process")
  BY <1>1 DEF Starts
<1>4. e[1] \in Within(g, "process") /\ e[2] \in Out(g, e[1])
  BY <1>1, <1>2, <1>3, ControlIs
<1> QED BY <1>4, LevelElements DEF Out, In, Elements

LEMMA NoBackEdge ==
  ASSUME NEW g \in Passed, NEW r \in Found(g), NEW x \in r.members
  PROVE  r.split \notin Out(g, x)
<1> DEFINE s == r.split
           B == Below(g)
<1> SUFFICES ASSUME s \in Out(g, x) PROVE FALSE
  OBVIOUS
<1>1. s \in Within(g, "process") /\ g.kind[s] \in Forking /\ s # "source" /\ s \in DOMAIN B
      /\ x \in B[s] /\ x \in Within(g, "process")
  BY RegionEnds, LevelElements
<1>2. PICK e \in Control(g, "process") : e[2] = s /\ e[1] \in DOMAIN B /\ e[1] \notin B[s]
  BY <1>1, BelowDominance DEF Dominance
<1>3. e[1] \in In(g, s)
  BY <1>1, <1>2, FlowInto
<1>4. x \in In(g, s)
  BY <1>1, LevelElements DEF Out, In, Elements
<1>5. Cardinality(In(g, s)) > 1
  BY <1>1, <1>2, <1>3, <1>4, OutIn
<1>6. PICK q \in Found(g) : q.join = s
  BY <1>1, <1>5, RegionsBalanced
<1> QED BY <1>6, RegionOrder

LEMMA RegionExit ==
  ASSUME NEW g \in Passed, NEW r \in Found(g), NEW x \in r.members \ {r.join}
  PROVE  Out(g, x) \subseteq r.members \ {r.split}
<1>1. Out(g, x) \subseteq r.members \cup {r.join}
  BY RegionRules
<1> QED BY <1>1, RegionEnds, NoBackEdge

LEMMA RegionEntry ==
  ASSUME NEW g \in Passed, NEW r \in Found(g), NEW e \in Control(g, "process"),
         e[2] \in r.members \ {r.split}
  PROVE  e[1] \in r.members
<1> DEFINE B == Below(g)
           s == r.split
<1>1. e[2] \in B[s] /\ s \in DOMAIN B /\ e[2] \in Within(g, "process")
  BY RegionEnds
<1>2. e[1] \in {"source"} \cup Within(g, "process")
  <2>1. e[2] \in DOMAIN g.host => g.host[e[2]] \in Within(g, "process")
    BY <1>1, LevelElements
  <2> QED BY <2>1, ControlIs
<1>3. e[1] \in DOMAIN B
  BY <1>2, AllBelow, BelowDominance DEF Dominance
<1>4. e[1] \in B[s]
  BY <1>1, <1>3, BelowDominance DEF Dominance
<1>5. ~EntersFromBehind(g)
  BY PassedType DEF Regular
<1> QED BY <1>4, <1>5 DEF EntersFromBehind, Found, Below

LEMMA RegionHost ==
  ASSUME NEW g \in Passed, NEW r \in Found(g), NEW b \in DOMAIN g.host
  PROVE  /\ b \in r.members <=> g.host[b] \in r.members
         /\ b # r.split /\ b # r.join /\ g.host[b] # r.split /\ g.host[b] # r.join
<1> DEFINE A == Above(g)
           B == Below(g)
           h == g.host[b]
           s == r.split
           j == r.join
<1>1. b # s /\ b # j /\ h # s /\ h # j
  <2>1. g.kind[b] \in Boundaries /\ g.kind[h] \in Scoped \cup {"task"}
    BY FlowLevel
  <2>2. g.kind[s] \in Forking /\ g.kind[j] \in Forking
    BY RegionEnds
  <2> QED BY <2>1, <2>2, Kinds
<1>2. ASSUME b \in r.members PROVE h \in r.members
  <2>1. <<h, b>> \in Control(g, "process")
    BY <1>2, RegionEnds, ControlHas
  <2> DEFINE e == <<h, b>>
  <2>2. e[1] \in r.members
    BY <1>1, <1>2, <2>1, RegionEntry
  <2> QED BY <2>2
<1>3. ASSUME h \in r.members PROVE b \in r.members
  <2>1. b \in Within(g, "process") /\ h \in B[s] /\ h \in A[j] /\ s \in DOMAIN B /\ j \in DOMAIN A
    BY <1>3, RegionEnds, LevelElements
  <2>2. b \in DOMAIN B /\ b \in DOMAIN A /\ b # "source"
    BY <2>1, AllBelow, AllAbove, LevelElements
  <2>3. ASSUME NEW e \in Control(g, "process"), e[2] = b PROVE e[1] = h
    <3>1. g.kind[b] \in Boundaries /\ b # "sink"
      BY <2>1, FlowLevel, LevelElements
    <3>2. b \notin Starts(g, "process")
      BY <3>1, Kinds DEF Starts
    <3>3. \A x : b \notin Out(g, x)
      BY <3>1, FlowLevel
    <3> QED BY <2>3, <3>1, <3>2, <3>3, ControlIs
  <2>4. b \in B[s]
    BY <2>1, <2>2, <2>3, BelowDominance DEF Dominance
  <2>5. b \in A[j]
    <3> DEFINE e == <<b, h>>
    <3>1. <<h, b>> \in Control(g, "process")
      BY <2>1, ControlHas
    <3>2. e \in Backward(g)
      BY <3>1 DEF Backward
    <3>3. e[1] \in DOMAIN A /\ e[2] \in A[j] /\ e[2] # j
      BY <1>1, <2>1, <2>2
    <3>4. e[1] \in A[j]
      BY <2>1, <3>2, <3>3, AboveDominance DEF Dominance
    <3> QED BY <3>4
  <2> QED BY <2>4, <2>5, RegionEnds
<1> QED BY <1>1, <1>2, <1>3

LEMMA JoinOut ==
  ASSUME NEW g \in Passed, NEW r \in Found(g)
  PROVE  /\ Cardinality(Out(g, r.join)) <= 1
         /\ \A y \in Out(g, r.join) : y \notin r.members
<1> DEFINE A == Above(g)
           j == r.join
<1>1. j \in Within(g, "process") /\ g.kind[j] \in Forking /\ j \in DOMAIN A /\ j # "sink"
  BY RegionEnds, LevelElements
<1>2. Cardinality(Out(g, j)) <= 1
  <2>1. Cardinality(Out(g, j)) \in Nat
    BY OutIn, FS_CardinalityType
  <2>2. SUFFICES ASSUME Cardinality(Out(g, j)) > 1 PROVE FALSE
    BY <2>1
  <2>3. j \in Splits(g, "process")
    BY <1>1, <2>2 DEF Splits
  <2>4. PICK q \in Found(g) : q.split = j
    BY <2>3, RegionsBalanced
  <2> QED BY <2>4, RegionOrder
<1>3. PICK e \in Backward(g) : e[2] = j /\ e[1] \in DOMAIN A /\ e[1] \notin A[j]
  BY <1>1, AboveDominance DEF Dominance
<1>4. e[1] \in Out(g, j)
  <2> DEFINE f == <<e[2], e[1]>>
  <2>1. f \in Control(g, "process")
    BY BackwardIs
  <2>2. f[1] = j /\ f[2] = e[1]
    BY <1>3
  <2>3. ~(f[2] \in DOMAIN g.host /\ f[1] = g.host[f[2]])
    BY <2>2, RegionHost
  <2>4. f[1] # "source"
    BY <1>1, <2>2, LevelElements
  <2>5. ~(f[2] = "sink" /\ Out(g, f[1]) = {})
    <3>1. Out(g, j) # {}
      <4>1. j \in Of(g, TokenKinds) /\ g.kind[j] \notin Ends
        BY <1>1, Kinds, LevelElements DEF Of, Elements
      <4>2. Degrees(g)
        BY PassedType DEF Accepted
      <4> QED BY <4>1, <4>2 DEF Degrees
    <3> QED BY <2>2, <3>1
  <2> HIDE DEF f
  <2>6. f[2] \in Out(g, f[1])
    BY <2>1, <2>3, <2>4, <2>5, ControlIs
  <2> QED BY <2>2, <2>6
<1>5. ASSUME NEW y \in Out(g, j) PROVE y \notin r.members
  <2>1. Cardinality(Out(g, j)) \in Nat
    BY OutIn, FS_CardinalityType
  <2>2. y = e[1]
    BY <1>2, <1>4, <2>1, OutIn
  <2> QED BY <1>3, <2>2, RegionEnds
<1> QED BY <1>2, <1>5

\* No end is inside a region.
LEMMA NoEndInside ==
  ASSUME NEW g \in Passed, NEW r \in Found(g), NEW x \in r.members
  PROVE  Out(g, x) # {} /\ g.kind[x] \notin Ends
<1> DEFINE A == Above(g)
           j == r.join
<1>1. x \in Within(g, "process") /\ x \in A[j] /\ j \in DOMAIN A /\ j # "sink" /\ x \in Elements(g)
  BY RegionEnds, LevelElements
<1>2. Degrees(g)
  BY PassedType DEF Accepted
<1>3. g.kind[x] \in Boundaries => Out(g, x) # {}
  <2>1. ASSUME g.kind[x] \in Boundaries PROVE Out(g, x) # {}
    <3>1. x \in DOMAIN g.host /\ Attached(g)
      BY <1>1, <2>1, FlowLevel, PassedType DEF Accepted
    <3>2. Cardinality(Out(g, x)) = 1
      BY <3>1 DEF Attached
    <3> QED BY <3>2, FS_EmptySet
  <2> QED BY <2>1
<1>4. Out(g, x) # {}
  <2>1. SUFFICES ASSUME Out(g, x) = {} PROVE FALSE
    OBVIOUS
  <2> DEFINE e == <<"sink", x>>
  <2>2. <<x, "sink">> \in Control(g, "process")
    BY <1>1, <2>1, ControlHas
  <2>3. e \in Backward(g)
    BY <2>2 DEF Backward
  <2>4. x # j
    <3>1. g.kind[j] \in Forking /\ j \in Of(g, TokenKinds)
      BY RegionEnds, LevelElements, Kinds DEF Of, Elements
    <3>2. Out(g, j) # {}
      BY <1>2, <3>1, Kinds DEF Degrees
    <3> QED BY <2>1, <3>2
  <2>5. e[1] \in DOMAIN A /\ e[2] \in A[j] /\ e[2] # j
    BY <1>1, <2>4, AboveDominance DEF Dominance
  <2>6. e[1] \in A[j]
    BY <1>1, <2>3, <2>5, AboveDominance DEF Dominance
  <2>7. "sink" \in A[j]
    BY <2>6
  <2> QED BY <1>1, <2>7, AboveDominance DEF Dominance
<1>5. g.kind[x] \notin Ends
  <2>1. g.kind[x] \in Ends => x \in Of(g, TokenKinds)
    BY <1>1 DEF Of, Elements, TokenKinds
  <2> QED BY <1>2, <1>4, <2>1 DEF Degrees
<1> QED BY <1>4, <1>5

-----------------------------------------------------------------------------
(* Where a token is at the top level: the element there that it is in or at.   *)

Top(g, x) == CHOOSE m \in Around(g, x) \ {"process"} : g.scope[m] = "process"

LEMMA TopIs ==
  ASSUME NEW g \in Passed, NEW x \in Elements(g)
  PROVE  /\ Top(g, x) \in Around(g, x) /\ Top(g, x) \in Within(g, "process")
         /\ \A m \in Around(g, x) : m \in Within(g, "process") => m = Top(g, x)
<1>1. g \in Graphs
  BY DEF Passed
<1>2. Around(g, x) \subseteq {"process"} \cup Elements(g)
  BY <1>1, AroundBounded
<1>3. \E m \in Around(g, x) \ {"process"} : g.scope[m] = "process"
  <2>1. SUFFICES ASSUME \A m \in Around(g, x) \ {"process"} : g.scope[m] # "process" PROVE FALSE
    OBVIOUS
  <2> DEFINE S == Around(g, x) \ {"process"}
  <2>2. x \in S
    BY <1>1, AroundLeast, GraphType
  <2>3. \A y \in Elements(g) : y \in S => g.scope[y] \in S
    BY <1>1, <2>1, AroundLeast
  <2>4. "process" \notin S
    OBVIOUS
  <2> HIDE DEF S
  <2>5. Around(g, x) \subseteq S
    BY <1>1, <2>2, <2>3, AroundLeast
  <2> QED BY <1>1, <2>4, <2>5, AroundEnds
<1>4. Top(g, x) \in Around(g, x) \ {"process"} /\ g.scope[Top(g, x)] = "process"
  BY <1>3 DEF Top
<1>5. Top(g, x) \in Within(g, "process")
  BY <1>2, <1>4, LevelElements
<1>6. ASSUME NEW m \in Around(g, x), NEW n \in Around(g, x), m \in Within(g, "process"),
             n \in Within(g, "process"), m \in Around(g, n)
      PROVE  m = n
  <2>1. n \in Elements(g) /\ g.scope[n] = "process" /\ m # "process"
    BY <1>1, <1>6, LevelElements, GraphType
  <2>2. Around(g, n) = {n} \cup {"process"}
    BY <1>1, <2>1, AroundStep, AroundProcess
  <2> QED BY <1>6, <2>1, <2>2
<1>7. \A m \in Around(g, x) : m \in Within(g, "process") => m = Top(g, x)
  BY <1>1, <1>4, <1>5, <1>6, AroundChain
<1> QED BY <1>4, <1>5, <1>7

LEMMA TopAround ==
  ASSUME NEW g \in Passed, NEW x \in Elements(g)
  PROVE  /\ \A h \in Around(g, x) : h \in Elements(g) => Top(g, h) = Top(g, x)
         /\ g.scope[x] = "process" => Top(g, x) = x
         /\ g.scope[x] # "process" => g.scope[x] \in Elements(g) /\ Top(g, x) = Top(g, g.scope[x])
<1>1. g \in Graphs
  BY DEF Passed
<1>2. ASSUME NEW h \in Around(g, x), h \in Elements(g) PROVE Top(g, h) = Top(g, x)
  <2>1. Top(g, h) \in Around(g, x)
    BY <1>1, <1>2, TopIs, AroundNests
  <2> QED BY <1>2, <2>1, TopIs
<1>3. x \in Around(g, x) /\ g.scope[x] \in Around(g, x)
  BY <1>1, AroundLeast
<1>4. g.scope[x] = "process" => x \in Within(g, "process")
  BY LevelElements
<1>5. g.scope[x] # "process" => g.scope[x] \in Elements(g)
  BY <1>1, GraphType
<1> QED BY <1>2, <1>3, <1>4, <1>5, TopIs

\* Nothing is inside a gateway: a token at one is at the top level.
LEMMA TopGateway ==
  ASSUME NEW g \in Passed, NEW x \in Elements(g), g.kind[Top(g, x)] \in Forking
  PROVE  Top(g, x) = x /\ Around(g, x) = {x, "process"}
<1>1. g \in Graphs
  BY DEF Passed
<1>2. Top(g, x) \notin Scopes(g)
  BY <1>1, TopIs, LevelElements, GraphType, Kinds DEF Scopes, Of
<1>3. Top(g, x) = x
  BY <1>1, <1>2, TopIs, AroundScopes
<1>4. g.scope[x] = "process"
  BY <1>3, TopIs, LevelElements
<1> QED BY <1>1, <1>3, <1>4, AroundStep, AroundProcess

\* One step of a token, but for a merge: into a scope, on from what it is in, or out by a boundary.
Hop(g, x, y) ==
  \/ g.scope[y] = x
  \/ \E h \in Around(g, x) \cap Elements(g) :
       y \in Out(g, h) \/ \E b \in DOMAIN g.host : g.host[b] = h /\ y \in Out(g, b)

LEMMA HopTop ==
  ASSUME NEW g \in Passed, NEW x \in Elements(g), NEW y \in Elements(g), Hop(g, x, y)
  PROVE  \/ Top(g, y) = Top(g, x)
         \/ Top(g, y) \in Out(g, Top(g, x))
         \/ \E b \in DOMAIN g.host : g.host[b] = Top(g, x) /\ Top(g, y) \in Out(g, b)
<1>1. CASE g.scope[y] = x
  <2>1. g.scope[y] # "process"
    BY <1>1, PassedType, GraphType
  <2> QED BY <1>1, <2>1, TopAround
<1>2. CASE \E h \in Around(g, x) \cap Elements(g) :
             y \in Out(g, h) \/ \E b \in DOMAIN g.host : g.host[b] = h /\ y \in Out(g, b)
  <2>1. PICK h \in Around(g, x) \cap Elements(g) :
               y \in Out(g, h) \/ \E b \in DOMAIN g.host : g.host[b] = h /\ y \in Out(g, b)
    BY <1>2
  <2>2. g.scope[y] = g.scope[h]
    <3>1. y \in Out(g, h) => g.scope[y] = g.scope[h]
      BY OutLevel
    <3>2. ASSUME NEW b \in DOMAIN g.host, y \in Out(g, b)
          PROVE  g.scope[y] = g.scope[g.host[b]]
      <4>1. g.scope[y] = g.scope[b]
        BY <3>2, OutLevel
      <4>2. g.scope[b] = g.scope[g.host[b]]
        BY FlowLevel
      <4> QED BY <4>1, <4>2
    <3> QED BY <2>1, <3>1, <3>2
  <2>3. Top(g, h) = Top(g, x)
    BY <2>1, TopAround
  <2>4. CASE g.scope[h] = "process"
    <3>1. Top(g, y) = y /\ Top(g, x) = h
      BY <2>1, <2>2, <2>3, <2>4, TopAround
    <3> QED BY <2>1, <3>1
  <2>5. CASE g.scope[h] # "process"
    <3>1. Top(g, y) = Top(g, g.scope[h]) /\ Top(g, h) = Top(g, g.scope[h])
      BY <2>1, <2>2, <2>5, TopAround
    <3> QED BY <2>3, <3>1
  <2> QED BY <2>4, <2>5
<1> QED BY <1>1, <1>2 DEF Hop

-----------------------------------------------------------------------------
(* Being inside a region, past its split: only a fork at the split begins it, and only a *)
(* merge at the join ends it.                                                             *)

Inside(g, r, x) == Top(g, x) \in r.members \ {r.split}

LEMMA HopInside ==
  ASSUME NEW g \in Passed, NEW r \in Found(g), NEW x \in Elements(g), NEW y \in Elements(g),
         Hop(g, x, y), x # r.split, x # r.join
  PROVE  Inside(g, r, x) <=> Inside(g, r, y)
<1> DEFINE a == Top(g, x)
           b == Top(g, y)
<1>1. a # r.split /\ a # r.join
  BY RegionEnds, TopGateway
<1>2. a \in Within(g, "process")
  BY TopIs
<1>3. CASE b = a
  BY <1>3 DEF Inside
<1>4. CASE b \in Out(g, a)
  <2>1. a \in r.members => b \in r.members \ {r.split}
    BY <1>1, <1>4, RegionExit
  <2>2. b \in r.members \ {r.split} => a \in r.members
    <3> DEFINE e == <<a, b>>
    <3>1. e \in Control(g, "process") /\ e[1] = a /\ e[2] = b
      BY <1>2, <1>4, ControlHas
    <3> HIDE DEF e, a, b
    <3> QED BY <3>1, RegionEntry
  <2> QED BY <1>1, <2>1, <2>2 DEF Inside
<1>5. CASE \E c \in DOMAIN g.host : g.host[c] = a /\ b \in Out(g, c)
  <2>1. PICK c \in DOMAIN g.host : g.host[c] = a /\ b \in Out(g, c)
    BY <1>5
  <2>2. c \in r.members <=> a \in r.members
    BY <2>1, RegionHost
  <2>3. c # r.split /\ c # r.join
    BY RegionHost
  <2>4. c \in Within(g, "process")
    BY <1>2, <2>1, LevelElements
  <2>5. c \in r.members => b \in r.members \ {r.split}
    BY <2>1, <2>3, RegionExit
  <2>6. b \in r.members \ {r.split} => c \in r.members
    <3> DEFINE e == <<c, b>>
    <3>1. e \in Control(g, "process") /\ e[1] = c /\ e[2] = b
      BY <2>1, <2>4, ControlHas
    <3> HIDE DEF e, a, b
    <3> QED BY <3>1, RegionEntry
  <2> QED BY <1>1, <2>2, <2>5, <2>6 DEF Inside
<1> QED BY <1>3, <1>4, <1>5, HopTop

LEMMA ForkInside ==
  ASSUME NEW g \in Passed, NEW r \in Found(g), NEW q \in Found(g), NEW y \in Out(g, q.split)
  PROVE  Inside(g, r, y) <=> Inside(g, r, q.split) \/ r.split = q.split
<1> DEFINE s == q.split
           e == <<s, y>>
<1>1. s \in Within(g, "process") /\ y \in Within(g, "process") /\ s \in Elements(g) /\ y \in Elements(g)
  BY RegionEnds, LevelElements
<1>2. Top(g, s) = s /\ Top(g, y) = y
  BY <1>1, TopAround, LevelElements
<1>3. e \in Control(g, "process") /\ e[1] = s /\ e[2] = y
  BY <1>1, ControlHas
<1> HIDE DEF e
<1>4. y \in r.members \ {r.split} => s \in r.members
  BY <1>3, RegionEntry
<1>5. s \in r.members /\ s # r.join => y \in r.members \ {r.split}
  BY RegionExit
<1>6. s # r.join /\ (r.split = s => s \in r.members)
  BY RegionOrder, RegionEnds
<1> QED BY <1>2, <1>4, <1>5, <1>6 DEF Inside

LEMMA MergeInside ==
  ASSUME NEW g \in Passed, NEW r \in Found(g), NEW q \in Found(g), NEW y \in Out(g, q.join)
  PROVE  Inside(g, r, y) <=> Inside(g, r, q.split)
<1> DEFINE s == q.split
           j == q.join
           e == <<j, y>>
<1>1. /\ s \in Within(g, "process") /\ j \in Within(g, "process") /\ y \in Within(g, "process")
      /\ s \in Elements(g) /\ y \in Elements(g)
  BY RegionEnds, LevelElements
<1>2. Top(g, s) = s /\ Top(g, y) = y
  BY <1>1, TopAround, LevelElements
<1>3. e \in Control(g, "process") /\ e[1] = j /\ e[2] = y
  BY <1>1, ControlHas
<1> HIDE DEF e
<1>4. y \notin q.members /\ s \in q.members /\ j \in q.members
  BY JoinOut, RegionEnds
<1>5. \/ r.members \cap q.members = {} \/ r.members \subseteq q.members \/ q.members \subseteq r.members
  BY RegionsBalanced
<1>6. ASSUME y \in r.members \ {r.split} PROVE s \in r.members \ {r.split}
  <2>1. j \in r.members
    BY <1>3, <1>6, RegionEntry
  <2>2. q.members \subseteq r.members
    BY <1>4, <1>5, <1>6, <2>1
  <2> QED BY <1>4, <1>6, <2>2, RegionOrder
<1>7. ASSUME s \in r.members \ {r.split} PROVE y \in r.members \ {r.split}
  <2>1. ~(r.members \subseteq q.members)
    <3>1. r.split \in r.members
      BY RegionEnds
    <3>2. ASSUME r.members \subseteq q.members PROVE FALSE
      <4>1. s \in r.members /\ q # r
        BY <1>7
      <4> QED BY <3>2, <4>1, RegionOrder
    <3> QED BY <3>2
  <2>2. q.members \subseteq r.members
    BY <1>4, <1>5, <1>7, <2>1
  <2>3. j # r.join
    BY <1>7, RegionOrder
  <2>4. j \in r.members \ {r.join}
    BY <1>4, <2>2, <2>3
  <2> QED BY <2>4, RegionExit
<1> QED BY <1>2, <1>6, <1>7 DEF Inside

-----------------------------------------------------------------------------
(* The walk.  A token is past a split, and not yet past its join, just when its *)
(* name tells of a fork there; an owner stays at its split until the merge.     *)

Names(g) == Seq(Elements(g) \X Elements(g))
Named(t, s) == \E i \in 1..Len(t) : t[i][1] = s

Typed ==
  /\ graph \in Passed /\ regions = Found(graph)
  /\ \A t \in DOMAIN token : t \in Names(graph) /\ token[t].at \in Of(graph, TokenKinds)

Tree ==
  /\ \A t \in DOMAIN token : t = Root \/ \E o \in DOMAIN open : t \in Branches(o)
  /\ \A o \in DOMAIN open :
       /\ o \in DOMAIN token /\ Branches(o) \subseteq DOMAIN token
       /\ open[o].region \in regions /\ token[o].at = open[o].region.split
       /\ open[o].taken # {} /\ open[o].taken \subseteq Out(graph, open[o].region.split)

InsideAsNamed ==
  \A t \in DOMAIN token : \A r \in regions :
    Inside(graph, r, token[t].at) <=> Named(t, r.split)

WalkInv == Typed /\ Tree /\ InsideAsNamed

LEMMA RegionsAtTop ==
  ASSUME NEW g \in Passed
  PROVE  UNION {RegionsOf(g, s) : s \in Scopes(g)} = Found(g)
<1>1. ASSUME NEW s \in Scopes(g), s # "process" PROVE RegionsOf(g, s) = {}
  <2>1. \A x \in Of(g, Forking) : g.scope[x] = "process"
    BY PassedType DEF Regular
  <2>2. Splits(g, s) = {}
    BY <1>1, <2>1 DEF Splits, Within, Of
  <2> QED BY <2>2 DEF RegionsOf
<1>2. "process" \in Scopes(g)
  BY DEF Scopes
<1> QED BY <1>1, <1>2 DEF Found

LEMMA StartIs ==
  ASSUME graph \in Passed, NEW s \in Scopes(graph)
  PROVE  /\ Start(s) \in Starts(graph, s) /\ Start(s) \in Of(graph, TokenKinds)
         /\ Start(s) \in Elements(graph) /\ graph.scope[Start(s)] = s
<1>1. Degrees(graph)
  BY PassedType DEF Accepted
<1>2. Starts(graph, s) # {}
  BY <1>1, FS_EmptySet DEF Degrees
<1>3. Start(s) \in Starts(graph, s)
  BY <1>2 DEF Start
<1> QED BY <1>3 DEF Starts, Within, Of, Elements, TokenKinds

LEMMA NamedAppend ==
  ASSUME NEW g, NEW t \in Names(g), NEW s \in Elements(g), NEW y \in Elements(g)
  PROVE  /\ Append(t, <<s, y>>) \in Names(g) /\ Append(t, <<s, y>>) # <<>>
         /\ \A z : Named(Append(t, <<s, y>>), z) <=> Named(t, z) \/ z = s
         /\ Append(t, <<s, y>>)[Len(Append(t, <<s, y>>))] = <<s, y>>
<1> DEFINE S == Elements(g) \X Elements(g)
           e == <<s, y>>
           w == Append(t, e)
<1>1. t \in Seq(S) /\ e \in S
  BY DEF Names
<1> HIDE DEF S
<1>2. w \in Seq(S) /\ Len(w) = Len(t) + 1 /\ w[Len(w)] = e /\ Len(t) \in Nat
      /\ \A i \in 1..Len(t) : w[i] = t[i]
  <2> HIDE DEF e
  <2> QED BY <1>1
<1>3. w # <<>>
  <2>1. Len(<<>>) = 0 /\ Len(w) > 0
    BY <1>2
  <2> HIDE DEF w
  <2> QED BY <2>1
<1>4. \A z : Named(w, z) <=> Named(t, z) \/ z = s
  <2>1. 1..Len(w) = 1..Len(t) \cup {Len(w)}
    BY <1>2
  <2>2. w[Len(w)][1] = s
    BY <1>2
  <2> HIDE DEF w, e
  <2> QED BY <1>2, <2>1, <2>2 DEF Named
<1> QED BY <1>2, <1>3, <1>4 DEF Names, S

LEMMA AppendApart ==
  ASSUME NEW S, NEW t \in Seq(S), NEW u \in Seq(S), NEW e \in S, NEW f \in S,
         Append(u, f) = Append(t, e)
  PROVE  u = t
<1>1. \A v \in Seq(S) : \A d \in S :
        /\ Len(Append(v, d)) = Len(v) + 1 /\ Len(v) \in Nat
        /\ \A i \in 1..Len(v) : Append(v, d)[i] = v[i]
  OBVIOUS
<1>2. Len(u) = Len(t) /\ \A i \in 1..Len(t) : u[i] = t[i]
  BY <1>1
<1> QED BY <1>2

LEMMA WalkInit == Init => WalkInv
<1> SUFFICES ASSUME Init PROVE WalkInv
  OBVIOUS
<1>1. graph \in Passed /\ regions = Found(graph)
  BY RegionsAtTop DEF Init, Passed
<1> DEFINE x == Start("process")
<1>2. DOMAIN token = {Root} /\ token[Root].at = x /\ DOMAIN open = {}
  BY DEF Init
<1>3. x \in Starts(graph, "process") /\ x \in Of(graph, TokenKinds) /\ x \in Elements(graph)
  BY <1>1, StartIs DEF Scopes
<1>4. Typed
  BY <1>1, <1>2, <1>3 DEF Typed, Names, Root
<1>5. Tree
  BY <1>2 DEF Tree
<1>6. ASSUME NEW r \in regions PROVE ~Inside(graph, r, x)
  <2>1. Top(graph, x) = x
    BY <1>1, <1>3, TopAround, LevelElements
  <2> DEFINE e == <<"source", x>>
  <2>2. e \in Control(graph, "process") /\ e[1] = "source" /\ e[2] = x
    BY <1>1, <1>3, ControlHas
  <2> HIDE DEF e, x
  <2>3. x \in r.members \ {r.split} => "source" \in r.members
    BY <1>1, <2>2, RegionEntry
  <2>4. "source" \notin r.members
    BY <1>1, RegionEnds, LevelElements
  <2> QED BY <2>1, <2>3, <2>4 DEF Inside
<1>7. \A s : ~Named(Root, s)
  BY DEF Named, Root
<1>8. InsideAsNamed
  BY <1>2, <1>6, <1>7 DEF InsideAsNamed
<1> QED BY <1>4, <1>5, <1>8 DEF WalkInv

LEMMA WalkGoes ==
  ASSUME WalkInv, NEW t \in Moving, NEW y \in Of(graph, TokenKinds), NEW skips, Go(t, y, skips),
         \A r \in regions : Inside(graph, r, token[t].at) <=> Inside(graph, r, y)
  PROVE  WalkInv'
<1>1. /\ graph' = graph /\ regions' = regions /\ open' = open /\ DOMAIN token' = DOMAIN token
      /\ t \in DOMAIN token /\ t \notin DOMAIN open /\ token'[t].at = y
      /\ \A u \in DOMAIN token : u # t => token'[u] = token[u]
  BY DEF Go, Moving
<1>2. Typed'
  BY <1>1 DEF WalkInv, Typed
<1>3. \A o \in DOMAIN open : Branches(o)' = Branches(o)
  BY <1>1 DEF Branches
<1>4. Tree'
  <2>1. \A u \in DOMAIN token' : u = Root \/ \E o \in DOMAIN open' : u \in Branches(o)'
    BY <1>1, <1>3 DEF WalkInv, Tree
  <2>2. ASSUME NEW o \in DOMAIN open'
        PROVE  /\ o \in DOMAIN token' /\ Branches(o)' \subseteq DOMAIN token'
               /\ open'[o].region \in regions' /\ token'[o].at = open'[o].region.split
               /\ open'[o].taken # {} /\ open'[o].taken \subseteq Out(graph', open'[o].region.split)
    BY <1>1, <1>3 DEF WalkInv, Tree
  <2> QED BY <2>1, <2>2 DEF Tree, Root
<1>5. InsideAsNamed'
  BY <1>1 DEF WalkInv, InsideAsNamed
<1> QED BY <1>2, <1>4, <1>5 DEF WalkInv

LEMMA TokenAt ==
  ASSUME WalkInv, NEW t \in DOMAIN token
  PROVE  /\ token[t].at \in Elements(graph) /\ graph \in Passed /\ regions = Found(graph)
         /\ graph.kind[token[t].at] \in TokenKinds /\ graph.kind[token[t].at] \notin Boundaries
  BY Kinds DEF WalkInv, Typed, Of, Elements

LEMMA OutToken ==
  ASSUME NEW g \in Passed, NEW x, NEW y \in Out(g, x)
  PROVE  y \in Of(g, TokenKinds) /\ y \in Elements(g)
<1>1. y \in Elements(g) /\ g.kind[y] \notin Boundaries
  BY OutLevel
<1>2. g.kind[y] \in TokenKinds \cup Boundaries
  BY <1>1, PassedType, GraphType
<1> QED BY <1>1, <1>2 DEF Of, Elements

\* A step by a hop from a node that is no split and no join.
LEMMA WalkHops ==
  ASSUME WalkInv, NEW t \in Moving, NEW y \in Of(graph, TokenKinds), NEW skips, Go(t, y, skips),
         Hop(graph, token[t].at, y),
         \A r \in regions : token[t].at # r.split /\ token[t].at # r.join
  PROVE  WalkInv'
<1>1. t \in DOMAIN token /\ y \in Elements(graph)
  BY DEF Moving, Of, Elements
<1>2. \A r \in regions : Inside(graph, r, token[t].at) <=> Inside(graph, r, y)
  BY <1>1, TokenAt, HopInside
<1> QED BY <1>2, WalkGoes

LEMMA LeafAt ==
  ASSUME WalkInv, NEW t, NEW kinds, Leaf(t, kinds)
  PROVE  /\ t \in Moving /\ t \in DOMAIN token /\ graph.kind[token[t].at] \in kinds
         /\ \A r \in regions : token[t].at # r.split /\ token[t].at # r.join
  BY DEF Leaf, Moving, SplitAt, JoinAt

LEMMA HopOut ==
  ASSUME NEW g \in Passed, NEW x, NEW h \in Around(g, x), NEW y \in Out(g, h)
  PROVE  Hop(g, x, y)
  BY OutLevel DEF Hop

LEMMA HopBoundary ==
  ASSUME NEW g \in Passed, NEW x, NEW h \in Around(g, x), NEW kinds, NEW b \in On(g, h, kinds),
         NEW y \in Out(g, b)
  PROVE  Hop(g, x, y) /\ h \in Elements(g)
<1>1. b \in DOMAIN g.host /\ g.host[b] = h
  BY DEF On
<1>2. h \in Elements(g)
  BY <1>1, FlowLevel
<1> QED BY <1>1, <1>2 DEF Hop

LEMMA FollowWalks == ASSUME WalkInv, NEW t \in DOMAIN token, Follow(t) PROVE WalkInv'
<1>1. PICK y \in Out(graph, token[t].at) : Go(t, y, Carried(t, y))
  BY DEF Follow
<1>2. Leaf(t, {"start", "task", "wait", "xor", "gate"})
  BY DEF Follow
<1>3. token[t].at \in Around(graph, token[t].at)
  BY TokenAt, PassedType, AroundLeast
<1>4. Hop(graph, token[t].at, y) /\ y \in Of(graph, TokenKinds)
  BY <1>3, TokenAt, HopOut, OutToken
<1> QED BY <1>1, <1>2, <1>4, LeafAt, WalkHops

LEMMA EnterWalks ==
  ASSUME WalkInv, NEW t \in DOMAIN token, Enter(t), token[t].at \notin skipped PROVE WalkInv'
<1> DEFINE y == Start(token[t].at)
<1>1. Go(t, y, token[t].skips) /\ Leaf(t, Scoped)
  BY DEF Enter
<1>2. token[t].at \in Scopes(graph)
  BY <1>1, LeafAt, TokenAt DEF Scopes, Of, Elements
<1>3. y \in Of(graph, TokenKinds) /\ graph.scope[y] = token[t].at
  BY <1>2, StartIs, TokenAt
<1>4. Hop(graph, token[t].at, y)
  BY <1>3 DEF Hop
<1> QED BY <1>1, <1>3, <1>4, LeafAt, WalkHops

LEMMA ScopeAround ==
  ASSUME WalkInv, NEW t \in DOMAIN token
  PROVE  /\ token[t].at \in Around(graph, token[t].at)
         /\ graph.scope[token[t].at] \in Around(graph, token[t].at)
  BY TokenAt, PassedType, AroundLeast

LEMMA LeaveWalks == ASSUME WalkInv, NEW t \in DOMAIN token, Leave(t) PROVE WalkInv'
<1>1. PICK y \in Out(graph, graph.scope[token[t].at]) : Go(t, y, token[t].skips)
  BY DEF Leave
<1>2. Leaf(t, {"end"})
  BY DEF Leave
<1>3. Hop(graph, token[t].at, y) /\ y \in Of(graph, TokenKinds)
  BY ScopeAround, TokenAt, HopOut, OutToken
<1> QED BY <1>1, <1>2, <1>3, LeafAt, WalkHops

LEMMA CatcherAround ==
  ASSUME WalkInv, NEW t \in DOMAIN token
  PROVE  Catcher(graph, graph.scope[token[t].at]) \in Around(graph, token[t].at)
<1>1. graph.scope[token[t].at] \in Scopes(graph)
  BY TokenAt, PassedType, GraphType
<1>2. Catcher(graph, graph.scope[token[t].at]) \in Around(graph, graph.scope[token[t].at])
  BY <1>1, TokenAt, PassedType, CatcherFound
<1> QED BY <1>2, ScopeAround, TokenAt, PassedType, AroundNests

ThrowHost(t) ==
  LET x == token[t].at
  IN  IF On(graph, x, {"onError"}) # {} THEN x ELSE Catcher(graph, graph.scope[x])

LEMMA ThrowWalks ==
  ASSUME WalkInv, NEW t \in DOMAIN token, Throw(t), ThrowHost(t) # "process" PROVE WalkInv'
<1> DEFINE h == ThrowHost(t)
<1>1. Leaf(t, {"task", "error"})
  BY DEF Throw
<1>2. PICK b \in On(graph, h, {"onError"}) : \E y \in Out(graph, b) : Go(t, y, token[t].skips)
  BY DEF Throw, ThrowHost
<1>3. PICK y \in Out(graph, b) : Go(t, y, token[t].skips)
  BY <1>2
<1>4. h \in Around(graph, token[t].at)
  BY ScopeAround, CatcherAround DEF ThrowHost
<1> HIDE DEF h
<1>5. Hop(graph, token[t].at, y) /\ y \in Of(graph, TokenKinds)
  BY <1>4, TokenAt, HopBoundary, OutToken
<1> QED BY <1>1, <1>3, <1>5, LeafAt, WalkHops

LEMMA CancelWalks ==
  ASSUME WalkInv, NEW t \in DOMAIN token, Cancel(t),
         graph.scope[graph.scope[token[t].at]] # "process" PROVE WalkInv'
<1> DEFINE tx == graph.scope[token[t].at]
<1>1. Leaf(t, {"cancel"})
  BY DEF Cancel
<1>2. PICK b \in On(graph, tx, {"onCancel"}) : Skip(t, tx, b)
  BY DEF Cancel
<1>3. PICK y \in Out(graph, b) : Go(t, y, token[t].skips \cup {tx})
  BY <1>2 DEF Skip
<1>4. Hop(graph, token[t].at, y) /\ y \in Of(graph, TokenKinds)
  BY ScopeAround, TokenAt, HopBoundary, OutToken
<1> QED BY <1>1, <1>3, <1>4, LeafAt, WalkHops

LEMMA InterruptWalks == ASSUME WalkInv, NEW t \in DOMAIN token, Interrupt(t) PROVE WalkInv'
<1>1. t \in Moving
  BY DEF Interrupt
<1>2. PICK b \in Of(graph, {"onTimer"}) :
        LET h == graph.host[b]
        IN  IF graph.kind[h] = "task"
            THEN token[t].at = h /\ \E y \in Out(graph, b) : Go(t, y, token[t].skips)
            ELSE token[t].at # h /\ h \in Around(graph, token[t].at) /\ Skip(t, h, b)
  BY DEF Interrupt
<1> DEFINE h == graph.host[b]
           x == token[t].at
<1>3. b \in On(graph, h, {"onTimer"}) /\ b \in DOMAIN graph.host
  BY TokenAt, FlowLevel DEF Of, On, Elements, Boundaries
<1>4. h \in Around(graph, x) /\ \E y \in Out(graph, b) : \E skips : Go(t, y, skips)
  BY <1>2, ScopeAround DEF Skip
<1>5. PICK y \in Out(graph, b) : \E skips : Go(t, y, skips)
  BY <1>4
<1>6. Hop(graph, x, y) /\ y \in Of(graph, TokenKinds)
  BY <1>3, <1>4, TokenAt, HopBoundary, OutToken
<1>7. ASSUME NEW r \in regions PROVE x # r.split /\ x # r.join
  <2>1. h # r.split /\ h # r.join /\ h # "process"
    BY <1>3, TokenAt, RegionHost, FlowLevel, PassedType, GraphType
  <2>2. r.split \in Within(graph, "process") /\ r.join \in Within(graph, "process")
        /\ graph.kind[r.split] \in Forking /\ graph.kind[r.join] \in Forking
    BY TokenAt, RegionEnds
  <2>3. ASSUME x \in Within(graph, "process"), graph.kind[x] \in Forking PROVE h = x
    <3>1. Top(graph, x) = x
      BY <2>3, TokenAt, TopAround, LevelElements
    <3>2. Around(graph, x) = {x, "process"}
      BY <2>3, <3>1, TokenAt, TopGateway
    <3> QED BY <1>4, <2>1, <3>2
  <2> QED BY <2>1, <2>2, <2>3
<1> QED BY <1>1, <1>5, <1>6, <1>7, WalkHops

LEMMA WalkStays == ASSUME WalkInv, UNCHANGED <<graph, regions, token, open>> PROVE WalkInv'
<1>1. Typed'
  BY DEF WalkInv, Typed
<1>2. Tree'
  <2>1. \A o : Branches(o)' = Branches(o)
    BY DEF Branches
  <2>2. \A u \in DOMAIN token : u = Root \/ \E o \in DOMAIN open : u \in Branches(o)'
    BY <2>1 DEF WalkInv, Tree
  <2>3. \A o \in DOMAIN open :
          /\ o \in DOMAIN token /\ Branches(o)' \subseteq DOMAIN token
          /\ open[o].region \in regions /\ token[o].at = open[o].region.split
          /\ open[o].taken # {} /\ open[o].taken \subseteq Out(graph, open[o].region.split)
    BY <2>1 DEF WalkInv, Tree
  <2> QED BY <2>2, <2>3 DEF Tree, Root
<1>3. InsideAsNamed'
  BY DEF WalkInv, InsideAsNamed
<1> QED BY <1>1, <1>2, <1>3 DEF WalkInv

LEMMA ForkWalks == ASSUME WalkInv, NEW t \in DOMAIN token, Fork(t) PROVE WalkInv'
<1>1. t \in DOMAIN token /\ t \notin DOMAIN open /\ graph' = graph /\ regions' = regions
  BY DEF Fork, Moving
<1>2. PICK r \in SplitAt(token[t].at) : \E taken \in Activations(r.split) :
        /\ open' = [u \in DOMAIN open \cup {t} |->
                      IF u = t THEN [region |-> r, taken |-> taken] ELSE open[u]]
        /\ token' = [u \in DOMAIN token \cup {Append(t, <<r.split, y>>) : y \in taken} |->
             IF u \in DOMAIN token THEN token[u]
             ELSE [at |-> u[Len(u)][2], skips |-> Carried(t, u[Len(u)][2])]]
  BY DEF Fork
<1>3. PICK taken \in Activations(r.split) :
        /\ open' = [u \in DOMAIN open \cup {t} |->
                      IF u = t THEN [region |-> r, taken |-> taken] ELSE open[u]]
        /\ token' = [u \in DOMAIN token \cup {Append(t, <<r.split, y>>) : y \in taken} |->
             IF u \in DOMAIN token THEN token[u]
             ELSE [at |-> u[Len(u)][2], skips |-> Carried(t, u[Len(u)][2])]]
  BY <1>2
<1> DEFINE s == r.split
           Branch(y) == Append(t, <<s, y>>)
<1>4. r \in regions /\ s = token[t].at /\ graph \in Passed /\ regions = Found(graph) /\ r \in Found(graph)
      /\ t \in Names(graph) /\ s \in Elements(graph)
  BY TokenAt DEF SplitAt, WalkInv, Typed
<1>5. taken \subseteq Out(graph, s) /\ taken # {}
  <2>1. Out(graph, s) # {}
    BY <1>4, RegionEnds, NoEndInside
  <2>2. Free(graph, s) \subseteq Out(graph, s)
    BY DEF Free
  <2> QED BY <2>1, <2>2 DEF Activations
<1>6. \A y \in taken : y \in Of(graph, TokenKinds) /\ y \in Elements(graph)
  BY <1>4, <1>5, OutToken
<1>7. /\ DOMAIN open' = DOMAIN open \cup {t} /\ open'[t] = [region |-> r, taken |-> taken]
      /\ \A o \in DOMAIN open : open'[o] = open[o]
  BY <1>1, <1>3
<1>8. /\ DOMAIN token' = DOMAIN token \cup {Branch(y) : y \in taken}
      /\ \A u \in DOMAIN token : token'[u] = token[u]
      /\ \A u \in DOMAIN token' : u \notin DOMAIN token =>
           \E y \in taken : u = Branch(y) /\ token'[u].at = u[Len(u)][2]
  BY <1>3
<1>9. \A y \in taken : /\ Branch(y) \in Names(graph) /\ Branch(y)[Len(Branch(y))] = <<s, y>>
                       /\ \A z : Named(Branch(y), z) <=> Named(t, z) \/ z = s
  BY <1>4, <1>6, NamedAppend
<1>10. ASSUME NEW u \in DOMAIN token', u \notin DOMAIN token
      PROVE  \E y \in taken : u = Branch(y) /\ token'[u].at = y
  <2>1. PICK y \in taken : u = Branch(y) /\ token'[u].at = u[Len(u)][2]
    BY <1>8, <1>10
  <2>2. u[Len(u)] = <<s, y>>
    BY <1>9, <2>1
  <2> QED BY <2>1, <2>2
<1> HIDE DEF Branch
<1>11. Typed'
  <2>1. ASSUME NEW u \in DOMAIN token'
        PROVE  u \in Names(graph') /\ token'[u].at \in Of(graph', TokenKinds)
    <3>1. CASE u \in DOMAIN token
      BY <1>1, <1>8, <3>1 DEF WalkInv, Typed
    <3>2. CASE u \notin DOMAIN token
      BY <1>1, <1>6, <1>9, <1>10, <3>2
    <3> QED BY <3>1, <3>2
  <2> QED BY <1>1, <1>4, <2>1 DEF Typed
<1>12. Tree'
  <2>1. \A o \in DOMAIN open : Branches(o)' = Branches(o)
    BY <1>7 DEF Branches
  <2>2. Branches(t)' = {Branch(y) : y \in taken}
    BY <1>7 DEF Branches, Branch
  <2>3. ASSUME NEW u \in DOMAIN token' PROVE u = Root \/ \E o \in DOMAIN open' : u \in Branches(o)'
    <3>1. CASE u \in DOMAIN token
      BY <1>7, <2>1, <3>1 DEF WalkInv, Tree
    <3>2. CASE u \notin DOMAIN token
      BY <1>7, <1>10, <2>2, <3>2
    <3> QED BY <3>1, <3>2
  <2>4. ASSUME NEW o \in DOMAIN open'
        PROVE  /\ o \in DOMAIN token' /\ Branches(o)' \subseteq DOMAIN token'
               /\ open'[o].region \in regions' /\ token'[o].at = open'[o].region.split
               /\ open'[o].taken # {} /\ open'[o].taken \subseteq Out(graph', open'[o].region.split)
    <3>1. CASE o \in DOMAIN open
      BY <1>1, <1>7, <1>8, <2>1, <3>1 DEF WalkInv, Tree
    <3>2. CASE o = t
      BY <1>1, <1>4, <1>5, <1>7, <1>8, <2>2, <3>2
    <3> QED BY <1>7, <3>1, <3>2
  <2> QED BY <2>3, <2>4 DEF Tree, Root
<1>13. InsideAsNamed'
  <2>1. ASSUME NEW u \in DOMAIN token', NEW q \in regions'
        PROVE  Inside(graph', q, token'[u].at) <=> Named(u, q.split)
    <3>1. CASE u \in DOMAIN token
      BY <1>1, <1>8, <3>1 DEF WalkInv, InsideAsNamed
    <3>2. CASE u \notin DOMAIN token
      <4>1. PICK y \in taken : u = Branch(y) /\ token'[u].at = y
        BY <1>10, <3>2
      <4>2. Inside(graph, q, y) <=> Inside(graph, q, s) \/ q.split = s
        BY <1>1, <1>4, <1>5, ForkInside
      <4>3. Inside(graph, q, s) <=> Named(t, q.split)
        BY <1>1, <1>4 DEF WalkInv, InsideAsNamed
      <4> QED BY <1>1, <1>9, <4>1, <4>2, <4>3
    <3> QED BY <3>1, <3>2
  <2> QED BY <2>1 DEF InsideAsNamed
<1> QED BY <1>11, <1>12, <1>13 DEF WalkInv

\* An owner has its own branches: a branch belongs to one owner, and is not the root.
LEMMA BranchesApart ==
  ASSUME WalkInv, NEW o \in DOMAIN open, NEW u \in Branches(o)
  PROVE  /\ u # Root /\ u \in Names(graph) /\ u[Len(u)][1] = open[o].region.split
         /\ \A z : Named(u, z) <=> Named(o, z) \/ z = open[o].region.split
         /\ \A p \in DOMAIN open : u \in Branches(p) => p = o
<1> DEFINE s == open[o].region.split
<1>1. PICK y \in open[o].taken : u = Append(o, <<s, y>>)
  BY DEF Branches
<1>2. ASSUME NEW p \in DOMAIN open
      PROVE  /\ p \in Names(graph) /\ open[p].region.split \in Elements(graph)
             /\ open[p].taken \subseteq Elements(graph)
  <2>1. p \in DOMAIN token /\ token[p].at = open[p].region.split
        /\ open[p].taken \subseteq Out(graph, open[p].region.split)
    BY DEF WalkInv, Tree
  <2> QED BY <2>1, TokenAt, OutToken DEF WalkInv, Typed
<1>3. o \in Names(graph) /\ s \in Elements(graph) /\ y \in Elements(graph)
  BY <1>2
<1>4. /\ u # Root /\ u \in Names(graph) /\ u[Len(u)] = <<s, y>>
      /\ \A z : Named(u, z) <=> Named(o, z) \/ z = s
  <2> HIDE DEF s
  <2>1. Append(o, <<s, y>>) # Root
    BY <1>3, NamedAppend DEF Root
  <2>2. Append(o, <<s, y>>) \in Names(graph)
    BY <1>3, NamedAppend
  <2>3. Append(o, <<s, y>>)[Len(Append(o, <<s, y>>))] = <<s, y>>
    BY <1>3, NamedAppend
  <2>4. \A z : Named(Append(o, <<s, y>>), z) <=> Named(o, z) \/ z = s
    BY <1>3, NamedAppend
  <2> QED BY <1>1, <2>1, <2>2, <2>3, <2>4
<1>5. ASSUME NEW p \in DOMAIN open, u \in Branches(p) PROVE p = o
  <2> DEFINE S == Elements(graph) \X Elements(graph)
             e == <<s, y>>
  <2>1. PICK z \in open[p].taken : u = Append(p, <<open[p].region.split, z>>)
    BY <1>5 DEF Branches
  <2> DEFINE f == <<open[p].region.split, z>>
  <2>2. p \in Seq(S) /\ o \in Seq(S) /\ e \in S /\ f \in S
    BY <1>2, <1>3 DEF Names
  <2>3. Append(p, f) = Append(o, e)
    BY <1>1, <2>1
  <2> HIDE DEF S, e, f
  <2> QED BY <2>2, <2>3, AppendApart
<1> QED BY <1>4, <1>5

LEMMA MergeWalks == ASSUME WalkInv, NEW o \in DOMAIN open, Merge(o) PROVE WalkInv'
<1> DEFINE q == open[o].region
<1>1. PICK y \in Out(graph, q.join) :
        token' = [u \in DOMAIN token \ Branches(o) |->
                    IF u # o THEN token[u]
                    ELSE [at |-> y, skips |-> UNION {token[b].skips : b \in Branches(o)}]]
  BY DEF Merge
<1>2. /\ open' = [u \in DOMAIN open \ {o} |-> open[u]] /\ graph' = graph /\ regions' = regions
      /\ \A u \in Branches(o) : u \in DOMAIN token \ DOMAIN open
  BY DEF Merge, Arrived
<1>3. o \in DOMAIN token /\ q \in regions /\ token[o].at = q.split
  BY DEF WalkInv, Tree
<1>4. graph \in Passed /\ regions = Found(graph)
  BY DEF WalkInv, Typed
<1>5. y \in Of(graph, TokenKinds)
  BY <1>1, <1>4, OutToken
<1>6. o \notin Branches(o)
  BY <1>2
<1>7. /\ DOMAIN token' = DOMAIN token \ Branches(o) /\ token'[o].at = y
      /\ \A u \in DOMAIN token' : u # o => token'[u] = token[u]
  BY <1>1, <1>3, <1>6
<1>8. DOMAIN open' = DOMAIN open \ {o} /\ \A p \in DOMAIN open' : open'[p] = open[p]
  BY <1>2
<1>9. Typed'
  BY <1>2, <1>5, <1>7 DEF WalkInv, Typed
<1>10. Tree'
  <2>1. \A p \in DOMAIN open' : Branches(p)' = Branches(p)
    BY <1>8 DEF Branches
  <2>2. ASSUME NEW u \in DOMAIN token' PROVE u = Root \/ \E p \in DOMAIN open' : u \in Branches(p)'
    <3>1. u \in DOMAIN token /\ u \notin Branches(o)
      BY <1>7
    <3>2. u = Root \/ \E p \in DOMAIN open : u \in Branches(p)
      BY <3>1 DEF WalkInv, Tree
    <3> QED BY <1>8, <2>1, <3>1, <3>2
  <2>3. ASSUME NEW p \in DOMAIN open'
        PROVE  /\ p \in DOMAIN token' /\ Branches(p)' \subseteq DOMAIN token'
               /\ open'[p].region \in regions' /\ token'[p].at = open'[p].region.split
               /\ open'[p].taken # {} /\ open'[p].taken \subseteq Out(graph', open'[p].region.split)
    <3>1. p \in DOMAIN open /\ p # o
      BY <1>8
    <3>2. p \in DOMAIN token /\ Branches(p) \subseteq DOMAIN token
          /\ open[p].region \in regions /\ token[p].at = open[p].region.split
          /\ open[p].taken # {} /\ open[p].taken \subseteq Out(graph, open[p].region.split)
      BY <3>1 DEF WalkInv, Tree
    <3>3. p \notin Branches(o)
      BY <1>2, <3>1
    <3>4. Branches(p) \cap Branches(o) = {}
      BY <3>1, BranchesApart
    <3> QED BY <1>2, <1>7, <1>8, <2>1, <3>1, <3>2, <3>3, <3>4
  <2> QED BY <2>2, <2>3 DEF Tree, Root
<1>11. InsideAsNamed'
  <2>1. ASSUME NEW u \in DOMAIN token', NEW r \in regions'
        PROVE  Inside(graph', r, token'[u].at) <=> Named(u, r.split)
    <3>1. CASE u # o
      BY <1>2, <1>7, <3>1 DEF WalkInv, InsideAsNamed
    <3>2. CASE u = o
      <4>1. Inside(graph, r, y) <=> Inside(graph, r, q.split)
        BY <1>2, <1>3, <1>4, MergeInside
      <4>2. Inside(graph, r, q.split) <=> Named(o, r.split)
        BY <1>2, <1>3 DEF WalkInv, InsideAsNamed
      <4> QED BY <1>2, <1>7, <3>2, <4>1, <4>2
    <3> QED BY <3>1, <3>2
  <2> QED BY <2>1 DEF InsideAsNamed
<1> QED BY <1>9, <1>10, <1>11 DEF WalkInv

\* Only the root comes to an end of the process: a branch is inside a region, where no end is.
LEMMA FinishWalks == ASSUME WalkInv, NEW t \in DOMAIN token, Finish(t) PROVE WalkInv'
<1>1. Leaf(t, {"end"}) /\ graph.scope[token[t].at] = "process"
  BY DEF Finish
<1>2. /\ DOMAIN token' = DOMAIN token \ {t} /\ \A u \in DOMAIN token' : token'[u] = token[u]
      /\ graph' = graph /\ regions' = regions /\ open' = open
  BY DEF Finish
<1>3. graph.kind[token[t].at] = "end" /\ t \notin DOMAIN open
  BY <1>1, LeafAt DEF Moving
<1>4. Top(graph, token[t].at) = token[t].at
  BY <1>1, TokenAt, TopAround
<1>5. t = Root
  <2>1. SUFFICES ASSUME t # Root PROVE FALSE
    OBVIOUS
  <2>2. PICK o \in DOMAIN open : t \in Branches(o)
    BY <2>1 DEF WalkInv, Tree
  <2> DEFINE q == open[o].region
  <2>3. q \in regions /\ Named(t, q.split)
    BY <2>2, BranchesApart DEF WalkInv, Tree
  <2>4. Inside(graph, q, token[t].at)
    BY <2>3 DEF WalkInv, InsideAsNamed
  <2>5. token[t].at \in q.members
    BY <1>4, <2>4 DEF Inside
  <2>6. graph.kind[token[t].at] \notin Ends
    BY <2>3, <2>5, TokenAt, NoEndInside
  <2> QED BY <1>3, <2>6 DEF Ends
<1>6. Typed'
  BY <1>2 DEF WalkInv, Typed
<1>7. \A o \in DOMAIN open : Branches(o)' = Branches(o) /\ t \notin Branches(o)
  <2>1. \A o \in DOMAIN open : Branches(o)' = Branches(o)
    BY <1>2 DEF Branches
  <2> QED BY <1>5, <2>1, BranchesApart
<1>8. Tree'
  <2>1. \A u \in DOMAIN token' : u = Root \/ \E o \in DOMAIN open' : u \in Branches(o)'
    BY <1>2, <1>7 DEF WalkInv, Tree
  <2>2. ASSUME NEW o \in DOMAIN open'
        PROVE  /\ o \in DOMAIN token' /\ Branches(o)' \subseteq DOMAIN token'
               /\ open'[o].region \in regions' /\ token'[o].at = open'[o].region.split
               /\ open'[o].taken # {} /\ open'[o].taken \subseteq Out(graph', open'[o].region.split)
    BY <1>2, <1>3, <1>7 DEF WalkInv, Tree
  <2> QED BY <2>1, <2>2 DEF Tree, Root
<1>9. InsideAsNamed'
  BY <1>2 DEF WalkInv, InsideAsNamed
<1> QED BY <1>6, <1>8, <1>9 DEF WalkInv

LEMMA WalkNext == ASSUME WalkInv, [Next]_vars PROVE WalkInv'
<1>1. CASE UNCHANGED <<graph, regions, token, open>>
  BY <1>1, WalkStays
<1>2. ASSUME NEW t \in DOMAIN token,
             \/ Follow(t) \/ NoPath(t) \/ Fork(t) \/ Enter(t) \/ Leave(t) \/ Finish(t) \/ Throw(t)
             \/ Cancel(t) \/ Interrupt(t)
      PROVE  WalkInv'
  <2>1. CASE NoPath(t)
    BY <1>1, <2>1 DEF NoPath, Stop
  <2>2. CASE Enter(t)
    <3>1. CASE token[t].at \in skipped
      BY <1>1, <2>2, <3>1 DEF Enter, Stop
    <3> QED BY <2>2, <3>1, EnterWalks
  <2>3. CASE Throw(t)
    <3>1. CASE ThrowHost(t) = "process"
      BY <1>1, <2>3, <3>1 DEF Throw, ThrowHost, Stop
    <3> QED BY <2>3, <3>1, ThrowWalks
  <2>4. CASE Cancel(t)
    <3>1. CASE graph.scope[graph.scope[token[t].at]] = "process"
      BY <1>1, <2>4, <3>1 DEF Cancel, Stop
    <3> QED BY <2>4, <3>1, CancelWalks
  <2> QED BY <1>2, <2>1, <2>2, <2>3, <2>4, FollowWalks, ForkWalks, LeaveWalks, FinishWalks,
             InterruptWalks
<1>3. UNCHANGED vars => UNCHANGED <<graph, regions, token, open>>
  BY DEF vars
<1> QED BY <1>1, <1>2, <1>3, MergeWalks DEF Next

-----------------------------------------------------------------------------
(* What follows from it.                                                        *)

LEMMA WalkConfined == ASSUME WalkInv PROVE Confined
<1> SUFFICES ASSUME NEW t \in DOMAIN token, NEW i \in 1..Len(t), NEW r \in SplitAt(t[i][1])
             PROVE  Around(graph, token[t].at) \cap r.members # {}
  BY DEF Confined
<1>1. r \in regions /\ Named(t, r.split)
  BY DEF SplitAt, Named
<1>2. Top(graph, token[t].at) \in r.members
  BY <1>1 DEF WalkInv, InsideAsNamed, Inside
<1>3. Top(graph, token[t].at) \in Around(graph, token[t].at)
  BY TokenAt, TopIs
<1> QED BY <1>2, <1>3

\* A branch that is at a join is at the join of the region it was forked in.
LEMMA BranchAtJoin ==
  ASSUME WalkInv, NEW o \in DOMAIN open, NEW u \in Branches(o), NEW r \in regions,
         token[u].at = r.join
  PROVE  r = open[o].region
<1> DEFINE q == open[o].region
           j == r.join
<1>1. /\ q \in regions /\ regions = Found(graph) /\ graph \in Passed /\ r \in Found(graph)
      /\ u \in DOMAIN token /\ o \in DOMAIN token /\ token[o].at = q.split /\ q \in Found(graph)
  BY DEF WalkInv, Tree, Typed
<1>2. /\ j \in Elements(graph) /\ Top(graph, j) = j /\ j \in r.members /\ j # r.split
      /\ q.split \in Elements(graph) /\ Top(graph, q.split) = q.split
  BY <1>1, RegionEnds, LevelElements, TopAround
<1>3. Named(u, r.split) /\ Named(u, q.split)
  <2>1. Inside(graph, r, token[u].at)
    BY <1>2 DEF Inside
  <2> QED BY <1>1, <2>1, BranchesApart DEF WalkInv, InsideAsNamed
<1>4. j \in q.members
  <2>1. Inside(graph, q, token[u].at)
    BY <1>1, <1>3 DEF WalkInv, InsideAsNamed
  <2> QED BY <1>2, <2>1 DEF Inside
<1>5. SUFFICES ASSUME r # q PROVE FALSE
  OBVIOUS
<1>6. q.split \in r.members
  <2>1. r.split # q.split
    BY <1>1, <1>5, RegionOrder
  <2>2. Named(o, r.split)
    BY <1>3, <2>1, BranchesApart
  <2>3. Inside(graph, r, token[o].at)
    BY <1>1, <2>2 DEF WalkInv, InsideAsNamed
  <2> QED BY <1>1, <1>2, <2>3 DEF Inside
<1>7. r.members \subseteq q.members \/ q.members \subseteq r.members
  BY <1>1, <1>2, <1>4, RegionsBalanced
<1>8. ~(r.members \subseteq q.members)
  BY <1>1, <1>5, <1>6, RegionOrder
<1>9. ~(q.members \subseteq r.members)
  BY <1>1, <1>4, <1>5, RegionOrder
<1> QED BY <1>7, <1>8, <1>9

LEMMA WalkArrives == ASSUME WalkInv PROVE ArrivesAtItsJoin
<1> SUFFICES ASSUME NEW t \in DOMAIN token \ DOMAIN open, NEW r \in JoinAt(token[t].at)
             PROVE  t # Root /\ t[Len(t)][1] = r.split
  BY DEF ArrivesAtItsJoin
<1>1. r \in regions /\ token[t].at = r.join /\ graph \in Passed /\ r \in Found(graph)
  BY DEF JoinAt, WalkInv, Typed
<1>2. Inside(graph, r, token[t].at)
  BY <1>1, RegionEnds, LevelElements, TopAround DEF Inside
<1>3. Named(t, r.split)
  BY <1>1, <1>2 DEF WalkInv, InsideAsNamed
<1>4. t # Root
  BY <1>3 DEF Named, Root
<1>5. PICK o \in DOMAIN open : t \in Branches(o)
  BY <1>4 DEF WalkInv, Tree
<1>6. r = open[o].region
  BY <1>1, <1>5, BranchAtJoin
<1> QED BY <1>4, <1>5, <1>6, BranchesApart

\* A gateway is a split or a join.
LEMMA GatewayPaired ==
  ASSUME NEW g \in Passed, NEW x \in Elements(g), g.kind[x] \in Forking
  PROVE  \E r \in Found(g) : r.split = x \/ r.join = x
<1>1. g.scope[x] = "process" /\ (Cardinality(Out(g, x)) > 1 \/ Cardinality(In(g, x)) > 1)
  BY PassedType DEF Regular, Of, Elements
<1>2. x \in Within(g, "process")
  BY <1>1, LevelElements
<1>3. Cardinality(Out(g, x)) > 1 => x \in Splits(g, "process")
  BY <1>2 DEF Splits
<1> QED BY <1>1, <1>2, <1>3, RegionsBalanced

LEMMA WalkGoesOn == ASSUME WalkInv PROVE NeverStalls
<1>1. ASSUME NEW t \in DOMAIN token, Strange(t) PROVE FALSE
  <2>1. /\ graph.kind[token[t].at] \in Forking \cup Boundaries
        /\ \A r \in regions : token[t].at # r.split /\ token[t].at # r.join
    BY <1>1, LeafAt DEF Strange
  <2>2. graph.kind[token[t].at] \in Forking
    BY <2>1, TokenAt
  <2> QED BY <2>1, <2>2, TokenAt, GatewayPaired
<1>2. ASSUME over = "no", DOMAIN token # {},
             ~ \E t \in Moving : SplitAt(token[t].at) # {} \/ JoinAt(token[t].at) = {}
      PROVE  \E t \in DOMAIN open : Arrived(t)
  <2>1. \A t \in DOMAIN token \ DOMAIN open : \E r \in regions : token[t].at = r.join
    BY <1>2 DEF Moving, JoinAt
  <2> DEFINE B == {open[o].region.members : o \in DOMAIN open}
  <2>2. DOMAIN open # {}
    <3>1. SUFFICES ASSUME DOMAIN open = {} PROVE FALSE
      OBVIOUS
    <3>2. PICK t \in DOMAIN token : TRUE
      BY <1>2
    <3>3. t = Root
      BY <3>1 DEF WalkInv, Tree
    <3>4. PICK r \in regions : token[t].at = r.join
      BY <2>1, <3>1, <3>2
    <3> QED BY <3>1, <3>2, <3>3, <3>4, WalkArrives DEF ArrivesAtItsJoin, JoinAt
  <2>3. graph \in Passed /\ regions = Found(graph) /\ \A o \in DOMAIN open : open[o].region \in regions
    BY DEF WalkInv, Typed, Tree
  <2>4. B \subseteq SUBSET Elements(graph) /\ B # {}
    <3>1. \A o \in DOMAIN open : open[o].region.members \subseteq Elements(graph)
      BY <2>3, RegionEnds, LevelElements
    <3> QED BY <2>2, <3>1
  <2>5. PICK m \in B : \A n \in B : n \subseteq m => n = m
    <3>1. IsFiniteSet(Elements(graph))
      BY <2>3, PassedType, GraphType
    <3> HIDE DEF B
    <3> QED BY <2>4, <3>1, Smallest
  <2>6. PICK o \in DOMAIN open : m = open[o].region.members
    OBVIOUS
  <2> DEFINE r == open[o].region
  <2>7. ASSUME NEW u \in Branches(o) PROVE u \notin DOMAIN open
    <3>1. SUFFICES ASSUME u \in DOMAIN open PROVE FALSE
      OBVIOUS
    <3> DEFINE q == open[u].region
    <3>2. q \in Found(graph) /\ r \in Found(graph) /\ u \in DOMAIN token /\ token[u].at = q.split
      BY <2>3, <3>1 DEF WalkInv, Tree
    <3>3. Named(u, r.split)
      BY BranchesApart
    <3>4. q.split \in r.members \ {r.split}
      <4>1. Top(graph, q.split) = q.split
        BY <2>3, <3>2, RegionEnds, LevelElements, TopAround
      <4>2. Inside(graph, r, token[u].at)
        BY <2>3, <3>2, <3>3 DEF WalkInv, InsideAsNamed
      <4> QED BY <3>2, <4>1, <4>2 DEF Inside
    <3>5. q # r /\ q.split \in q.members /\ r.split \in r.members
      BY <2>3, <3>2, <3>4, RegionEnds
    <3>6. r.members \subseteq q.members \/ q.members \subseteq r.members
      BY <2>3, <3>2, <3>4, <3>5, RegionsBalanced
    <3>7. ~(r.members \subseteq q.members)
      BY <2>3, <3>2, <3>4, <3>5, RegionOrder
    <3>8. q.members = r.members
      BY <2>5, <2>6, <3>1, <3>6, <3>7
    <3> QED BY <3>7, <3>8
  <2>8. ASSUME NEW u \in Branches(o)
        PROVE  u \in DOMAIN token \ DOMAIN open /\ token[u].at = r.join
    <3>1. u \in DOMAIN token \ DOMAIN open
      BY <2>7 DEF WalkInv, Tree
    <3>2. PICK q \in regions : token[u].at = q.join
      BY <2>1, <3>1
    <3>3. q = r
      BY <3>2, BranchAtJoin
    <3> QED BY <3>1, <3>2, <3>3
  <2>9. Arrived(o)
    BY <2>8 DEF Arrived
  <2> QED BY <2>9
<1> QED BY <1>1, <1>2 DEF NeverStalls

-----------------------------------------------------------------------------
(* Re-entry.  Once a scope is skipped, what the token is in or at is where the gate's *)
(* traversal gets to from a skip that is passed by, and no deeper than that scope.     *)

Way(g, b) == Reached(Continues(g), Free(g, b))

OnTheWay(g, b, x, a) ==
  /\ a \in Around(g, x) \cap Elements(g) /\ a \in Way(g, b)
  /\ g.scope[a] \in Around(g, g.scope[g.host[b]])
Followed(g, b, x) == \E a : OnTheWay(g, b, x, a)
Ahead(g, c, x) == \E b \in Skips(g) : g.host[b] \in Around(g, c) /\ Followed(g, b, x)
SkipsAhead == \A t \in DOMAIN token : \A c \in token[t].skips : Ahead(graph, c, token[t].at)

LEMMA ContinuesHas ==
  ASSUME NEW g \in Passed
  PROVE  /\ \A x : \A y \in Free(g, x) : <<x, y>> \in Continues(g)
         /\ \A b \in DOMAIN g.host : <<g.host[b], b>> \in Continues(g)
         /\ \A e \in Of(g, Ends) : g.scope[e] # "process" =>
              \A y \in Free(g, g.scope[e]) \cup On(g, g.scope[e], Boundaries) :
                <<e, y>> \in Continues(g)
         /\ \A c \in Of(g, Scoped) : \A y \in ErrorExits(g, c) : <<c, y>> \in Continues(g)
<1> DEFINE flows == {f \in g.flow : f \notin g.guarded}
           attached == {<<g.host[b], b>> : b \in DOMAIN g.host}
           thrown == UNION {{c} \X ErrorExits(g, c) : c \in Of(g, Scoped)}
           ends == {e \in Of(g, Ends) : g.scope[e] # "process"}
           left == UNION {{e} \X (Free(g, g.scope[e]) \cup On(g, g.scope[e], Boundaries)) : e \in ends}
<1>1. Continues(g) = flows \cup attached \cup thrown \cup left
  BY DEF Continues
<1>2. ASSUME NEW x, NEW y \in Free(g, x) PROVE <<x, y>> \in flows
  BY DEF Free, Out
<1>3. \A b \in DOMAIN g.host : <<g.host[b], b>> \in attached
  OBVIOUS
<1>4. ASSUME NEW e \in Of(g, Ends), g.scope[e] # "process",
             NEW y \in Free(g, g.scope[e]) \cup On(g, g.scope[e], Boundaries)
      PROVE  <<e, y>> \in left
  BY <1>4
<1>5. \A c \in Of(g, Scoped) : \A y \in ErrorExits(g, c) : <<c, y>> \in thrown
  OBVIOUS
<1> HIDE DEF flows, attached, thrown, left
<1> QED BY <1>1, <1>2, <1>3, <1>4, <1>5

LEMMA ContinuesInto == ASSUME NEW g \in Passed, NEW e \in Continues(g) PROVE e[2] \in Elements(g)
<1>1. \A x : Out(g, x) \subseteq Elements(g) /\ Free(g, x) \subseteq Elements(g)
  BY DEF Out, Free, Elements
<1>2. \A x, kinds : On(g, x, kinds) \subseteq Elements(g)
  BY FlowLevel DEF On
<1>3. \A c : ErrorExits(g, c) \subseteq Elements(g)
  BY <1>2 DEF ErrorExits
<1>4. \A f \in g.flow : f[2] \in Elements(g)
  BY PassedType, GraphType
<1>5. \A b \in DOMAIN g.host : b \in Elements(g)
  BY FlowLevel
<1> QED BY <1>1, <1>2, <1>3, <1>4, <1>5 DEF Continues

LEMMA WayIs ==
  ASSUME NEW g \in Passed, NEW b
  PROVE  /\ Free(g, b) \subseteq Way(g, b)
         /\ \A x, y : x \in Way(g, b) /\ <<x, y>> \in Continues(g) => y \in Way(g, b)
<1>1. IsFiniteSet(Elements(g))
  BY PassedType, GraphType
<1>2. Nodes(Continues(g), Free(g, b)) \subseteq Elements(g)
  BY ContinuesInto DEF Nodes, Free, Out, Elements
<1>3. Free(g, b) \subseteq Way(g, b) /\ Closed(Continues(g), Way(g, b))
  BY <1>1, <1>2, ReachedLeast DEF Way
<1>4. ASSUME NEW x, NEW y, x \in Way(g, b), <<x, y>> \in Continues(g) PROVE y \in Way(g, b)
  <2>1. <<x, y>>[1] = x /\ <<x, y>>[2] = y
    OBVIOUS
  <2> QED BY <1>3, <1>4, <2>1 DEF Closed
<1> QED BY <1>3, <1>4

LEMMA AroundBoth ==
  ASSUME NEW g \in Graphs, NEW c \in Elements(g), NEW d, c \in Around(g, d), d \in Around(g, c)
  PROVE  c = d
<1>1. d = c \/ d \in Around(g, g.scope[c])
  BY AroundStep
<1> QED BY <1>1, AroundAcyclic

\* What is strictly around an element is around its scope.
LEMMA AroundAbove ==
  ASSUME NEW g \in Graphs, NEW a \in Elements(g), NEW h \in Around(g, a), h # a
  PROVE  h \in Around(g, g.scope[a])
  BY AroundStep

\* The flow of a boundary event, of a scope or of an end has no condition.
LEMMA FreeOut ==
  ASSUME NEW g \in Passed, NEW x, g.kind[x] \notin Choosing \/ Cardinality(Out(g, x)) <= 1
  PROVE  Free(g, x) = Out(g, x)
<1>1. ASSUME NEW y \in Out(g, x), <<x, y>> \in g.guarded PROVE FALSE
  <2>1. g.kind[<<x, y>>[1]] \in Choosing /\ Cardinality(Out(g, <<x, y>>[1])) > 1
    BY <1>1, PassedType DEF Accepted, Endpoints, Regular
  <2>2. g.kind[x] \in Choosing /\ Cardinality(Out(g, x)) > 1
    BY <2>1
  <2>3. Cardinality(Out(g, x)) \in Nat
    BY OutIn, FS_CardinalityType
  <2> QED BY <2>2, <2>3
<1> QED BY <1>1 DEF Free

\* No node on the way is a scope around the skip: the gate refused that.
LEMMA NotAhead == ASSUME NEW g \in Passed, NEW x \in Elements(g), Ahead(g, x, x) PROVE FALSE
<1>1. PICK b \in Skips(g) : g.host[b] \in Around(g, x) /\ Followed(g, b, x)
  BY DEF Ahead
<1> DEFINE h == g.host[b]
<1>2. PICK a : OnTheWay(g, b, x, a)
  BY <1>1 DEF Followed
<1>3. /\ g \in Graphs /\ b \in DOMAIN g.host /\ h \in Elements(g) /\ a \in Elements(g)
      /\ h \in Around(g, x) /\ a \in Around(g, x) /\ g.scope[a] \in Around(g, g.scope[h])
      /\ a \in Reached(Continues(g), Free(g, b))
  BY <1>1, <1>2, PassedType, FlowLevel DEF OnTheWay, Skips, Of, Elements, Boundaries, Way
<1>4. h \in Of(g, Scoped)
  <2>1. g.kind[b] = "onCancel" => g.kind[h] \in {"tx"}
    BY <1>3, PassedType DEF Accepted, Attached
  <2> QED BY <1>3, <2>1 DEF Skips, Of, Elements, Scoped
<1>5. a \in Around(g, h)
  <2>1. SUFFICES ASSUME h \in Around(g, a), h # a PROVE FALSE
    BY <1>3, AroundChain, AroundLeast
  <2>2. h \in Around(g, g.scope[a])
    BY <1>3, <2>1, AroundAbove
  <2>3. h \in Around(g, g.scope[h])
    BY <1>3, <2>2, AroundNests
  <2> QED BY <1>3, <2>3, GraphType
<1>6. a \in Of(g, Scoped)
  <2>1. a = h \/ a \in Scopes(g)
    BY <1>3, <1>5, AroundScopes
  <2>2. a # "process"
    BY <1>3, GraphType
  <2> QED BY <1>4, <2>1, <2>2 DEF Scopes
<1>7. NoFreeReentry(g)
  BY PassedType DEF Accepted
<1> QED BY <1>1, <1>3, <1>5, <1>6, <1>7 DEF NoFreeReentry

LEMMA FollowedInto ==
  ASSUME NEW g \in Passed, NEW b, NEW x, NEW y, x \in Around(g, y), Followed(g, b, x)
  PROVE  Followed(g, b, y)
<1>1. PICK a : OnTheWay(g, b, x, a)
  BY DEF Followed
<1>2. OnTheWay(g, b, y, a)
  BY <1>1, PassedType, AroundNests DEF OnTheWay
<1> QED BY <1>2 DEF Followed

\* A token leaves what it is in, or at, by h: it is still on the way.
LEMMA FollowedOut ==
  ASSUME NEW g \in Passed, NEW b \in DOMAIN g.host, NEW x, NEW h \in Around(g, x) \cap Elements(g),
         NEW y \in Elements(g), g.scope[y] = g.scope[h], Followed(g, b, x),
         \A a : OnTheWay(g, b, x, a) /\ h \in Around(g, a) => y \in Way(g, b)
  PROVE  Followed(g, b, y)
<1> DEFINE s == g.scope[g.host[b]]
<1>1. g \in Graphs
  BY PassedType
<1>2. PICK a : OnTheWay(g, b, x, a)
  BY DEF Followed
<1>3. a \in Around(g, x) /\ a \in Elements(g) /\ g.scope[a] \in Around(g, s) /\ a \in Way(g, b)
  BY <1>2 DEF OnTheWay
<1>4. y \in Around(g, y) /\ g.scope[y] \in Around(g, y)
  BY <1>1, AroundLeast
<1>5. CASE h \in Around(g, a)
  <2>1. y \in Way(g, b)
    BY <1>2, <1>5
  <2>2. g.scope[h] \in Around(g, s)
    <3>1. CASE h = a
      BY <1>3, <3>1
    <3>2. CASE h # a
      <4>1. h \in Around(g, g.scope[a])
        BY <1>1, <1>3, <1>5, <3>2, AroundAbove
      <4>2. h \in Around(g, s)
        BY <1>1, <1>3, <4>1, AroundNests
      <4> QED BY <1>1, <4>2, AroundLeast
    <3> QED BY <3>1, <3>2
  <2>3. OnTheWay(g, b, y, y)
    BY <1>4, <2>1, <2>2 DEF OnTheWay
  <2> QED BY <2>3 DEF Followed
<1>6. CASE h \notin Around(g, a)
  <2>1. a \in Around(g, h) /\ a # h
    BY <1>1, <1>3, <1>6, AroundChain, AroundLeast
  <2>2. a \in Around(g, g.scope[y])
    BY <1>1, <2>1, AroundAbove
  <2>3. a \in Around(g, y)
    BY <1>1, <1>4, <2>2, AroundNests
  <2>4. OnTheWay(g, b, y, a)
    BY <1>3, <2>3 DEF OnTheWay
  <2> QED BY <2>4 DEF Followed
<1> QED BY <1>5, <1>6

\* On by a flow without a condition.
LEMMA FollowedFlow ==
  ASSUME NEW g \in Passed, NEW b \in DOMAIN g.host, NEW x \in Elements(g), NEW y \in Free(g, x),
         Followed(g, b, x)
  PROVE  Followed(g, b, y)
<1>1. g \in Graphs /\ x \in Around(g, x) /\ y \in Out(g, x)
  BY PassedType, AroundLeast DEF Free
<1>2. y \in Elements(g) /\ g.scope[y] = g.scope[x]
  BY <1>1, OutLevel
<1>3. ASSUME NEW a, OnTheWay(g, b, x, a), x \in Around(g, a) PROVE y \in Way(g, b)
  <2>1. a = x
    BY <1>1, <1>3, AroundBoth DEF OnTheWay
  <2> QED BY <1>3, <2>1, WayIs, ContinuesHas DEF OnTheWay
<1> QED BY <1>1, <1>2, <1>3, FollowedOut

\* Out of the scope of an end, on from the scope or from a boundary event on it.
LEMMA FollowedEnd ==
  ASSUME NEW g \in Passed, NEW b \in DOMAIN g.host, NEW x \in Of(g, Ends), g.scope[x] # "process",
         NEW z, z \in Free(g, g.scope[x])
                \/ \E c \in On(g, g.scope[x], Boundaries) : z \in Free(g, c),
         Followed(g, b, x)
  PROVE  Followed(g, b, z)
<1> DEFINE h == g.scope[x]
<1>1. g \in Graphs /\ x \in Elements(g) /\ h \in Around(g, x) /\ h \in Elements(g)
  BY PassedType, AroundLeast, GraphType DEF Of, Elements
<1>2. z \in Elements(g) /\ g.scope[z] = g.scope[h]
  <2>1. CASE z \in Free(g, h)
    BY <2>1, OutLevel DEF Free
  <2>2. CASE \E c \in On(g, h, Boundaries) : z \in Free(g, c)
    <3>1. PICK c \in On(g, h, Boundaries) : z \in Out(g, c)
      BY <2>2 DEF Free
    <3>2. c \in DOMAIN g.host /\ g.host[c] = h
      BY DEF On
    <3>3. g.scope[c] = g.scope[h]
      BY <3>2, FlowLevel
    <3>4. z \in Elements(g) /\ g.scope[z] = g.scope[c]
      BY <3>1, OutLevel
    <3> QED BY <3>3, <3>4
  <2> QED BY <2>1, <2>2
<1>3. ASSUME NEW a, OnTheWay(g, b, x, a), h \in Around(g, a) PROVE z \in Way(g, b)
  <2>1. a = x \/ a = h
    <3>1. a = x \/ a \in Around(g, h)
      BY <1>1, <1>3, AroundStep DEF OnTheWay
    <3> QED BY <1>1, <1>3, <3>1, AroundBoth
  <2>2. a \in Way(g, b)
    BY <1>3 DEF OnTheWay
  <2>3. z \in Free(g, h) => <<h, z>> \in Continues(g) /\ <<x, z>> \in Continues(g)
    BY ContinuesHas
  <2>4. ASSUME NEW c \in On(g, h, Boundaries), z \in Free(g, c)
        PROVE  /\ <<c, z>> \in Continues(g) /\ <<h, c>> \in Continues(g)
               /\ <<x, c>> \in Continues(g)
    BY <2>4, ContinuesHas DEF On
  <2> QED BY <2>1, <2>2, <2>3, <2>4, WayIs
<1> QED BY <1>1, <1>2, <1>3, FollowedOut

\* Over the boundary of a task, on which it is the token that stood there.
LEMMA FollowedBoundary ==
  ASSUME NEW g \in Passed, NEW b \in DOMAIN g.host, NEW c \in DOMAIN g.host, NEW z \in Free(g, c),
         Followed(g, b, g.host[c])
  PROVE  Followed(g, b, z)
<1> DEFINE h == g.host[c]
<1>1. g \in Graphs /\ h \in Elements(g) /\ h \in Around(g, h)
  BY PassedType, AroundLeast, FlowLevel
<1>2. z \in Elements(g) /\ g.scope[z] = g.scope[h]
  <2>1. z \in Elements(g) /\ g.scope[z] = g.scope[c]
    BY OutLevel DEF Free
  <2> QED BY <2>1, FlowLevel
<1>3. ASSUME NEW a, OnTheWay(g, b, h, a), h \in Around(g, a) PROVE z \in Way(g, b)
  <2>1. a = h /\ a \in Way(g, b)
    BY <1>1, <1>3, AroundBoth DEF OnTheWay
  <2>2. <<h, c>> \in Continues(g) /\ <<c, z>> \in Continues(g)
    BY ContinuesHas
  <2> QED BY <2>1, <2>2, WayIs
<1> QED BY <1>1, <1>2, <1>3, FollowedOut

\* A scope is passed by: its boundary is a skip of its own, also for what was skipped inside it.
LEMMA AheadSkips ==
  ASSUME NEW g \in Passed, NEW b \in Skips(g), NEW z \in Out(g, b), NEW c, g.host[b] \in Around(g, c)
  PROVE  Ahead(g, c, z)
<1>1. g \in Graphs /\ b \in DOMAIN g.host /\ g.kind[b] \in Boundaries
  BY PassedType, FlowLevel DEF Skips, Of, Elements, Boundaries
<1>2. z \in Free(g, b)
  BY <1>1, FreeOut, Kinds
<1>3. z \in Elements(g) /\ g.scope[z] = g.scope[g.host[b]]
  <2>1. z \in Elements(g) /\ g.scope[z] = g.scope[b]
    BY OutLevel
  <2> QED BY <1>1, <2>1, FlowLevel
<1>4. OnTheWay(g, b, z, z)
  BY <1>1, <1>2, <1>3, WayIs, AroundLeast DEF OnTheWay
<1> QED BY <1>4 DEF Followed, Ahead

LEMMA AheadInterrupts ==
  ASSUME NEW g \in Passed, NEW d \in Skips(g), NEW x, g.host[d] \in Around(g, x),
         NEW z \in Out(g, d), NEW c, Ahead(g, c, x)
  PROVE  Ahead(g, c, z)
<1> DEFINE h == g.host[d]
<1>1. g \in Graphs /\ d \in DOMAIN g.host /\ g.kind[d] \in Boundaries /\ h \in Elements(g)
  BY PassedType, FlowLevel DEF Skips, Of, Elements, Boundaries
<1>2. z \in Free(g, d)
  BY <1>1, FreeOut, Kinds
<1>3. z \in Elements(g) /\ g.scope[z] = g.scope[h]
  <2>1. z \in Elements(g) /\ g.scope[z] = g.scope[d]
    BY OutLevel
  <2> QED BY <1>1, <2>1, FlowLevel
<1>4. PICK b \in Skips(g) : g.host[b] \in Around(g, c) /\ Followed(g, b, x)
  BY DEF Ahead
<1>5. b \in DOMAIN g.host
  BY PassedType, FlowLevel DEF Skips, Of, Elements, Boundaries
<1>6. CASE h \in Around(g, g.host[b])
  <2>1. h \in Around(g, c)
    BY <1>1, <1>4, <1>6, AroundNests
  <2> QED BY <2>1, AheadSkips
<1>7. CASE h \notin Around(g, g.host[b])
  <2>1. ASSUME NEW a, OnTheWay(g, b, x, a), h \in Around(g, a) PROVE z \in Way(g, b)
    <3>1. a = h
      <4>1. SUFFICES ASSUME a # h PROVE FALSE
        OBVIOUS
      <4>2. h \in Around(g, g.scope[g.host[b]])
        <5>1. h \in Around(g, g.scope[a])
          BY <1>1, <2>1, <4>1, AroundAbove DEF OnTheWay
        <5> QED BY <1>1, <2>1, <5>1, AroundNests DEF OnTheWay
      <4>3. g.host[b] \in Elements(g)
        BY <1>5, FlowLevel
      <4> QED BY <1>1, <1>7, <4>2, <4>3, AroundStep
    <3>2. <<h, d>> \in Continues(g) /\ <<d, z>> \in Continues(g)
      BY <1>1, <1>2, ContinuesHas
    <3> QED BY <2>1, <3>1, <3>2, WayIs DEF OnTheWay
  <2>2. Followed(g, b, z)
    BY <1>1, <1>3, <1>4, <1>5, <2>1, FollowedOut
  <2> QED BY <1>4, <2>2 DEF Ahead
<1> QED BY <1>6, <1>7

\* An error goes past scopes to the one that catches it: the gate followed it there, or the skip
\* is not inside that one.
LEMMA FollowedThrow ==
  ASSUME NEW g \in Passed, NEW b \in Skips(g), NEW x \in Of(g, {"task", "error"}),
         On(g, x, {"onError"}) = {}, NEW h, h = Catcher(g, g.scope[x]), h # "process",
         NEW c \in On(g, h, {"onError"}), NEW z \in Free(g, c), Followed(g, b, x)
  PROVE  Followed(g, b, z)
<1>1. /\ g \in Graphs /\ b \in DOMAIN g.host /\ c \in DOMAIN g.host /\ g.host[c] = h
      /\ x \in Elements(g) /\ h \in Elements(g) /\ g.scope[x] \in Scopes(g)
  BY PassedType, FlowLevel, GraphType DEF Skips, On, Of, Elements, Boundaries
<1>2. h \in Around(g, g.scope[x]) /\ h \in Around(g, x)
  <2>1. h \in Around(g, g.scope[x]) /\ g.scope[x] \in Around(g, x)
    BY <1>1, CatcherFound, AroundLeast
  <2> QED BY <1>1, <2>1, AroundNests
<1>3. z \in Elements(g) /\ g.scope[z] = g.scope[h]
  <2>1. z \in Elements(g) /\ g.scope[z] = g.scope[c]
    BY OutLevel DEF Free
  <2> QED BY <1>1, <2>1, FlowLevel
<1>4. ASSUME NEW a, OnTheWay(g, b, x, a), h \in Around(g, a) PROVE z \in Way(g, b)
  <2> DEFINE s == g.scope[x]
  <2>1. a \in Around(g, x) /\ a \in Elements(g) /\ a \in Way(g, b)
        /\ g.scope[a] \in Around(g, g.scope[b])
    <3>1. g.scope[b] = g.scope[g.host[b]]
      BY <1>1, FlowLevel
    <3> QED BY <1>4, <3>1 DEF OnTheWay
  <2>2. <<c, z>> \in Continues(g) /\ <<h, c>> \in Continues(g)
    BY <1>1, ContinuesHas
  <2>3. CASE a = h
    BY <2>1, <2>2, <2>3, WayIs
  <2>4. CASE a # h
    <3>1. h \in Around(g, b)
      <4>1. h \in Around(g, g.scope[a])
        BY <1>1, <1>4, <2>1, <2>4, AroundAbove
      <4>2. h \in Around(g, g.scope[b]) /\ g.scope[b] \in Around(g, b)
        <5>1. b \in Elements(g)
          BY <1>1, FlowLevel
        <5> QED BY <1>1, <2>1, <4>1, <5>1, AroundNests, AroundLeast
      <4> QED BY <1>1, <4>2, AroundNests
    <3>2. ~Unfollowed(g, x, b)
      BY PassedType DEF Regular
    <3>3. g.kind[x] = "error" /\ (h = s \/ s \notin Around(g, b))
      BY <3>1, <3>2 DEF Unfollowed, Of
    <3>4. CASE h = s
      <4>1. a = x
        <5>1. a = x \/ a \in Around(g, h)
          BY <1>1, <2>1, <3>4, AroundStep
        <5> QED BY <1>1, <1>4, <2>1, <2>4, <5>1, AroundBoth
      <4>2. x \in Of(g, Ends) /\ s # "process" /\ c \in On(g, s, Boundaries)
        BY <1>1, <3>3, <3>4 DEF Of, Elements, Ends, On, Boundaries
      <4>3. <<x, c>> \in Continues(g)
        BY <4>2, ContinuesHas
      <4> QED BY <2>1, <2>2, <4>1, <4>3, WayIs
    <3>5. CASE s \notin Around(g, b)
      <4>1. a # x
        <5>1. g.scope[b] \in Around(g, b) /\ b \in Elements(g)
          BY <1>1, FlowLevel, AroundLeast
        <5>2. g.scope[a] \in Around(g, b)
          BY <1>1, <2>1, <5>1, AroundNests
        <5> QED BY <3>5, <5>2
      <4>2. a \in Of(g, Scoped)
        <5>1. a \in Scopes(g)
          BY <1>1, <2>1, <4>1, AroundScopes
        <5> QED BY <1>1, <2>1, <5>1, GraphType DEF Scopes
      <4>3. a \notin Around(g, h)
        BY <1>1, <1>4, <2>1, <2>4, AroundBoth
      <4>4. x \in Of(g, {"error"}) /\ c \in On(g, h, {"onError"})
        BY <3>3 DEF Of
      <4>5. c \in ErrorExits(g, a)
        BY <2>1, <4>3, <4>4 DEF ErrorExits
      <4>6. <<a, c>> \in Continues(g)
        BY <4>2, <4>5, ContinuesHas
      <4> QED BY <2>1, <2>2, <4>6, WayIs
    <3> QED BY <3>3, <3>4, <3>5
  <2> QED BY <2>3, <2>4
<1> QED BY <1>1, <1>2, <1>3, <1>4, FollowedOut

\* What is told of a skip is still so after a step that says where else the token is.
LEMMA AheadGoes ==
  ASSUME SkipsAhead, WalkInv, NEW t \in Moving, NEW y, NEW skips, Go(t, y, skips),
         \A c \in skips : Ahead(graph, c, y)
  PROVE  SkipsAhead'
<1>1. /\ DOMAIN token' = DOMAIN token /\ token'[t] = [at |-> y, skips |-> skips] /\ graph' = graph
      /\ \A u \in DOMAIN token : u # t => token'[u] = token[u]
  BY DEF Go, Moving
<1> QED BY <1>1 DEF SkipsAhead

LEMMA AheadOn ==
  ASSUME NEW g \in Passed, NEW x, NEW y, \A b \in Skips(g) : Followed(g, b, x) => Followed(g, b, y),
         NEW c, Ahead(g, c, x)
  PROVE  Ahead(g, c, y)
  BY DEF Ahead

LEMMA SkipHosted ==
  ASSUME NEW g \in Passed, NEW b \in Skips(g)
  PROVE  b \in DOMAIN g.host /\ g.kind[b] \in Boundaries
  BY FlowLevel DEF Skips, Of, Elements, Boundaries

LEMMA BoundaryFree ==
  ASSUME NEW g \in Passed, NEW b \in DOMAIN g.host PROVE Free(g, b) = Out(g, b)
  BY FlowLevel, FreeOut, Kinds

LEMMA CarriedAhead ==
  ASSUME SkipsAhead, WalkInv, NEW t \in DOMAIN token, NEW y \in Out(graph, token[t].at),
         NEW c \in Carried(t, y)
  PROVE  Ahead(graph, c, y)
<1> DEFINE x == token[t].at
<1>1. graph \in Passed /\ x \in Elements(graph)
  BY TokenAt
<1>2. c \in token[t].skips /\ y \in Free(graph, x)
  BY DEF Carried, Free
<1>3. Ahead(graph, c, x)
  BY <1>2 DEF SkipsAhead
<1>4. \A b \in Skips(graph) : Followed(graph, b, x) => Followed(graph, b, y)
  BY <1>1, <1>2, SkipHosted, FollowedFlow
<1> QED BY <1>1, <1>3, <1>4, AheadOn

LEMMA FollowAhead ==
  ASSUME SkipsAhead, WalkInv, NEW t \in DOMAIN token, Follow(t) PROVE SkipsAhead'
<1>1. PICK y \in Out(graph, token[t].at) : Go(t, y, Carried(t, y))
  BY DEF Follow
<1>2. t \in Moving
  BY LeafAt DEF Follow
<1> QED BY <1>1, <1>2, CarriedAhead, AheadGoes

LEMMA ForkAhead ==
  ASSUME SkipsAhead, WalkInv, NEW t \in DOMAIN token, Fork(t) PROVE SkipsAhead'
<1>1. PICK r \in SplitAt(token[t].at) : \E taken \in Activations(r.split) :
        token' = [u \in DOMAIN token \cup {Append(t, <<r.split, y>>) : y \in taken} |->
             IF u \in DOMAIN token THEN token[u]
             ELSE [at |-> u[Len(u)][2], skips |-> Carried(t, u[Len(u)][2])]]
  BY DEF Fork
<1>2. PICK taken \in Activations(r.split) :
        token' = [u \in DOMAIN token \cup {Append(t, <<r.split, y>>) : y \in taken} |->
             IF u \in DOMAIN token THEN token[u]
             ELSE [at |-> u[Len(u)][2], skips |-> Carried(t, u[Len(u)][2])]]
  BY <1>1
<1>3. graph' = graph /\ t \in Names(graph) /\ r.split = token[t].at /\ graph \in Passed
      /\ r.split \in Elements(graph)
  BY TokenAt DEF Fork, SplitAt, WalkInv, Typed
<1>4. taken \subseteq Out(graph, r.split)
  BY DEF Activations, Free
<1>5. ASSUME NEW u \in DOMAIN token', NEW c \in token'[u].skips
      PROVE  Ahead(graph', c, token'[u].at)
  <2>1. CASE u \in DOMAIN token
    <3>1. token'[u] = token[u]
      BY <1>2, <2>1
    <3> QED BY <1>3, <1>5, <2>1, <3>1 DEF SkipsAhead
  <2>2. CASE u \notin DOMAIN token
    <3>1. PICK y \in taken : u = Append(t, <<r.split, y>>)
      BY <1>2, <2>2
    <3>2. token'[u] = [at |-> u[Len(u)][2], skips |-> Carried(t, u[Len(u)][2])]
      BY <1>2, <2>2
    <3>3. y \in Out(graph, token[t].at) /\ y \in Elements(graph)
      BY <1>3, <1>4, OutToken
    <3>4. u[Len(u)] = <<r.split, y>>
      BY <1>3, <3>1, <3>3, NamedAppend
    <3>5. token'[u].at = y /\ c \in Carried(t, y)
      BY <1>5, <3>2, <3>4
    <3> QED BY <1>3, <3>3, <3>5, CarriedAhead
  <2> QED BY <2>1, <2>2
<1> QED BY <1>5 DEF SkipsAhead

LEMMA MergeAhead ==
  ASSUME SkipsAhead, WalkInv, NEW o \in DOMAIN open, Merge(o) PROVE SkipsAhead'
<1> DEFINE q == open[o].region
           j == q.join
<1>1. PICK y \in Out(graph, j) :
        token' = [u \in DOMAIN token \ Branches(o) |->
                    IF u # o THEN token[u]
                    ELSE [at |-> y, skips |-> UNION {token[b].skips : b \in Branches(o)}]]
  BY DEF Merge
<1>2. graph' = graph /\ \A u \in Branches(o) : u \in DOMAIN token /\ token[u].at = j
  BY DEF Merge, Arrived
<1>3. graph \in Passed /\ q \in Found(graph)
  BY DEF WalkInv, Typed, Tree
<1>4. j \in Elements(graph) /\ y \in Free(graph, j)
  BY <1>1, <1>3, JoinOut, FreeOut, RegionEnds, LevelElements
<1>5. ASSUME NEW c, Ahead(graph, c, j) PROVE Ahead(graph, c, y)
  <2>1. \A b \in Skips(graph) : Followed(graph, b, j) => Followed(graph, b, y)
    BY <1>3, <1>4, SkipHosted, FollowedFlow
  <2> QED BY <1>3, <1>5, <2>1, AheadOn
<1>6. ASSUME NEW u \in DOMAIN token', NEW c \in token'[u].skips
      PROVE  Ahead(graph', c, token'[u].at)
  <2>1. u \in DOMAIN token
    BY <1>1
  <2>2. CASE u # o
    <3>1. token'[u] = token[u]
      BY <1>1, <2>2
    <3> QED BY <1>2, <1>6, <2>1, <3>1 DEF SkipsAhead
  <2>3. CASE u = o
    <3>1. token'[u] = [at |-> y, skips |-> UNION {token[b].skips : b \in Branches(o)}]
      BY <1>1, <2>3
    <3>2. PICK b \in Branches(o) : c \in token[b].skips
      BY <1>6, <3>1
    <3>3. Ahead(graph, c, j)
      BY <1>2, <3>2 DEF SkipsAhead
    <3> QED BY <1>2, <1>5, <3>1, <3>3
  <2> QED BY <2>2, <2>3
<1> QED BY <1>6 DEF SkipsAhead

LEMMA EnterAhead ==
  ASSUME SkipsAhead, WalkInv, NEW t \in DOMAIN token, Enter(t), token[t].at \notin skipped
  PROVE  SkipsAhead'
<1> DEFINE x == token[t].at
           y == Start(x)
<1>1. Go(t, y, token[t].skips) /\ Leaf(t, Scoped)
  BY DEF Enter
<1>2. graph \in Passed /\ graph \in Graphs /\ x \in Elements(graph) /\ x \in Scopes(graph)
  BY <1>1, LeafAt, TokenAt, PassedType DEF Scopes, Of, Elements
<1>3. y \in Elements(graph) /\ graph.scope[y] = x
  BY <1>2, StartIs
<1>4. x \in Around(graph, y)
  BY <1>2, <1>3, AroundLeast
<1>5. \A b \in Skips(graph) : Followed(graph, b, x) => Followed(graph, b, y)
  BY <1>2, <1>4, FollowedInto
<1>6. \A c \in token[t].skips : Ahead(graph, c, y)
  BY <1>2, <1>5, AheadOn DEF SkipsAhead
<1> QED BY <1>1, <1>6, LeafAt, AheadGoes

LEMMA LeaveAhead ==
  ASSUME SkipsAhead, WalkInv, NEW t \in DOMAIN token, Leave(t) PROVE SkipsAhead'
<1> DEFINE x == token[t].at
           h == graph.scope[x]
<1>1. PICK y \in Out(graph, h) : Go(t, y, token[t].skips)
  BY DEF Leave
<1>2. Leaf(t, {"end"}) /\ h # "process"
  BY DEF Leave
<1>3. graph \in Passed /\ x \in Of(graph, Ends) /\ x \in Elements(graph) /\ h \in Of(graph, Scoped)
  BY <1>2, LeafAt, TokenAt, PassedType, GraphType DEF Of, Elements, Ends, Scopes
<1>4. y \in Free(graph, h)
  BY <1>1, <1>3, FreeOut, Kinds DEF Of
<1>5. \A b \in Skips(graph) : Followed(graph, b, x) => Followed(graph, b, y)
  BY <1>2, <1>3, <1>4, SkipHosted, FollowedEnd
<1>6. \A c \in token[t].skips : Ahead(graph, c, y)
  BY <1>3, <1>5, AheadOn DEF SkipsAhead
<1> QED BY <1>1, <1>2, <1>6, LeafAt, AheadGoes

LEMMA ThrowAhead ==
  ASSUME SkipsAhead, WalkInv, NEW t \in DOMAIN token, Throw(t), ThrowHost(t) # "process"
  PROVE  SkipsAhead'
<1> DEFINE h == ThrowHost(t)
           x == token[t].at
<1>1. Leaf(t, {"task", "error"})
  BY DEF Throw
<1>2. PICK d \in On(graph, h, {"onError"}) : \E y \in Out(graph, d) : Go(t, y, token[t].skips)
  BY DEF Throw, ThrowHost
<1>3. PICK y \in Out(graph, d) : Go(t, y, token[t].skips)
  BY <1>2
<1>4. graph \in Passed /\ x \in Of(graph, {"task", "error"})
  BY <1>1, LeafAt, TokenAt DEF Of, Elements
<1>5. d \in DOMAIN graph.host /\ graph.host[d] = h
  BY DEF On
<1>6. y \in Free(graph, d)
  BY <1>3, <1>4, <1>5, BoundaryFree
<1>7. ASSUME NEW b \in Skips(graph), Followed(graph, b, x) PROVE Followed(graph, b, y)
  <2>1. CASE On(graph, x, {"onError"}) # {}
    <3>1. h = x
      BY <2>1 DEF ThrowHost
    <3> QED BY <1>4, <1>5, <1>6, <1>7, <3>1, SkipHosted, FollowedBoundary
  <2>2. CASE On(graph, x, {"onError"}) = {}
    <3>1. h = Catcher(graph, graph.scope[x])
      BY <2>2 DEF ThrowHost
    <3> QED BY <1>2, <1>4, <1>6, <1>7, <2>2, <3>1, FollowedThrow
  <2> QED BY <2>1, <2>2
<1>8. \A c \in token[t].skips : Ahead(graph, c, y)
  BY <1>4, <1>7, AheadOn DEF SkipsAhead
<1> QED BY <1>1, <1>3, <1>8, LeafAt, AheadGoes

LEMMA SkipAhead ==
  ASSUME SkipsAhead, WalkInv, NEW t \in Moving, NEW b \in Skips(graph),
         graph.host[b] \in Around(graph, token[t].at), Skip(t, graph.host[b], b)
  PROVE  SkipsAhead'
<1> DEFINE h == graph.host[b]
<1>1. PICK y \in Out(graph, b) : Go(t, y, token[t].skips \cup {h})
  BY DEF Skip
<1>2. graph \in Passed /\ graph \in Graphs /\ t \in DOMAIN token
  BY PassedType DEF WalkInv, Typed, Moving
<1>3. \A c \in token[t].skips : Ahead(graph, c, y)
  BY <1>2, AheadInterrupts DEF SkipsAhead
<1>4. Ahead(graph, h, y)
  BY <1>2, AheadSkips, AroundLeast
<1> QED BY <1>1, <1>3, <1>4, AheadGoes

LEMMA CancelAhead ==
  ASSUME SkipsAhead, WalkInv, NEW t \in DOMAIN token, Cancel(t),
         graph.scope[graph.scope[token[t].at]] # "process" PROVE SkipsAhead'
<1> DEFINE x == token[t].at
           tx == graph.scope[x]
<1>1. Leaf(t, {"cancel"})
  BY DEF Cancel
<1>2. PICK b \in On(graph, tx, {"onCancel"}) : Skip(t, tx, b)
  BY DEF Cancel
<1>3. graph \in Passed /\ x \in Of(graph, {"cancel"}) /\ tx \in Around(graph, x)
  BY <1>1, LeafAt, TokenAt, ScopeAround DEF Of, Elements
<1>4. b \in Skips(graph) /\ graph.host[b] = tx
  BY <1>3, FlowLevel DEF Skips, On, Of, Elements
<1> QED BY <1>1, <1>2, <1>3, <1>4, LeafAt, SkipAhead

LEMMA InterruptAhead ==
  ASSUME SkipsAhead, WalkInv, NEW t \in DOMAIN token, Interrupt(t) PROVE SkipsAhead'
<1>1. t \in Moving
  BY DEF Interrupt
<1>2. PICK b \in Of(graph, {"onTimer"}) :
        LET h == graph.host[b]
        IN  IF graph.kind[h] = "task"
            THEN token[t].at = h /\ \E y \in Out(graph, b) : Go(t, y, token[t].skips)
            ELSE token[t].at # h /\ h \in Around(graph, token[t].at) /\ Skip(t, h, b)
  BY DEF Interrupt
<1> DEFINE h == graph.host[b]
           x == token[t].at
<1>3. graph \in Passed /\ b \in DOMAIN graph.host /\ graph.kind[h] \in Scoped \cup {"task"}
  BY TokenAt, FlowLevel DEF Of, Elements, Boundaries
<1>4. CASE graph.kind[h] = "task"
  <2>1. PICK y \in Out(graph, b) : Go(t, y, token[t].skips)
    BY <1>2, <1>4
  <2>2. x = h
    BY <1>2, <1>4
  <2>3. y \in Free(graph, b)
    BY <1>3, BoundaryFree
  <2>4. \A d \in Skips(graph) : Followed(graph, d, x) => Followed(graph, d, y)
    BY <1>3, <2>2, <2>3, SkipHosted, FollowedBoundary
  <2>5. \A c \in token[t].skips : Ahead(graph, c, y)
    BY <1>3, <2>4, AheadOn DEF SkipsAhead
  <2> QED BY <1>1, <2>1, <2>5, AheadGoes
<1>5. CASE graph.kind[h] # "task"
  <2>1. b \in Skips(graph)
    BY <1>3, <1>5 DEF Skips
  <2> QED BY <1>1, <1>2, <1>5, <2>1, SkipAhead
<1> QED BY <1>4, <1>5

LEMMA FinishAhead ==
  ASSUME SkipsAhead, WalkInv, NEW t \in DOMAIN token, Finish(t) PROVE SkipsAhead'
<1>1. /\ DOMAIN token' = DOMAIN token \ {t} /\ \A u \in DOMAIN token' : token'[u] = token[u]
      /\ graph' = graph
  BY DEF Finish
<1> QED BY <1>1 DEF SkipsAhead

LEMMA AheadNext == ASSUME SkipsAhead, WalkInv, [Next]_vars PROVE SkipsAhead'
<1>1. CASE UNCHANGED <<graph, token>>
  BY <1>1 DEF SkipsAhead
<1>2. ASSUME NEW t \in DOMAIN token,
             \/ Follow(t) \/ NoPath(t) \/ Fork(t) \/ Enter(t) \/ Leave(t) \/ Finish(t) \/ Throw(t)
             \/ Cancel(t) \/ Interrupt(t)
      PROVE  SkipsAhead'
  <2>1. CASE NoPath(t)
    BY <1>1, <2>1 DEF NoPath, Stop
  <2>2. CASE Enter(t)
    <3>1. CASE token[t].at \in skipped
      BY <1>1, <2>2, <3>1 DEF Enter, Stop
    <3> QED BY <2>2, <3>1, EnterAhead
  <2>3. CASE Throw(t)
    <3>1. CASE ThrowHost(t) = "process"
      BY <1>1, <2>3, <3>1 DEF Throw, ThrowHost, Stop
    <3> QED BY <2>3, <3>1, ThrowAhead
  <2>4. CASE Cancel(t)
    <3>1. CASE graph.scope[graph.scope[token[t].at]] = "process"
      BY <1>1, <2>4, <3>1 DEF Cancel, Stop
    <3> QED BY <2>4, <3>1, CancelAhead
  <2> QED BY <1>2, <2>1, <2>2, <2>3, <2>4, FollowAhead, ForkAhead, LeaveAhead, FinishAhead,
             InterruptAhead
<1>3. UNCHANGED vars => UNCHANGED <<graph, token>>
  BY DEF vars
<1> QED BY <1>1, <1>2, <1>3, MergeAhead DEF Next

-----------------------------------------------------------------------------
(* The theorems, for every set of processes the parser can yield.               *)

(* The walk over a published process keeps tokens and regions in step: a token is past a split   *)
(* and not past its join just when its token_id tells of a fork there, owners stay at their       *)
(* split with all their branches alive, and every other token is a branch of one of them.         *)
THEOREM WalkInvariant == Spec => []WalkInv
<1>1. WalkInv /\ [Next]_vars => WalkInv'
  BY WalkNext
<1> QED BY <1>1, WalkInit, PTL DEF Spec

(* No branch is ever outside the members the gate computed for its region before the join         *)
(* (validateRegions, rule 5).                                                                      *)
THEOREM BranchesStayInside == Spec => []Confined
<1>1. WalkInv => Confined
  BY WalkConfined
<1> QED BY <1>1, WalkInvariant, PTL

(* A token halts at a join as a branch of the split that join belongs to, so that the join counts *)
(* it under the activation it waits for (recordJoinArrival).                                      *)
THEOREM JoinsCountTheirBranches == Spec => []ArrivesAtItsJoin
<1>1. WalkInv => ArrivesAtItsJoin
  BY WalkArrives
<1> QED BY <1>1, WalkInvariant, PTL

(* A process that was published never hangs: of the owners whose branches are awaited, one with    *)
(* the smallest region has all its branches at the join, or some token can go on; and no token is  *)
(* ever at a node the engine has no step for (driveLeaf).                                          *)
THEOREM PublishedNeverStalls == Spec => []NeverStalls
<1>1. WalkInv => NeverStalls
  BY WalkGoesOn
<1> QED BY <1>1, WalkInvariant, PTL

(* A scope that was passed by is come to again only over a condition: what the gate's traversal   *)
(* refuses (reEntersScope) covers every way the engine can take.                                   *)
THEOREM NoFreeWayBack == Spec => []ReentryIsGuarded
<1>1. Init => SkipsAhead
  BY DEF Init, SkipsAhead
<1>2. SkipsAhead /\ WalkInv /\ [Next]_vars => SkipsAhead'
  BY AheadNext
<1>3. Spec => []SkipsAhead
  BY <1>1, <1>2, WalkInvariant, PTL DEF Spec
<1>4. SkipsAhead /\ WalkInv => ReentryIsGuarded
  BY TokenAt, NotAhead DEF SkipsAhead, ReentryIsGuarded
<1> QED BY <1>3, <1>4, WalkInvariant, PTL
=============================================================================
