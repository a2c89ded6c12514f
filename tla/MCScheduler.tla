------------------------------ MODULE MCScheduler ------------------------------
(***************************************************************************)
(* Instances of Scheduler for TLC: the workflows that are run.              *)
(***************************************************************************)
EXTENDS Scheduler, TLC

CONSTANTS a, b, c, d

Plain == {"true"}
AnyOutcome == {"true", "false", "missing", "error"}

\* Every graph over three steps that has an edge, up to the names of the steps:
\* one edge, fork, join, chain and triangle.
Chain == (a :> {}) @@ (b :> {a}) @@ (c :> {b})
Fork == (a :> {}) @@ (b :> {a}) @@ (c :> {a})
Join == (a :> {}) @@ (b :> {}) @@ (c :> {a, b})
Graphs3 == {(a :> {}) @@ (b :> {}) @@ (c :> {b}), Fork, Join, Chain, (a :> {}) @@ (b :> {a}) @@ (c :> {a, b})}

\* The diamond, three sources and their join, and a join of branches of unequal length.
Diamond == (a :> {}) @@ (b :> {a}) @@ (c :> {a}) @@ (d :> {b, c})
FanIn == (a :> {}) @@ (b :> {}) @@ (c :> {}) @@ (d :> {a, b, c})
TwoRoots == (a :> {}) @@ (b :> {}) @@ (c :> {b}) @@ (d :> {a, c})

Workflow(graphs, conds) ==
  [deps : graphs, cond : conds, strategy : Strategies]

NoConditions == {[s \in Step |-> Plain]}
OneCondition == NoConditions \cup
  {[s \in Step |-> IF s = t THEN AnyOutcome ELSE Plain] : t \in Step}

AllOfThree == Workflow(Graphs3, OneCondition)
FourPlain == Workflow({Diamond, FanIn, TwoRoots}, NoConditions)
FewOfThree == Workflow({Fork, Join}, NoConditions)

\* Small graphs that are resumed, the chain with a condition in its middle.
ResumeWorkflows == FewOfThree \cup
  Workflow({Chain}, {[s \in Step |-> IF s = b THEN AnyOutcome ELSE Plain]})

\* d joins a and c; c, which waits for b, has a condition that may be false.
JoinAfterCondition ==
  Workflow({TwoRoots}, {[s \in Step |-> IF s = c THEN {"true", "false"} ELSE Plain]})
OnlyConditional == Workflow(Graphs3, {[s \in Step |-> {"true", "false"}]})
===============================================================================
