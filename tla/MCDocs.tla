--------------------------------- MODULE MCDocs ---------------------------------
(***************************************************************************)
(* Small documents for WorkflowDocs: families that vary a few fields of a   *)
(* plain one, so that every check of a document decides some of them.       *)
(***************************************************************************)
EXTENDS Integers, Sequences, TLC

PlainStep ==
  [id |-> "a", agent |-> "", instructions |-> "text", include |-> FALSE, tool |-> FALSE,
   toolInput |-> FALSE, files |-> FALSE, model |-> FALSE, condition |-> "absent", retries |-> 0,
   timeout |-> 0, deps |-> {}, loop |-> <<>>]
PlainLoop ==
  [forEach |-> "absent", maxIter |-> <<2>>, until |-> "absent", untilAgent |-> "", delay |-> FALSE,
   conc |-> 0, output |-> "", steps |-> <<>>]
GoodSchema == [properties |-> TRUE, done |-> "boolean", required |-> "done"]
Worker ==
  [described |-> TRUE, turns |-> 0, sampling |-> TRUE, model |-> FALSE, tools |-> {}, schema |-> <<>>]
TheJudge == [Worker EXCEPT !.schema = <<GoodSchema>>]
PlainDoc ==
  [name |-> TRUE, version |-> 0, agents |-> ("w" :> Worker) @@ ("j" :> TheJudge),
   steps |-> <<PlainStep>>, failure |-> "", scheduler |-> "", conc |-> 0, timeout |-> 0, ref |-> ""]

Having(step) == [PlainDoc EXCEPT !.steps = <<step>>]
InLoop(l) == Having([PlainStep EXCEPT !.loop = <<l>>])
Wait(id, deps) == [PlainStep EXCEPT !.id = id, !.deps = deps]

\* Every graph over three steps, self-loops and unknown names included; ids of all sorts.
Names == {"a", "b", "c"}
GraphDocs ==
  {[PlainDoc EXCEPT !.steps = <<Wait("a", x), Wait("b", y), Wait("c", z)>>] :
     x \in SUBSET Names, y \in SUBSET Names, z \in SUBSET (Names \cup {"ghost"})}
    \cup {[PlainDoc EXCEPT !.steps = <<Wait(i, {}), Wait("a", x)>>] :
            i \in {"a~", "", "!", "B", "1", "a-b", "a"}, x \in {{}, {"a~"}, {"B"}}}
    \cup {[PlainDoc EXCEPT !.steps = [i \in 1 .. n |-> Wait(<<"a", "b", "c", "d", "w">>[i], {})]] :
            n \in {0, 4, 5}}

\* The fields of one step that exclude each other.
ShapeDocs ==
  {Having([PlainStep EXCEPT !.agent = a, !.instructions = i, !.include = n, !.tool = t,
                            !.toolInput = u, !.files = f, !.model = m, !.condition = c]) :
     a \in {"", "w", "ghost"}, i \in {"", "text", "long"}, n \in BOOLEAN, t \in BOOLEAN,
     u \in BOOLEAN, f \in BOOLEAN, m \in BOOLEAN, c \in {"absent", "expression", "empty"}}
    \cup {Having([PlainStep EXCEPT !.retries = -1]),
          Having([PlainStep EXCEPT !.include = TRUE, !.instructions = "", !.loop = <<PlainLoop>>])}

InnerSteps ==
  {<<>>, <<Wait("a", {})>>, <<Wait("", {})>>, <<Wait("a", {"b"}), Wait("b", {"a"})>>,
   <<Wait("a", {"b"}), Wait("b", {})>>, <<Wait("a", {}), Wait("a", {})>>, <<Wait("a", {"c"})>>,
   <<[PlainStep EXCEPT !.agent = "ghost"]>>, <<[PlainStep EXCEPT !.loop = <<PlainLoop>>]>>,
   <<[PlainStep EXCEPT !.include = TRUE, !.instructions = "", !.agent = "w"]>>,
   <<[PlainStep EXCEPT !.include = TRUE, !.instructions = ""]>>}
LoopDocs ==
  {InLoop([PlainLoop EXCEPT !.forEach = f, !.maxIter = n, !.until = u, !.untilAgent = j, !.delay = d]) :
     f \in {"absent", "empty", "list", "other"}, n \in {<<>>, <<-1>>, <<0>>, <<2>>},
     u \in {"absent", "expression", "empty"}, j \in {"", "j", "w", "ghost"}, d \in BOOLEAN}
    \cup {InLoop([PlainLoop EXCEPT !.conc = c, !.output = o, !.steps = s]) :
            c \in {-1, 0}, o \in {"last", "cumulative", "other"},
            s \in {<<>>} \cup {<<i>> : i \in InnerSteps}}

OptionDocs ==
  {[PlainDoc EXCEPT !.name = n, !.version = v, !.failure = f, !.scheduler = s, !.conc = c] :
     n \in BOOLEAN, v \in 0 .. 2, f \in {"", "abort", "other"}, s \in {"", "round-robin", "other"},
     c \in {-1, 1}}
    \cup {[PlainDoc EXCEPT !.agents = (n :> a)] :
            n \in {"w", "B"},
            a \in [described : BOOLEAN, turns : {-1, 3}, sampling : BOOLEAN, model : {FALSE},
                   tools : {{}}, schema : {<<>>}]}
    \cup {[PlainDoc EXCEPT !.agents = ("w" :> [Worker EXCEPT !.tools = t])] :
            t \in {{"read"}, {"read", "unknown"}}}

\* Judges whose result has not the one form the loop needs.
JudgeDocs ==
  {[InLoop([PlainLoop EXCEPT !.untilAgent = "j"]) EXCEPT !.agents = ("j" :> [Worker EXCEPT !.schema = s])] :
     s \in {<<>>} \cup
           {<<schema>> : schema \in [properties : BOOLEAN, done : {"none", "boolean", "string"},
                                     required : {"none", "done", "other"}]}}

RefDocs == {[PlainDoc EXCEPT !.ref = r] : r \in {"f", "g", "none", "d1", "d2"}}
RefFiles ==
  ("f" :> "text") @@ ("g" :> "h") @@ ("h" :> "g") @@ ("none" :> "missing")
    @@ ("d1" :> "d2") @@ ("d2" :> "d3") @@ ("d3" :> "d4") @@ ("d4" :> "text")

\* Four steps of three agents that may all start, and one that waits.
OrderDocs ==
  {[PlainDoc EXCEPT !.scheduler = s,
                    !.steps = [i \in 1 .. 4 |-> [Wait(<<"a", "b", "c", "d">>[i], IF i = 4 THEN w ELSE {})
                                                   EXCEPT !.agent = g[i]]]] :
     s \in {"", "round-robin", "least-busy"}, w \in {{}, {"a"}}, g \in [1 .. 4 -> {"", "j", "w"}]}

AllDocs ==
  GraphDocs \cup ShapeDocs \cup LoopDocs \cup OptionDocs \cup JudgeDocs \cup RefDocs \cup OrderDocs

\* What a model may answer to a goal.
PlanLoop(t, m) ==
  [PlainLoop EXCEPT !.steps = << <<[Wait("b", {}) EXCEPT !.timeout = t, !.model = m]>> >>]
SmallPlans ==
  {[PlainDoc EXCEPT !.timeout = t, !.agents = ("w" :> [Worker EXCEPT !.model = m]),
                    !.steps = <<[PlainStep EXCEPT !.timeout = t, !.model = m, !.loop = l]>>] :
     t \in {0, 5}, m \in BOOLEAN, l \in {<<>>, <<PlanLoop(0, TRUE)>>, <<PlanLoop(5, FALSE)>>}}
AllPlans ==
  SmallPlans
    \cup {Having(Wait(i, {})) : i \in {"a-b", "!", "B"}}
    \cup {Having([PlainStep EXCEPT !.loop = << [PlainLoop EXCEPT !.steps = << <<Wait("a-b", {})>> >>] >>])}
    \cup {[PlainDoc EXCEPT !.agents = ("w" :> [Worker EXCEPT !.tools = {"unknown"}])]}
Cleaning == "a~" :> "a"
===============================================================================
