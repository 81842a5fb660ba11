------------------------------ MODULE GraphRun ------------------------------
(***************************************************************************)
(* One run of a persona's graph: packages/core/src/chatflow/engine.ts over *)
(* chatflow/validate.ts.                                                   *)
(*                                                                         *)
(* A graph is what the author saved: a list of nodes and a list of edges,  *)
(* in their order.  A run walks from the start node to the first answer    *)
(* that is not empty.  Texts are left out: what a condition evaluates to,  *)
(* whether an answer renders to nothing and how a service answers are      *)
(* choices.  Headers, bodies and prompts are left out.                     *)
(***************************************************************************)
EXTENDS Naturals, FiniteSets, Sequences, FiniteSetsExt

CONSTANTS
    Graphs,         \* the graphs authors save: [nodes, edges]
    MaxNodes,       \* maxNodes
    MaxSteps,       \* maxSteps
    SearchAllowed   \* the persona and the settings allow a search node

GraphConstants ==
    /\ MaxNodes \in Nat /\ MaxSteps \in Nat /\ SearchAllowed \in BOOLEAN

VARIABLES
    graph,    \* the graph as it was saved
    current,  \* the node the run is at, or Nowhere
    steps,
    answer,   \* finalAnswer: the node that gave it, or Nowhere
    outcome,  \* "start", "run", or how it ended
    trace,    \* history: the nodes entered, each with what it decided
    tokens    \* calls of a model that are billed if the run returns

graphVars == <<graph, current, steps, answer, outcome, trace, tokens>>

Nowhere == "nowhere"

\* What an author may save; a node has a name.
Drawings ==
    [nodes : Seq([id : STRING \ {Nowhere}, type : STRING]),
     edges : Seq([source : STRING, handle : STRING, target : STRING])]

GraphAssumption == GraphConstants /\ Graphs \subseteq Drawings

Types == {"start", "llm", "answer", "if-else", "http", "memory", "search"}
-----------------------------------------------------------------------------
(* validateChatflowGraph *)

OfType(g, t) == {i \in DOMAIN g.nodes : g.nodes[i].type = t}
Ids(g) == {g.nodes[i].id : i \in DOMAIN g.nodes}

Valid(g) ==
    /\ Len(g.nodes) \in 1..MaxNodes
    /\ \A i, j \in DOMAIN g.nodes : g.nodes[i].id = g.nodes[j].id => i = j
    /\ \A i \in DOMAIN g.nodes : g.nodes[i].type \in Types
    /\ Cardinality(OfType(g, "start")) = 1
    /\ OfType(g, "answer") # {}
    /\ \A k \in DOMAIN g.edges : {g.edges[k].source, g.edges[k].target} \subseteq Ids(g)

TypeOf(n) == LET i == CHOOSE i \in DOMAIN graph.nodes : graph.nodes[i].id = n IN graph.nodes[i].type
-----------------------------------------------------------------------------
(* outgoing: the first edge with the handle, where an edge without one     *)
(* counts as "true"; else the first without a handle; else the first.      *)

Leaving(n) == {k \in DOMAIN graph.edges : graph.edges[k].source = n}
Handle(k) == IF graph.edges[k].handle = "none" THEN "true" ELSE graph.edges[k].handle
FirstTarget(ks) == graph.edges[Min(ks)].target

Outgoing(n, handle) ==
    LET hit == {k \in Leaving(n) : handle # "none" /\ Handle(k) = handle}
        default == {k \in Leaving(n) : graph.edges[k].handle \in {"none", "default"}}
    IN  IF hit # {} THEN FirstTarget(hit)
        ELSE IF default # {} THEN FirstTarget(default)
        ELSE IF Leaving(n) # {} THEN FirstTarget(Leaving(n))
        ELSE Nowhere

\* An if-else with no way out one way is asked for the other.
Branch(n, ok) ==
    LET way(b) == Outgoing(n, IF b THEN "true" ELSE "false")
    IN  IF way(ok) # Nowhere THEN way(ok) ELSE way(~ok)
-----------------------------------------------------------------------------
GraphInit ==
    /\ graph \in Graphs
    /\ current = Nowhere /\ steps = 0 /\ answer = Nowhere /\ outcome = "start"
    /\ trace = <<>> /\ tokens = 0

Ends(how) == outcome' = how /\ current' = Nowhere

\* run: a graph that is not sound is refused before its first node.
Begin ==
    /\ outcome = "start"
    /\ IF Valid(graph)
       THEN /\ outcome' = "run"
            /\ current' = graph.nodes[CHOOSE i \in OfType(graph, "start") : TRUE].id
       ELSE Ends("invalid_graph")
    /\ UNCHANGED <<graph, steps, answer, trace, tokens>>

TooManyOneEarly(n) == n >= MaxSteps

TooMany(n) == n > MaxSteps

OutOfSteps ==
    /\ outcome = "run" /\ current # Nowhere
    /\ TooMany(steps + 1)
    /\ Ends("max_steps")
    /\ trace' = Append(trace, [node |-> current, what |-> "cut"])
    /\ UNCHANGED <<graph, steps, answer, tokens>>

\* The run enters a node of one of these types; it decides `what` there.
Enter(types, what) ==
    /\ outcome = "run" /\ current # Nowhere
    /\ ~TooMany(steps + 1)
    /\ TypeOf(current) \in types
    /\ steps' = steps + 1
    /\ trace' = Append(trace, [node |-> current, what |-> what])

GoesOn(to) == current' = to /\ UNCHANGED outcome

\* start and memory only pass on; so does an http node, whatever the other
\* side answers or does not.
PassOn ==
    /\ Enter({"start", "memory", "http"}, "pass")
    /\ GoesOn(Outgoing(current, "none"))
    /\ UNCHANGED <<graph, answer, tokens>>

Decide ==
    \E ok \in BOOLEAN :
        /\ Enter({"if-else"}, IF ok THEN "true" ELSE "false")
        /\ GoesOn(Branch(current, ok))
        /\ UNCHANGED <<graph, answer, tokens>>

Search ==
    /\ Enter({"search"}, "pass")
    /\ IF SearchAllowed THEN GoesOn(Outgoing(current, "none")) ELSE Ends("search_disabled")
    /\ UNCHANGED <<graph, answer, tokens>>

AskModel ==
    /\ Enter({"llm"}, "pass")
    /\ GoesOn(Outgoing(current, "none"))
    /\ tokens' = tokens + 1
    /\ UNCHANGED <<graph, answer>>

\* The guard refuses an address, the search fails, or a model does not
\* answer: the run ends there, and what it spent is never reported.
Throws ==
    /\ Enter({"http", "llm", "search"}, "throw")
    /\ Ends("threw")
    /\ UNCHANGED <<graph, answer, tokens>>

GivesAnswer ==
    \E empty \in BOOLEAN :
        /\ Enter({"answer"}, IF empty THEN "empty" ELSE "text")
        /\ answer' = IF empty THEN answer ELSE current
        /\ IF empty THEN GoesOn(Outgoing(current, "none")) ELSE Ends("answered")
        /\ UNCHANGED <<graph, tokens>>

DeadEnd ==
    /\ outcome = "run" /\ current = Nowhere
    /\ Ends(IF answer = Nowhere THEN "no_answer" ELSE "answered")
    /\ UNCHANGED <<graph, steps, answer, trace, tokens>>

GraphNext ==
    \/ Begin
    \/ OutOfSteps
    \/ PassOn
    \/ Decide
    \/ Search
    \/ AskModel
    \/ Throws
    \/ GivesAnswer
    \/ DeadEnd

GraphSpec == GraphInit /\ [][GraphNext]_graphVars
-----------------------------------------------------------------------------
GraphTypeOK ==
    /\ graph \in Graphs
    /\ current \in Ids(graph) \cup {Nowhere} /\ answer \in Ids(graph) \cup {Nowhere}
    /\ steps \in 0..MaxSteps /\ tokens \in 0..MaxSteps
    /\ outcome \in {"start", "run", "invalid_graph", "max_steps", "search_disabled", "threw",
                    "no_answer", "answered"}

\* A run goes along edges, and where the author drew both ways out of a
\* condition it takes the way the condition says; it is answered by the last
\* node it entered, the first whose text was not empty; it is without an
\* answer only where no edge goes on; and when as many steps are allowed as
\* there are nodes, only a run that came back to a node is cut off
\* (run, outgoing).
GraphAnswers ==
    LET n == Len(trace)
        node(i) == trace[i].node
        Drawn(i, h) == {k \in DOMAIN graph.edges : graph.edges[k].source = node(i) /\ graph.edges[k].handle = h}
    IN  /\ \A i \in 1..(n - 1) :
              /\ \E k \in DOMAIN graph.edges :
                    graph.edges[k].source = node(i) /\ graph.edges[k].target = node(i + 1)
              /\ (trace[i].what \in {"true", "false"} /\ \A h \in {"true", "false"} : Drawn(i, h) # {}
                    /\ Drawn(i, "none") = {})
                 => \E k \in Drawn(i, trace[i].what) : graph.edges[k].target = node(i + 1)
        /\ \A i \in 1..n : trace[i].what = "text" => i = n
        /\ outcome = "answered" => n > 0 /\ answer = node(n)
        /\ outcome = "no_answer" => Leaving(node(n)) = {}
        /\ (outcome = "max_steps" /\ MaxSteps >= Len(graph.nodes))
           => \E i, j \in 1..n : i # j /\ node(i) = node(j)
=============================================================================
