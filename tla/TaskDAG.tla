-------------------------------- MODULE TaskDAG --------------------------------
(***************************************************************************)
(* The graph of steps of task.py: class TaskDAG keeps every dependency     *)
(* three times, in the depends_on of the step, in the list of dependents   *)
(* and in the in-degree, and a condition beside it; each operation keeps   *)
(* the three in step by hand, and takes a change back that would close a   *)
(* cycle.  The constructor checks nothing: it may be given cycles, and     *)
(* dependencies on steps that do not exist.                                *)
(*                                                                         *)
(* depends_on is a set here: no step names a dependency twice.             *)
(***************************************************************************)
EXTENDS Integers, FiniteSets, Sequences, SequencesExt

CONSTANT Ids       \* step ids

VARIABLES g,       \* the graph
          answer   \* what the last operation returned

vars == <<g, answer>>

Edges == Ids \X Ids

TypeOK ==
    /\ g \in [nodes : SUBSET Ids, deps : [Ids -> SUBSET Ids], dependents : [Ids -> SUBSET Ids],
              degree : [Ids -> Int], conditions : SUBSET Edges, done : SUBSET Ids]
    /\ answer \in BOOLEAN

\* TaskDAG(subtasks): a step with a condition has it on all its dependencies.
Build(nodes, deps, conditional, done) ==
    [nodes      |-> nodes,
     deps       |-> deps,
     dependents |-> [d \in Ids |-> {n \in nodes : d \in deps[n]}],
     degree     |-> [n \in Ids |-> Cardinality(deps[n])],
     conditions |-> {e \in Edges : e[2] \in conditional /\ e[1] \in deps[e[2]]},
     done       |-> done]

Init ==
    /\ \E nodes \in SUBSET Ids :
         \E deps \in [Ids -> SUBSET Ids], conditional \in SUBSET nodes :
            /\ \A n \in Ids \ nodes : deps[n] = {}
            /\ g = Build(nodes, deps, conditional, {})
    /\ answer = TRUE

-----------------------------------------------------------------------------
(* The algorithms.                                                         *)

\* topological_sort: the steps without open dependencies, one after the other.
Sorted ==
    LET Kahn[s \in [queue : Seq(Ids), degree : [Ids -> Int], result : Seq(Ids)]] ==
            IF s.queue = <<>> THEN s.result
            ELSE LET next == g.dependents[Head(s.queue)]
                     left == [n \in Ids |-> IF n \in next THEN s.degree[n] - 1 ELSE s.degree[n]]
                 IN  Kahn[[queue  |-> Tail(s.queue) \o SetToSeq({n \in next : left[n] = 0}),
                           degree |-> left,
                           result |-> Append(s.result, Head(s.queue))]]
    IN  Kahn[[queue |-> SetToSeq({n \in g.nodes : g.degree[n] = 0}), degree |-> g.degree, result |-> <<>>]]

\* The steps topological_sort reaches in graph h, round by round.
Peeled(h) ==
    LET Found[found \in SUBSET h.nodes] ==
            LET more == {n \in h.nodes : h.degree[n] = Cardinality({d \in found : n \in h.dependents[d]})}
            IN  IF more \subseteq found THEN found ELSE Found[found \cup more]
    IN  Found[{}]

HasCycle(h) == Peeled(h) # h.nodes

\* get_ready_subtasks, without a context.
Ready == {n \in g.nodes \ g.done : g.deps[n] \cap g.nodes \subseteq g.done}

-----------------------------------------------------------------------------
(* The operations.                                                         *)

Update(n) ==
    /\ n \in g.nodes \ g.done
    /\ g' = [g EXCEPT !.done = @ \cup {n}]
    /\ answer' = TRUE

AtLeast0(n) == IF n < 0 THEN 0 ELSE n

\* _remove_node_internal.  The step's own dependencies go first.
Without(h, n) ==
    LET left   == [d \in Ids |-> IF d \in h.deps[n] THEN h.dependents[d] \ {n} ELSE h.dependents[d]]
        freed  == {m \in left[n] \cap (h.nodes \ {n}) : n \in h.deps[m]}
    IN  [nodes      |-> h.nodes \ {n},
         deps       |-> [m \in Ids |-> IF m = n THEN {} ELSE IF m \in freed THEN h.deps[m] \ {n} ELSE h.deps[m]],
         dependents |-> [left EXCEPT ![n] = {}],
         degree     |-> [m \in Ids |-> IF m = n THEN 0 ELSE IF m \in freed THEN AtLeast0(h.degree[m] - 1)
                                       ELSE h.degree[m]],
         conditions |-> h.conditions \ ((h.deps[n] \X {n}) \cup ({n} \X left[n])),
         done       |-> h.done \ {n}]

AddNode(n, deps, conditional) ==
    LET added == [g EXCEPT !.nodes = @ \cup {n}, !.deps[n] = deps, !.degree[n] = Cardinality(deps),
                           !.dependents = [d \in Ids |-> IF d \in deps THEN @[d] \cup {n} ELSE @[d]],
                           !.conditions = @ \cup (IF conditional THEN deps \X {n} ELSE {})]
    IN  IF n \in g.nodes
        THEN answer' = FALSE /\ UNCHANGED g
        ELSE answer' = ~HasCycle(added) /\ g' = IF HasCycle(added) THEN Without(added, n) ELSE added

RemoveNode(n) ==
    /\ n \in g.nodes
    /\ g' = Without(g, n)
    /\ answer' = TRUE

\* Faulty: the in-degree is left as it is.
EdgeUndoneByHalf(h, s, t) == [h EXCEPT !.dependents[s] = @ \ {t}, !.deps[t] = @ \ {s}]

\* What add_edge takes back.
EdgeUndone(h, s, t) == [h EXCEPT !.dependents[s] = @ \ {t}, !.deps[t] = @ \ {s}, !.degree[t] = @ - 1]

\* Faulty: an edge from a step that comes later is not looked at.
ClosesItself(h, s, t) == s = t

Closes(h, s, t) == HasCycle(h)

AddEdge(s, t, conditional) ==
    LET added == [g EXCEPT !.dependents[s] = @ \cup {t}, !.deps[t] = @ \cup {s}, !.degree[t] = @ + 1]
    IN  IF s \notin g.nodes \/ t \notin g.nodes \/ t \in g.dependents[s]
        THEN answer' = FALSE /\ UNCHANGED g
        ELSE IF Closes(added, s, t)
        THEN answer' = FALSE /\ g' = EdgeUndone(added, s, t)
        ELSE /\ answer' = TRUE
             /\ g' = [added EXCEPT !.conditions = @ \cup (IF conditional THEN {<<s, t>>} ELSE {})]

RemoveEdge(s, t) ==
    /\ t \in g.dependents[s]
    /\ g' = [g EXCEPT !.dependents[s] = @ \ {t}, !.deps[t] = @ \ {s},
                      !.degree[t] = AtLeast0(@ - 1), !.conditions = @ \ {<<s, t>>}]
    /\ answer' = TRUE

\* to_graph_json and from_graph_json: the format has one condition for each edge, and the
\* constructor one for each step, so the condition of one edge comes back on all its neighbours.
Reload ==
    /\ g' = Build(g.nodes, g.deps, {e[2] : e \in g.conditions}, g.done)
    /\ answer' = TRUE

Next ==
    \/ \E n \in Ids : Update(n) \/ RemoveNode(n)
    \/ \E n \in Ids, deps \in SUBSET Ids, c \in BOOLEAN : AddNode(n, deps, c)
    \/ \E s, t \in Ids, c \in BOOLEAN : AddEdge(s, t, c)
    \/ \E s, t \in Ids : RemoveEdge(s, t)
    \/ Reload

Spec == Init /\ [][Next]_vars

-----------------------------------------------------------------------------
(* However the graph was built and changed: the three records of every     *)
(* dependency agree and no condition outlives its edge; the order lists    *)
(* every step at most once and behind all its dependencies, and leaves out *)
(* just those that wait, directly or not, for a cycle or for a step that   *)
(* does not exist; and if it leaves out none, some step is ready until all *)
(* of them are done.                                                       *)
Mirror ==
    /\ \A d, n \in Ids : n \in g.dependents[d] <=> n \in g.nodes /\ d \in g.deps[n]
    /\ \A n \in g.nodes : g.degree[n] = Cardinality(g.deps[n])
    /\ \A e \in g.conditions : e[1] \in g.deps[e[2]]

Stuck(S) == \A n \in S : \E d \in g.deps[n] : d \in S \/ d \notin g.nodes

OrderSound ==
    LET order  == Sorted
        placed == {order[i] : i \in DOMAIN order}
    IN  /\ Cardinality(placed) = Len(order)
        /\ \A i \in DOMAIN order : g.deps[order[i]] \subseteq {order[j] : j \in 1..i - 1}
        /\ Stuck(g.nodes \ placed)
        /\ HasCycle(g) <=> \E S \in SUBSET g.nodes : S # {} /\ Stuck(S)
        /\ ~HasCycle(g) /\ g.nodes \ g.done # {} => Ready # {}

GraphSound == Mirror /\ OrderSound

(* A graph without cycles stays one, and an operation that is refused on   *)
(* it leaves no trace.                                                     *)
StaysAcyclic ==
    [][ ~HasCycle(g) => ~HasCycle(g') /\ (~answer' => g' = g) ]_vars

================================================================================
