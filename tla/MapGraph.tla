------------------------------ MODULE MapGraph ------------------------------
(* A version of the Project Map is refused when its nodes or edges are wrong
   or its dependencies have a cycle (productmap.py: _normalize_map and the
   depth-first search of _reject_cycles, one call frame of visit per element
   of the stack).                                                             *)
EXTENDS Naturals, Sequences, FiniteSets

CONSTANTS
  Names,      \* node keys; an edge may name one that is not a node
  Submitted,  \* [keys: sequences of keys, edges: sets of pairs] offered to the service
  MaxNodes    \* _MAX_NODES

VARIABLES
  offer,    \* the nodes and edges submitted
  color,    \* of each node: white, gray or black
  stack,    \* frames of visit: [node, left], the successors not yet looked at
  verdict   \* "searching", "accepted", "cycle" or "invalid"

graphVars == <<offer, color, stack, verdict>>

KeysOf(keys) == {keys[i] : i \in DOMAIN keys}
Nodes == KeysOf(offer.keys)
Successors(n) == {e[2] : e \in {x \in offer.edges : x[1] = n}}

\* Too many nodes, a repeated key, a hanging edge. (Types and truth statuses are not modelled.)
WellFormed(o) ==
  /\ Len(o.keys) <= MaxNodes
  /\ Cardinality(KeysOf(o.keys)) = Len(o.keys)
  /\ o.edges \subseteq KeysOf(o.keys) \X KeysOf(o.keys)

Init ==
  /\ offer \in Submitted
  /\ color = [n \in Names |-> "white"]
  /\ stack = <<>>
  /\ verdict = IF WellFormed(offer) THEN "searching" ELSE "invalid"

Enter(n) ==
  /\ color' = [color EXCEPT ![n] = "gray"]
  /\ stack' = Append(stack, [node |-> n, left |-> Successors(n)])

\* The loop over the keys: the first node still white, in the order submitted.
NextRoot ==
  /\ verdict = "searching" /\ stack = <<>>
  /\ \E i \in DOMAIN offer.keys :
       /\ color[offer.keys[i]] = "white"
       /\ \A j \in 1..(i - 1) : color[offer.keys[j]] # "white"
       /\ Enter(offer.keys[i])
  /\ UNCHANGED <<offer, verdict>>

Accept ==
  /\ verdict = "searching" /\ stack = <<>>
  /\ \A n \in Nodes : color[n] # "white"
  /\ verdict' = "accepted"
  /\ UNCHANGED <<offer, color, stack>>

Top == stack[Len(stack)]

\* A variant of ClosesCycle: an edge back to where the search began.
BackToRoot(v) == v = stack[1].node

\* A gray successor is a frame of the stack.
ClosesCycle(v) == color[v] = "gray"

\* One successor of the frame on top; the order of a node's edges is any.
Look ==
  /\ verdict = "searching" /\ stack # <<>>
  /\ \E v \in Top.left :
       LET seen == [stack EXCEPT ![Len(stack)] = [node |-> Top.node, left |-> Top.left \ {v}]] IN
       IF ClosesCycle(v) THEN verdict' = "cycle" /\ UNCHANGED <<color, stack>>
       ELSE /\ verdict' = verdict
            /\ IF color[v] = "white"
               THEN /\ color' = [color EXCEPT ![v] = "gray"]
                    /\ stack' = Append(seen, [node |-> v, left |-> Successors(v)])
               ELSE color' = color /\ stack' = seen
  /\ UNCHANGED offer

Leave ==
  /\ verdict = "searching" /\ stack # <<>>
  /\ Top.left = {}
  /\ color' = [color EXCEPT ![Top.node] = "black"]
  /\ stack' = SubSeq(stack, 1, Len(stack) - 1)
  /\ UNCHANGED <<offer, verdict>>

Next == NextRoot \/ Accept \/ Look \/ Leave

Spec == Init /\ [][Next]_graphVars

-----------------------------------------------------------------------------
TypeOK ==
  /\ offer \in Submitted
  /\ color \in [Names -> {"white", "gray", "black"}]
  /\ \A i \in DOMAIN stack : stack[i].node \in Nodes /\ stack[i].left \subseteq Nodes
  /\ verdict \in {"searching", "accepted", "cycle", "invalid"}

\* A graph has a cycle when some set of its nodes has no way out of itself but
\* every member of it is left for another member.
Cyclic(edges) ==
  \E within \in (SUBSET Nodes) \ {{}} : \A n \in within : \E m \in within : <<n, m>> \in edges

(* The search ends with the right answer, whatever the order of nodes and     *)
(* edges: a map is refused for a cycle exactly when it has one                *)
(* (productmap.py:_reject_cycles).                                            *)
RefusedIffCyclic ==
  /\ verdict = "accepted" => ~Cyclic(offer.edges)
  /\ verdict = "cycle" => Cyclic(offer.edges)
=============================================================================
