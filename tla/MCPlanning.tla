----------------------------- MODULE MCPlanning -----------------------------
(* What decides about the work, one component at a time: the Time Machine     *)
(* itself, the Product Map and its graph check, the router, rotations and     *)
(* handoffs, the plan of Work Orders, and the reviews.                        *)
(* `focus` chooses the component; the others keep still.                      *)
EXTENDS TimeMachine, Sequences, FiniteSets, TLC

CONSTANTS
  Clients, Keys, NoKey, Required, Optional, Contents, MaxVersion, MaxActive,  \* of ProductMap
  Names, Submitted, MaxNodes,                                                 \* of MapGraph
  Requests, NoProfile,                                                        \* of Router
  Rotators, HeadGiven, MaxHead, MaxPackages, MaxMoves,                        \* of Rotations
  Planners, Criteria, Bindings, MaxCriteria, MaxSaved, MaxOrders, MaxApprovals,
  Reviewers, Refs, Paths, Bytes, Observations, MaxReviewed, MaxReports, None, \* of Reviews
  c1, c2, n1, n2, n3, n4  \* model values of the instance that is checked

VARIABLES
  focus,
  briefs, maps, decisions, edits, approvals, activations, open, used, fresh, client,
  offer, color, stack, verdict,
  request, answer,
  status, version, head, connected, packages, acks, rotations, rotateCall, spells, began,
  approval, drifted, specs, saved, orders, archived, split, planCall,
  actual, file, evidence, reviewed, reviewCall, findings, reports, loops, authorized

productVars == <<briefs, maps, decisions, edits, approvals, activations, open, used, fresh, client>>
graphVars == <<offer, color, stack, verdict>>
routerVars == <<request, answer>>
rotationVars == <<status, version, head, connected, packages, acks, rotations, rotateCall, spells, began>>
planVars == <<approval, drifted, specs, saved, orders, archived, split, planCall>>
reviewVars == <<actual, file, evidence, reviewed, reviewCall, findings, reports, loops, authorized>>

ASSUME ContentsAssumption == Contents \subseteq [scope : BOOLEAN, verified : BOOLEAN]

\* What is submitted as a map is keys and pairs of keys, well-formed or not.
ASSUME MapsAssumption == \A o \in Submitted : o.keys \in Seq(Names) /\ o.edges \subseteq Names \X Names

\* Profiles differ in their aliases, and what is left of a window is a percentage.
ASSUME RequestsAssumption ==
  \A r \in Requests :
    /\ IsFiniteSet(r.profiles) /\ r.profiles \subseteq
         [alias : Nat, ready : BOOLEAN, affinity : BOOLEAN, remaining : 0..100, used : Nat,
          capacity : {"AVAILABLE", "LOW", "UNKNOWN", "STALE", "EXHAUSTED"}]
    /\ \A c, d \in r.profiles : c.alias = d.alias => c = d

Product == INSTANCE ProductMap WITH call <- client
Graph == INSTANCE MapGraph
Route == INSTANCE Router
Rotation == INSTANCE Rotations WITH Calls <- Rotators, MaxVersion <- MaxMoves, call <- rotateCall
Plan == INSTANCE WorkPlan WITH Calls <- Planners, call <- planCall
Review == INSTANCE Reviews WITH
  Calls <- Reviewers, MaxPackages <- MaxReviewed, head <- actual, packages <- reviewed, call <- reviewCall

-----------------------------------------------------------------------------
(* The instance that is checked: values of Contents, Submitted and Requests. *)
Symmetry == Permutations({c1, c2})

EmptyOrVerified == {[scope |-> b, verified |-> b] : b \in BOOLEAN}

\* Every graph of three nodes; a repeated key, a node too many and a hanging edge.
SmallMaps ==
  [keys : {<<n1, n2, n3>>}, edges : SUBSET ({n1, n2, n3} \X {n1, n2, n3})]
    \cup [keys : {<<n1, n1>>, <<n1, n2, n3, n4>>, <<n1, n2>>}, edges : {{<<n1, n4>>}}]

Candidates(n) ==
  {[alias |-> n, ready |-> TRUE, capacity |-> c, affinity |-> a, remaining |-> m, used |-> u] :
     c \in {"AVAILABLE", "LOW", "STALE"}, a \in BOOLEAN, m \in {0, 40}, u \in 0..1}
  \cup {[alias |-> n, ready |-> r, capacity |-> IF r THEN "EXHAUSTED" ELSE "AVAILABLE",
         affinity |-> FALSE, remaining |-> 0, used |-> 0] : r \in BOOLEAN}
Free == [asked : {0}, profiles : {{c, d, e} : c \in Candidates(1), d \in Candidates(2), e \in Candidates(3)},
         model : {0}, available : {{1}}, preferred : {<<>>}]
Asked == [asked : {1}, profiles : {{c, d} : c \in Candidates(1), d \in Candidates(2)},
          model : {0, 1, 2}, available : {{2}, {}}, preferred : {<<>>, <<3, 2>>}]
FreeOrAsked == Free \cup Asked

-----------------------------------------------------------------------------
NoRequest == [asked |-> 1, profiles |-> {}, model |-> 0, available |-> {}, preferred |-> <<>>]
SomeBytes == CHOOSE b \in Bytes : TRUE

\* A component that is not in focus starts in one state of its own.
PlanningInit ==
  /\ focus \in {"replay", "product", "graph", "route", "rotation", "plan", "review"}
  /\ Init
  /\ Product!Init
  /\ IF focus = "graph" THEN Graph!Init
     ELSE /\ offer = [keys |-> <<>>, edges |-> {}] /\ color = <<>> /\ stack = <<>> /\ verdict = "invalid"
  /\ IF focus = "route" THEN Route!Init ELSE request = NoRequest /\ answer = Route!Unanswered
  /\ Rotation!Init
  /\ Plan!Init
  /\ Review!Init /\ (focus # "review" => file = [p \in Paths |-> SomeBytes])

PlanningNext ==
  \/ focus = "replay" /\ Next
       /\ UNCHANGED <<focus, productVars, graphVars, routerVars, rotationVars, planVars, reviewVars>>
  \/ focus = "product" /\ Product!Next
       /\ UNCHANGED <<focus, vars, graphVars, routerVars, rotationVars, planVars, reviewVars>>
  \/ focus = "graph" /\ Graph!Next
       /\ UNCHANGED <<focus, vars, productVars, routerVars, rotationVars, planVars, reviewVars>>
  \/ focus = "route" /\ Route!Next
       /\ UNCHANGED <<focus, vars, productVars, graphVars, rotationVars, planVars, reviewVars>>
  \/ focus = "rotation" /\ Rotation!Next
       /\ UNCHANGED <<focus, vars, productVars, graphVars, routerVars, planVars, reviewVars>>
  \/ focus = "plan" /\ Plan!Next
       /\ UNCHANGED <<focus, vars, productVars, graphVars, routerVars, rotationVars, reviewVars>>
  \/ focus = "review" /\ Review!Next
       /\ UNCHANGED <<focus, vars, productVars, graphVars, routerVars, rotationVars, planVars>>

planningVars ==
  <<focus, vars, productVars, graphVars, routerVars, rotationVars, planVars, reviewVars>>

PlanningSpec == PlanningInit /\ [][PlanningNext]_planningVars

-----------------------------------------------------------------------------
\* ProductMap: one approved version of the Brief, and no draft but the newest version.
OneApprovedOneDraft == Product!OneApprovedOneDraft

\* MapGraph: a map is refused for a cycle exactly when it has one.
RefusedIffCyclic == focus = "graph" => Graph!RefusedIffCyclic

\* Router: the owner's choice is not replaced, and the reason given is true against all others.
ReasonIsTrue == focus = "route" => Route!ReasonIsTrue

\* Rotations: a session continues from a package that fits, unless someone acted after the check.
FreshIfUndisturbed == Rotation!FreshIfUndisturbed

\* WorkPlan: merging and splitting lose no acceptance criterion.
NoCriterionLost == Plan!NoCriterionLost

\* Reviews: what a verdict and the merge gate read are the registered bytes.
GateSeesReviewedBytes == Review!GateSeesReviewedBytes
=============================================================================
