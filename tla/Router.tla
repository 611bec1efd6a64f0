------------------------------- MODULE Router -------------------------------
(* The choice of a profile for a role and of its model (router.py): no silent
   replacement of what the owner asked for, and a reason for what was chosen.  *)
EXTENDS Integers, FiniteSets

CONSTANTS
  Requests,    \* what is asked: [asked, profiles, model, available, preferred]
  NoProfile    \* an empty effective_profile

VARIABLES request, answer

routerVars == <<request, answer>>

Unanswered == [reason |-> "UNANSWERED"]

Init == request \in Requests /\ answer = Unanswered

(* A candidate is [alias, ready, capacity, affinity, remaining, used]: `ready`
   says READY, schedulable and of the provider of the role, aliases are numbered
   in their order, `remaining` is the least percentage of its windows, 0 also
   when the provider gave none.                                               *)
Fresh(c) == c.capacity \notin {"UNKNOWN", "STALE"}

Eligible(c) == c.ready /\ c.capacity # "EXHAUSTED"

Rank(c) == CASE c.capacity = "AVAILABLE" -> 0 [] c.capacity = "LOW" -> 1 [] c.capacity = "UNKNOWN" -> 2 [] OTHER -> 3

\* A variant of SortKey: the profile with the least left first.
LeastFirst(c) == <<IF c.affinity THEN 0 ELSE 1, Rank(c), IF Fresh(c) THEN c.remaining ELSE 0, c.used, c.alias>>

SortKey(c) == <<IF c.affinity THEN 0 ELSE 1, Rank(c), IF Fresh(c) THEN -c.remaining ELSE 0, c.used, c.alias>>

Before(c, d) ==
  \E i \in 1..5 : SortKey(c)[i] < SortKey(d)[i] /\ \A j \in 1..(i - 1) : SortKey(c)[j] = SortKey(d)[j]

First(candidates) == CHOOSE c \in candidates : \A d \in candidates \ {c} : Before(c, d)

(* the first criterion that tells the chosen from the next in order *)
Reason(candidates) ==
  IF Cardinality(candidates) = 1 THEN "ROLE_READY_ONLY"
  ELSE LET c == First(candidates)
           d == First(candidates \ {c})
           differ == {i \in 1..5 : SortKey(c)[i] # SortKey(d)[i]}
       IN  CASE 1 \in differ -> "ROLE_READY_AFFINITY"
             [] 1 \notin differ /\ {2, 3} \cap differ # {} -> "ROLE_READY_CAPACITY"
             [] differ \cap 1..3 = {} /\ 4 \in differ -> "ROLE_READY_LRU"
             [] OTHER -> "DETERMINISTIC_TIE"

RouteProfile(r) ==
  LET eligible == {c \in r.profiles : Eligible(c)}
      asked == {c \in eligible : c.alias = r.asked}
  IN  CASE r.asked # 0 /\ asked # {} -> [profile |-> r.asked, reason |-> "OWNER_OVERRIDE"]
        [] r.asked # 0 /\ asked = {} -> [profile |-> NoProfile, reason |-> "OWNER_OVERRIDE_UNAVAILABLE"]
        [] r.asked = 0 /\ eligible = {} -> [profile |-> NoProfile, reason |-> "NO_ELIGIBLE_PROFILE"]
        [] OTHER -> [profile |-> First(eligible).alias, reason |-> Reason(eligible)]

(* resolve_model over an ordered preference list; models are numbered in their order *)
ResolveModel(available, asked, preferred) ==
  LET wanted == {i \in DOMAIN preferred : preferred[i] \in available} IN
  CASE asked # 0 /\ asked \in available -> [model |-> asked, why |-> "MODEL_REQUESTED"]
    [] asked # 0 /\ asked \notin available -> [model |-> 0, why |-> "MODEL_REQUESTED_UNAVAILABLE"]
    [] asked = 0 /\ wanted # {} ->
         [model |-> preferred[CHOOSE i \in wanted : \A j \in wanted : i <= j], why |-> "MODEL_PRESET_DEFAULT"]
    [] asked = 0 /\ wanted = {} /\ available # {} ->
         [model |-> CHOOSE m \in available : \A n \in available : m <= n, why |-> "MODEL_PRESET_DEFAULT"]
    [] OTHER -> [model |-> 0, why |-> "MODEL_NONE_AVAILABLE"]

Answer ==
  LET routed == RouteProfile(request)
      resolved == ResolveModel(request.available, request.model, request.preferred)
  IN /\ answer = Unanswered
     /\ answer' = [profile |-> routed.profile, reason |-> routed.reason,
                   model |-> resolved.model, why |-> resolved.why]
     /\ UNCHANGED request

Next == Answer

Spec == Init /\ [][Next]_routerVars

-----------------------------------------------------------------------------
Chosen == CHOOSE c \in request.profiles : c.alias = answer.profile
Others == {c \in request.profiles : Eligible(c) /\ c.alias # answer.profile}
Equal(d, n) == \A i \in 1..n : SortKey(Chosen)[i] = SortKey(d)[i]

(* What the owner asked for is used or refused, never replaced; and the reason
   persisted with a decision is true of the chosen profile against every other it
   could have been, not only the next one. (route_profile, resolve_model)     *)
ReasonIsTrue ==
  answer # Unanswered =>
    /\ request.asked # 0 => answer.profile \in {NoProfile, request.asked}
    /\ request.model # 0 => answer.model \in {0, request.model}
    /\ answer.reason = "ROLE_READY_ONLY" => Others = {}
    /\ answer.reason = "ROLE_READY_AFFINITY" => Chosen.affinity /\ \A d \in Others : ~d.affinity
    /\ answer.reason = "ROLE_READY_CAPACITY" =>
         \A d \in Others : Equal(d, 1) =>
           \/ Rank(Chosen) < Rank(d)
           \/ Equal(d, 2) /\ Fresh(Chosen) /\ (Fresh(d) => d.remaining < Chosen.remaining)
    /\ answer.reason = "ROLE_READY_LRU" => \A d \in Others : Equal(d, 3) => Chosen.used < d.used
    /\ answer.reason = "DETERMINISTIC_TIE" =>
         /\ \E d \in Others : Equal(d, 4)
         /\ \A d \in Others : Equal(d, 4) => Chosen.alias < d.alias
=============================================================================
