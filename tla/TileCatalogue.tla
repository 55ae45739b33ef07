---------------------------- MODULE TileCatalogue ----------------------------
(***************************************************************************)
(* What the published tile archives promise whoever reads them: the merge  *)
(* head and each environment's pin always show, for every layer, the whole *)
(* archive of one publish; a publish replaces all its layers at once; an   *)
(* environment moves only to the head or to what it showed before.         *)
(***************************************************************************)
CONSTANTS Layers, Envs, Publishes, None

VARIABLES head,     \* per layer, the publish whose archive it shows
          pins,     \* the same for each environment
          shown     \* per environment, what it has shown

vars == <<head, pins, shown>>

Init ==
    /\ head = None
    /\ pins = [e \in Envs |-> None]
    /\ shown = [e \in Envs |-> {}]

\* Publish n replaces the layers ls, over a head that has the others.
Publish(n, ls) ==
    /\ head = None => ls = Layers
    /\ head' = [l \in Layers |-> IF l \in ls THEN n ELSE head[l]]
    /\ UNCHANGED <<pins, shown>>

Promote(e) ==
    /\ \E view \in {head} \cup shown[e] :
          /\ view # None
          /\ pins' = [pins EXCEPT ![e] = view]
          /\ shown' = [shown EXCEPT ![e] = @ \cup {view}]
    /\ UNCHANGED head

Next ==
    \/ \E n \in Publishes, ls \in (SUBSET Layers) \ {{}} : Publish(n, ls)
    \/ \E e \in Envs : Promote(e)

Spec == Init /\ [][Next]_vars
==============================================================================
