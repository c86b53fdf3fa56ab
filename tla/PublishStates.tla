--------------------------- MODULE PublishStates ---------------------------
(***************************************************************************)
(* The life of one publication job, as matrixpost-core's PublishState      *)
(* enum and its transition graph define it.  Everything here is constant:  *)
(* the storage, scheduler and ledger modules share it.  A definition whose     *)
(* name has a suffix after "_" is a faulty variant of the definition that  *)
(* follows it; it shows that a property is sensitive to that fault and is  *)
(* not part of the specification.  The other modules do the same.          *)
(***************************************************************************)

\* The six durable states.
PublishState ==
    {"draft", "queued", "dispatching", "published", "failed", "unavailable"}

\* The states a job never leaves.
Terminal == {"published", "failed", "unavailable"}

\* Variant: a failed job may be queued again.
TransitionGraph_Retry ==
    ({"draft", "failed"} \X {"queued", "unavailable"})
      \cup ({"queued"}      \X {"dispatching", "failed", "unavailable"})
      \cup ({"dispatching"} \X Terminal)

\* The edges of the graph the repository enforces on every transition.
TransitionGraph ==
    ({"draft"}       \X {"queued", "unavailable"})
      \cup ({"queued"}      \X {"dispatching", "failed", "unavailable"})
      \cup ({"dispatching"} \X Terminal)

CanTransitionTo(from, next) == <<from, next>> \in TransitionGraph
=============================================================================
