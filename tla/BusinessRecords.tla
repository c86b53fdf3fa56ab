-------------------------- MODULE BusinessRecords --------------------------
(***************************************************************************)
(* What the lifecycle store promises to every program that shares the      *)
(* state file: an object is created once, at revision zero, and then only  *)
(* moves along the two status graphs, one revision per move; everything    *)
(* that hangs off an object is appended once and never changed.            *)
(***************************************************************************)
EXTENDS BusinessStates, Naturals

CONSTANTS Object, Entry, Attribution, Relation, History, NoExternal

VARIABLES objects, ledger, attributions, relations, history

recordVars == <<objects, ledger, attributions, relations, history>>

Known(id) == \E object \in objects : object.id = id

Init ==
    /\ objects = {}
    /\ ledger = {}
    /\ attributions = {}
    /\ relations = {}
    /\ history = {}

Create(object) ==
    /\ object.revision = 0
    /\ ~Known(object.id)
    /\ object.external # NoExternal =>
         \A other \in objects :
             other.kind = object.kind => other.external # object.external
    /\ objects' = objects \cup {object}
    /\ UNCHANGED <<ledger, attributions, relations, history>>

Move(object, lifecycle, approval) ==
    /\ <<lifecycle, approval>> # <<object.lifecycle, object.approval>>
    /\ <<object.lifecycle, lifecycle>> \in LifecycleEdges \/ lifecycle = object.lifecycle
    /\ <<object.approval, approval>> \in ApprovalEdges \/ approval = object.approval
    /\ objects' = (objects \ {object}) \cup
         {[id |-> object.id, kind |-> object.kind, external |-> object.external,
           lifecycle |-> lifecycle, approval |-> approval,
           revision |-> object.revision + 1]}
    /\ UNCHANGED <<ledger, attributions, relations, history>>

Append(entry) ==
    /\ Known(entry.object)
    /\ \A other \in ledger : other.id # entry.id
    /\ ledger' = ledger \cup {entry}
    /\ UNCHANGED <<objects, attributions, relations, history>>

Attribute(attribution) ==
    /\ Known(attribution.object)
    /\ attribution.history \in history
    /\ attribution \notin attributions
    /\ attributions' = attributions \cup {attribution}
    /\ UNCHANGED <<objects, ledger, relations, history>>

Relate(relation) ==
    /\ Known(relation.object)
    /\ Known(relation.target)
    /\ relation.object # relation.target
    /\ \A other \in relations :
           /\ other.id # relation.id
           /\ <<other.object, other.target, other.type>> #
                 <<relation.object, relation.target, relation.type>>
    /\ relations' = relations \cup {relation}
    /\ UNCHANGED <<objects, ledger, attributions, history>>

\* A publication is recorded.
Record(id) ==
    /\ history' = history \cup {id}
    /\ UNCHANGED <<objects, ledger, attributions, relations>>

Next ==
    \/ \E object \in Object \cap objects' : Create(object)
    \/ \E object \in objects, lifecycle \in Lifecycles, approval \in Approvals :
           Move(object, lifecycle, approval)
    \/ \E entry \in Entry : Append(entry)
    \/ \E attribution \in Attribution : Attribute(attribution)
    \/ \E relation \in Relation : Relate(relation)
    \/ \E id \in History : Record(id)

Spec == Init /\ [][Next]_recordVars
=============================================================================
