--------------------------- MODULE BusinessStates ---------------------------
(***************************************************************************)
(* The lifecycle and approval states of a business object, and the steps   *)
(* between them that are legal.                                            *)
(***************************************************************************)

Lifecycles == {"draft", "active", "completed", "archived"}
Approvals  == {"pending", "approved", "rejected"}

\* BusinessObjectStatus::can_transition_to and ApprovalStatus::can_transition_to:
\* no status is its own successor, and archived and approved have none.
LifecycleEdges == {<<"draft", "active">>, <<"draft", "archived">>,
                   <<"active", "completed">>, <<"active", "archived">>,
                   <<"completed", "archived">>}
ApprovalEdges  == {<<"pending", "approved">>, <<"pending", "rejected">>,
                   <<"rejected", "pending">>}
=============================================================================
