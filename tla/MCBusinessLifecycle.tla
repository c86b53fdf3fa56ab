------------------------ MODULE MCBusinessLifecycle ------------------------
(* A small instance of BusinessLifecycle: the calls that can collide. *)
EXTENDS BusinessLifecycle

CONSTANTS o1, o2, n1, n2, k, x, h

Call(front, op) ==
    [front |-> front, op |-> op, object |-> o1, id |-> n1, kind |-> k,
     external |-> NoExternal, target |-> o2, type |-> "supplies", history |-> h,
     lifecycle |-> "draft", approval |-> "pending", expected |-> 0, defect |-> "none"]

\* Two programs create and move the same objects up to the largest revision, hang
\* entries, attributions and relations off objects that may not exist yet, and list.
MCCalls ==
    { [Call("http", "insert_business_object") EXCEPT !.external = x],
      [Call("desktop", "insert_business_object") EXCEPT !.object = o2, !.external = x],
      [Call("mcp", "insert_business_object") EXCEPT !.object = o2],
      [Call("cli", "insert_business_object") EXCEPT !.defect = "empty_field"],
      [Call("mcp", "transition_business_object") EXCEPT !.lifecycle = "active",
                                                        !.approval = "rejected"],
      [Call("cli", "transition_business_object") EXCEPT !.expected = 1,
                                                        !.lifecycle = "archived"],
      Call("http", "insert_ledger_entry"),
      [Call("http", "insert_ledger_entry") EXCEPT !.defect = "foreign_path"],
      Call("desktop", "insert_content_attribution"),
      Call("http", "insert_business_relation"),
      Call("mcp", "business_object"),
      Call("cli", "ledger_entries") }
=============================================================================
