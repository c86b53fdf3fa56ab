------------------------ MODULE MCPublicationFronts ------------------------
(* A small instance of PublicationFronts: every call, with and without runners. *)
EXTENDS PublicationFronts, TLC

CONSTANTS dy, ks, jj, f1

Ask1(call, targets, runners) ==
    [call |-> call, rows |-> <<[file |-> f1, targets |-> targets]>>, runners |-> runners,
     draft |-> FALSE, scheduled |-> FALSE, valid |-> TRUE]

Batch(runners) ==
    [Ask1("batch", <<dy>>, runners) EXCEPT !.rows =
        <<[file |-> f1, targets |-> <<dy>>], [file |-> f1, targets |-> <<dy>>]>>]

MCRequests ==
    { Ask1("http", <<dy, ks>>, {dy}),
      [Ask1("http", <<dy>>, {dy}) EXCEPT !.valid = FALSE],
      [Ask1("cli", <<dy>>, {dy}) EXCEPT !.scheduled = TRUE],
      Ask1("cli", <<dy>>, {}),
      Batch({dy}), Batch({}),
      Ask1("mcp_video", <<dy>>, {dy}),
      [Ask1("mcp_video", <<dy>>, {dy}) EXCEPT !.scheduled = TRUE],
      [Ask1("desktop_draft", <<dy, ks>>, {}) EXCEPT !.draft = TRUE],
      Ask1("desktop_dispatch", <<dy, ks>>, {dy, ks}),
      Ask1("desktop_dispatch", <<dy, ks>>, {dy}),
      Ask1("cli_article", <<jj>>, {jj}),
      [Ask1("cli_article", <<jj>>, {jj}) EXCEPT !.scheduled = TRUE],
      Ask1("mcp_article", <<jj>>, {}) }

Symmetry == Permutations(Invocations)
=============================================================================
