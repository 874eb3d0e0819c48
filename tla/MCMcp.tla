------------------------------- MODULE MCMcp --------------------------------
(***************************************************************************)
(* An instance of Mcp for TLC.                                              *)
(***************************************************************************)
EXTENDS Mcp, SequencesExt

A(name) == [name |-> name, queryable |-> TRUE]
TwoRevisions ==
    << <<A("a"), [A("b") EXCEPT !.queryable = FALSE], A("c"), A("d")>>, <<A("c"), A("d")>> >>

Good ==
    [id |-> "1", rpc |-> TRUE, method |-> "ping", params |-> TRUE, name |-> "none",
     arguments |-> TRUE, version |-> TRUE, limit |-> 0, cursor |-> NoCursor, model |-> "a",
     document |-> "ok", meta |-> "2026-07-28",
     header |-> [version |-> "2026-07-28", method |-> "ping", name |-> "none"]]

Call(name) == [Good EXCEPT !.method = "tools/call", !.name = name]

ByteRequests ==
    [P |-> Good, N |-> [Call("mutate_semantic_model") EXCEPT !.id = "none"],
     B |-> [Good EXCEPT !.id = "bad"]]

ShortInputs == BoundedSeq({"LF", "CR", "P", "N", "B"}, 5)

Names == QueryTools \cup MutationTools
             \cup {"drop_table", "none", "lsq_schema", "lsm_schema", "current_revision", "a", "b"}

Methods == {"server/discover", "ping", "tools/list", "tools/call", "resources/list",
            "resources/read", "initialize"}

Some == {"list_semantic_models", "query_semantic_model", "mutate_semantic_model", "a"}

\* Every method with every name, and one defect of each kind.
HttpRequests ==
    LET Sent(m, n) == [Good EXCEPT !.method = m, !.name = n, !.header.method = m,
                          !.header.name = IF m \in {"tools/call", "resources/read"} THEN n ELSE "none"]
        plain == {Sent(m, n) : m \in Methods, n \in Names}
    IN  plain
        \cup UNION {{[r EXCEPT !.header.method = "ping"], [r EXCEPT !.header.name = "ping"],
                     [r EXCEPT !.header.version = "1"], [r EXCEPT !.params = FALSE],
                     [r EXCEPT !.meta = "1", !.header.version = "1"],
                     [r EXCEPT !.id = "none"], [r EXCEPT !.id = "bad"], [r EXCEPT !.rpc = FALSE],
                     [r EXCEPT !.arguments = FALSE], [r EXCEPT !.version = FALSE],
                     [r EXCEPT !.limit = 4], [r EXCEPT !.cursor = ModelCursor(1, "alice", 9)],
                     [r EXCEPT !.document = "syntax"], [r EXCEPT !.document = "reference"],
                     [r EXCEPT !.model = "b"]} : r \in {q \in plain : q.name \in Some}}

ThreePrincipals ==
    {[authority |-> "alice", scope |-> TRUE, role |-> TRUE],
     [authority |-> "alice", scope |-> FALSE, role |-> TRUE],
     [authority |-> "bob", scope |-> TRUE, role |-> FALSE]}
=============================================================================
