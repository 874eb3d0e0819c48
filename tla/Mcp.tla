-------------------------------- MODULE Mcp ---------------------------------
(***************************************************************************)
(* The MCP server (mcp.rs) behind its two transports: lines on stdio         *)
(* (serve_io) and HTTP requests once they are authenticated (mcp_http.rs).   *)
(* A process serves one of them.  What a tool computes is left to the other  *)
(* modules: here it is the code of its answer, the database connections it   *)
(* opens at the same time and whether it executes a document; the pages of   *)
(* list_semantic_models are modelled with their cursors.                     *)
(*                                                                         *)
(* On stdio the input is a sequence of bytes: LF, CR, SP or a byte that      *)
(* stands for the text of a request, with no white space in it.              *)
(***************************************************************************)
EXTENDS Naturals, Sequences, Functions

CONSTANTS
    Models,        \* for each revision its models in order: name, queryable
    DefaultLimit,  \* DEFAULT_PAGE_LIMIT
    MaxLimit,      \* MAX_PAGE_LIMIT
    HashLength,    \* characters of a sha256 identifier
    MaxCursor,     \* MAX_MODEL_CURSOR_LENGTH
    MaxLine,       \* MAX_REQUEST_LINE_BYTES
    Inputs,        \* what a client may write on stdin
    RequestOf,     \* the request whose text is a byte
    Requests,      \* requests over HTTP
    Principals     \* authority, mutation scope, mutation role

\* A revision has a list of models; "none" is the name of nothing, and a document is
\* in order or is refused by the normaliser or by the compiler.
ASSUME McpAssumption ==
    /\ Models \in Seq(Range(Models)) /\ Models # <<>>
    /\ \A r \in DOMAIN Models :
          /\ Models[r] \in Seq(Range(Models[r]))
          /\ \A i \in DOMAIN Models[r] : Models[r][i].name # "none"
    /\ MaxLimit \in Nat /\ MaxLine \in Nat
    /\ \A text \in Inputs : text \in Seq(Range(text))
    /\ \A req \in Requests : req.document \in {"ok", "syntax", "reference"}

VARIABLES
    transport,   \* stdio, closed (end of input), http
    config,      \* mutation authority of the process
    published,   \* the published revision
    input, pos,  \* stdin, and what of it is consumed
    line, oversized, readAny,   \* read_bounded_line
    answers,     \* messages written to stdout
    dispatched,  \* history: requests handed to dispatch
    walk,        \* a client that lists the models page by page
    last         \* the last HTTP call

stdio == <<input, pos, line, oversized, readAny, answers, dispatched>>
vars == <<transport, config, published, stdio, walk, last>>

-----------------------------------------------------------------------------
(* Tools and resources.                                                    *)

QueryTools == {"list_semantic_models", "describe_semantic_model", "validate_semantic_query",
               "query_semantic_model", "explain_semantic_query"}
MutationTools == {"validate_semantic_mutation", "mutate_semantic_model",
                  "reconcile_semantic_mutation"}

\* tool_definitions.
ListedTools(server) == QueryTools \cup IF server.mutation THEN MutationTools ELSE {}

\* queryable_models.
Queryable(revision) ==
    LET models == Models[revision]
        names[n \in Nat] == IF n = 0 THEN <<>>
                            ELSE IF models[n].queryable THEN Append(names[n - 1], models[n].name)
                            ELSE names[n - 1]
    IN  names[Len(models)]

NoCursor == [form |-> "none", revision |-> 0, authority |-> "none", offset |-> 0]

\* model_cursor, and the length of its text: v2|hash|hash|offset.
ModelCursor(revision, authority, offset) ==
    [form |-> "v2", revision |-> revision, authority |-> authority, offset |-> offset]

CursorLength(cursor) ==
    LET digits == CHOOSE d \in 1 .. 9 :
                     cursor.offset < 10 ^ d /\ (d = 1 \/ cursor.offset >= 10 ^ (d - 1))
    IN  2 + 1 + HashLength + 1 + HashLength + 1 + digits

\* An answer: its code, the connections opened for it, what it executes.
Reply(code, opens, runs) ==
    [code |-> code, opens |-> opens, runs |-> runs, page |-> <<>>, next |-> NoCursor]

\* Variant: the cursor is not compared with the caller's authority.
CursorValidForAll(cursor, revision, authority) ==
    \/ cursor.form = "none"
    \/ cursor.form = "v2" /\ cursor.revision = revision

\* parse_cursor.
CursorValid(cursor, revision, authority) ==
    \/ cursor.form = "none"
    \/ cursor.form = "v2" /\ cursor.revision = revision /\ cursor.authority = authority

\* list_semantic_models, once the published revision is loaded.
ListPage(server, revision, limit, cursor) ==
    LET models == Queryable(revision)
        end == IF cursor.offset + limit < Len(models) THEN cursor.offset + limit ELSE Len(models)
    IN  IF ~CursorValid(cursor, revision, server.authority) \/ cursor.offset > Len(models)
        THEN Reply("MCP_INVALID_CURSOR", 1, "none")
        ELSE [Reply("OK", 1, "none") EXCEPT
                 !.page = SubSeq(models, cursor.offset + 1, end),
                 !.next = IF end < Len(models)
                          THEN ModelCursor(revision, server.authority, end) ELSE NoCursor]

\* The parameters of the tools: their structures and parse_tool_arguments, then
\* validate_tool_version, with which every operation begins.
ArgumentsError(req) ==
    IF ~req.arguments THEN "MCP_INVALID_TOOL_ARGUMENTS"
    ELSE IF ~req.version THEN "MCP_TOOL_SCHEMA_VERSION_UNSUPPORTED"
    ELSE "none"

\* The document of a query or mutation: in order, refused by the normaliser or
\* by the compiler (from_lsq, from_compile, from_mutation_execute).
DocumentError(document) ==
    CASE document = "ok" -> "OK" [] document = "syntax" -> "DOCUMENT_INVALID"
      [] document = "reference" -> "COMPILE_FAILED"

ListModels(server, revision, req) ==
    LET limit == IF req.limit = 0 THEN DefaultLimit ELSE req.limit
    IN  IF limit > MaxLimit THEN Reply("MCP_INVALID_PAGINATION", 0, "none")
        ELSE ListPage(server, revision, limit, req.cursor)

\* find_queryable_model and describe_model.
DescribeModel(revision, req) ==
    IF req.model \in Range(Queryable(revision)) THEN Reply("OK", 1, "none")
    ELSE Reply("SEMANTIC_MODEL_NOT_AVAILABLE", 1, "none")

\* validate_semantic_query and explain_semantic_query load the revision first;
\* an invalid document is an answer of the one and an error of the other.
CheckQuery(req) == Reply(DocumentError(req.document), 1, "none")

\* query_semantic_model_with_cancel normalises before it connects; the executor
\* compiles before it opens its second connection.
QueryModel(req) ==
    CASE req.document = "ok" -> Reply("OK", 2, req.name)
      [] req.document = "syntax" -> Reply(DocumentError(req.document), 0, "none")
      [] req.document = "reference" -> Reply(DocumentError(req.document), 1, "none")

\* validate_semantic_mutation.
CheckMutation(server, req) ==
    IF ~server.mutation THEN Reply("MUTATION_CAPABILITY_DISABLED", 0, "none")
    ELSE Reply(DocumentError(req.document), 1, "none")

\* mutate_semantic_model_with_cancel.  The executor's audit connection comes
\* first, so that a refused document is audited.
MutateModel(server, req) ==
    IF ~server.mutation THEN Reply("MUTATION_CAPABILITY_DISABLED", 0, "none")
    ELSE CASE req.document = "ok" -> Reply("OK", 2, req.name)
           [] req.document = "syntax" -> Reply(DocumentError(req.document), 1, "none")
           [] req.document = "reference" -> Reply(DocumentError(req.document), 2, "none")

\* reconcile_semantic_mutation: the document is the idempotency key.
ReconcileMutation(server, req) ==
    IF ~server.mutation THEN Reply("MUTATION_CAPABILITY_DISABLED", 0, "none")
    ELSE IF req.document = "ok" THEN Reply("OK", 1, "none")
    ELSE Reply("MUTATION_FAILED", 0, "none")

\* call_tool_with_cancel.
CallTool(server, revision, req) ==
    IF req.name \notin QueryTools \cup MutationTools THEN Reply("MCP_TOOL_NOT_FOUND", 0, "none")
    ELSE IF ArgumentsError(req) # "none" THEN Reply(ArgumentsError(req), 0, "none")
    ELSE CASE req.name = "list_semantic_models" -> ListModels(server, revision, req)
           [] req.name = "describe_semantic_model" -> DescribeModel(revision, req)
           [] req.name = "validate_semantic_query" -> CheckQuery(req)
           [] req.name = "explain_semantic_query" -> CheckQuery(req)
           [] req.name = "query_semantic_model" -> QueryModel(req)
           [] req.name = "validate_semantic_mutation" -> CheckMutation(server, req)
           [] req.name = "mutate_semantic_model" -> MutateModel(server, req)
           [] req.name = "reconcile_semantic_mutation" -> ReconcileMutation(server, req)

\* list_resources.  A model's URI has its name, percent-encoded.
ListResources(server, revision) ==
    {"current_revision", "lsq_schema"} \cup Range(Queryable(revision))
        \cup IF server.mutation THEN {"lsm_schema"} ELSE {}

\* read_resource.  The schemas are compiled in.
ReadResource(server, revision, uri) ==
    IF uri = "lsq_schema" \/ (uri = "lsm_schema" /\ server.mutation) THEN Reply("OK", 0, "none")
    ELSE IF uri = "current_revision" \/ uri \in Range(Queryable(revision))
    THEN Reply("OK", 1, "none") ELSE Reply("MCP_RESOURCE_NOT_FOUND", 1, "none")

Simple == {"ping", "tools/list", "resources/list"}
Legacy == {"initialize", "notifications/initialized"}

\* dispatch and dispatch_modern.
Dispatch(server, revision, req, modern) ==
    LET Invalid == Reply("MCP_INVALID_PARAMS", 0, "none") IN
    CASE req.method \in Simple \cup (IF modern THEN {"server/discover"} ELSE Legacy) ->
            IF \/ ~req.params
               \/ req.method \in {"tools/list", "resources/list"} /\ req.cursor.form # "none"
            THEN Invalid
            ELSE Reply("OK", IF req.method = "resources/list" THEN 1 ELSE 0, "none")
      [] req.method = "tools/call" ->
            IF req.params /\ req.name # "none" THEN CallTool(server, revision, req) ELSE Invalid
      [] req.method = "resources/read" ->
            IF req.params /\ req.name # "none" THEN ReadResource(server, revision, req.name)
            ELSE Invalid
      [] OTHER -> Reply("MCP_METHOD_NOT_FOUND", 0, "none")

-----------------------------------------------------------------------------
(* stdio.                                                                  *)

White == {"SP", "CR"}
StdioServer == [mutation |-> config.base, authority |-> "mcp:stdio"]

\* handle_line: the answer, or none.  A request without an id is dispatched all
\* the same.
HandleLine(server, revision, text) ==
    LET words == SelectSeq(text, LAMBDA b : b \notin White)
        req == RequestOf[words[1]]
        Error(id, code) == <<[id |-> id, code |-> code]>>
    IN  IF words = <<>> THEN <<>>
        ELSE IF Len(words) > 1 THEN Error("null", "MCP_PARSE_ERROR")
        ELSE IF req.id = "bad" THEN Error("null", "MCP_INVALID_REQUEST")
        ELSE IF ~req.rpc
        THEN Error(IF req.id = "none" THEN "null" ELSE req.id, "MCP_INVALID_REQUEST")
        ELSE IF req.id = "none" THEN <<>>
        ELSE Error(req.id, Dispatch(server, revision, req, FALSE).code)

\* What of a line reaches dispatch.
Handed(text) ==
    LET words == SelectSeq(text, LAMBDA b : b \notin White)
    IN  IF Len(words) = 1 /\ RequestOf[words[1]].id # "bad" /\ RequestOf[words[1]].rpc
        THEN <<words[1]>> ELSE <<>>

\* What a buffer has before its first line feed, if it has one.
Content(buffer) ==
    LET feeds == {i \in 1 .. Len(buffer) : buffer[i] = "LF"} IN
    IF feeds = {} THEN [ended |-> FALSE, length |-> Len(buffer), used |-> Len(buffer)]
    ELSE LET first == CHOOSE i \in feeds : \A j \in feeds : i <= j
         IN  [ended |-> TRUE, length |-> first - 1, used |-> first]

\* Variant: what follows an oversized part of a line is a line of its own.
TakeForgetful(buffer) ==
    LET content == Content(buffer)
        over == Len(line) + content.length > MaxLine
    IN  [ended |-> content.ended, used |-> content.used, over |-> over,
         text |-> IF over THEN <<>> ELSE line \o SubSeq(buffer, 1, content.length)]

\* read_bounded_line: one buffer, up to its first line feed.
Take(buffer) ==
    LET content == Content(buffer)
        over == oversized \/ Len(line) + content.length > MaxLine
    IN  [ended |-> content.ended, used |-> content.used, over |-> over,
         text |-> IF over THEN <<>> ELSE line \o SubSeq(buffer, 1, content.length)]

TooLarge == [id |-> "null", code |-> "MCP_REQUEST_TOO_LARGE"]

\* serve_io: a line is answered before the next is read.
Serve(over, text) ==
    /\ answers' = answers \o (IF over THEN <<TooLarge>>
                              ELSE HandleLine(StdioServer, published, text))
    /\ dispatched' = dispatched \o (IF over THEN <<>> ELSE Handed(text))
    /\ line' = <<>> /\ oversized' = FALSE /\ readAny' = FALSE

\* fill_buf returns some of what is there.
ReadBuffer ==
    /\ transport = "stdio" /\ pos < Len(input)
    /\ \E n \in 1 .. Len(input) - pos :
          LET taken == Take(SubSeq(input, pos + 1, pos + n)) IN
          /\ pos' = pos + taken.used
          /\ IF taken.ended THEN Serve(taken.over, taken.text)
             ELSE /\ line' = taken.text /\ oversized' = taken.over /\ readAny' = TRUE
                  /\ UNCHANGED <<answers, dispatched>>
    /\ UNCHANGED <<transport, config, published, input, walk, last>>

\* It returns nothing: the line read so far is the last one.
ReadEof ==
    /\ transport = "stdio" /\ pos = Len(input)
    /\ IF readAny THEN Serve(oversized, line) /\ UNCHANGED transport
       ELSE transport' = "closed"
            /\ UNCHANGED <<line, oversized, readAny, answers, dispatched>>
    /\ UNCHANGED <<config, published, input, pos, walk, last>>

-----------------------------------------------------------------------------
(* HTTP.                                                                   *)

\* server_for_principal.
ServerFor(principal) ==
    [authority |-> principal.authority,
     mutation |-> config.remote /\ principal.scope /\ config.base /\ principal.role]

\* validate_method_headers: the name a request is routed by.
NameHeaderValid(req) ==
    IF req.method \in {"tools/call", "resources/read"} /\ req.name # "none"
    THEN req.header.name = req.name ELSE req.header.name = "none"

\* known_method.
KnownMethods == {"server/discover", "ping", "tools/list", "tools/call", "resources/list",
                 "resources/read"}

\* parse_modern_request and validate_request_meta: the first objection.
Rejection(req) ==
    IF req.id = "none" THEN "MCP_NOTIFICATION_UNSUPPORTED"
    ELSE IF req.id = "bad" \/ ~req.rpc THEN "MCP_INVALID_REQUEST"
    ELSE IF ~req.params THEN "MCP_INVALID_PARAMS"
    ELSE IF req.header.version # req.meta THEN "MCP_HEADER_MISMATCH"
    ELSE IF req.meta # "2026-07-28" THEN "MCP_UNSUPPORTED_PROTOCOL_VERSION"
    ELSE IF req.header.method # req.method \/ ~NameHeaderValid(req) THEN "MCP_HEADER_MISMATCH"
    ELSE IF req.method \notin KnownMethods THEN "MCP_METHOD_NOT_FOUND"
    ELSE "none"

\* Variant: resources/list is thought to be answered from memory.
PermitsWithoutResources(req) == IF req.method = "tools/call" THEN 2 ELSE 0

\* method_uses_database, and the permits taken for it.
Permits(req) == IF req.method \in {"tools/call", "resources/list", "resources/read"} THEN 2 ELSE 0

\* is_streaming_execution: the answer is a stream that cancels when dropped.
Streams(req) ==
    req.method = "tools/call" /\ req.name \in {"query_semantic_model", "mutate_semantic_model"}

NoCall == [done |-> FALSE]

\* The answer when a connection cannot be opened or the revision not be loaded:
\* the executors have codes of their own for it.
Reached(req, reply, up) ==
    LET code == IF req.method # "tools/call" THEN "SEMANTIC_SNAPSHOT_UNAVAILABLE"
                ELSE IF req.name = "query_semantic_model" THEN "EXECUTOR_QUERY_FAILED"
                ELSE IF req.name \in {"mutate_semantic_model", "reconcile_semantic_mutation"}
                THEN "MUTATION_FAILED" ELSE "SEMANTIC_SNAPSHOT_UNAVAILABLE"
    IN  IF up \/ reply.opens = 0 THEN reply ELSE Reply(code, reply.opens, "none")

\* handle_mcp from the body on, up to the answer of the call.  Calls have nothing
\* in common but the published revision, so that one is followed at a time.
HttpCall(req, principal, up) ==
    /\ transport = "http" /\ ~last.done /\ walk.models = <<>>
    /\ last' = IF Rejection(req) # "none" THEN NoCall
               ELSE [done |-> TRUE, req |-> req, server |-> ServerFor(principal),
                     permits |-> Permits(req), streamed |-> Streams(req),
                     up |-> up,
                     reply |-> Reached(req, Dispatch(ServerFor(principal), published, req, TRUE), up)]
    /\ UNCHANGED <<transport, config, published, stdio, walk>>

\* A client asks for a page with the cursor it has, or with none; sent is the
\* principal whose connection it uses.
Page(sent, limit) ==
    /\ transport = "http" /\ ~walk.done /\ ~last.done
    /\ LET server == ServerFor(sent)
           reply == ListPage(server, published, limit, walk.cursor)
       IN  walk' = IF reply.code # "OK" THEN [walk EXCEPT !.cursor = NoCursor, !.models = <<>>, !.by = {}]
                   ELSE [revision |-> published, by |-> walk.by \cup {sent.authority},
                         models |-> walk.models \o reply.page, cursor |-> reply.next,
                         done |-> reply.next = NoCursor]
    /\ UNCHANGED <<transport, config, published, stdio, last>>

Publish ==
    /\ transport = "http" /\ published < Len(Models)
    /\ published' = published + 1 /\ last' = NoCall
    /\ UNCHANGED <<transport, config, stdio, walk>>

-----------------------------------------------------------------------------
Init ==
    /\ transport \in {"stdio", "http"}
    /\ config \in [remote : BOOLEAN, base : BOOLEAN]
    /\ config.remote => config.base /\ transport = "http"
    /\ published = 1
    /\ input \in IF transport = "stdio" THEN Inputs ELSE {<<>>}
    /\ pos = 0 /\ line = <<>> /\ oversized = FALSE /\ readAny = FALSE
    /\ answers = <<>> /\ dispatched = <<>>
    /\ walk = [revision |-> 0, by |-> {}, models |-> <<>>, cursor |-> NoCursor,
               done |-> FALSE]
    /\ last = NoCall

Next ==
    \/ ReadBuffer \/ ReadEof \/ Publish
    \/ \E req \in Requests, p \in Principals, up \in BOOLEAN : HttpCall(req, p, up)
    \/ \E p \in Principals : \E limit \in 1 .. MaxLimit : Page(p, limit)

Spec == Init /\ [][Next]_vars

-----------------------------------------------------------------------------
(* Properties.                                                            *)

Begins(s, t) == Len(s) <= Len(t) /\ SubSeq(t, 1, Len(s)) = s

\* What a line is to be answered with, and what of it is to reach dispatch.
Due(server, revision, text) ==
    IF Len(text) > MaxLine THEN [answers |-> <<TooLarge>>, handed |-> <<>>]
    ELSE [answers |-> HandleLine(server, revision, text), handed |-> Handed(text)]

\* A text read byte by byte: what is due for the lines that end in its first n bytes,
\* and where the line after them starts.
DueAt(server, revision, text, n) ==
    LET due[p \in Nat] ==
          IF p = 0 THEN [start |-> 0, answers |-> <<>>, handed |-> <<>>]
          ELSE LET before == due[p - 1]
                   ending == Due(server, revision, SubSeq(text, before.start + 1, p - 1))
               IN  IF text[p] # "LF" THEN before
                   ELSE [start |-> p, answers |-> before.answers \o ending.answers,
                         handed |-> before.handed \o ending.handed]
    IN  due[n]

\* What is due for a whole text, a last line without a line feed included.
DueFor(server, revision, text) ==
    LET read == DueAt(server, revision, text, Len(text))
        rest == Due(server, revision, SubSeq(text, read.start + 1, Len(text)))
    IN  IF read.start = Len(text) THEN [answers |-> read.answers, handed |-> read.handed]
        ELSE [answers |-> read.answers \o rest.answers, handed |-> read.handed \o rest.handed]

\* However the input arrives in buffers, the answers are those of its lines, in
\* order, and a line over the limit is refused once and never dispatched, even
\* in part (read_bounded_line, serve_io).
LinesAreAnswered ==
    LET due == DueFor(StdioServer, published, input)
    IN  /\ Begins(answers, due.answers) /\ Begins(dispatched, due.handed)
        /\ transport = "closed" => answers = due.answers /\ dispatched = due.handed

\* A client that follows its cursors through pages of any size gets each
\* queryable model of one revision once and in order, or starts again: a page of
\* another revision, or for another authority, is never appended
\* (list_semantic_models, parse_cursor).
WalkIsExact ==
    /\ walk.models # <<>> => Begins(walk.models, Queryable(walk.revision))
    /\ walk.done => walk.models = Queryable(walk.revision)
    /\ \A a, b \in walk.by : a = b

\* A dispatched HTTP call holds a permit for every connection it opens, executes
\* a document only as a stream that a disconnect cancels, and does what its
\* headers say; a tool that is listed is not refused as disabled and one that is
\* not listed never runs; and a resource is listed exactly if it can be read.
CallsAreCovered ==
    last.done =>
        LET req == last.req reply == last.reply IN
        /\ reply.opens <= last.permits
        /\ reply.runs # "none" =>
              last.streamed /\ reply.runs = req.header.name /\ reply.runs \in ListedTools(last.server)
        /\ req.method = "tools/call" /\ req.arguments /\ req.version =>
              (reply.code \in {"MUTATION_CAPABILITY_DISABLED", "MCP_TOOL_NOT_FOUND",
                               "MCP_INVALID_PARAMS"})
                  = (req.name \notin ListedTools(last.server))
        /\ req.method = "resources/read" /\ last.up =>
              (reply.code = "OK") = (req.name \in ListResources(last.server, published))

\* The cursors that list_semantic_models returns are ones its input schema takes.
CursorsFitSchema == walk.cursor # NoCursor => CursorLength(walk.cursor) <= MaxCursor

-----------------------------------------------------------------------------
(* Inductive invariants.                                                  *)

\* A revision is published, and there is no stdin behind HTTP.
ProcessInv ==
    /\ published \in DOMAIN Models
    /\ input \in Seq(Range(input)) /\ (transport = "http" => input = <<>>)

\* Between two buffers the line read so far is what follows the last line feed, or
\* nothing if that is over the limit; at the end of the input it has been served.
ReadInv ==
    LET read == DueAt(StdioServer, published, input, pos)
        current == SubSeq(input, read.start + 1, pos)
        due == DueFor(StdioServer, published, input)
    IN  /\ pos \in 0 .. Len(input)
        /\ transport = "closed" => pos = Len(input) /\ ~readAny
        /\ \/ /\ answers = read.answers /\ dispatched = read.handed
              /\ readAny = (read.start < pos) /\ oversized = (Len(current) > MaxLine)
              /\ line = IF Len(current) > MaxLine THEN <<>> ELSE current
           \/ /\ answers = due.answers /\ dispatched = due.handed
              /\ pos = Len(input) /\ ~readAny

\* A cursor says how much of its revision its one client has been given.
WalkInv ==
    /\ DOMAIN walk = {"revision", "by", "models", "cursor", "done"}
    /\ \/ /\ ~walk.done /\ walk.cursor = NoCursor
          /\ walk.models = <<>> /\ walk.by = {}
       \/ /\ ~walk.done /\ walk.revision \in DOMAIN Models
          /\ \E a \in walk.by, n \in 1 .. Len(Queryable(walk.revision)) :
                /\ walk.by = {a}
                /\ walk.cursor = ModelCursor(walk.revision, a, n)
                /\ walk.models = SubSeq(Queryable(walk.revision), 1, n)
       \/ /\ walk.done /\ walk.revision \in DOMAIN Models
          /\ walk.models = Queryable(walk.revision)
          /\ \A a, b \in walk.by : a = b

McpInv == ProcessInv /\ ReadInv /\ WalkInv
=============================================================================
