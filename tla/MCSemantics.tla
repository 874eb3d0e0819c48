----------------------------- MODULE MCSemantics -----------------------------
(***************************************************************************)
(* Inputs for Semantics: orders of customers, with items.                   *)
(***************************************************************************)
EXTENDS Semantics

MCTimeMin == -16

-----------------------------------------------------------------------------
(* Authority documents, tokens and what PostgreSQL says of the roles.       *)

Rate == [requests_per_minute |-> 60, burst |-> 10, max_concurrent |-> 2]

Reader == [subject |-> "s1", authority_id |-> "p1", query_role |-> "q1",
           mutation_role |-> {}, allowed_scopes |-> {"query"},
           rate_limit |-> Rate, wellFormed |-> TRUE]

Writer == [Reader EXCEPT !.subject = "s2", !.authority_id = "p2",
                         !.query_role = "q2", !.mutation_role = {"w2"},
                         !.allowed_scopes = {"query", "mutate"}]

MCLimits ==
    [max_request_body_bytes |-> 65536, max_token_bytes |-> 1024,
     max_header_bytes |-> 8192, max_execution_seconds |-> 30,
     max_result_bytes |-> 65536, max_concurrent_requests |-> 4,
     max_pre_auth_concurrent_requests |-> 4, max_database_connections |-> 2,
     sse_keepalive_seconds |-> 10, max_sse_seconds |-> 60]

SigningKey == [kid |-> {"k1"}, type |-> "RSA", alg |-> {}, use |-> {"sig"},
               ops |-> {}, usable |-> TRUE]

Document ==
    [wellFormed |-> TRUE, issuer |-> "i", resource |-> "r", audience |-> "r",
     host |-> "h", allowed_hosts |-> {"h"},
     query_scope |-> "query", mutation_scope |-> "mutate",
     scopes_supported |-> {"query", "mutate"}, clock_skew |-> 1, max_age |-> 4,
     allowed_algorithms |-> {"RS256", "ES256"}, allowed_token_types |-> {"at+jwt"},
     limits |-> MCLimits, principals |-> <<Reader, Writer>>,
     remote_mutation_enabled |-> TRUE, filesReadable |-> TRUE,
     jwks |-> <<SigningKey>>, hmacKeyUsable |-> TRUE]

MCDocuments ==
    {Document,
     [Document EXCEPT !.remote_mutation_enabled = FALSE, !.clock_skew = 0],
     [Document EXCEPT !.jwks = <<SigningKey, [SigningKey EXCEPT !.kid = {"k2"},
                                              !.type = "P256"]>>,
                      !.clock_skew = 2, !.max_age = 1],
     [Document EXCEPT !.audience = "other"],
     [Document EXCEPT !.clock_skew = MaxSkew + 1],
     [Document EXCEPT !.principals = <<Reader>>],
     [Document EXCEPT !.principals = <<Reader, Reader>>],
     [Document EXCEPT !.principals[2].mutation_role = {"q2"}],
     [Document EXCEPT !.principals[2].allowed_scopes = {"mutate"}],
     [Document EXCEPT !.principals[1].rate_limit.burst = 100],
     [Document EXCEPT !.limits.max_database_connections = 1],
     [Document EXCEPT !.limits.max_token_bytes = 16384],
     [Document EXCEPT !.jwks[1].type = "P521"],
     [Document EXCEPT !.jwks = <<SigningKey, SigningKey>>],
     [Document EXCEPT !.jwks[1].use = {"enc"}],
     [Document EXCEPT !.hmacKeyUsable = FALSE]}

MCRoleFacts ==
    LET all == {<<"query", "q1">>, <<"query", "q2">>, <<"mutation", "w2">>}
    IN  {all, all \ {<<"mutation", "w2">>}, all \ {<<"query", "q1">>}}

Token == [bearer |-> "none", bytes |-> 512, embedsKey |-> FALSE,
          typ |-> "at+jwt", alg |-> "RS256", kid |-> {"k1"}, signedBy |-> {"k1"},
          claimsBounded |-> TRUE, identityValid |-> TRUE, iss |-> "i",
          aud |-> {"r"}, sub |-> "s2", scopes |-> {"query", "mutate"},
          iat |-> 3, exp |-> 8, nbf |-> {}]

MCTokens ==
    {[Token EXCEPT !.iat = i, !.exp = e, !.nbf = n] :
        i \in {TimeMin, -3, 0, 3, TimeMax - 1, TimeMax},
        e \in {TimeMin, 0, 5, 8, TimeMax - 1, TimeMax},
        n \in {{}, {TimeMin}, {5}, {TimeMax}}}
    \cup {[Token EXCEPT !.sub = s, !.scopes = c] :
             s \in {"s1", "s2", "s3"}, c \in SUBSET {"query", "mutate"}}
    \cup {[Token EXCEPT !.kid = {k}, !.signedBy = {g}, !.alg = a] :
             k \in {"k1", "k2"}, g \in {"k1", "k2"},
             a \in {"RS256", "RS384", "ES256"}}
    \cup {[Token EXCEPT !.bearer = "InvalidAuthorization"],
          [Token EXCEPT !.bytes = 2048], [Token EXCEPT !.embedsKey = TRUE],
          [Token EXCEPT !.typ = "id"], [Token EXCEPT !.iss = "j"],
          [Token EXCEPT !.aud = {"other"}], [Token EXCEPT !.aud = {"other", "r"}],
          [Token EXCEPT !.claimsBounded = FALSE],
          [Token EXCEPT !.identityValid = FALSE]}

MCClock == {0, 2, 4, 6, 8, 9, TimeMax - 1, TimeMax}

-----------------------------------------------------------------------------
(* Snapshots.                                                               *)

Plain(type, column) ==
    [data_type |-> type, column |-> column, relationship |-> {},
     visible |-> TRUE, time_dimension |-> FALSE, entity_key |-> FALSE]

IdField == [Plain("integer", "id") EXCEPT !.entity_key = TRUE]

Over(aggregation, field, type) ==
    [aggregation |-> aggregation, field |-> field, data_type |-> type,
     visible |-> TRUE, filter |-> {}, additivity |-> {"additive"},
     anchor |-> {"order_id"}]

OrderFields ==
    [order_id |-> IdField,
     amount |-> Plain("integer", "amount"),
     placed |-> [Plain("timestamp_tz", "placed") EXCEPT !.time_dimension = TRUE],
     region |-> [Plain("integer", "region") EXCEPT !.relationship = {"customer"}],
     sku |-> [Plain("integer", "sku") EXCEPT !.relationship = {"items"}],
     secret |-> [Plain("integer", "amount") EXCEPT !.visible = FALSE]]

OrderMetrics ==
    [revenue |-> Over("sum", "secret", "numeric"),
     orders |-> Over("count", "order_id", "integer"),
     mean |-> [Over("avg", "amount", "numeric") EXCEPT !.filter =
                 {[field |-> "amount", value |-> Literal("integer", 2)]}],
     sold |-> [Over("sum", "amount", "numeric") EXCEPT !.filter =
                 {[field |-> "sku", value |-> Literal("integer", 1)]}],
     least |-> [Over("min", "amount", "integer") EXCEPT !.anchor = {}],
     early |-> [Over("max", "amount", "integer") EXCEPT !.filter =
                 {[field |-> "placed", value |-> Literal("date", 1)]}],
     stock |-> [Over("sum", "amount", "numeric")
                  EXCEPT !.additivity = {"semi_additive"}]]

OrderPolicy ==
    [order_id |-> [nullable |-> TRUE, updatable_on_conflict |-> FALSE,
                   required_on_insert |-> FALSE],
     amount |-> [nullable |-> TRUE, updatable_on_conflict |-> TRUE,
                 required_on_insert |-> TRUE],
     placed |-> [nullable |-> FALSE, updatable_on_conflict |-> FALSE,
                 required_on_insert |-> FALSE]]

OrderWrites ==
    [insert |-> TRUE, upsert |-> {<<"order_id">>}, fields |-> OrderPolicy,
     returning |-> <<"order_id">>, max_rows |-> 2, max_request_bytes |-> 10]

Orders ==
    [source |-> "orders", timezone |-> {1}, queryable |-> TRUE,
     writable |-> {OrderWrites}, fields |-> OrderFields, metrics |-> OrderMetrics,
     relationships |->
       [customer |-> [cardinality |-> "many_to_one", join_type |-> "left",
                      target_model |-> "customers", target |-> "customers",
                      from_column |-> "customer", to_column |-> "id"],
        items |-> [cardinality |-> "one_to_many", join_type |-> "left",
                   target_model |-> "items", target |-> "items",
                   from_column |-> "id", to_column |-> "order"]]]

Bare(source, fields) ==
    [source |-> source, timezone |-> {}, queryable |-> TRUE, writable |-> {},
     fields |-> fields, metrics |-> <<>>, relationships |-> <<>>]

Snapshot2 ==
    [schema_version |-> "2", hashed |-> TRUE,
     models |->
       [orders |-> Orders,
        customers |-> Bare("customers",
          [customer_id |-> [IdField EXCEPT !.visible = FALSE],
           region |-> Plain("integer", "region")]),
        items |-> Bare("items", [item_id |-> IdField,
                                 sku |-> Plain("integer", "sku")])]]

\* The same model without the metadata of metrics.
Snapshot1 ==
    [Snapshot2 EXCEPT !.schema_version = "1",
        !.models.orders.metrics =
            [n \in DOMAIN @ |-> [@[n] EXCEPT !.additivity = {}, !.anchor = {}]]]

MCSnapshots ==
    {Snapshot2, Snapshot1,
     [Snapshot2 EXCEPT !.models.orders.relationships.items.join_type = "inner",
                       !.models.orders.relationships.customer.join_type = "inner"],
     [Snapshot2 EXCEPT !.models.orders.timezone = {},
                       !.models.orders.writable = {[OrderWrites EXCEPT
                          !.fields.placed.required_on_insert = TRUE]}],
     [Snapshot2 EXCEPT !.models.orders.relationships.items.cardinality
                          = "many_to_many",
                       !.models.orders.metrics.mean.data_type = "integer",
                       !.models.orders.metrics.revenue.anchor = {"amount"}],
     [Snapshot2 EXCEPT !.models.orders.relationships.customer.to_column
                          = "region"],
     [Snapshot2 EXCEPT !.hashed = FALSE]}

Without(f, name) == [n \in DOMAIN f \ {name} |-> f[n]]

\* Revisions that may follow: every kind of change that diff_snapshots tells
\* apart, to models that the loader accepts.
MCSuccessors ==
    {s \in MCSnapshots : s.hashed}
    \cup {[Snapshot2 EXCEPT !.models.orders.fields = Without(@, "placed"),
                            !.models.orders.metrics = Without(@, "early")],
          [Snapshot2 EXCEPT !.models.customers.fields = Without(@, "customer_id")],
          [Snapshot2 EXCEPT !.models.customers.fields = Without(@, "region")],
          [Snapshot2 EXCEPT !.models.orders.fields.secret.visible = TRUE],
          [Snapshot2 EXCEPT !.models.orders.fields.secret.column = "region"],
          [Snapshot2 EXCEPT !.models.orders.fields.amount.column = "region"],
          [Snapshot2 EXCEPT !.models.orders.fields.amount.data_type = "numeric"],
          [Snapshot2 EXCEPT !.models.customers.fields.customer_id.visible = TRUE],
          [Snapshot2 EXCEPT !.models.customers.fields.customer_id.entity_key = FALSE],
          [Snapshot2 EXCEPT !.models.orders.metrics.revenue.aggregation = "max",
                            !.models.orders.metrics.revenue.data_type = "integer"],
          [Snapshot2 EXCEPT !.models.orders.metrics = Without(@, "orders")],
          [Snapshot2 EXCEPT !.models.orders.metrics.least.anchor = {"order_id"}],
          [Snapshot2 EXCEPT !.models.orders.timezone = {2}],
          [Snapshot2 EXCEPT !.models.orders.queryable = FALSE],
          [Snapshot2 EXCEPT !.models.orders.writable = {}],
          [Snapshot2 EXCEPT !.models.items.queryable = FALSE],
          [Snapshot2 EXCEPT !.models = Without(@, "items"),
                            !.models.orders.fields = Without(@, "sku"),
                            !.models.orders.metrics = Without(@, "sold"),
                            !.models.orders.relationships = Without(@, "items")]}

-----------------------------------------------------------------------------
(* Queries and databases.                                                   *)

By(field) == [field |-> field, time_grain |-> {}]
Grain(field, grain) == [field |-> field, time_grain |-> {grain}]

Leaf(op, field, values) ==
    [op |-> op, field |-> field, values |-> values, args |-> <<>>]
Node(op, args) == [op |-> op, field |-> "", values |-> <<>>, args |-> args]

One == Literal("integer", 1)
OnDay == Literal("date", 1)

MCFilters ==
    {{}, {Leaf("eq", "sku", <<One>>)},
     {Node("not", <<Leaf("lt", "amount", <<Literal("integer", 2)>>)>>)},
     {Node("or", <<Leaf("in", "region", <<One, One>>),
                   Leaf("is_null", "sku", <<>>)>>)},
     {Leaf("gte", "placed", <<OnDay>>)}, {Leaf("in", "placed", <<OnDay>>)},
     {Node("and", <<Leaf("not_eq", "sku", <<One>>),
                    Leaf("is_not_null", "placed", <<>>)>>)}}

Query == [schema_version |-> "1", model |-> "orders", dimensions |-> <<>>,
          metrics |-> <<"orders">>, filters |-> {}, order_by |-> <<>>, limit |-> {}]

MCQueries ==
    {[Query EXCEPT !.dimensions = d, !.metrics = m, !.filters = f] :
        d \in {<<>>, <<By("region")>>, <<By("sku")>>, <<Grain("placed", "day")>>,
               <<Grain("placed", "month"), By("region")>>},
        m \in {<<>>, <<"revenue", "orders">>, <<"mean">>, <<"sold">>, <<"least">>,
               <<"early", "orders">>, <<"stock">>, <<"orders", "least">>},
        f \in MCFilters}
    \cup {[Query EXCEPT !.schema_version = "2"], [Query EXCEPT !.model = ""],
          [Query EXCEPT !.model = "missing"], [Query EXCEPT !.limit = {0}],
          [Query EXCEPT !.limit = {HardLimit + 1}],
          [Query EXCEPT !.dimensions = <<By("orders")>>],
          [Query EXCEPT !.dimensions = <<By("")>>],
          [Query EXCEPT !.dimensions = <<By("secret")>>],
          [Query EXCEPT !.dimensions = <<Grain("amount", "day")>>],
          [Query EXCEPT !.order_by = <<"orders", "orders">>],
          [Query EXCEPT !.order_by = <<"region">>],
          [Query EXCEPT !.filters = {Node("and", <<>>)}],
          [Query EXCEPT !.filters = {Leaf("in", "amount", <<>>)}],
          [Query EXCEPT !.filters = {Leaf("eq", "amount", <<OnDay>>)}],
          [Query EXCEPT !.filters = {Leaf("eq", "amount",
                            <<[One EXCEPT !.wellFormed = FALSE]>>)}],
          [Query EXCEPT !.filters =
              {Node("not", <<Node("not", <<Leaf("is_null", "sku", <<>>)>>)>>)}]}

Order(id, customer, amount, placed) ==
    [id |-> id, customer |-> customer, amount |-> amount, placed |-> placed]
Item(id, order, sku) == [id |-> id, order |-> order, sku |-> sku]

MCDatabases ==
    {[orders |-> o, items |-> i, customers |-> c] :
        o \in {{}, {Order(1, 1, 2, 1), Order(2, 1, 2, 1)},
               {Order(1, 1, 2, 2), Order(2, 2, Null, 3), Order(3, Null, 1, 6)}},
        i \in {{}, {Item(1, 1, 1), Item(2, 1, 1), Item(3, 2, 1)},
               {Item(1, 1, 1), Item(2, 1, 2), Item(3, 3, Null)}},
        c \in {{[id |-> 1, region |-> 1]},
               {[id |-> 1, region |-> 1], [id |-> 2, region |-> 1]}}}

-----------------------------------------------------------------------------
(* Mutations and tables.                                                    *)

Stored(n) == Literal("integer", n)
NullValue == [type |-> "null", value |-> 0, wellFormed |-> TRUE]

Mutation == [bytes |-> 8, parses |-> TRUE, schema_version |-> "1",
             model |-> "orders", idempotency_key |-> "k", operation |-> "upsert",
             rows |-> <<[order_id |-> Stored(1), amount |-> Stored(5)]>>]

OrderRow(id, amount) == [order_id |-> id, amount |-> amount]

Placed == Literal("timestamp", 7)

MCMutations ==
    {[Mutation EXCEPT !.operation = o, !.rows = r] :
        o \in {"insert", "upsert"},
        r \in {<<OrderRow(a, b)>> : a \in {Stored(1), Stored(3), NullValue},
                                    b \in {Stored(5), NullValue}}
              \cup {<<OrderRow(a, Stored(5)), OrderRow(b, Stored(6))>> :
                       a, b \in {Stored(1), Stored(2), Stored(4), NullValue}}
              \cup {<<[amount |-> Stored(5), placed |-> Placed]>>,
                    <<[order_id |-> Stored(1), amount |-> Stored(5),
                       placed |-> Placed]>>,
                    <<[order_id |-> Stored(1)]>>, <<[amount |-> Stored(5)]>>,
                    <<[amount |-> Stored(5), placed |-> NullValue]>>,
                    <<[order_id |-> Stored(1), placed |-> Placed]>>,
                    <<[region |-> Stored(1)]>>,
                    <<OrderRow(Stored(1), Literal("text", 1))>>,
                    <<OrderRow(Stored(1), Stored(5)), [amount |-> Stored(5)]>>,
                    <<>>}}
    \cup {[Mutation EXCEPT !.bytes = MaxInputBytes + 1],
          [Mutation EXCEPT !.bytes = 11], [Mutation EXCEPT !.parses = FALSE],
          [Mutation EXCEPT !.schema_version = "2"],
          [Mutation EXCEPT !.model = "items"],
          [Mutation EXCEPT !.idempotency_key = ""],
          [Mutation EXCEPT !.rows = <<Mutation.rows[1], Mutation.rows[1],
                                      Mutation.rows[1]>>]}

MCProfiles == {{"orders", "items"}, {}}

MCTables ==
    {<<Order(1, 1, 2, 1)>>, <<Order(1, 1, 2, 1), Order(2, 2, 3, 4)>>,
     <<Order(2, 1, 5, 1), Order(Null, 1, 3, 1), Order(3, 2, Null, 2)>>}

\* The constraints of the table: the key, a second unique column, none.
MCKeys == {{{"id"}}, {{"id"}, {"amount"}}, {}}

-----------------------------------------------------------------------------
(* Catalogs of a database with orders, and scaffold requests.               *)

MCPortable == {"app", "shop", "orders", "order_log", "order", "customers", "id",
               "order_id", "customer_id", "at", "day", "note", "tenant", "customer",
               "region", "buyer", "buyer_region", "order_count", "first_day", "total"}

MCStartsWith == {<<"orders", "order">>, <<"order_log", "order">>}

Column(ordinal, type) ==
    [ordinal |-> ordinal, data_type |-> type, nullable |-> FALSE, comment |-> "c1",
     select_grant |-> TRUE]

KeyOver(columns) ==
    [columns |-> columns, enforced |-> TRUE, validated |-> TRUE, period |-> FALSE]

PrimaryName == <<"primary_key", "pk">>
ForeignName == <<"foreign_key", "fk">>

CustomerKey ==
    [columns |-> <<"customer">>, target |-> <<"app", "customers">>,
     referenced |-> <<"id">>, enforced |-> TRUE, validated |-> TRUE,
     period |-> FALSE]

OrderTable ==
    [kind |-> "table", owner |-> "o1", view |-> {}, comment |-> "c1",
     grants |-> [schema_usage |-> TRUE, table_select |-> TRUE,
                 any_column_select |-> TRUE],
     rls |-> FALSE, policies |-> <<>>,
     columns |-> [id |-> Column(1, "bigint"), at |-> Column(2, "timestamptz"),
                  note |-> [Column(3, "text") EXCEPT !.nullable = TRUE],
                  customer |-> Column(4, "bigint"), day |-> Column(5, "date")],
     constraints |-> (PrimaryName :> KeyOver(<<"id">>)
                      @@ ForeignName :> CustomerKey)]

IdTable ==
    [OrderTable EXCEPT !.columns = [id |-> Column(1, "bigint"),
                                    region |-> Column(2, "integer")],
                       !.constraints = PrimaryName :> KeyOver(<<"id">>)]

OrdersKey == <<"app", "orders">>

Scan ==
    [schema_version |-> "2", sealed |-> TRUE, server_version |-> 1,
     database |-> "d1", role |-> "r1", role_context |-> 1, role_graph |-> 1,
     object_privileges |-> 1, functions |-> [f |-> 1],
     relations |-> OrdersKey :> OrderTable @@ <<"app", "customers">> :> IdTable]

\* The catalog with its first table changed.
WithOrders(table) == [Scan EXCEPT !.relations[OrdersKey] = table]

Added(f, name, value) == (name :> value) @@ f

MCTablesOfOrders ==
    {[OrderTable EXCEPT !.kind = k] : k \in {"view", "foreign_table"}}
    \cup {[OrderTable EXCEPT !.owner = "o2"], [OrderTable EXCEPT !.comment = "c2"],
          [OrderTable EXCEPT !.rls = TRUE], [OrderTable EXCEPT !.view = {1}],
          [OrderTable EXCEPT !.grants.schema_usage = FALSE],
          [OrderTable EXCEPT !.policies = [p |-> 1]],
          [OrderTable EXCEPT !.policies = [p |-> 2]]}
    \cup {[OrderTable EXCEPT !.columns = c] :
            c \in {Without(OrderTable.columns, "note"),
                   Without(OrderTable.columns, "at"),
                   Added(OrderTable.columns, "tenant", Column(6, "integer")),
                   Added(OrderTable.columns, "tenant", Column(6, "jsonb")),
                   Added(OrderTable.columns, "Odd Name", Column(6, "text"))}}
    \cup {[OrderTable EXCEPT !.columns.id = c] :
            c \in {Column(1, "jsonb"), Column(1, "text"), Column(6, "bigint"),
                   [Column(1, "bigint") EXCEPT !.nullable = TRUE],
                   [Column(1, "bigint") EXCEPT !.select_grant = FALSE],
                   [Column(1, "bigint") EXCEPT !.comment = "c2"]}}
    \cup {[OrderTable EXCEPT !.constraints = k] :
            k \in {Without(OrderTable.constraints, PrimaryName),
                   Without(OrderTable.constraints, ForeignName),
                   Added(OrderTable.constraints, <<"unique", "u">>,
                         KeyOver(<<"note">>)),
                   Added(OrderTable.constraints, PrimaryName,
                         KeyOver(<<"id", "day">>)),
                   Added(OrderTable.constraints, PrimaryName,
                         [KeyOver(<<"id">>) EXCEPT !.validated = FALSE])}}

MCCatalogs ==
    {Scan, [Scan EXCEPT !.sealed = FALSE], [Scan EXCEPT !.schema_version = "1"],
     [Scan EXCEPT !.server_version = 2], [Scan EXCEPT !.role_context = 2],
     [Scan EXCEPT !.role = "r2"], [Scan EXCEPT !.role_graph = 2],
     [Scan EXCEPT !.object_privileges = 2], [Scan EXCEPT !.functions = <<>>],
     [Scan EXCEPT !.functions = [f |-> 1, g |-> 1]],
     [Scan EXCEPT !.relations = Added(@, <<"app", "order_log">>, IdTable)],
     [Scan EXCEPT !.relations = <<"app", "order_log">> :> IdTable],
     [Scan EXCEPT !.relations = <<>>]}
    \cup {WithOrders(t) : t \in MCTablesOfOrders}

ScaffoldRequest ==
    [schema_version |-> "1", schema |-> "app", relations |-> <<"orders">>,
     relation_prefix |-> {}, max_models |-> 2, timezone |-> {"UTC"}]

MCScaffolds ==
    {ScaffoldRequest,
     [ScaffoldRequest EXCEPT !.relations = <<>>, !.relation_prefix = {"order"}],
     [ScaffoldRequest EXCEPT !.relations = <<>>, !.relation_prefix = {"order"},
                             !.max_models = 1],
     [ScaffoldRequest EXCEPT !.relations = <<"order_log">>, !.timezone = {}],
     [ScaffoldRequest EXCEPT !.relations = <<"orders", "orders">>],
     [ScaffoldRequest EXCEPT !.relation_prefix = {"order"}],
     [ScaffoldRequest EXCEPT !.relation_prefix = {""}],
     [ScaffoldRequest EXCEPT !.relations = <<"Odd Name">>],
     [ScaffoldRequest EXCEPT !.timezone = {"other"}],
     [ScaffoldRequest EXCEPT !.timezone = {}],
     [ScaffoldRequest EXCEPT !.max_models = 0]}

-----------------------------------------------------------------------------
(* OSI documents over that database.                                        *)

OsiField(name, column) ==
    [name |-> name, is_time |-> FALSE, extensions |-> FALSE,
     expression |-> [ansi |-> TRUE, column |-> column]]

Dataset(name, fields) ==
    [name |-> name, source |-> <<"app", name>>, primary_key |-> <<>>,
     unique_keys |-> FALSE, extensions |-> FALSE, fields |-> fields]

OsiMetric(name, aggregation, field) ==
    [name |-> name, extensions |-> FALSE,
     expression |-> [ansi |-> TRUE, parses |-> TRUE, aggregation |-> aggregation,
                     dataset |-> "orders", field |-> field]]

Buyer == [name |-> "buyer", from |-> "orders", to |-> "customers",
          from_columns |-> <<"customer">>, to_columns |-> <<"id">>,
          extensions |-> FALSE]

OrderSet ==
    Dataset("orders", <<OsiField("order_id", "id"), OsiField("note", "note"),
                        [OsiField("day", "day") EXCEPT !.is_time = TRUE],
                        OsiField("customer", "customer")>>)

Shop ==
    [name |-> "shop", extensions |-> FALSE, relationships |-> <<Buyer>>,
     datasets |-> <<OrderSet,
                    Dataset("customers", <<OsiField("customer_id", "id"),
                                           OsiField("region", "region")>>)>>,
     metrics |-> <<OsiMetric("order_count", "count", "order_id"),
                   OsiMetric("first_day", "min", "day"),
                   OsiMetric("total", "sum", "customer")>>]

MCShops ==
    {Shop, [Shop EXCEPT !.extensions = TRUE], [Shop EXCEPT !.name = "Odd Name"],
     [Shop EXCEPT !.relationships = <<>>], [Shop EXCEPT !.datasets = <<OrderSet>>],
     [Shop EXCEPT !.relationships = <<Buyer, Buyer>>],
     [Shop EXCEPT !.relationships =
        <<Buyer, [Buyer EXCEPT !.name = "customer"]>>]}
    \cup {[Shop EXCEPT !.datasets[1] = ds] :
            ds \in {[OrderSet EXCEPT !.primary_key = <<"id">>],
                    [OrderSet EXCEPT !.primary_key = <<"order_id">>],
                    [OrderSet EXCEPT !.source = <<"d1", "app", "orders">>],
                    [OrderSet EXCEPT !.source = <<"d2", "app", "orders">>],
                    [OrderSet EXCEPT !.source = <<"orders">>],
                    [OrderSet EXCEPT !.source = <<"app", "order">>],
                    [OrderSet EXCEPT !.name = "customers"],
                    [OrderSet EXCEPT !.unique_keys = TRUE],
                    [OrderSet EXCEPT !.fields = Tail(@)],
                    [OrderSet EXCEPT !.fields = Append(@, OsiField("region", "id"))]}}
    \cup {[Shop EXCEPT !.datasets[1].fields[2] = f] :
            f \in {OsiField("buyer_region", "note"), OsiField("order_id", "note"),
                   OsiField("region", "region"), OsiField("region", "Odd Name"),
                   [OsiField("region", "at") EXCEPT !.is_time = TRUE],
                   OsiField("region", "at")}}
    \cup {[Shop EXCEPT !.relationships[1] = r] :
            r \in {[Buyer EXCEPT !.to = "orders"], [Buyer EXCEPT !.from = "shop"],
                   [Buyer EXCEPT !.from_columns = <<"id">>],
                   [Buyer EXCEPT !.to_columns = <<"region">>],
                   [Buyer EXCEPT !.to_columns = <<"id", "region">>]}}
    \cup {[Shop EXCEPT !.metrics[1] = x] :
            x \in {OsiMetric("order_count", "count", "note"),
                   OsiMetric("order_count", "sum", "note"),
                   OsiMetric("order_count", "avg", "customer"),
                   OsiMetric("order_count", "count_distinct", "order_id"),
                   OsiMetric("order_count", "max", "region"),
                   OsiMetric("total", "max", "note"),
                   [OsiMetric("order_count", "max", "note")
                      EXCEPT !.expression.parses = FALSE]}}

MCOsiDocuments ==
    {[parses |-> TRUE, extensions |-> FALSE, semantic_model |-> <<m>>] : m \in MCShops}
    \cup {[parses |-> p, extensions |-> e, semantic_model |-> s] :
            p \in BOOLEAN, e \in BOOLEAN,
            s \in {<<>>, <<Shop, Shop>>, <<Shop, [Shop EXCEPT !.name = "order"]>>}}

MCSelections == {{}, {"shop"}, {"orders"}}
=============================================================================
