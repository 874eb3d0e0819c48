------------------------------ MODULE Authority ------------------------------
(***************************************************************************)
(* The authority of the HTTP transport (mcp_http_auth.rs) as operators: the  *)
(* authority document and the key set a server accepts at start, the roles   *)
(* it preflights (prepare_server of mcp_http.rs), and what authenticate_at   *)
(* answers to a token at a time.                                            *)
(*                                                                         *)
(* Names, scopes, roles and keys are values that are only compared.  The     *)
(* syntax of URIs, hosts, origins, names, scopes and roles, the sizes of     *)
(* lists and the uniqueness of their entries are one fact of a document,     *)
(* wellFormed, and of a principal.  A signature is the key that made it.     *)
(***************************************************************************)
EXTENDS Integers, Sequences, FiniteSets, Checks

CONSTANTS
    TimeMin, TimeMax,   \* the range of the integers of claims and clock, i64
    MaxSkew, MaxAge     \* the largest skew and token age of a document

ASSUME TimeAssumption ==
    /\ {TimeMin, TimeMax, MaxSkew, MaxAge} \subseteq Int
    /\ TimeMin <= -MaxSkew /\ 0 <= MaxSkew /\ 1 <= MaxAge
    /\ MaxAge + 2 * MaxSkew < TimeMax

\* saturating_add and saturating_sub of i64.
Saturate(n) ==
    IF n < TimeMin THEN TimeMin ELSE IF n > TimeMax THEN TimeMax ELSE n

\* Variant: the age of a token is taken with a subtraction that wraps.
CheckTimeWraps(d, t, now) ==
    LET age == now - t.iat
        wrapped == IF age > TimeMax THEN age - (TimeMax - TimeMin + 1) ELSE age
    IN  IF t.exp < t.iat THEN "InvalidClaims"
        ELSE IF Saturate(now - d.clock_skew) >= t.exp THEN "TokenExpired"
        ELSE IF \E n \in t.nbf : Saturate(now + d.clock_skew) < n
             THEN "TokenNotYetValid"
        ELSE IF Saturate(now + d.clock_skew) < t.iat THEN "InvalidClaims"
        ELSE Check(wrapped <= Saturate(d.max_age + d.clock_skew), "TokenTooOld")

\* check_time.  nbf is the empty set when the claim is absent.
CheckTime(d, t, now) ==
    IF t.exp < t.iat THEN "InvalidClaims"
    ELSE IF Saturate(now - d.clock_skew) >= t.exp THEN "TokenExpired"
    ELSE IF \E n \in t.nbf : Saturate(now + d.clock_skew) < n
         THEN "TokenNotYetValid"
    ELSE IF Saturate(now + d.clock_skew) < t.iat THEN "InvalidClaims"
    ELSE Check(Saturate(now - t.iat) <= Saturate(d.max_age + d.clock_skew),
               "TokenTooOld")

\* The window of a token, in arithmetic without bounds.
Fresh(d, t, now) ==
    /\ t.iat <= t.exp /\ now < t.exp + d.clock_skew
    /\ \A n \in t.nbf : n <= now + d.clock_skew
    /\ t.iat <= now + d.clock_skew
    /\ now <= t.iat + d.max_age + d.clock_skew

\* The algorithms a key of each type can verify; a key of another type is
\* refused.
KeyAlgorithms ==
    [RSA |-> {"RS256", "RS384", "RS512"}, P256 |-> {"ES256"},
     P384 |-> {"ES384"}, OKP |-> {"EdDSA"}]

\* The algorithms an entry of the key set may verify under this document.
Verifies(d, k) ==
    LET able == IF k.type \in DOMAIN KeyAlgorithms
                THEN KeyAlgorithms[k.type] \cap d.allowed_algorithms ELSE {}
    IN  IF k.alg = {} THEN able ELSE able \cap k.alg

\* load_keys.  A key set is a sequence of entries; kid, use, ops and alg are
\* empty sets when absent.
KeysError(d) ==
    IF d.jwks = <<>> THEN "key"
    ELSE Check(/\ \A i \in DOMAIN d.jwks : LET k == d.jwks[i] IN
                     /\ k.kid # {} /\ k.usable
                     /\ k.use \subseteq {"sig"}
                     /\ k.ops = {} \/ "verify" \in k.ops
                     /\ Verifies(d, k) # {}
               /\ \A i, j \in DOMAIN d.jwks :
                     d.jwks[i].kid = d.jwks[j].kid => i = j,
               "key")

\* The entry behind a key id of an accepted key set, if there is one.
KeyOf(d, kid) == {k \in {d.jwks[i] : i \in DOMAIN d.jwks} : k.kid = kid}

\* validate_limits.
LimitRange ==
    [max_request_body_bytes |-> 1024..1048576,
     max_token_bytes |-> 256..65536,
     max_header_bytes |-> 1024..1048576,
     max_execution_seconds |-> 1..3600,
     max_result_bytes |-> 1024..1073741824,
     max_concurrent_requests |-> 1..10000,
     max_pre_auth_concurrent_requests |-> 1..10000,
     max_database_connections |-> 2..10000,
     sse_keepalive_seconds |-> 1..60,
     max_sse_seconds |-> 1..3600]

LimitsError(l) ==
    IF \E f \in DOMAIN LimitRange : l[f] \notin LimitRange[f] THEN "schema"
    ELSE Check(/\ l.max_pre_auth_concurrent_requests <= l.max_concurrent_requests
               /\ l.max_token_bytes <= l.max_header_bytes
               /\ l.sse_keepalive_seconds <= l.max_sse_seconds,
               "semantic")

\* validate_rate_limit.
RateLimitError(r) ==
    IF \/ r.requests_per_minute \notin 1..1000000
       \/ r.burst \notin 1..100000
       \/ r.max_concurrent \notin 1..10000
    THEN "schema"
    ELSE Check(/\ r.burst <= r.requests_per_minute
               /\ r.max_concurrent <= r.burst,
               "semantic")

GrantsMutation(d, p) == d.mutation_scope \in p.allowed_scopes

\* validate_principals, for one entry.
PrincipalError(d, p) ==
    IF ~p.wellFormed THEN "schema"
    ELSE Then(Check(/\ p.allowed_scopes \subseteq d.scopes_supported
                    /\ d.query_scope \in p.allowed_scopes
                    /\ GrantsMutation(d, p) <=> p.mutation_role # {}
                    /\ p.query_role \notin p.mutation_role,
                    "semantic"),
              RateLimitError(p.rate_limit))

Entries(d) == {d.principals[i] : i \in DOMAIN d.principals}

\* validate_principals: entries of other subjects have other authority ids.
PrincipalsError(d) ==
    LET bad == {i \in DOMAIN d.principals :
                  \/ PrincipalError(d, d.principals[i]) # "none"
                  \/ \E j \in 1..(i - 1) :
                       \/ d.principals[j].subject = d.principals[i].subject
                       \/ d.principals[j].authority_id
                            = d.principals[i].authority_id}
    IN  IF d.principals = <<>> THEN "schema"
        ELSE IF bad # {} THEN "principal"
        ELSE Check(d.remote_mutation_enabled
                     => \E p \in Entries(d) : GrantsMutation(d, p),
                   "semantic")

\* validate_document.
DocumentFault(d) ==
    IF ~d.wellFormed THEN "schema"
    ELSE IF \/ d.audience # d.resource
            \/ d.query_scope = d.mutation_scope
            \/ ~({d.query_scope, d.mutation_scope} \subseteq d.scopes_supported)
         THEN "semantic"
    ELSE IF d.clock_skew \notin 0..MaxSkew \/ d.max_age \notin 1..MaxAge
         THEN "schema"
    ELSE IF d.host \notin d.allowed_hosts THEN "semantic"
    ELSE Then(LimitsError(d.limits), PrincipalsError(d))

\* Authority::load and assemble: the document, then the two files it names.
LoadError(d) ==
    Then(DocumentFault(d),
         IF ~d.filesReadable THEN "io"
         ELSE Then(KeysError(d), Check(d.hmacKeyUsable, "key")))

QueryRoles(d) == {p.query_role : p \in Entries(d)}
MutationRoles(d) == UNION {p.mutation_role : p \in Entries(d)}

\* Variant: the roles of mutations are not preflighted.
PreflightsQueriesOnly(d) == {<<"query", r>> : r \in QueryRoles(d)}

\* The roles prepare_server preflights, each over the connection it is for.
Preflights(d) ==
    {<<"query", r>> : r \in QueryRoles(d)}
        \cup IF d.remote_mutation_enabled
             THEN {<<"mutation", r>> : r \in MutationRoles(d)} ELSE {}

\* prepare_server: the server starts when its document loads and PostgreSQL
\* accepts every role over its connection; safe is what PostgreSQL accepts.
Starts(d, safe) == LoadError(d) = "none" /\ Preflights(d) \subseteq safe

\* authenticate_at up to the claims: extract_bearer, decode_header, the header's
\* checks and the signature.  A type is compared without its case.
HeaderError(d, t) ==
    IF t.bearer # "none" THEN t.bearer
    ELSE IF t.bytes > d.limits.max_token_bytes THEN "TokenTooLarge"
    ELSE IF t.embedsKey THEN "UnknownKey"
    ELSE IF t.typ \notin d.allowed_token_types THEN "UnsupportedTokenType"
    ELSE IF t.alg \notin d.allowed_algorithms THEN "UnsupportedAlgorithm"
    ELSE IF KeyOf(d, t.kid) = {} THEN "UnknownKey"
    ELSE IF \A k \in KeyOf(d, t.kid) : t.alg \notin Verifies(d, k)
         THEN "UnsupportedAlgorithm"
    ELSE Check(t.signedBy = t.kid, "InvalidSignature")

\* check_issuer, check_audience, check_time, the subject and collect_scopes.
ClaimsError(d, t, now) ==
    IF ~t.claimsBounded THEN "InvalidClaims"
    ELSE IF t.iss # d.issuer THEN "InvalidIssuer"
    ELSE IF d.audience \notin t.aud THEN "InvalidAudience"
    ELSE Then(CheckTime(d, t, now), Check(t.identityValid, "InvalidClaims"))

Mapped(d, t) == {p \in Entries(d) : p.subject = t.sub}

Granted(p, t) == p.allowed_scopes \cap t.scopes

GrantError(d, t) ==
    IF Mapped(d, t) = {} THEN "UnknownPrincipal"
    ELSE Check(\A p \in Mapped(d, t) : Granted(p, t) # {}, "InsufficientScope")

\* authenticate_at: the error, or none and the principal.
AuthenticateError(d, t, now) ==
    Then(HeaderError(d, t), Then(ClaimsError(d, t, now), GrantError(d, t)))

Principal(d, t) ==
    LET p == CHOOSE p \in Mapped(d, t) : TRUE
        mutates == /\ d.remote_mutation_enabled
                   /\ d.mutation_scope \in Granted(p, t)
    IN  [authority_id |-> p.authority_id, query_role |-> p.query_role,
         mutation_role |-> IF mutates THEN p.mutation_role ELSE {},
         granted |-> Granted(p, t), rate_limit |-> p.rate_limit]
=============================================================================
