------------------------------ MODULE JobProofs ------------------------------
(***************************************************************************)
(* Proofs about the pure parts that AuthorityServer and Authoring put to use. *)
(* A server accepts exactly the tokens its authority document describes, and *)
(* hands every request roles that were preflighted, for any documents,       *)
(* tokens and clock; the time check is exact over the whole range of i64.    *)
(* A scaffolded snapshot survives every drift of the source database that     *)
(* diff_catalogs calls compatible, for any catalogs and requests.            *)
(***************************************************************************)
EXTENDS AuthorityServer, Authoring, WellFoundedInduction, TLAPS

\* A document's limits, and a token's claims as i64.
Timed(d, t) ==
    /\ d.clock_skew \in 0 .. MaxSkew /\ d.max_age \in 1 .. MaxAge
    /\ t.iat \in TimeMin .. TimeMax /\ t.exp \in TimeMin .. TimeMax
    /\ t.nbf \subseteq TimeMin .. TimeMax

\* check_time accepts a token exactly when the clock lies in its window, though
\* every sum in it saturates: no claim at either end of i64 is accepted or
\* refused for that.
THEOREM TimesAreExact ==
    ASSUME NEW d, NEW t, NEW now \in 0 .. TimeMax, Timed(d, t)
    PROVE  CheckTime(d, t, now) = "none" <=> Fresh(d, t, now)
<1>0. /\ d.clock_skew \in Int /\ d.max_age \in Int /\ t.iat \in Int /\ t.exp \in Int
      /\ now \in Int /\ \A n \in t.nbf : n \in Int
  BY TimeAssumption DEF Timed
<1>1. Saturate(now - d.clock_skew) >= t.exp <=> ~(now < t.exp + d.clock_skew)
  BY TimeAssumption DEF Timed, Saturate
<1>2. ASSUME NEW n \in TimeMin .. TimeMax
      PROVE  Saturate(now + d.clock_skew) < n <=> ~(n <= now + d.clock_skew)
  BY TimeAssumption DEF Timed, Saturate
<1>3. (\E n \in t.nbf : Saturate(now + d.clock_skew) < n)
        <=> ~\A n \in t.nbf : n <= now + d.clock_skew
  BY <1>2 DEF Timed
<1>4. Saturate(now + d.clock_skew) < t.iat <=> ~(t.iat <= now + d.clock_skew)
  BY <1>2 DEF Timed
<1>5. Saturate(now - t.iat) <= Saturate(d.max_age + d.clock_skew)
        <=> now <= t.iat + d.max_age + d.clock_skew
  BY TimeAssumption DEF Timed, Saturate
<1>6. t.exp < t.iat <=> ~(t.iat <= t.exp)
  BY <1>0
<1> QED BY <1>1, <1>3, <1>4, <1>5, <1>6 DEF CheckTime, Check, Fresh

-----------------------------------------------------------------------------

\* What a document that loads promises to authenticate_at: one resource, limits
\* in range, no two keys of one id and no two principals of one subject.
LEMMA LoadedDocument ==
    ASSUME NEW d \in Documents, LoadError(d) = "none"
    PROVE  /\ d.audience = d.resource
           /\ d.clock_skew \in 0 .. MaxSkew /\ d.max_age \in 1 .. MaxAge
           /\ \A i, j \in DOMAIN d.jwks : d.jwks[i].kid = d.jwks[j].kid => i = j
           /\ \A i, j \in DOMAIN d.principals :
                 d.principals[i].subject = d.principals[j].subject => i = j
           /\ \A p \in Entries(d) : p.query_role \notin p.mutation_role
<1>1. DocumentFault(d) = "none" /\ KeysError(d) = "none"
  BY DEF LoadError, Then, Check
<1>2. PrincipalsError(d) = "none"
  BY <1>1 DEF DocumentFault, Then
<1>3. /\ d.audience = d.resource
      /\ d.clock_skew \in 0 .. MaxSkew /\ d.max_age \in 1 .. MaxAge
  BY <1>1 DEF DocumentFault, Then
<1>4. \A i, j \in DOMAIN d.jwks : d.jwks[i].kid = d.jwks[j].kid => i = j
  BY <1>1 DEF KeysError, Check
<1>5. \A i \in DOMAIN d.principals :
         /\ PrincipalError(d, d.principals[i]) = "none"
         /\ \A j \in 1 .. (i - 1) :
               d.principals[j].subject # d.principals[i].subject
  BY <1>2 DEF PrincipalsError
<1>6. ASSUME NEW i \in DOMAIN d.principals, NEW j \in DOMAIN d.principals,
             d.principals[i].subject = d.principals[j].subject
      PROVE  i = j
  <2>1. i \in Nat \ {0} /\ j \in Nat \ {0}
    BY InputAssumption
  <2>2. ~(i < j) /\ ~(j < i)
    BY <1>5, <1>6, <2>1
  <2> QED BY <2>1, <2>2
<1>7. \A p \in Entries(d) : p.query_role \notin p.mutation_role
  BY <1>5 DEF Entries, PrincipalError, Then, Check
<1> QED BY <1>3, <1>4, <1>6, <1>7

\* decode_header and the checks of the header succeed exactly when one entry of
\* the key set has the token's key id, made its signature, and can verify the
\* algorithm it names.
LEMMA HeaderIsExact ==
    ASSUME NEW d \in Documents, NEW t \in Tokens, LoadError(d) = "none"
    PROVE  HeaderError(d, t) = "none" <=>
             /\ t.bearer = "none" /\ t.bytes <= d.limits.max_token_bytes
             /\ ~t.embedsKey /\ t.typ \in d.allowed_token_types
             /\ \E i \in DOMAIN d.jwks : /\ {t.kid, t.signedBy} = {d.jwks[i].kid}
                                         /\ t.alg \in Verifies(d, d.jwks[i])
<1> DEFINE signed == \E i \in DOMAIN d.jwks : /\ {t.kid, t.signedBy} = {d.jwks[i].kid}
                                               /\ t.alg \in Verifies(d, d.jwks[i])
<1>1. \A k : Verifies(d, k) \subseteq d.allowed_algorithms
  BY DEF Verifies
<1>2. ASSUME signed
      PROVE  /\ t.alg \in d.allowed_algorithms /\ t.signedBy = t.kid
             /\ \E k \in KeyOf(d, t.kid) : t.alg \in Verifies(d, k)
  <2>1. PICK i \in DOMAIN d.jwks : /\ {t.kid, t.signedBy} = {d.jwks[i].kid}
                                   /\ t.alg \in Verifies(d, d.jwks[i])
    BY <1>2
  <2>2. t.kid = d.jwks[i].kid /\ t.signedBy = d.jwks[i].kid
    BY <2>1
  <2>3. d.jwks[i] \in KeyOf(d, t.kid)
    BY <2>2 DEF KeyOf
  <2> QED BY <1>1, <2>1, <2>2, <2>3
<1>3. ASSUME t.signedBy = t.kid, NEW k \in KeyOf(d, t.kid), t.alg \in Verifies(d, k)
      PROVE  signed
  BY <1>3 DEF KeyOf
<1>4. t.bytes > d.limits.max_token_bytes <=> ~(t.bytes <= d.limits.max_token_bytes)
  BY InputAssumption
<1> QED BY <1>2, <1>3, <1>4 DEF HeaderError, Check

\* check_issuer, check_audience, check_time and the subject.
LEMMA ClaimsAreExact ==
    ASSUME NEW d \in Documents, NEW t \in Tokens, NEW now \in Clock,
           LoadError(d) = "none"
    PROVE  ClaimsError(d, t, now) = "none" <=>
             /\ t.claimsBounded /\ t.identityValid
             /\ t.iss = d.issuer /\ d.resource \in t.aud /\ Fresh(d, t, now)
<1>1. Timed(d, t) /\ now \in 0 .. TimeMax
  BY LoadedDocument, InputAssumption DEF Timed
<1>2. CheckTime(d, t, now) = "none" <=> Fresh(d, t, now)
  BY <1>1, TimesAreExact
<1> QED BY <1>2, LoadedDocument DEF ClaimsError, Then, Check

\* The lookup of the principal and the intersection of the scopes: the map from
\* subjects has one entry for a subject.
LEMMA GrantsAreExact ==
    ASSUME NEW d \in Documents, NEW t, LoadError(d) = "none"
    PROVE  GrantError(d, t) = "none" <=>
             \E i \in DOMAIN d.principals :
                /\ d.principals[i].subject = t.sub
                /\ d.principals[i].allowed_scopes \cap t.scopes # {}
<1>1. \A i, j \in DOMAIN d.principals :
         d.principals[i].subject = d.principals[j].subject => i = j
  BY LoadedDocument
<1>2. \A p \in Mapped(d, t) : \E i \in DOMAIN d.principals :
         p = d.principals[i] /\ d.principals[i].subject = t.sub
  BY DEF Mapped, Entries
<1>3. \A i \in DOMAIN d.principals :
         d.principals[i].subject = t.sub => d.principals[i] \in Mapped(d, t)
  BY DEF Mapped, Entries
<1> QED BY <1>1, <1>2, <1>3 DEF GrantError, Granted, Check

\* Only prepare_server makes a server, and only a running server answers.
LEMMA ServerStep ==
    ASSUME ServerInv, [ServerNext]_job
    PROVE  ServerInv'
<1>1. CASE StartServer
  BY <1>1 DEF StartServer, ServerInv
<1>2. CASE Authenticate
  BY <1>2 DEF Authenticate, ServerInv
<1>3. CASE OtherUse({"serving", "request"})
  BY <1>3 DEF OtherUse, ServerInv
<1>4. CASE UNCHANGED job
  BY <1>4 DEF ServerInv
<1> QED BY <1>1, <1>2, <1>3, <1>4 DEF ServerNext

\* Every request is answered by authenticate on a document that prepare_server has
\* accepted.
THEOREM ServerInvariance == ServerSpec => []ServerInv
<1>1. job = Idle => ServerInv
  BY DEF Idle, ServerInv
<1> QED BY <1>1, ServerStep, PTL DEF ServerSpec

\* A token is accepted exactly when the authority document describes it, for every
\* document, token and time.
THEOREM TokensAreExact == ServerSpec => []TokenWindow
<1>1. ASSUME ServerInv, job.kind = "request" PROVE TokenWindow
  <2>1. /\ job.doc \in Documents /\ LoadError(job.doc) = "none"
        /\ job.token \in Tokens /\ job.now \in Clock
        /\ job.error = AuthenticateError(job.doc, job.token, job.now)
    BY <1>1 DEF ServerInv, Starts
  <2>2. job.error = "none" <=>
          /\ HeaderError(job.doc, job.token) = "none"
          /\ ClaimsError(job.doc, job.token, job.now) = "none"
          /\ GrantError(job.doc, job.token) = "none"
    BY <2>1 DEF AuthenticateError, Then
  <2> QED BY <2>1, <2>2, HeaderIsExact, ClaimsAreExact, GrantsAreExact, Zenon DEF TokenWindow
<1>2. ServerInv => TokenWindow
  BY <1>1 DEF TokenWindow
<1> QED BY <1>2, ServerInvariance, PTL

\* No request runs under a role that the start of the server did not preflight over
\* the connection it is used on, and none under one role for both.
THEOREM RolesArePrepared == ServerSpec => []AuthorityIsPrepared
<1>1. ASSUME ServerInv, job.kind = "request" PROVE AuthorityIsPrepared
  <2> DEFINE d == job.doc  t == job.token
  <2>1. /\ d \in Documents /\ LoadError(d) = "none" /\ Preflights(d) \subseteq job.safe
        /\ job.error = AuthenticateError(d, t, job.now)
        /\ job.principal = IF job.error # "none" THEN {} ELSE {Principal(d, t)}
    BY <1>1 DEF ServerInv, Starts
  <2> SUFFICES ASSUME job.error = "none"
               PROVE  LET p == Principal(d, t) IN
                      /\ <<"query", p.query_role>> \in job.safe
                      /\ \A r \in p.mutation_role :
                            /\ <<"mutation", r>> \in job.safe /\ r # p.query_role
                            /\ d.remote_mutation_enabled
                            /\ d.mutation_scope \in t.scopes
    BY <2>1 DEF AuthorityIsPrepared
  <2>2. Mapped(d, t) # {}
    BY <2>1, Zenon DEF AuthenticateError, GrantError, Then
  <2>3. PICK p \in Mapped(d, t) : p = CHOOSE q \in Mapped(d, t) : TRUE
    BY <2>2
  <2>4. /\ p \in Entries(d) /\ p.query_role \notin p.mutation_role
        /\ p.query_role \in QueryRoles(d) /\ p.mutation_role \subseteq MutationRoles(d)
    BY <2>1, LoadedDocument DEF Mapped, QueryRoles, MutationRoles
  <2>5. /\ Principal(d, t).query_role = p.query_role
        /\ Principal(d, t).mutation_role
             = IF d.remote_mutation_enabled /\ d.mutation_scope \in Granted(p, t)
               THEN p.mutation_role ELSE {}
    BY <2>3 DEF Principal
  <2>6. <<"query", p.query_role>> \in job.safe
    BY <2>1, <2>4 DEF Preflights
  <2>7. ASSUME d.remote_mutation_enabled, NEW r \in p.mutation_role
        PROVE  <<"mutation", r>> \in job.safe
    BY <2>1, <2>4, <2>7 DEF Preflights
  <2> QED BY <2>4, <2>5, <2>6, <2>7 DEF Granted
<1>2. ServerInv => AuthorityIsPrepared
  BY <1>1, Zenon DEF AuthorityIsPrepared
<1> QED BY <1>2, ServerInvariance, PTL

-----------------------------------------------------------------------------
(* Scaffolding.                                                             *)

\* What a compatible drift leaves of a relation: columns may be added, and nothing
\* else of what scaffold reads changes.
Kept(before, after) ==
    /\ after.kind = before.kind /\ after.grants = before.grants
    /\ DOMAIN before.columns \subseteq DOMAIN after.columns
    /\ \A n \in DOMAIN before.columns : after.columns[n] = before.columns[n]
    /\ DOMAIN after.constraints = DOMAIN before.constraints
    /\ \A n \in DOMAIN before.constraints : after.constraints[n] = before.constraints[n]

\* Changes that leave a drift compatible.
Mild(drift) == \A d \in drift : d.compatibility \notin {"breaking", "review_required"}

\* diff_columns without a breaking change, or one to review, keeps every column.
LEMMA ColumnsAreKept ==
    ASSUME NEW path, NEW before, NEW after, Mild(ColumnDrift(path, before, after)),
           NEW n \in DOMAIN before
    PROVE  n \in DOMAIN after /\ after[n] = before[n]
<1>1. n \in DOMAIN after
  <2> SUFFICES ASSUME n \notin DOMAIN after PROVE FALSE
    OBVIOUS
  <2>1. Drift(Append(path, n), "removed", "breaking") \in ColumnDrift(path, before, after)
    BY DEF ColumnDrift, DriftOfNames
  <2> QED BY <2>1 DEF Drift, Mild
<1>2. after[n] = before[n]
  <2> SUFFICES ASSUME after[n] # before[n] PROVE FALSE
    OBVIOUS
  <2>1. PICK w \in {"breaking", "review_required"} :
            Drift(Append(path, n), "modified", w) \in ColumnDrift(path, before, after)
    BY <1>1 DEF ColumnDrift, DriftOfNames
  <2> QED BY <2>1 DEF Drift, Mild
<1> QED BY <1>1, <1>2

\* diff_constraints without such a change keeps the constraints as they are, and
\* adds none.
LEMMA ConstraintsAreKept ==
    ASSUME NEW path, NEW before, NEW after, Mild(ConstraintDrift(path, before, after))
    PROVE  /\ DOMAIN after = DOMAIN before
           /\ \A n \in DOMAIN before : after[n] = before[n]
<1>1. ASSUME NEW n \in DOMAIN before PROVE n \in DOMAIN after
  <2> SUFFICES ASSUME n \notin DOMAIN after PROVE FALSE
    OBVIOUS
  <2>1. Drift(Append(path, n), "removed", "breaking")
          \in ConstraintDrift(path, before, after)
    BY DEF ConstraintDrift, DriftOfNames
  <2> QED BY <2>1 DEF Drift, Mild
<1>2. ASSUME NEW n \in DOMAIN after PROVE n \in DOMAIN before
  <2> SUFFICES ASSUME n \notin DOMAIN before PROVE FALSE
    OBVIOUS
  <2>1. Drift(Append(path, n), "added", "review_required")
          \in ConstraintDrift(path, before, after)
    BY DEF ConstraintDrift, DriftOfNames
  <2> QED BY <2>1 DEF Drift, Mild
<1>3. ASSUME NEW n \in DOMAIN before PROVE after[n] = before[n]
  <2> SUFFICES ASSUME after[n] # before[n] PROVE FALSE
    OBVIOUS
  <2>1. Drift(Append(path, n), "modified", "breaking")
          \in ConstraintDrift(path, before, after)
    BY <1>1 DEF ConstraintDrift, DriftOfNames
  <2> QED BY <2>1 DEF Drift, Mild
<1> QED BY <1>1, <1>2, <1>3

\* diff_relation keeps what scaffold reads of a relation.
LEMMA RelationIsKept ==
    ASSUME NEW path, NEW before, NEW after, Mild(RelationDrift(path, before, after))
    PROVE  Kept(before, after)
<1>1. /\ Mild(DriftOf(path, RelationWeights, before, after))
      /\ Mild(ColumnDrift(path \o <<"columns">>, before.columns, after.columns))
      /\ Mild(ConstraintDrift(path \o <<"constraints">>, before.constraints,
                              after.constraints))
  BY DEF Mild, RelationDrift
<1>2. ASSUME NEW a \in {"kind", "grants"} PROVE after[a] = before[a]
  <2> SUFFICES ASSUME before[a] # after[a] PROVE FALSE
    OBVIOUS
  <2>1. a \in DOMAIN RelationWeights /\ RelationWeights[a] = "breaking"
    BY DEF RelationWeights
  <2>2. Drift(path \o <<a>>, "modified", RelationWeights[a])
          \in DriftOf(path, RelationWeights, before, after)
    BY <2>1 DEF DriftOf
  <2> QED BY <1>1, <2>1, <2>2 DEF Drift, Mild
<1>3. after.kind = before.kind /\ after.grants = before.grants
  BY <1>2
<1> QED BY <1>1, <1>3, ColumnsAreKept, ConstraintsAreKept DEF Kept

\* A drift that is compatible as a whole keeps every relation.
LEMMA CatalogIsKept ==
    ASSUME NEW before, NEW after,
           Compatibility(CatalogDrift(before, after)) = "compatible",
           NEW k \in DOMAIN before.relations
    PROVE  /\ k \in DOMAIN after.relations
           /\ Kept(before.relations[k], after.relations[k])
<1>1. Mild(CatalogDrift(before, after))
  BY DEF Compatibility, Mild
<1>2. k \in DOMAIN after.relations
  <2> SUFFICES ASSUME k \notin DOMAIN after.relations PROVE FALSE
    OBVIOUS
  <2>1. Drift(<<"relations">> \o k, "removed", "breaking") \in CatalogDrift(before, after)
    BY DEF CatalogDrift
  <2> QED BY <1>1, <2>1 DEF Drift, Mild
<1>3. RelationDrift(<<"relations">> \o k, before.relations[k], after.relations[k])
        \subseteq CatalogDrift(before, after)
  BY <1>2 DEF CatalogDrift
<1> QED BY <1>1, <1>2, <1>3, RelationIsKept DEF Mild

-----------------------------------------------------------------------------

\* What scaffold reads of a kept relation: the key is the same, the columns it could
\* read it still can, and their fields are the same.
LEMMA ScaffoldReads ==
    ASSUME NEW before, NEW after, Kept(before, after)
    PROVE  /\ PrimaryKey(after) = PrimaryKey(before)
           /\ Readable(before) \subseteq Readable(after)
           /\ \A n \in Readable(before) : after.columns[n] = before.columns[n]
<1>1. PrimaryKey(after) = PrimaryKey(before)
  BY DEF Kept, PrimaryKey
<1> QED BY <1>1 DEF Kept, Readable

Harmless(changes) == \A x \in changes : x.breaking = FALSE

\* diff_named finds nothing that breaks in a collection whose members are kept.
LEMMA AdditionsAreCompatible ==
    ASSUME NEW path, NEW f, NEW g, DOMAIN f \subseteq DOMAIN g,
           \A n \in DOMAIN f : f[n] = g[n], NEW missed, NEW breaks
    PROVE  Harmless(DiffNamed(path, f, g, missed, breaks))
<1> SUFFICES ASSUME NEW x \in DiffNamed(path, f, g, missed, breaks)
             PROVE  x.breaking = FALSE
  BY DEF Harmless
<1>1. DOMAIN f \ DOMAIN g = {} /\ {k \in DOMAIN f \cap DOMAIN g : f[k] # g[k]} = {}
  OBVIOUS
<1>2. x \in {Change(path \o <<n>>, "added", FALSE) : n \in DOMAIN g \ DOMAIN f}
  BY <1>1, Zenon DEF DiffNamed
<1>3. PICK n \in DOMAIN g \ DOMAIN f : x = Change(path \o <<n>>, "added", FALSE)
  BY <1>2, Zenon
<1> QED BY <1>3, Zenon DEF Change

\* The fields and metrics of a scaffolded model are kept, and its source, time zone
\* and flags are those of the request: diff_snapshots finds nothing that breaks.
LEMMA ModelIsCompatible ==
    ASSUME NEW key, NEW timezone, NEW name, NEW before, NEW after, Kept(before, after),
           NEW x \in ModelChanges(name, ScaffoldModel(key, before, timezone),
                                  ScaffoldModel(key, after, timezone))
    PROVE  x.breaking = FALSE
<1> DEFINE old == ScaffoldModel(key, before, timezone)
           new == ScaffoldModel(key, after, timezone)
           counted(r) == {k \in PrimaryKey(r) : PrimaryKey(r) = {k} /\ k \in Readable(r)}
<1>1. Metadata(old) = Metadata(new) /\ old.relationships = <<>> /\ new.relationships = <<>>
  BY DEF ScaffoldModel, Metadata
<1>2. /\ DOMAIN old.fields = Readable(before) /\ DOMAIN new.fields = Readable(after)
      /\ \A n \in Readable(before) :
            old.fields[n] = ScaffoldField(n, before.columns[n], PrimaryKey(before))
      /\ \A n \in Readable(after) :
            new.fields[n] = ScaffoldField(n, after.columns[n], PrimaryKey(after))
  BY DEF ScaffoldModel
<1>3. DOMAIN old.fields \subseteq DOMAIN new.fields
      /\ \A n \in DOMAIN old.fields : old.fields[n] = new.fields[n]
  BY <1>2, ScaffoldReads
<1>4. counted(before) # {} => counted(after) = counted(before)
  BY ScaffoldReads
<1> DEFINE metrics(c) == [n \in {"row_count" : k \in c} |->
                            [aggregation |-> "count", field |-> CHOOSE k \in c : TRUE,
                             data_type |-> "integer", visible |-> TRUE, filter |-> {},
                             additivity |-> {"additive"}, anchor |-> c]]
<1>5. old.metrics = metrics(counted(before)) /\ new.metrics = metrics(counted(after))
  BY DEF ScaffoldModel
<1>6. DOMAIN old.metrics \subseteq DOMAIN new.metrics
      /\ \A n \in DOMAIN old.metrics : old.metrics[n] = new.metrics[n]
  <2>1. CASE counted(before) = {}
    BY <1>5, <2>1
  <2>2. CASE counted(before) # {}
    BY <1>4, <1>5, <2>2, Zenon
  <2> QED BY <2>1, <2>2
<1> HIDE DEF old, new
<1>7. CASE x \in DiffNamed(<<name, "fields">>, old.fields, new.fields,
                           Visible(old.fields), ObjectBreaks(old.fields, new.fields))
  <2> DEFINE missed == Visible(old.fields)
             breaks == ObjectBreaks(old.fields, new.fields)
             path == <<name, "fields">>
  <2> HIDE DEF missed, breaks, path
  <2>1. Harmless(DiffNamed(path, old.fields, new.fields, missed, breaks))
    BY <1>3, AdditionsAreCompatible
  <2> QED BY <1>7, <2>1 DEF Harmless, missed, breaks, path
<1>8. CASE x \in DiffNamed(<<name, "metrics">>, old.metrics, new.metrics,
                           Visible(old.metrics), ObjectBreaks(old.metrics, new.metrics))
  <2> DEFINE missed == Visible(old.metrics)
             breaks == ObjectBreaks(old.metrics, new.metrics)
             path == <<name, "metrics">>
  <2> HIDE DEF missed, breaks, path
  <2>1. Harmless(DiffNamed(path, old.metrics, new.metrics, missed, breaks))
    BY <1>6, AdditionsAreCompatible
  <2> QED BY <1>8, <2>1 DEF Harmless, missed, breaks, path
<1>9. x \in ModelChanges(name, old, new)
  BY DEF old, new
<1> QED BY <1>1, <1>7, <1>8, <1>9, Zenon DEF ModelChanges, DiffNamed, Change
-----------------------------------------------------------------------------

\* A nonempty set of numbers has a least one.
LEMMA LeastOf ==
    ASSUME NEW T, T \subseteq Nat, T # {}
    PROVE  \E x \in T : \A y \in T : x <= y
<1> DEFINE R == OpToRel(<, Nat)
<1>1. IsWellFoundedOn(R, Nat)
  BY NatLessThanWellFounded, Zenon
<1>2. PICK x \in T : \A y \in T : ~(<<y, x>> \in R)
  <2> HIDE DEF R
  <2> QED BY <1>1, WFMin, Zenon
<1>3. ASSUME NEW y \in T PROVE x <= y
  <2>1. ~(y < x)
    BY <1>2, Zenon DEF OpToRel
  <2> QED BY <2>1
<1> QED BY <1>3

\* A relation for which scaffold_model reports nothing: scaffold can read it, and
\* every readable column has a type.
LEMMA ModelReads ==
    ASSUME NEW key, NEW relation, NEW timezone,
           \A n \in DOMAIN relation.columns : relation.columns[n].ordinal \in Nat,
           ModelFault(key, relation, timezone) = "none"
    PROVE  /\ relation.kind # "foreign_table" /\ relation.grants.schema_usage
           /\ \A n \in Readable(relation) :
                 PostgresDataType(relation.columns[n].data_type) # {}
<1> DEFINE columns == relation.columns
           fault(n) == ColumnFault(n, columns[n], timezone)
           faulty == {n \in Readable(relation) : fault(n) # "none"}
           least(n) == \A m \in faulty : columns[n].ordinal <= columns[m].ordinal
           first == CHOOSE n \in faulty : least(n)
<1>1. faulty # {} => fault(first) # "none"
  <2> SUFFICES ASSUME faulty # {} PROVE fault(first) # "none"
    OBVIOUS
  <2> DEFINE T == {columns[n].ordinal : n \in faulty}
  <2>1. T \subseteq Nat /\ T # {}
    BY Zenon DEF Readable
  <2>2. PICK x \in T : \A y \in T : x <= y
    <3> HIDE DEF T
    <3> QED BY <2>1, LeastOf, Zenon
  <2>3. \E n \in faulty : least(n)
    BY <2>2
  <2>4. first \in faulty
    BY <2>3, Zenon
  <2> QED BY <2>4
<1>2. /\ relation.kind # "foreign_table" /\ relation.grants.schema_usage
      /\ faulty = {}
  <2>1. key[2] \in Portable
    BY DEF ModelFault
  <2>2. relation.kind # "foreign_table"
    BY <2>1 DEF ModelFault
  <2>3. ~(~relation.grants.schema_usage \/ ~relation.grants.any_column_select)
    BY <2>1, <2>2, Zenon DEF ModelFault
  <2>4. faulty = {}
    <3> SUFFICES ASSUME faulty # {} PROVE FALSE
      OBVIOUS
    <3>1. ModelFault(key, relation, timezone) = fault(first)
      BY <2>1, <2>2, <2>3, Zenon DEF ModelFault
    <3> QED BY <1>1, <3>1
  <2> QED BY <2>2, <2>3, <2>4
<1>3. ASSUME NEW n \in Readable(relation)
      PROVE  PostgresDataType(relation.columns[n].data_type) # {}
  BY <1>2 DEF ColumnFault
<1> QED BY <1>2, <1>3

\* scaffold without an error has found none in a relation it selected.
LEMMA SelectionReads ==
    ASSUME NEW r, NEW c, ScaffoldFault(r, c) = "none", NEW k \in SelectedRelations(r, c)
    PROVE  ModelFault(k, c.relations[k], r.timezone) = "none"
<1> DEFINE errors == {ModelFault(j, c.relations[j], r.timezone) :
                        j \in SelectedRelations(r, c)}
<1>1. SomeOf(errors) = "none"
  BY DEF ScaffoldFault
<1>2. errors \subseteq {"none"}
  <2> HIDE DEF errors
  <2> QED BY <1>1 DEF SomeOf
<1> QED BY <1>2

\* A key of one column is the column of one enforced and validated constraint.
LEMMA KeyIsConstraint ==
    ASSUME NEW relation, NEW name, PrimaryKey(relation) = {name},
           \A n \in DOMAIN relation.constraints :
              LET columns == relation.constraints[n].columns IN
              /\ columns \in Seq(Range(columns))
              /\ \A i, j \in DOMAIN columns : columns[i] = columns[j] => i = j
    PROVE  \E n \in DOMAIN relation.constraints :
              /\ n[1] = "primary_key"
              /\ relation.constraints[n].columns = <<name>>
              /\ relation.constraints[n].enforced
              /\ relation.constraints[n].validated
<1> DEFINE keys == {k \in DOMAIN relation.constraints :
                      /\ k[1] = "primary_key"
                      /\ relation.constraints[k].enforced
                      /\ relation.constraints[k].validated}
<1>1. PICK n \in keys : name \in Range(relation.constraints[n].columns)
  BY DEF PrimaryKey
<1>2. Range(relation.constraints[n].columns) = {name}
  BY <1>1, Zenon DEF PrimaryKey
<1> DEFINE columns == relation.constraints[n].columns
<1>3. columns \in Seq({name}) /\ \A i, j \in DOMAIN columns : columns[i] = columns[j] => i = j
  BY <1>1, <1>2
<1>4. columns # <<>>
  BY <1>2 DEF Range
<1>5. Len(columns) = 1 /\ columns[1] = name
  <2> HIDE DEF columns
  <2>1. \A i \in 1..Len(columns) : columns[i] = name
    BY <1>3
  <2>2. Len(columns) \in Nat /\ Len(columns) # 0 /\ DOMAIN columns = 1..Len(columns)
    BY <1>3, <1>4
  <2>3. ~(Len(columns) >= 2)
    <3> SUFFICES ASSUME Len(columns) >= 2 PROVE FALSE
      OBVIOUS
    <3>1. 1 \in DOMAIN columns /\ 2 \in DOMAIN columns
      BY <2>2
    <3>2. columns[1] = columns[2]
      BY <2>1, <2>2, <3>1
    <3> QED BY <1>3, <3>1, <3>2
  <2> QED BY <2>1, <2>2, <2>3
<1>6. columns = <<name>>
  <2> HIDE DEF columns
  <2> QED BY <1>3, <1>5
<1> QED BY <1>1, <1>6

-----------------------------------------------------------------------------

\* A field that scaffold derived from a relation still reads its column after the
\* relation is kept.
LEMMA FieldStillReads ==
    ASSUME NEW before, NEW after, Kept(before, after), NEW n \in Readable(before),
           PostgresDataType(before.columns[n].data_type) # {},
           \A i \in DOMAIN before.constraints :
              LET columns == before.constraints[i].columns IN
              /\ columns \in Seq(Range(columns))
              /\ \A j, k \in DOMAIN columns : columns[j] = columns[k] => j = k
    PROVE  StillReads(ScaffoldField(n, before.columns[n], PrimaryKey(before)), after)
<1> DEFINE field == ScaffoldField(n, before.columns[n], PrimaryKey(before))
<1>1. /\ field.column = n /\ field.nullable = before.columns[n].nullable
      /\ field.data_type \in PostgresDataType(before.columns[n].data_type)
      /\ field.entity_key = (PrimaryKey(before) = {n})
  BY DEF ScaffoldField
<1>2. n \in Readable(after) /\ after.columns[n] = before.columns[n]
  BY ScaffoldReads
<1>3. ASSUME field.entity_key
      PROVE  \E i \in DOMAIN after.constraints :
                 /\ i[1] = "primary_key"
                 /\ after.constraints[i].columns = <<field.column>>
                 /\ after.constraints[i].enforced
                 /\ after.constraints[i].validated
  <2>1. PrimaryKey(before) = {n}
    BY <1>1, <1>3, Zenon
  <2>2. PICK i \in DOMAIN before.constraints :
            /\ i[1] = "primary_key"
            /\ before.constraints[i].columns = <<n>>
            /\ before.constraints[i].enforced
            /\ before.constraints[i].validated
    BY <2>1, KeyIsConstraint, Zenon
  <2>3. i \in DOMAIN after.constraints /\ after.constraints[i] = before.constraints[i]
    BY <2>2 DEF Kept
  <2> HIDE DEF field
  <2> QED BY <1>1, <2>2, <2>3, Zenon
<1> HIDE DEF field
<1>4. StillReads(field, after)
  BY <1>1, <1>2, <1>3, Zenon DEF StillReads
<1> QED BY <1>4 DEF field

\* The models of a snapshot and the relations they were scaffolded from.
LEMMA ModelOfRelation ==
    ASSUME NEW r, NEW c \in Catalogs, NEW n \in DOMAIN Scaffold(r, c).models
    PROVE  /\ <<r.schema, n>> \in SelectedRelations(r, c)
           /\ <<r.schema, n>> \in DOMAIN c.relations
           /\ Scaffold(r, c).models[n] =
                ScaffoldModel(<<r.schema, n>>, c.relations[<<r.schema, n>>], r.timezone)
<1>1. PICK k \in SelectedRelations(r, c) : n = k[2]
  BY DEF Scaffold
<1>2. k \in DOMAIN c.relations /\ k[1] = r.schema
  BY DEF SelectedRelations
<1>3. k = <<r.schema, n>>
  BY <1>1, <1>2, CatalogAssumption
<1> QED BY <1>1, <1>2, <1>3 DEF Scaffold

\* Every model of a snapshot still reads its relation.
LEMMA ModelsStillRead ==
    ASSUME NEW r, NEW before \in Catalogs, NEW after,
           ScaffoldFault(r, before) = "none",
           Compatibility(CatalogDrift(before, after)) = "compatible",
           NEW n \in DOMAIN Scaffold(r, before).models
    PROVE  LET m == Scaffold(r, before).models[n] IN
           /\ m.source \in DOMAIN after.relations
           /\ LET relation == after.relations[m.source] IN
              /\ relation.kind # "foreign_table"
              /\ relation.grants.schema_usage
              /\ \A f \in DOMAIN m.fields : StillReads(m.fields[f], relation)
<1> DEFINE m == Scaffold(r, before).models[n]
           key == <<r.schema, n>>
           old == before.relations[key]
           relation == after.relations[key]
<1>1. /\ key \in SelectedRelations(r, before) /\ key \in DOMAIN before.relations
      /\ m = ScaffoldModel(key, old, r.timezone)
  BY ModelOfRelation
<1>2. /\ m.source = key /\ DOMAIN m.fields = Readable(old)
      /\ \A f \in Readable(old) :
            m.fields[f] = ScaffoldField(f, old.columns[f], PrimaryKey(old))
  <2> HIDE DEF m, key, old
  <2> QED BY <1>1 DEF ScaffoldModel
<1> HIDE DEF m
<1>3. key \in DOMAIN after.relations /\ Kept(old, relation)
  BY <1>1, CatalogIsKept
<1>4. /\ old.kind # "foreign_table" /\ old.grants.schema_usage
      /\ \A f \in Readable(old) : PostgresDataType(old.columns[f].data_type) # {}
  <2>1. ModelFault(key, old, r.timezone) = "none"
    BY <1>1, SelectionReads, SMTT(30)
  <2>2. \A f \in DOMAIN old.columns : old.columns[f].ordinal \in Nat
    BY <1>1, CatalogAssumption
  <2> HIDE DEF key, old
  <2> QED BY <2>1, <2>2, ModelReads
<1>5. \A i \in DOMAIN old.constraints :
         LET columns == old.constraints[i].columns IN
         /\ columns \in Seq(Range(columns))
         /\ \A j, k \in DOMAIN columns : columns[j] = columns[k] => j = k
  BY <1>1, CatalogAssumption, Zenon
<1> HIDE DEF key, old, relation
<1>6. ASSUME NEW f \in Readable(old) PROVE StillReads(m.fields[f], relation)
  <2>1. StillReads(ScaffoldField(f, old.columns[f], PrimaryKey(old)), relation)
    BY <1>3, <1>4, <1>5, FieldStillReads, Zenon
  <2> QED BY <1>2, <2>1
<1>7. relation.kind # "foreign_table" /\ relation.grants.schema_usage
  BY <1>3, <1>4, Zenon DEF Kept
<1> QED BY <1>2, <1>3, <1>6, <1>7, Zenon DEF m, relation

\* Scaffolding again selects the same relations, and perhaps more.
LEMMA SelectionIsKept ==
    ASSUME NEW r, NEW before, NEW after,
           Compatibility(CatalogDrift(before, after)) = "compatible"
    PROVE  SelectedRelations(r, before) \subseteq SelectedRelations(r, after)
BY CatalogIsKept DEF SelectedRelations

\* Scaffolding again gives a snapshot that diff_snapshots calls compatible.
LEMMA SnapshotsAreCompatible ==
    ASSUME NEW r, NEW before \in Catalogs, NEW after \in Catalogs,
           Compatibility(CatalogDrift(before, after)) = "compatible"
    PROVE  Compatible(Scaffold(r, before), Scaffold(r, after))
<1> DEFINE s == Scaffold(r, before)
           t == Scaffold(r, after)
<1>1. DOMAIN s.models \subseteq DOMAIN t.models
  BY SelectionIsKept DEF Scaffold
<1>2. SUFFICES ASSUME NEW x \in Changes(s, t) PROVE ~x.breaking
  BY DEF Compatible
<1>3. CASE x \in {Change(<<n>>, "added", FALSE) : n \in DOMAIN t.models \ DOMAIN s.models}
  BY <1>3 DEF Change
<1>4. ASSUME NEW n \in DOMAIN s.models, x \in ModelChanges(n, s.models[n], t.models[n])
      PROVE  ~x.breaking
  <2> DEFINE key == <<r.schema, n>>
  <2>1. n \in DOMAIN t.models
    BY <1>1
  <2>2. /\ key \in DOMAIN before.relations
        /\ s.models[n] = ScaffoldModel(key, before.relations[key], r.timezone)
    BY ModelOfRelation
  <2>3. t.models[n] = ScaffoldModel(key, after.relations[key], r.timezone)
    <3> HIDE DEF s
    <3> QED BY <2>1, ModelOfRelation
  <2>4. Kept(before.relations[key], after.relations[key])
    BY <2>2, CatalogIsKept
  <2> HIDE DEF s, t, key
  <2>5. x.breaking = FALSE
    <3>1. x \in ModelChanges(n, ScaffoldModel(key, before.relations[key], r.timezone),
                             ScaffoldModel(key, after.relations[key], r.timezone))
      BY <1>4, <2>2, <2>3
    <3> QED BY <2>4, <3>1, ModelIsCompatible, Zenon
  <2> QED BY <2>5
<1> HIDE DEF s, t
<1>5. DOMAIN s.models \ DOMAIN t.models = {}
  BY <1>1
<1>6. \/ x \in {Change(<<n>>, "added", FALSE) : n \in DOMAIN t.models \ DOMAIN s.models}
      \/ \E n \in DOMAIN s.models \cap DOMAIN t.models :
            x \in ModelChanges(n, s.models[n], t.models[n])
  BY <1>5, Zenon DEF Changes
<1> QED BY <1>3, <1>4, <1>6, Zenon

\* What scaffold and diff_catalogs leave in a job.
LEMMA ScaffoldStep == ScaffoldInv /\ [ScaffoldNext]_job => ScaffoldInv'
<1> SUFFICES ASSUME ScaffoldInv, [ScaffoldNext]_job PROVE ScaffoldInv'
  OBVIOUS
<1>1. CASE ScaffoldModels
  <2>1. PICK r \in Scaffolds, c \in Catalogs :
            job' = [kind |-> "scaffold", request |-> r, catalog |-> c,
                    error |-> ScaffoldFault(r, c),
                    snapshot |-> IF ScaffoldFault(r, c) # "none" THEN {}
                                 ELSE {Scaffold(r, c)}]
    BY <1>1, Zenon DEF ScaffoldModels
  <2> QED BY <2>1 DEF ScaffoldInv
<1>2. CASE CompareCatalogs
  <2>1. PICK c \in Catalogs :
            job' = [kind |-> "drift", request |-> job.request, after |-> c,
                    snapshot |-> job.snapshot, error |-> CatalogDiffFault(job.catalog, c),
                    compatibility |->
                      IF CatalogDiffFault(job.catalog, c) # "none" THEN {}
                      ELSE {Compatibility(CatalogDrift(job.catalog, c))}]
    BY <1>2 DEF CompareCatalogs
  <2>2. job.catalog \in Catalogs
        /\ job.snapshot = IF ScaffoldFault(job.request, job.catalog) # "none" THEN {}
                          ELSE {Scaffold(job.request, job.catalog)}
    BY <1>2 DEF CompareCatalogs, ScaffoldInv
  <2>3. /\ job'.kind = "drift" /\ job'.request = job.request /\ job'.after = c
        /\ job'.snapshot = job.snapshot
        /\ job'.compatibility \subseteq {Compatibility(CatalogDrift(job.catalog, c))}
    BY <2>1
  <2> QED BY <2>2, <2>3 DEF ScaffoldInv
<1>3. CASE OtherUse({"scaffold", "drift"})
  BY <1>3 DEF OtherUse, ScaffoldInv
<1>4. CASE UNCHANGED job
  BY <1>4 DEF ScaffoldInv
<1> QED BY <1>1, <1>2, <1>3, <1>4 DEF ScaffoldNext

\* A job holds the snapshot of its first scan and the verdict on its second.
THEOREM ScaffoldInvariance == ScaffoldSpec => []ScaffoldInv
<1>1. job = Idle => ScaffoldInv
  BY DEF Idle, ScaffoldInv
<1> QED BY <1>1, ScaffoldStep, PTL DEF ScaffoldSpec

\* Whatever the database and the request, a drift that diff_catalogs calls compatible
\* leaves every scaffolded model readable as it is, and what scaffold would now
\* derive is compatible with it.
THEOREM ScaffoldsSurviveDrift == ScaffoldSpec => []DriftKeepsScaffold
<1>1. ScaffoldInv => DriftKeepsScaffold
  <2> SUFFICES ASSUME ScaffoldInv, job.kind = "drift", job.compatibility = {"compatible"},
                      NEW s \in job.snapshot
               PROVE  /\ \A n \in DOMAIN s.models :
                           LET m == s.models[n] IN
                           /\ m.source \in DOMAIN job.after.relations
                           /\ LET relation == job.after.relations[m.source] IN
                              /\ relation.kind # "foreign_table"
                              /\ relation.grants.schema_usage
                              /\ \A f \in DOMAIN m.fields :
                                    StillReads(m.fields[f], relation)
                      /\ Compatible(s, Scaffold(job.request, job.after))
    BY Zenon DEF DriftKeepsScaffold
  <2>1. PICK c \in Catalogs :
            /\ job.after \in Catalogs
            /\ job.snapshot = IF ScaffoldFault(job.request, c) # "none" THEN {}
                              ELSE {Scaffold(job.request, c)}
            /\ job.compatibility \subseteq {Compatibility(CatalogDrift(c, job.after))}
    BY DEF ScaffoldInv
  <2>2. /\ ScaffoldFault(job.request, c) = "none" /\ s = Scaffold(job.request, c)
        /\ Compatibility(CatalogDrift(c, job.after)) = "compatible"
    BY <2>1
  <2>3. Compatible(s, Scaffold(job.request, job.after))
    BY <2>1, <2>2, SnapshotsAreCompatible
  <2> QED BY <2>1, <2>2, <2>3, ModelsStillRead, Zenon
<1> QED BY <1>1, ScaffoldInvariance, PTL
=============================================================================
