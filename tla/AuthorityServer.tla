--------------------------- MODULE AuthorityServer ---------------------------
(***************************************************************************)
(* A server starts from an authority document and authenticates a request.   *)
(***************************************************************************)
EXTENDS Authority, Job

CONSTANTS Documents, RoleFacts, Tokens, Clock

\* The principals of a document are a list and its limits are unsigned; the times
\* of the clock and of a token are i64, the clock's since 1970.
ASSUME InputAssumption ==
    /\ \A d \in Documents : /\ DOMAIN d.principals \subseteq Nat \ {0}
                            /\ d.limits.max_token_bytes \in Nat
    /\ Clock \subseteq 0 .. TimeMax
    /\ \A t \in Tokens :
          t.bytes \in Nat /\ {t.iat, t.exp} \cup t.nbf \subseteq TimeMin .. TimeMax

\* prepare_server, with what PostgreSQL says of the roles.
StartServer ==
    /\ job.kind = "idle"
    /\ \E d \in Documents, safe \in RoleFacts :
          job' = [kind |-> IF Starts(d, safe) THEN "serving" ELSE "stopped",
                  doc |-> d, safe |-> safe]

\* authenticate of a running server.
Authenticate ==
    /\ job.kind = "serving"
    /\ \E t \in Tokens, now \in Clock :
          LET e == AuthenticateError(job.doc, t, now)
          IN  job' = [kind |-> "request", doc |-> job.doc, safe |-> job.safe,
                      token |-> t, now |-> now, error |-> e,
                      principal |-> IF e # "none" THEN {}
                                    ELSE {Principal(job.doc, t)}]

ServerNext == StartServer \/ Authenticate \/ OtherUse({"serving", "request"})

ServerSpec == job = Idle /\ [][ServerNext]_job

-----------------------------------------------------------------------------
(* Properties.                                                              *)

\* A token is accepted exactly when one of the server's keys, of the type and
\* algorithm the token names, signed it for this resource, now lies in its window
\* in exact arithmetic, and it names a configured principal and one of its scopes:
\* the saturating subtractions and additions of check_time lose nothing at either
\* end of the integers.
TokenWindow ==
    job.kind = "request" =>
        LET d == job.doc  t == job.token IN
        job.error = "none" <=>
            /\ t.bearer = "none" /\ t.bytes <= d.limits.max_token_bytes
            /\ ~t.embedsKey /\ t.typ \in d.allowed_token_types
            /\ \E i \in DOMAIN d.jwks : /\ {t.kid, t.signedBy} = {d.jwks[i].kid}
                                        /\ t.alg \in Verifies(d, d.jwks[i])
            /\ t.claimsBounded /\ t.identityValid
            /\ t.iss = d.issuer /\ d.resource \in t.aud
            /\ Fresh(d, t, job.now)
            /\ \E i \in DOMAIN d.principals :
                  /\ d.principals[i].subject = t.sub
                  /\ d.principals[i].allowed_scopes \cap t.scopes # {}

\* A principal that authenticate hands to a request works under roles that
\* prepare_server has preflighted over the connection they are used on: its query
\* role always, its mutation role only with remote mutation enabled and the scope
\* granted by the token, and never one role for both.
AuthorityIsPrepared ==
    job.kind = "request" =>
        \A p \in job.principal :
            /\ <<"query", p.query_role>> \in job.safe
            /\ \A r \in p.mutation_role :
                  /\ <<"mutation", r>> \in job.safe /\ r # p.query_role
                  /\ job.doc.remote_mutation_enabled
                  /\ job.doc.mutation_scope \in job.token.scopes

\* A request is the answer of authenticate to a token of the inputs, by a server
\* that prepare_server let start.
ServerInv ==
    /\ job.kind \in {"serving", "request"} =>
          job.doc \in Documents /\ Starts(job.doc, job.safe)
    /\ job.kind = "request" =>
          /\ job.token \in Tokens /\ job.now \in Clock
          /\ job.error = AuthenticateError(job.doc, job.token, job.now)
          /\ job.principal = IF job.error # "none" THEN {}
                              ELSE {Principal(job.doc, job.token)}
=============================================================================
