--------------------------- MODULE GatewayProofs ----------------------------
(***************************************************************************)
(* The inductive invariant of Gateway and what follows from it.  Every      *)
(* action moves one request, so that each account changes by whether that   *)
(* request was and is among the holders.                                    *)
(***************************************************************************)
EXTENDS Gateway, FiniteSetTheorems, TLAPS

USE DEF PrincipalHolders, Live, DatabasePermits, Refill

Bit(b) == IF b THEN 1 ELSE 0

\* Two sets of requests that agree but for one request differ in size by its
\* membership.
LEMMA Recount ==
    ASSUME NEW S \in SUBSET Requests, NEW T \in SUBSET Requests,
           NEW r \in Requests, \A x \in Requests \ {r} : x \in S <=> x \in T
    PROVE  /\ Cardinality(S) \in Nat /\ Cardinality(T) \in Nat
           /\ Cardinality(T) + Bit(r \in S) = Cardinality(S) + Bit(r \in T)
<1>1. IsFiniteSet(S) /\ IsFiniteSet(T)
  BY LimitsAssumption, FS_Subset
<1>2. Cardinality(S) \in Nat /\ Cardinality(T) \in Nat
  BY <1>1, FS_CardinalityType
<1>3. CASE r \in S <=> r \in T
  <2>1. S = T
    BY <1>3
  <2> QED BY <1>2, <2>1 DEF Bit
<1>4. CASE r \in S /\ r \notin T
  <2>1. T = S \ {r}
    BY <1>4
  <2>2. Cardinality(T) = Cardinality(S) - 1
    BY <1>1, <1>4, <2>1, FS_RemoveElement
  <2> QED BY <1>2, <1>4, <2>2 DEF Bit
<1>5. CASE r \notin S /\ r \in T
  <2>1. T = S \cup {r}
    BY <1>5
  <2>2. Cardinality(T) = Cardinality(S) + 1
    BY <1>1, <1>5, <2>1, FS_AddElement
  <2> QED BY <1>2, <1>5, <2>2 DEF Bit
<1> QED BY <1>3, <1>4, <1>5

\* A step that moves only request r changes the number of holders of each kind
\* of permit by r's part in it (the permits of handle_mcp and ExecutionPermits).
LEMMA HoldersMove ==
    ASSUME NEW r \in Requests,
           \A x \in Requests \ {r} : pc'[x] = pc[x] /\ task'[x] = task[x]
    PROVE  /\ Cardinality(PreAuthHolders) \in Nat
           /\ Cardinality(PreAuthHolders') \in Nat
           /\ Cardinality(SeatHolders) \in Nat
           /\ Cardinality(SeatHolders') \in Nat
           /\ Cardinality(DatabaseHolders) \in Nat
           /\ Cardinality(DatabaseHolders') \in Nat
           /\ Cardinality(PreAuthHolders') + Bit(r \in PreAuthHolders)
                = Cardinality(PreAuthHolders) + Bit(r \in PreAuthHolders')
           /\ Cardinality(SeatHolders') + Bit(r \in SeatHolders)
                = Cardinality(SeatHolders) + Bit(r \in SeatHolders')
           /\ Cardinality(DatabaseHolders') + Bit(r \in DatabaseHolders)
                = Cardinality(DatabaseHolders) + Bit(r \in DatabaseHolders')
<1>1. PreAuthHolders \in SUBSET Requests /\ PreAuthHolders' \in SUBSET Requests
  BY DEF PreAuthHolders
<1>2. SeatHolders \in SUBSET Requests /\ SeatHolders' \in SUBSET Requests
  BY DEF SeatHolders
<1>3. DatabaseHolders \in SUBSET Requests /\ DatabaseHolders' \in SUBSET Requests
  BY DEF DatabaseHolders
<1>4. \A x \in Requests \ {r} : x \in PreAuthHolders <=> x \in PreAuthHolders'
  BY DEF PreAuthHolders
<1>5. \A x \in Requests \ {r} : x \in SeatHolders <=> x \in SeatHolders'
  BY DEF SeatHolders
<1>6. \A x \in Requests \ {r} : x \in DatabaseHolders <=> x \in DatabaseHolders'
  BY DEF DatabaseHolders
<1>7. /\ Cardinality(PreAuthHolders) \in Nat
      /\ Cardinality(PreAuthHolders') \in Nat
      /\ Cardinality(PreAuthHolders') + Bit(r \in PreAuthHolders)
           = Cardinality(PreAuthHolders) + Bit(r \in PreAuthHolders')
  BY <1>1, <1>4, Recount
<1>8. /\ Cardinality(SeatHolders) \in Nat
      /\ Cardinality(SeatHolders') \in Nat
      /\ Cardinality(SeatHolders') + Bit(r \in SeatHolders)
           = Cardinality(SeatHolders) + Bit(r \in SeatHolders')
  BY <1>2, <1>5, Recount
<1>9. /\ Cardinality(DatabaseHolders) \in Nat
      /\ Cardinality(DatabaseHolders') \in Nat
      /\ Cardinality(DatabaseHolders') + Bit(r \in DatabaseHolders)
           = Cardinality(DatabaseHolders) + Bit(r \in DatabaseHolders')
  BY <1>3, <1>6, Recount
<1> QED BY <1>7, <1>8, <1>9

\* The same for the requests that count as active for a principal.
LEMMA PrincipalMoves ==
    ASSUME NEW r \in Requests, NEW p \in Principals,
           \A x \in Requests \ {r} : pc'[x] = pc[x] /\ task'[x] = task[x]
    PROVE  /\ Cardinality(PrincipalHolders(p)) \in Nat
           /\ Cardinality(PrincipalHolders(p)') \in Nat
           /\ Cardinality(PrincipalHolders(p)') + Bit(r \in PrincipalHolders(p))
                = Cardinality(PrincipalHolders(p)) + Bit(r \in PrincipalHolders(p)')
<1> DEFINE S == PrincipalHolders(p)
           T == PrincipalHolders(p)'
<1>1. S \in SUBSET Requests /\ T \in SUBSET Requests
  OBVIOUS
<1>2. \A x \in Requests \ {r} : x \in S <=> x \in T
  BY DEF SeatHolders
<1> HIDE DEF S, T
<1>3. /\ Cardinality(S) \in Nat /\ Cardinality(T) \in Nat
      /\ Cardinality(T) + Bit(r \in S) = Cardinality(S) + Bit(r \in T)
  BY <1>1, <1>2, Recount
<1> QED BY <1>3 DEF S, T

-----------------------------------------------------------------------------
(* The accounts.                                                           *)

\* A step of r pays for what r takes and returns what r leaves.
Balanced(r) ==
    /\ \A x \in Requests \ {r} : pc'[x] = pc[x] /\ task'[x] = task[x]
    /\ preAuth' \in Int /\ authenticated' \in Int /\ database' \in Int
    /\ active' \in [Principals -> Int]
    /\ preAuth' + Bit(r \in PreAuthHolders') = preAuth + Bit(r \in PreAuthHolders)
    /\ authenticated' + Bit(r \in SeatHolders')
         = authenticated + Bit(r \in SeatHolders)
    /\ database' + 2 * Bit(r \in DatabaseHolders')
         = database + 2 * Bit(r \in DatabaseHolders)
    /\ \A p \in Principals :
          active'[p] + Bit(r \in PrincipalHolders(p))
            = active[p] + Bit(r \in PrincipalHolders(p)')

\* A balanced step keeps the accounts, and with them the ranges of the
\* semaphores.
LEMMA BalancedStep ==
    ASSUME TypeOK, PermitsAccounted, NEW r \in Requests, Balanced(r)
    PROVE  PermitsAccounted'
<1> DEFINE a == Cardinality(PreAuthHolders)
           aa == Cardinality(PreAuthHolders')
           s == Cardinality(SeatHolders)
           ss == Cardinality(SeatHolders')
           d == Cardinality(DatabaseHolders)
           dd == Cardinality(DatabaseHolders')
<1>1. \A x \in Requests \ {r} : pc'[x] = pc[x] /\ task'[x] = task[x]
  BY DEF Balanced
<1>2. /\ a \in Nat /\ aa \in Nat /\ s \in Nat /\ ss \in Nat /\ d \in Nat /\ dd \in Nat
      /\ aa + Bit(r \in PreAuthHolders) = a + Bit(r \in PreAuthHolders')
      /\ ss + Bit(r \in SeatHolders) = s + Bit(r \in SeatHolders')
      /\ dd + Bit(r \in DatabaseHolders) = d + Bit(r \in DatabaseHolders')
  BY <1>1, HoldersMove
<1>3. preAuth + a = MaxPreAuth /\ authenticated + s = MaxAuthenticated
      /\ database + 2 * d = MaxDatabase
  BY DEF PermitsAccounted
<1>4. preAuth \in Int /\ authenticated \in Int /\ database \in Int
  BY DEF TypeOK
<1> HIDE DEF a, aa, s, ss, d, dd
<1>5. preAuth' + aa = MaxPreAuth
  <2> DEFINE was == r \in PreAuthHolders
             is == r \in PreAuthHolders'
  <2>1. preAuth' \in Int /\ preAuth' + Bit(is) = preAuth + Bit(was)
    BY DEF Balanced
  <2>2. a \in Nat /\ aa \in Nat /\ aa + Bit(was) = a + Bit(is)
    BY <1>2
  <2>3. preAuth \in Int /\ preAuth + a = MaxPreAuth
    BY <1>3, <1>4
  <2>4. Bit(was) \in Int /\ Bit(is) \in Int
    BY DEF Bit
  <2> HIDE DEF was, is
  <2> QED BY <2>1, <2>2, <2>3, <2>4
<1>6. authenticated' + ss = MaxAuthenticated
  <2> DEFINE was == r \in SeatHolders
             is == r \in SeatHolders'
  <2>1. authenticated' \in Int /\ authenticated' + Bit(is) = authenticated + Bit(was)
    BY DEF Balanced
  <2>2. s \in Nat /\ ss \in Nat /\ ss + Bit(was) = s + Bit(is)
    BY <1>2
  <2>3. authenticated \in Int /\ authenticated + s = MaxAuthenticated
    BY <1>3, <1>4
  <2>4. Bit(was) \in Int /\ Bit(is) \in Int
    BY DEF Bit
  <2> HIDE DEF was, is
  <2> QED BY <2>1, <2>2, <2>3, <2>4
<1>7. database' + 2 * dd = MaxDatabase
  <2> DEFINE was == r \in DatabaseHolders
             is == r \in DatabaseHolders'
  <2>1. database' \in Int /\ database' + 2 * Bit(is) = database + 2 * Bit(was)
    BY DEF Balanced
  <2>2. d \in Nat /\ dd \in Nat /\ dd + Bit(was) = d + Bit(is)
    BY <1>2
  <2>3. database \in Int /\ database + 2 * d = MaxDatabase
    BY <1>3, <1>4
  <2>4. Bit(was) \in Int /\ Bit(is) \in Int
    BY DEF Bit
  <2> HIDE DEF was, is
  <2> QED BY <2>1, <2>2, <2>3, <2>4
<1>8. ASSUME NEW p \in Principals
      PROVE  active'[p] = Cardinality(PrincipalHolders(p)')
  <2> DEFINE h == Cardinality(PrincipalHolders(p))
             hh == Cardinality(PrincipalHolders(p)')
             was == r \in PrincipalHolders(p)
             is == r \in PrincipalHolders(p)'
  <2>1. h \in Nat /\ hh \in Nat /\ hh + Bit(was) = h + Bit(is)
    BY <1>1, PrincipalMoves
  <2>2. active[p] = h
    BY DEF PermitsAccounted
  <2>3. active'[p] \in Int /\ active'[p] + Bit(was) = active[p] + Bit(is)
    BY DEF Balanced
  <2> HIDE DEF h, hh, was, is
  <2>4. active'[p] = hh
    BY <2>1, <2>2, <2>3 DEF Bit
  <2> QED BY <2>4 DEF hh
<1> QED BY <1>5, <1>6, <1>7, <1>8 DEF PermitsAccounted, aa, ss, dd

\* PrincipalPermit's drop never meets a count of zero.
LEMMA HolderIsCounted ==
    ASSUME TypeOK, PermitsAccounted, NEW r \in Requests,
           r \in PrincipalHolders(Owner[r])
    PROVE  active[Owner[r]] \in Nat /\ active[Owner[r]] >= 1
<1> DEFINE H == PrincipalHolders(Owner[r])
<1>1. Owner[r] \in Principals
  BY LimitsAssumption
<1>2. active[Owner[r]] = Cardinality(H)
  BY <1>1 DEF PermitsAccounted
<1>3. IsFiniteSet(H)
  BY LimitsAssumption, FS_Subset, H \in SUBSET Requests
<1>4. H # {}
  OBVIOUS
<1> HIDE DEF H
<1>5. Cardinality(H) \in Nat /\ Cardinality(H) # 0
  BY <1>3, <1>4, FS_CardinalityType, FS_EmptySet
<1> QED BY <1>2, <1>5

\* Where a request stands decides which permits it holds.
LEMMA Standing ==
    ASSUME NEW r \in Requests
    PROVE  /\ r \in PreAuthHolders <=> pc[r] \in {"screen", "limit", "seat", "body"}
           /\ r \in PreAuthHolders' <=> pc'[r] \in {"screen", "limit", "seat", "body"}
           /\ r \in SeatHolders <=>
                pc[r] \in {"body", "parse", "connect"} \/ task[r] \in {"queued", "running"}
           /\ r \in SeatHolders' <=>
                pc'[r] \in {"body", "parse", "connect"} \/ task'[r] \in {"queued", "running"}
           /\ r \in DatabaseHolders <=>
                Needs[r] > 0 /\ task[r] \in {"queued", "running"}
           /\ r \in DatabaseHolders' <=>
                Needs[r] > 0 /\ task'[r] \in {"queued", "running"}
           /\ \A p \in Principals :
                /\ r \in PrincipalHolders(p) <=>
                     Owner[r] = p /\ (pc[r] = "seat" \/ r \in SeatHolders)
                /\ r \in PrincipalHolders(p)' <=>
                     Owner[r] = p /\ (pc'[r] = "seat" \/ r \in SeatHolders')
BY DEF PreAuthHolders, SeatHolders, DatabaseHolders

\* handle_mcp takes the pre-auth permit or answers at once.
LEMMA ArriveBalanced ==
    ASSUME GatewayInv, NEW r \in Requests, Arrive(r)
    PROVE  Balanced(r)
<1> USE DEF GatewayInv, TypeOK
<1>1. /\ pc \in [Requests -> Handling \cup {"idle", "done"}]
      /\ task \in [Requests -> {"none", "queued", "running", "ended"}]
      /\ \A x \in Requests \ {r} : pc'[x] = pc[x] /\ task'[x] = task[x]
  BY DEF Arrive, Goto
<1>2. pc[r] = "idle" /\ task[r] = "none" /\ pc'[r] \in {"screen", "done"} /\ task' = task
  BY <1>1 DEF Arrive, Goto, StageInv
<1>3. Owner[r] \in Principals /\ Needs[r] \in 0 .. 2
  BY LimitsAssumption
<1> QED BY <1>1, <1>2, <1>3, Standing
  DEF Arrive, Balanced, Bit, Goto

\* A request that passes the checks keeps its pre-auth permit.
LEMMA ScreenBalanced ==
    ASSUME GatewayInv, NEW r \in Requests, Screen(r)
    PROVE  Balanced(r)
<1> USE DEF GatewayInv, TypeOK
<1>1. /\ pc \in [Requests -> Handling \cup {"idle", "done"}]
      /\ task \in [Requests -> {"none", "queued", "running", "ended"}]
      /\ \A x \in Requests \ {r} : pc'[x] = pc[x] /\ task'[x] = task[x]
  BY DEF Screen, Goto
<1>2. pc[r] = "screen" /\ task[r] = "none" /\ task' = task
  BY <1>1 DEF Screen, Goto, StageInv
<1>3. Owner[r] \in Principals /\ Needs[r] \in 0 .. 2
  BY LimitsAssumption
<1> QED BY <1>1, <1>2, <1>3, Standing
  DEF Screen, Balanced, Bit, Goto

\* A request that fails a check returns the pre-auth permit.
LEMMA ScreenFailsBalanced ==
    ASSUME GatewayInv, NEW r \in Requests, ScreenFails(r)
    PROVE  Balanced(r)
<1> USE DEF GatewayInv, TypeOK
<1>1. /\ pc \in [Requests -> Handling \cup {"idle", "done"}]
      /\ task \in [Requests -> {"none", "queued", "running", "ended"}]
      /\ \A x \in Requests \ {r} : pc'[x] = pc[x] /\ task'[x] = task[x]
  BY DEF ScreenFails, Goto
<1>2. pc[r] = "screen" /\ task[r] = "none" /\ task' = task
  BY <1>1 DEF ScreenFails, Goto, StageInv
<1>3. Owner[r] \in Principals /\ Needs[r] \in 0 .. 2
  BY LimitsAssumption
<1> QED BY <1>1, <1>2, <1>3, Standing
  DEF ScreenFails, Balanced, Bit, Goto

\* The limiter counts a request exactly if it admits it.
LEMMA LimitBalanced ==
    ASSUME GatewayInv, NEW r \in Requests, Limit(r)
    PROVE  Balanced(r)
<1> USE DEF GatewayInv, TypeOK
<1>1. /\ pc \in [Requests -> Handling \cup {"idle", "done"}]
      /\ task \in [Requests -> {"none", "queued", "running", "ended"}]
      /\ \A x \in Requests \ {r} : pc'[x] = pc[x] /\ task'[x] = task[x]
  BY DEF Limit, Goto
<1>2. pc[r] = "limit" /\ task[r] = "none" /\ task' = task
  BY <1>1 DEF Limit, Goto, StageInv
<1>3. Owner[r] \in Principals /\ Needs[r] \in 0 .. 2
  BY LimitsAssumption
<1> QED BY <1>1, <1>2, <1>3, Standing
  DEF Limit, Balanced, Bit, Goto

\* A request without a seat gives up its place with the principal as well.
LEMMA SeatBalanced ==
    ASSUME GatewayInv, NEW r \in Requests, Seat(r)
    PROVE  Balanced(r)
<1> USE DEF GatewayInv, TypeOK
<1>1. /\ pc \in [Requests -> Handling \cup {"idle", "done"}]
      /\ task \in [Requests -> {"none", "queued", "running", "ended"}]
      /\ \A x \in Requests \ {r} : pc'[x] = pc[x] /\ task'[x] = task[x]
  BY DEF Seat, Goto
<1>2. pc[r] = "seat" /\ task[r] = "none" /\ task' = task
  BY <1>1 DEF Seat, Goto, StageInv
<1>3. Owner[r] \in Principals /\ Needs[r] \in 0 .. 2
  BY LimitsAssumption
<1>4. r \in PrincipalHolders(Owner[r])
  BY <1>2, <1>3, Standing
<1>5. active[Owner[r]] \in Nat /\ active[Owner[r]] >= 1
  BY <1>4, HolderIsCounted
<1> QED BY <1>1, <1>2, <1>3, <1>5, Standing
  DEF Seat, Balanced, Bit, LeavePrincipal, Goto

\* Reading the body ends the pre-auth phase.
LEMMA BodyBalanced ==
    ASSUME GatewayInv, NEW r \in Requests, Body(r)
    PROVE  Balanced(r)
<1> USE DEF GatewayInv, TypeOK
<1>1. /\ pc \in [Requests -> Handling \cup {"idle", "done"}]
      /\ task \in [Requests -> {"none", "queued", "running", "ended"}]
      /\ \A x \in Requests \ {r} : pc'[x] = pc[x] /\ task'[x] = task[x]
  BY DEF Body, Goto
<1>2. pc[r] = "body" /\ task[r] = "none" /\ task' = task /\ pc'[r] = "parse"
  BY <1>1 DEF Body, Goto, StageInv
<1>3. Owner[r] \in Principals /\ Needs[r] \in 0 .. 2
  BY LimitsAssumption
<1> QED BY <1>1, <1>2, <1>3, Standing
  DEF Body, Balanced, Bit, Goto

\* A failed body returns all three permits.
LEMMA BodyFailsBalanced ==
    ASSUME GatewayInv, NEW r \in Requests, BodyFails(r)
    PROVE  Balanced(r)
<1> USE DEF GatewayInv, TypeOK
<1>1. /\ pc \in [Requests -> Handling \cup {"idle", "done"}]
      /\ task \in [Requests -> {"none", "queued", "running", "ended"}]
      /\ \A x \in Requests \ {r} : pc'[x] = pc[x] /\ task'[x] = task[x]
  BY DEF BodyFails, Goto
<1>2. pc[r] = "body" /\ task[r] = "none" /\ task' = task /\ pc'[r] = "done"
  BY <1>1 DEF BodyFails, Goto, StageInv
<1>3. Owner[r] \in Principals /\ Needs[r] \in 0 .. 2
  BY LimitsAssumption
<1>4. r \in PrincipalHolders(Owner[r])
  BY <1>2, <1>3, Standing
<1>5. active[Owner[r]] \in Nat /\ active[Owner[r]] >= 1
  BY <1>4, HolderIsCounted
<1> QED BY <1>1, <1>2, <1>3, <1>5, Standing
  DEF BodyFails, Balanced, Bit, LeavePrincipal, Goto

\* A valid request keeps its seat.
LEMMA ParseBalanced ==
    ASSUME GatewayInv, NEW r \in Requests, Parse(r)
    PROVE  Balanced(r)
<1> USE DEF GatewayInv, TypeOK
<1>1. /\ pc \in [Requests -> Handling \cup {"idle", "done"}]
      /\ task \in [Requests -> {"none", "queued", "running", "ended"}]
      /\ \A x \in Requests \ {r} : pc'[x] = pc[x] /\ task'[x] = task[x]
  BY DEF Parse, Goto
<1>2. pc[r] = "parse" /\ task[r] = "none" /\ task' = task
  BY <1>1 DEF Parse, Goto, StageInv
<1>3. Owner[r] \in Principals /\ Needs[r] \in 0 .. 2
  BY LimitsAssumption
<1> QED BY <1>1, <1>2, <1>3, Standing
  DEF Parse, Balanced, Bit, Goto

\* An invalid request returns its seat.
LEMMA ParseFailsBalanced ==
    ASSUME GatewayInv, NEW r \in Requests, ParseFails(r)
    PROVE  Balanced(r)
<1> USE DEF GatewayInv, TypeOK
<1>1. /\ pc \in [Requests -> Handling \cup {"idle", "done"}]
      /\ task \in [Requests -> {"none", "queued", "running", "ended"}]
      /\ \A x \in Requests \ {r} : pc'[x] = pc[x] /\ task'[x] = task[x]
  BY DEF ParseFails, Goto
<1>2. pc[r] = "parse" /\ task[r] = "none" /\ task' = task
  BY <1>1 DEF ParseFails, Goto, StageInv
<1>3. Owner[r] \in Principals /\ Needs[r] \in 0 .. 2
  BY LimitsAssumption
<1>4. r \in PrincipalHolders(Owner[r])
  BY <1>2, <1>3, Standing
<1>5. active[Owner[r]] \in Nat /\ active[Owner[r]] >= 1
  BY <1>4, HolderIsCounted
<1> QED BY <1>1, <1>2, <1>3, <1>5, Standing
  DEF ParseFails, Balanced, Bit, LeavePrincipal, Goto

\* A request without database permits returns its seat.
LEMMA RefuseBalanced ==
    ASSUME GatewayInv, NEW r \in Requests, Refuse(r)
    PROVE  Balanced(r)
<1> USE DEF GatewayInv, TypeOK
<1>1. /\ pc \in [Requests -> Handling \cup {"idle", "done"}]
      /\ task \in [Requests -> {"none", "queued", "running", "ended"}]
      /\ \A x \in Requests \ {r} : pc'[x] = pc[x] /\ task'[x] = task[x]
  BY DEF Refuse, Goto
<1>2. pc[r] = "connect" /\ task[r] = "none" /\ task' = task /\ pc'[r] = "done"
  BY <1>1 DEF Refuse, Goto, StageInv
<1>3. Owner[r] \in Principals /\ Needs[r] \in 0 .. 2
  BY LimitsAssumption
<1>4. r \in PrincipalHolders(Owner[r])
  BY <1>2, <1>3, Standing, SMTT(30)
<1>5. active[Owner[r]] \in Nat /\ active[Owner[r]] >= 1
  BY <1>4, HolderIsCounted
<1> QED BY <1>1, <1>2, <1>3, <1>5, Standing
  DEF Refuse, Balanced, Bit, LeavePrincipal, Goto

\* A denied authority returns what the request had.
LEMMA DenyBalanced ==
    ASSUME GatewayInv, NEW r \in Requests, Deny(r)
    PROVE  Balanced(r)
<1> USE DEF GatewayInv, TypeOK
<1>1. /\ pc \in [Requests -> Handling \cup {"idle", "done"}]
      /\ task \in [Requests -> {"none", "queued", "running", "ended"}]
      /\ \A x \in Requests \ {r} : pc'[x] = pc[x] /\ task'[x] = task[x]
  BY DEF Deny, Goto
<1>2. pc[r] = "connect" /\ task[r] = "none" /\ task' = task /\ pc'[r] = "done"
  BY <1>1 DEF Deny, Goto, StageInv
<1>3. Owner[r] \in Principals /\ Needs[r] \in 0 .. 2
  BY LimitsAssumption
<1>4. r \in PrincipalHolders(Owner[r])
  BY <1>2, <1>3, Standing
<1>5. active[Owner[r]] \in Nat /\ active[Owner[r]] >= 1
  BY <1>4, HolderIsCounted
<1> QED BY <1>1, <1>2, <1>3, <1>5, Standing
  DEF Deny, Balanced, Bit, LeavePrincipal, Goto

\* The permits move into the task, with those for the database.
LEMMA DispatchBalanced ==
    ASSUME GatewayInv, NEW r \in Requests, Dispatch(r)
    PROVE  Balanced(r)
<1> USE DEF GatewayInv, TypeOK
<1>1. /\ pc \in [Requests -> Handling \cup {"idle", "done"}]
      /\ task \in [Requests -> {"none", "queued", "running", "ended"}]
      /\ \A x \in Requests \ {r} : pc'[x] = pc[x] /\ task'[x] = task[x]
  BY DEF Dispatch, Goto
<1>2. pc[r] = "connect" /\ task[r] = "none" /\ task'[r] = "queued" /\ pc'[r] = "respond"
  BY <1>1 DEF Dispatch, Goto, StageInv
<1>3. Owner[r] \in Principals /\ Needs[r] \in 0 .. 2
  BY LimitsAssumption
<1> QED BY <1>1, <1>2, <1>3, Standing
  DEF Dispatch, Balanced, Bit, Goto

\* A queued task holds what a running one does.
LEMMA StartBalanced ==
    ASSUME GatewayInv, NEW r \in Requests, Start(r)
    PROVE  Balanced(r)
<1> USE DEF GatewayInv, TypeOK
<1>1. /\ pc \in [Requests -> Handling \cup {"idle", "done"}]
      /\ task \in [Requests -> {"none", "queued", "running", "ended"}]
      /\ \A x \in Requests \ {r} : pc'[x] = pc[x] /\ task'[x] = task[x]
  BY DEF Start, Goto
<1>2. task[r] = "queued" /\ task'[r] = "running" /\ pc' = pc
  BY <1>1 DEF Start, Goto, StageInv
<1>3. Owner[r] \in Principals /\ Needs[r] \in 0 .. 2
  BY LimitsAssumption
<1> QED BY <1>1, <1>2, <1>3, Standing
  DEF Start, Balanced, Bit

\* A connection is opened under permits already held.
LEMMA ConnectBalanced ==
    ASSUME GatewayInv, NEW r \in Requests, Connect(r)
    PROVE  Balanced(r)
<1> USE DEF GatewayInv, TypeOK
<1>1. /\ pc \in [Requests -> Handling \cup {"idle", "done"}]
      /\ task \in [Requests -> {"none", "queued", "running", "ended"}]
      /\ \A x \in Requests \ {r} : pc'[x] = pc[x] /\ task'[x] = task[x]
  BY DEF Connect, Goto
<1>2. task' = task /\ pc' = pc
  BY <1>1 DEF Connect, Goto, StageInv
<1>3. Owner[r] \in Principals /\ Needs[r] \in 0 .. 2
  BY LimitsAssumption
<1> QED BY <1>1, <1>2, <1>3, Standing
  DEF Connect, Balanced, Bit

\* The end of the task returns what the request still holds.
LEMMA EndBalanced ==
    ASSUME GatewayInv, NEW r \in Requests, End(r)
    PROVE  Balanced(r)
<1> USE DEF GatewayInv, TypeOK
<1>1. /\ pc \in [Requests -> Handling \cup {"idle", "done"}]
      /\ task \in [Requests -> {"none", "queued", "running", "ended"}]
      /\ \A x \in Requests \ {r} : pc'[x] = pc[x] /\ task'[x] = task[x]
  BY DEF End, Goto
<1>2. task[r] = "running" /\ task'[r] = "ended" /\ pc' = pc /\ pc[r] \in {"respond", "done"}
  BY <1>1 DEF End, Goto, StageInv
<1>3. Owner[r] \in Principals /\ Needs[r] \in 0 .. 2
  BY LimitsAssumption
<1>4. r \in PrincipalHolders(Owner[r])
  BY <1>2, <1>3, Standing
<1>5. active[Owner[r]] \in Nat /\ active[Owner[r]] >= 1
  BY <1>4, HolderIsCounted
<1> QED BY <1>1, <1>2, <1>3, <1>5, Standing
  DEF End, Balanced, Bit, LeavePrincipal

\* A response holds no permit.
LEMMA RespondBalanced ==
    ASSUME GatewayInv, NEW r \in Requests, Respond(r)
    PROVE  Balanced(r)
<1> USE DEF GatewayInv, TypeOK
<1>1. /\ pc \in [Requests -> Handling \cup {"idle", "done"}]
      /\ task \in [Requests -> {"none", "queued", "running", "ended"}]
      /\ \A x \in Requests \ {r} : pc'[x] = pc[x] /\ task'[x] = task[x]
  BY DEF Respond, Goto
<1>2. pc[r] = "respond" /\ task' = task /\ pc'[r] = "done"
  BY <1>1 DEF Respond, Goto, StageInv
<1>3. Owner[r] \in Principals /\ Needs[r] \in 0 .. 2
  BY LimitsAssumption
<1> QED BY <1>1, <1>2, <1>3, Standing
  DEF Respond, Balanced, Bit, Goto

\* A response that ends early leaves every permit with the task.
LEMMA AbandonBalanced ==
    ASSUME GatewayInv, NEW r \in Requests, Abandon(r)
    PROVE  Balanced(r)
<1> USE DEF GatewayInv, TypeOK
<1>1. /\ pc \in [Requests -> Handling \cup {"idle", "done"}]
      /\ task \in [Requests -> {"none", "queued", "running", "ended"}]
      /\ \A x \in Requests \ {r} : pc'[x] = pc[x] /\ task'[x] = task[x]
  BY DEF Abandon, Goto
<1>2. pc[r] = "respond" /\ task' = task /\ pc'[r] = "done"
  BY <1>1 DEF Abandon, Goto, StageInv
<1>3. Owner[r] \in Principals /\ Needs[r] \in 0 .. 2
  BY LimitsAssumption
<1> QED BY <1>1, <1>2, <1>3, Standing
  DEF Abandon, Balanced, Bit, Goto

\* Every step of a request is balanced.
LEMMA StepBalanced ==
    ASSUME GatewayInv, NEW r \in Requests, Arrive(r) \/ Handler(r) \/ Worker(r)
    PROVE  Balanced(r)
<1>1. CASE Arrive(r)
  BY <1>1, ArriveBalanced
<1>2. CASE Screen(r)
  BY <1>2, ScreenBalanced
<1>3. CASE ScreenFails(r)
  BY <1>3, ScreenFailsBalanced, SMTT(30)
<1>4. CASE Limit(r)
  BY <1>4, LimitBalanced
<1>5. CASE Seat(r)
  BY <1>5, SeatBalanced
<1>6. CASE Body(r)
  BY <1>6, BodyBalanced
<1>7. CASE BodyFails(r)
  BY <1>7, BodyFailsBalanced
<1>8. CASE Parse(r)
  BY <1>8, ParseBalanced
<1>9. CASE ParseFails(r)
  BY <1>9, ParseFailsBalanced
<1>10. CASE Refuse(r)
  BY <1>10, RefuseBalanced
<1>11. CASE Deny(r)
  BY <1>11, DenyBalanced
<1>12. CASE Dispatch(r)
  BY <1>12, DispatchBalanced
<1>13. CASE Start(r)
  BY <1>13, StartBalanced
<1>14. CASE Connect(r)
  BY <1>14, ConnectBalanced
<1>15. CASE End(r)
  BY <1>15, EndBalanced
<1>16. CASE Respond(r)
  BY <1>16, RespondBalanced
<1>17. CASE Abandon(r)
  BY <1>17, AbandonBalanced
<1> QED
  BY <1>1, <1>2, <1>3, <1>4, <1>5, <1>6, <1>7, <1>8, <1>9,
     <1>10, <1>11, <1>12, <1>13, <1>14, <1>15, <1>16, <1>17
  DEF Handler, Worker

\* The accounts survive every step.
LEMMA AccountStep ==
    ASSUME GatewayInv, [Next]_vars
    PROVE  PermitsAccounted'
<1>1. ASSUME NEW r \in Requests, Arrive(r) \/ Handler(r) \/ Worker(r)
      PROVE  PermitsAccounted'
  <2>1. Balanced(r)
    BY <1>1, StepBalanced
  <2> QED BY <2>1, BalancedStep DEF GatewayInv
<1>2. ASSUME pc' = pc, task' = task, preAuth' = preAuth,
             authenticated' = authenticated, database' = database,
             active' = active
      PROVE  PermitsAccounted'
  BY <1>2 DEF GatewayInv, PermitsAccounted, PreAuthHolders, SeatHolders,
              DatabaseHolders
<1> QED BY <1>1, <1>2 DEF Next, Tick, vars

-----------------------------------------------------------------------------
(* Types, stages, connections and buckets.                                 *)

\* No semaphore gives out a permit that it does not have.
LEMMA NeverNegative ==
    ASSUME GatewayInv, [Next]_vars
    PROVE  /\ preAuth' \in Nat /\ authenticated' \in Nat /\ database' \in Nat
           /\ pc' \in [Requests -> Handling \cup {"idle", "done"}]
           /\ task' \in [Requests -> {"none", "queued", "running", "ended"}]
<1> USE LimitsAssumption DEF GatewayInv, TypeOK
<1>1. preAuth \in Nat /\ authenticated \in Nat /\ database \in Nat
  OBVIOUS
<1>2. ASSUME NEW r \in Requests, Arrive(r) \/ Handler(r) \/ Worker(r)
      PROVE  /\ preAuth' \in Nat /\ authenticated' \in Nat /\ database' \in Nat
             /\ pc' \in [Requests -> Handling \cup {"idle", "done"}]
             /\ task' \in [Requests -> {"none", "queued", "running", "ended"}]
  <2>1. CASE Arrive(r)
    BY <1>1, <2>1 DEF Arrive, Goto, Handling
  <2>2. CASE Screen(r)
    BY <1>1, <2>2 DEF Screen, Goto, Handling
  <2>3. CASE ScreenFails(r)
    BY <1>1, <2>3 DEF ScreenFails, Goto, Handling
  <2>4. CASE Limit(r)
    BY <1>1, <2>4 DEF Limit, Goto, Handling
  <2>5. CASE Seat(r)
    BY <1>1, <2>5 DEF Seat, Goto, Handling
  <2>6. CASE Body(r)
    BY <1>1, <2>6 DEF Body, Goto, Handling
  <2>7. CASE BodyFails(r)
    BY <1>1, <2>7 DEF BodyFails, Goto, Handling
  <2>8. CASE Parse(r)
    BY <1>1, <2>8 DEF Parse, Goto, Handling
  <2>9. CASE ParseFails(r)
    BY <1>1, <2>9 DEF ParseFails, Goto, Handling
  <2>10. CASE Refuse(r)
    BY <1>1, <2>10 DEF Refuse, Goto, Handling
  <2>11. CASE Deny(r)
    BY <1>1, <2>11 DEF Deny, Goto, Handling
  <2>12. CASE Dispatch(r)
    BY <1>1, <2>12 DEF Dispatch, Goto, Handling
  <2>13. CASE Start(r)
    BY <1>1, <2>13 DEF Start, Goto, Handling
  <2>14. CASE Connect(r)
    BY <1>1, <2>14 DEF Connect, Goto, Handling
  <2>15. CASE End(r)
    BY <1>1, <2>15 DEF End, Goto, Handling
  <2>16. CASE Respond(r)
    BY <1>1, <2>16 DEF Respond, Goto, Handling
  <2>17. CASE Abandon(r)
    BY <1>1, <2>17 DEF Abandon, Goto, Handling
  <2> HIDE LimitsAssumption DEF GatewayInv, TypeOK
  <2> QED
    BY SMTT(30), <1>2, <2>1, <2>2, <2>3, <2>4, <2>5, <2>6, <2>7, <2>8, <2>9,
       <2>10, <2>11, <2>12, <2>13, <2>14, <2>15, <2>16, <2>17
    DEF Handler, Worker
<1>3. CASE Tick
  BY <1>1, <1>3 DEF Tick
<1>4. CASE UNCHANGED vars
  BY <1>1, <1>4 DEF vars
<1> QED BY <1>2, <1>3, <1>4 DEF Next

\* With the accounts this bounds every semaphore by its size.
LEMMA SemaphoreRange ==
    ASSUME GatewayInv, [Next]_vars
    PROVE  /\ preAuth' \in 0 .. MaxPreAuth
           /\ authenticated' \in 0 .. MaxAuthenticated
           /\ database' \in 0 .. MaxDatabase
<1>1. preAuth' \in Nat /\ authenticated' \in Nat /\ database' \in Nat
  BY NeverNegative
<1>2. PermitsAccounted'
  BY AccountStep
<1>3. /\ PreAuthHolders' \in SUBSET Requests /\ SeatHolders' \in SUBSET Requests
      /\ DatabaseHolders' \in SUBSET Requests
  BY DEF PreAuthHolders, SeatHolders, DatabaseHolders
<1>4. \A S \in SUBSET Requests : Cardinality(S) \in Nat
  BY LimitsAssumption, FS_Subset, FS_CardinalityType
<1>5. /\ Cardinality(PreAuthHolders') \in Nat /\ Cardinality(SeatHolders') \in Nat
      /\ Cardinality(DatabaseHolders') \in Nat
  BY <1>3, <1>4
<1> QED BY <1>1, <1>2, <1>5, LimitsAssumption DEF PermitsAccounted

\* Products of the bucket's arithmetic.
LEMMA Products ==
    /\ \A m, n \in Nat : m * n \in Nat
    /\ \A m, n, k \in Nat : m >= n => (m - n) * k = k * m - k * n /\ (m - n) * k \in Nat
    /\ \A m, n \in Nat : m * (n + 1) = m * n + m
OBVIOUS

\* A refill stays within the burst and adds at most the rate for the time
\* since the last one.
LEMMA RefillBounds ==
    ASSUME TypeOK, NEW p \in Principals
    PROVE  /\ Refill(p) \in 0 .. Burst * Unit
           /\ Refill(p) + Rate * refilled[p] <= tokens[p] + Rate * now
<1>1. /\ Burst * Unit \in Nat /\ tokens[p] \in 0 .. Burst * Unit
      /\ now \in Nat /\ refilled[p] \in Nat /\ refilled[p] <= now /\ Rate \in Nat
  BY LimitsAssumption, Products DEF TypeOK
<1>2. /\ (now - refilled[p]) * Rate = Rate * now - Rate * refilled[p]
      /\ (now - refilled[p]) * Rate \in Nat
      /\ Rate * now \in Nat /\ Rate * refilled[p] \in Nat
  BY <1>1, Products
<1> DEFINE full == Burst * Unit
           gain == (now - refilled[p]) * Rate
           x == Rate * now
           y == Rate * refilled[p]
<1>3. Refill(p) = IF tokens[p] + gain > full THEN full ELSE tokens[p] + gain
  OBVIOUS
<1>4. full \in Nat /\ tokens[p] \in 0 .. full /\ gain = x - y /\ gain \in Nat
      /\ x \in Nat /\ y \in Nat
  BY <1>1, <1>2
<1> HIDE DEF Refill, full, gain, x, y
<1>5. Refill(p) \in 0 .. full /\ Refill(p) + y <= tokens[p] + x
  BY <1>3, <1>4
<1> QED BY <1>5 DEF full, x, y

\* PrincipalLimiter::acquire keeps the bucket within its bounds.
LEMMA LimitKeepsBucket ==
    ASSUME GatewayInv, NEW r \in Requests, Limit(r)
    PROVE  /\ tokens' \in [Principals -> 0 .. Burst * Unit]
           /\ refilled' \in [Principals -> 0 .. now']
           /\ active' \in [Principals -> 0 .. MaxConcurrent]
           /\ admitted' \in [Principals -> Nat]
           /\ BucketInv'
<1> DEFINE p == Owner[r]
           full == Burst * Unit
           filled == Refill(p)
           paid == Rate * refilled[p]
           due == Rate * now
           spent == Unit * admitted[p]
<1>1. p \in Principals
  BY LimitsAssumption
<1>2. /\ tokens \in [Principals -> 0 .. full]
      /\ refilled \in [Principals -> 0 .. now] /\ now \in Nat /\ now' = now
      /\ active \in [Principals -> 0 .. MaxConcurrent]
      /\ admitted \in [Principals -> Nat]
      /\ MaxConcurrent \in Nat /\ Unit \in Nat /\ Burst \in Nat /\ Rate \in Nat
  BY LimitsAssumption DEF GatewayInv, TypeOK, Limit
<1>3. full \in Nat /\ paid \in Nat /\ due \in Nat /\ spent \in Nat
  BY <1>1, <1>2, Products
<1>4. filled \in 0 .. full /\ filled + paid <= tokens[p] + due
  BY <1>1, RefillBounds DEF GatewayInv
<1>5. spent + tokens[p] <= Unit * Burst + paid
  BY <1>1 DEF GatewayInv, BucketInv
<1>6. Unit * Burst \in Nat /\ Unit * (admitted[p] + 1) = spent + Unit
  BY <1>1, <1>2, Products
<1>7. refilled' = [refilled EXCEPT ![p] = now]
  BY DEF Limit
<1>8. \/ /\ tokens' = [tokens EXCEPT ![p] = filled]
         /\ active' = active /\ admitted' = admitted
      \/ /\ filled >= Unit /\ active[p] < MaxConcurrent
         /\ tokens' = [tokens EXCEPT ![p] = filled - Unit]
         /\ active' = [active EXCEPT ![p] = active[p] + 1]
         /\ admitted' = [admitted EXCEPT ![p] = admitted[p] + 1]
  <2> HIDE DEF Refill
  <2>1. filled \in Int /\ Unit \in Int /\ active[p] \in Int /\ MaxConcurrent \in Int
    BY <1>1, <1>2, <1>3, <1>4
  <2> QED BY <2>1 DEF Limit
<1> HIDE DEF p, full, filled, paid, due, spent
<1>9. /\ tokens' \in [Principals -> 0 .. full]
      /\ refilled' \in [Principals -> 0 .. now']
      /\ active' \in [Principals -> 0 .. MaxConcurrent]
      /\ admitted' \in [Principals -> Nat]
  BY <1>1, <1>2, <1>3, <1>4, <1>7, <1>8
<1>10. Unit * admitted'[p] + tokens'[p] <= Unit * Burst + due
  <2>1. CASE tokens'[p] = filled /\ admitted'[p] = admitted[p]
    BY <1>1, <1>2, <1>3, <1>4, <1>5, <1>6, <2>1 DEF spent
  <2>2. CASE tokens'[p] = filled - Unit /\ admitted'[p] = admitted[p] + 1
    <3>1. Unit * admitted'[p] = spent + Unit
      BY <1>6, <2>2
    <3>2. tokens[p] \in Int /\ Unit \in Int
      BY <1>1, <1>2
    <3> QED BY <1>3, <1>4, <1>5, <1>6, <2>2, <3>1, <3>2
  <2> QED BY <1>1, <1>2, <1>8, <2>1, <2>2
<1>11. ASSUME NEW q \in Principals
       PROVE  Unit * admitted'[q] + tokens'[q] <= Unit * Burst + Rate * refilled'[q]
  <2>1. CASE q = p
    BY <1>1, <1>2, <1>7, <1>10, <2>1 DEF due
  <2>2. CASE q # p
    <3>1. admitted'[q] = admitted[q] /\ tokens'[q] = tokens[q]
          /\ refilled'[q] = refilled[q]
      BY <1>2, <1>7, <1>8, <2>2, SMTT(30)
    <3> QED BY <3>1 DEF GatewayInv, BucketInv
  <2> QED BY <2>1, <2>2
<1> QED BY <1>9, <1>11 DEF BucketInv, full

\* Every other step leaves the bucket alone, but for the count of the active.
LEMMA OthersKeepBucket ==
    ASSUME GatewayInv, NEW r \in Requests, Arrive(r) \/ Handler(r) \/ Worker(r),
           ~Limit(r)
    PROVE  /\ UNCHANGED <<tokens, refilled, admitted, now>>
           /\ active' \in [Principals -> 0 .. MaxConcurrent]
<1>1. /\ active \in [Principals -> 0 .. MaxConcurrent] /\ Owner[r] \in Principals
      /\ MaxConcurrent \in Nat
  BY LimitsAssumption DEF GatewayInv, TypeOK
<1>2. CASE Arrive(r)
  BY <1>1, <1>2 DEF Arrive, bucket
<1>3. CASE Screen(r)
  BY <1>1, <1>3 DEF Screen, bucket
<1>4. CASE ScreenFails(r)
  BY <1>1, <1>4 DEF ScreenFails, bucket
<1>5. CASE Seat(r)
  BY <1>1, <1>5 DEF Seat, bucket, LeavePrincipal
<1>6. CASE Body(r)
  BY <1>1, <1>6 DEF Body, bucket
<1>7. CASE BodyFails(r)
  BY <1>1, <1>7 DEF BodyFails, bucket, LeavePrincipal
<1>8. CASE Parse(r)
  BY <1>1, <1>8 DEF Parse, bucket
<1>9. CASE ParseFails(r)
  BY <1>1, <1>9 DEF ParseFails, bucket, LeavePrincipal
<1>10. CASE Refuse(r)
  BY <1>1, <1>10 DEF Refuse, bucket, LeavePrincipal
<1>11. CASE Deny(r)
  BY <1>1, <1>11 DEF Deny, bucket, LeavePrincipal
<1>12. CASE Dispatch(r)
  BY <1>1, <1>12 DEF Dispatch, bucket
<1>13. CASE Start(r)
  BY <1>1, <1>13 DEF Start, bucket
<1>14. CASE Connect(r)
  BY <1>1, <1>14 DEF Connect, bucket
<1>15. CASE End(r)
  BY <1>1, <1>15 DEF End, bucket, LeavePrincipal
<1>16. CASE Respond(r)
  BY <1>1, <1>16 DEF Respond, bucket
<1>17. CASE Abandon(r)
  BY <1>1, <1>17 DEF Abandon, bucket
<1> QED
  BY SMTT(30), <1>2, <1>3, <1>4, <1>5, <1>6, <1>7, <1>8, <1>9, <1>10,
     <1>11, <1>12, <1>13, <1>14, <1>15, <1>16, <1>17
  DEF Handler, Worker

\* Types and buckets survive every step.
LEMMA TypeStep ==
    ASSUME GatewayInv, [Next]_vars
    PROVE  TypeOK' /\ BucketInv'
<1>1. /\ preAuth' \in 0 .. MaxPreAuth
      /\ authenticated' \in 0 .. MaxAuthenticated
      /\ database' \in 0 .. MaxDatabase
  BY SemaphoreRange
<1>2. /\ pc' \in [Requests -> Handling \cup {"idle", "done"}]
      /\ task' \in [Requests -> {"none", "queued", "running", "ended"}]
  BY NeverNegative
<1>3. now' \in Nat /\ now <= now' /\ conns' \subseteq Requests \X {1, 2}
  <2>1. now \in Nat /\ conns \subseteq Requests \X {1, 2}
    BY DEF GatewayInv, TypeOK
  <2>2. ASSUME NEW r \in Requests, Connect(r) PROVE conns' \subseteq Requests \X {1, 2}
    <3>1. Needs[r] \in 0 .. 2
      BY LimitsAssumption, SMTT(30)
    <3> QED BY <2>1, <2>2, <3>1 DEF Connect
  <2>3. ASSUME NEW r \in Requests, Arrive(r) \/ Handler(r) \/ Worker(r)
        PROVE  now' = now /\ (Connect(r) \/ conns' \subseteq conns)
    BY <2>3, Zenon DEF Handler, Worker, Arrive, Screen, ScreenFails, Limit, Seat, Body,
         BodyFails, Parse, ParseFails, Refuse, Deny, Dispatch, Start, Connect, End,
         Respond, Abandon
  <2> QED BY <2>1, <2>2, <2>3 DEF Next, Tick, vars
<1> DEFINE Kept == /\ tokens' \in [Principals -> 0 .. Burst * Unit]
                   /\ refilled' \in [Principals -> 0 .. now']
                   /\ active' \in [Principals -> 0 .. MaxConcurrent]
                   /\ admitted' \in [Principals -> Nat]
                   /\ BucketInv'
<1>4. Kept
  <2>1. ASSUME NEW r \in Requests, Limit(r) PROVE Kept
    BY <2>1, LimitKeepsBucket
  <2>2. ASSUME UNCHANGED <<tokens, refilled, admitted>>,
               active' \in [Principals -> 0 .. MaxConcurrent]
        PROVE  Kept
    BY <1>3, <2>2 DEF GatewayInv, TypeOK, BucketInv
  <2> QED BY <2>1, <2>2, OthersKeepBucket DEF Next, Tick, vars, bucket, GatewayInv, TypeOK
<1> QED BY <1>1, <1>2, <1>3, <1>4 DEF TypeOK

\* A task starts when its handler dispatches it, and only then.
LEMMA StageStep ==
    ASSUME GatewayInv, [Next]_vars
    PROVE  StageInv'
<1>1. ASSUME NEW r \in Requests, Arrive(r) \/ Handler(r) \/ Worker(r)
      PROVE  StageInv'
  <2>1. \A x \in Requests \ {r} : pc'[x] = pc[x] /\ task'[x] = task[x]
    BY <1>1, StepBalanced, SMTT(30) DEF Balanced
  <2>2. pc'[r] \notin {"respond", "done"} => task'[r] = "none"
    BY <1>1, Zenon
       DEF GatewayInv, TypeOK, StageInv, Handler, Worker, Arrive, Screen,
           ScreenFails, Limit, Seat, Body, BodyFails, Parse, ParseFails, Refuse,
           Deny, Dispatch, Start, Connect, End, Respond, Abandon, Goto
  <2> QED BY <2>1, <2>2 DEF GatewayInv, StageInv
<1>2. CASE UNCHANGED <<pc, task>>
  BY <1>2 DEF GatewayInv, StageInv
<1> QED BY <1>1, <1>2 DEF Next, Tick, vars

\* A task has connections only while it runs.
LEMMA ConnectionStep ==
    ASSUME GatewayInv, [Next]_vars
    PROVE  ConnectionInv'
<1>1. conns \subseteq Requests \X {1, 2}
  BY DEF GatewayInv, TypeOK
<1>2. ASSUME NEW r \in Requests, Connect(r) PROVE ConnectionInv'
  <2>1. Needs[r] \in 0 .. 2
    BY LimitsAssumption
  <2> QED BY <1>1, <1>2, <2>1 DEF GatewayInv, ConnectionInv, Connect
<1>3. ASSUME NEW r \in Requests, End(r) PROVE ConnectionInv'
  BY <1>1, <1>3, SMTT(30) DEF GatewayInv, ConnectionInv, TypeOK, End
<1>4. ASSUME NEW r \in Requests, Arrive(r) \/ Handler(r) \/ Start(r)
      PROVE  conns' = conns /\ \A x \in Requests : task[x] = "running" => task'[x] = "running"
  BY <1>4 DEF GatewayInv, TypeOK, StageInv, Handler, Arrive, Screen, ScreenFails,
       Limit, Seat, Body, BodyFails, Parse, ParseFails, Refuse, Deny, Dispatch,
       Start, Respond, Abandon
<1>5. ASSUME conns' = conns, \A x \in Requests : task[x] = "running" => task'[x] = "running"
      PROVE  ConnectionInv'
  BY <1>1, <1>5 DEF GatewayInv, ConnectionInv
<1> QED BY <1>2, <1>3, <1>4, <1>5 DEF Next, Worker, Tick, vars

\* The invariant holds initially: every semaphore is full.
LEMMA InitInv == Init => GatewayInv
<1> SUFFICES ASSUME Init PROVE GatewayInv
  OBVIOUS
<1>1. TypeOK
  <2>1. Burst * Unit \in Nat
    BY LimitsAssumption, Products
  <2> QED BY <2>1, LimitsAssumption DEF Init, TypeOK
<1>2. StageInv /\ ConnectionInv
  BY DEF Init, StageInv, ConnectionInv
<1>3. PermitsAccounted
  <2>1. /\ PreAuthHolders = {} /\ SeatHolders = {} /\ DatabaseHolders = {}
        /\ \A p \in Principals : PrincipalHolders(p) = {}
    BY DEF Init, PreAuthHolders, SeatHolders, DatabaseHolders
  <2>2. Cardinality({}) = 0
    BY FS_EmptySet
  <2> HIDE DEF PrincipalHolders
  <2> QED BY <2>1, <2>2, LimitsAssumption DEF Init, PermitsAccounted
<1>4. BucketInv
  <2>1. /\ Unit * 0 = 0 /\ Burst * Unit = Unit * Burst /\ Unit * Burst \in Nat
        /\ Rate * 0 = 0
    BY LimitsAssumption, Products
  <2>2. ASSUME NEW p \in Principals
        PROVE  Unit * admitted[p] + tokens[p] <= Unit * Burst + Rate * refilled[p]
    <3>1. admitted[p] = 0 /\ tokens[p] = Burst * Unit /\ refilled[p] = 0
      BY DEF Init
    <3> QED BY <2>1, <3>1
  <2> QED BY <2>2 DEF BucketInv
<1> QED BY <1>1, <1>2, <1>3, <1>4 DEF GatewayInv

-----------------------------------------------------------------------------
(* The theorems.                                                           *)

\* For any number of requests and principals and any limits, the inductive
\* invariant of the admission code holds.
THEOREM GatewayInvariance == Spec => []GatewayInv
<1>1. GatewayInv /\ [Next]_vars => GatewayInv'
  BY TypeStep, StageStep, ConnectionStep, AccountStep DEF GatewayInv
<1> QED BY <1>1, InitInv, PTL DEF Spec

\* No path through handle_mcp or its task loses a permit or returns it twice.
THEOREM PermitsAreAccounted == Spec => []PermitsAccounted
<1>1. GatewayInv => PermitsAccounted
  BY DEF GatewayInv
<1> QED BY <1>1, GatewayInvariance, PTL

\* The open database connections never exceed max_database_connections: each
\* belongs to a holder of two permits.
THEOREM ConnectionsStayBounded == Spec => []ConnectionsBounded
<1>1. GatewayInv => ConnectionsBounded
  <2> SUFFICES ASSUME GatewayInv PROVE ConnectionsBounded
    OBVIOUS
  <2> DEFINE H == DatabaseHolders
  <2>1. H \in SUBSET Requests
    BY DEF DatabaseHolders
  <2>2. IsFiniteSet(H) /\ Cardinality(H) \in Nat
    BY <2>1, LimitsAssumption, FS_Subset, FS_CardinalityType
  <2>3. IsFiniteSet({1, 2}) /\ Cardinality({1, 2}) = 2
    <3>1. IsFiniteSet({1}) /\ Cardinality({1}) = 1
      BY FS_Singleton, Zenon
    <3>2. {1, 2} = {1} \cup {2} /\ 2 \notin {1}
      OBVIOUS
    <3> QED BY <3>1, <3>2, FS_AddElement
  <2>4. conns \subseteq H \X {1, 2}
    BY LimitsAssumption DEF GatewayInv, TypeOK, ConnectionInv, DatabaseHolders
  <2>5. IsFiniteSet(H \X {1, 2}) /\ Cardinality(H \X {1, 2}) = Cardinality(H) * 2
    BY <2>2, <2>3, FS_Product
  <2>6. Cardinality(conns) \in Nat /\ Cardinality(conns) <= Cardinality(H) * 2
    BY <2>4, <2>5, FS_Subset, FS_CardinalityType
  <2>7. database + 2 * Cardinality(H) = MaxDatabase /\ database \in Nat
    BY LimitsAssumption DEF GatewayInv, PermitsAccounted, TypeOK
  <2> HIDE DEF H
  <2> QED BY <2>2, <2>6, <2>7 DEF ConnectionsBounded
<1> QED BY <1>1, GatewayInvariance, PTL

\* A principal is never admitted more than its burst and its rate allow.
THEOREM RateIsBounded == Spec => []RateBound
<1>1. GatewayInv => RateBound
  <2> SUFFICES ASSUME GatewayInv, NEW p \in Principals
               PROVE  Unit * admitted[p] <= Unit * Burst + Rate * now
    BY DEF RateBound
  <2>1. Unit * admitted[p] + tokens[p] <= Unit * Burst + Rate * refilled[p]
    BY DEF GatewayInv, BucketInv
  <2>2. /\ tokens[p] \in Nat /\ refilled[p] \in 0 .. now /\ now \in Nat
        /\ admitted[p] \in Nat
    BY LimitsAssumption, Products DEF GatewayInv, TypeOK
  <2>3. /\ Unit * admitted[p] \in Nat /\ Unit * Burst \in Nat
        /\ Rate * refilled[p] \in Nat /\ Rate * now \in Nat
        /\ (now - refilled[p]) * Rate = Rate * now - Rate * refilled[p]
        /\ (now - refilled[p]) * Rate \in Nat
    BY <2>2, LimitsAssumption, Products
  <2> QED BY <2>1, <2>2, <2>3
<1> QED BY <1>1, GatewayInvariance, PTL

=============================================================================
