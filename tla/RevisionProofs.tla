--------------------------- MODULE RevisionProofs ---------------------------
(***************************************************************************)
(* The inductive invariant of Revision and what follows from it, for any    *)
(* number of sessions, revisions, rows and writes per transaction.          *)
(***************************************************************************)
EXTENDS Revision, TLAPS

USE DEF vars, locks, loader

-----------------------------------------------------------------------------
(* Rows and uncommitted changes of them.                                   *)

\* A row is in what a session sees if it is stored and not written, or written.
LEMMA InWritten ==
    ASSUME NEW content, NEW w, NEW r, NEW x
    PROVE  x \in Written(content, w, r) <=>
              \/ x \in content /\ <<r, Key(x)>> \notin DOMAIN w
              \/ \E c \in DOMAIN w : c[1] = r /\ x \in w[c]
BY DEF Written

\* Changes of other revisions leave the rows of r alone.
LEMMA WrittenElsewhere ==
    ASSUME NEW content, NEW w, NEW r, \A c \in DOMAIN w : c[1] # r
    PROVE  Written(content, w, r) = content
<1>1. ASSUME NEW x PROVE x \in Written(content, w, r) <=> x \in content
  <2>1. <<r, Key(x)>>[1] = r
    OBVIOUS
  <2>2. <<r, Key(x)>> \notin DOMAIN w
    BY <2>1
  <2> QED BY <2>2, InWritten
<1> QED BY <1>1

\* A written row stands in the cell of its own key.
LEMMA CellOfRow ==
    ASSUME NEW w, WriteSet(w), NEW c \in DOMAIN w, NEW x \in w[c]
    PROVE  c = <<c[1], Key(x)>> /\ x \in Edits /\ c[1] \in Revisions
BY DEF WriteSet, Cells

\* An empty transaction sees the stored rows.
LEMMA WrittenNothing ==
    ASSUME NEW content, NEW r PROVE Written(content, <<>>, r) = content
BY WrittenElsewhere

\* What is written keeps to the rows of the pool, one for each key.
LEMMA WrittenKeyed ==
    ASSUME NEW content, content \subseteq Pool, Keyed(content),
           NEW w, WriteSet(w), NEW r
    PROVE  Written(content, w, r) \subseteq Pool /\ Keyed(Written(content, w, r))
<1>1. ASSUME NEW x \in Written(content, w, r) PROVE x \in Pool
  <2>1. x \in content \/ \E c \in DOMAIN w : x \in w[c]
    BY <1>1 DEF Written
  <2>2. ASSUME NEW c \in DOMAIN w, x \in w[c] PROVE x \in Edits
    BY <2>2, CellOfRow
  <2> QED BY <2>1, <2>2 DEF Pool
<1>2. ASSUME NEW x \in Written(content, w, r), NEW y \in Written(content, w, r),
             Key(x) = Key(y)
      PROVE  x = y
  <2>1. CASE x \in content /\ <<r, Key(x)>> \notin DOMAIN w
    <3>1. ~\E c \in DOMAIN w : c[1] = r /\ y \in w[c]
      BY <1>2, <2>1, CellOfRow
    <3> QED BY <1>2, <2>1, <3>1, InWritten DEF Keyed
  <2>2. CASE \E c \in DOMAIN w : c[1] = r /\ x \in w[c]
    <3>1. PICK c \in DOMAIN w : c[1] = r /\ x \in w[c]
      BY <2>2
    <3>2. c = <<r, Key(y)>>
      BY <3>1, <1>2, CellOfRow
    <3>3. PICK d \in DOMAIN w : d[1] = r /\ y \in w[d]
      BY <3>2, InWritten
    <3>4. d = c
      BY <3>2, <3>3, CellOfRow
    <3> QED BY <3>1, <3>3, <3>4, <1>2 DEF WriteSet, Keyed
  <2> QED BY <2>1, <2>2, InWritten
<1> QED BY <1>1, <1>2 DEF Keyed

\* One more changed row, on top of the session's other changes.
LEMMA WrittenOnTop ==
    ASSUME NEW content, NEW w, WriteSet(w), NEW r, NEW key, NEW new
    PROVE  /\ Written(content, Put(w, <<r, key>>, new), r)
                = Written(Written(content, w, r), Put(<<>>, <<r, key>>, new), r)
           /\ \A q : q # r => Written(content, Put(w, <<r, key>>, new), q)
                                = Written(content, w, q)
<1> DEFINE cell == <<r, key>>
           after == Put(w, cell, new)
           one == Put(<<>>, cell, new)
<1>0. cell[1] = r
  OBVIOUS
<1>1. /\ DOMAIN after = DOMAIN w \cup {cell} /\ after[cell] = new
      /\ \A c \in DOMAIN w : c # cell => after[c] = w[c]
  BY DEF Put
<1>2. DOMAIN one = {cell} /\ one[cell] = new
  BY DEF Put
<1> HIDE DEF cell, after, one
<1>3. ASSUME NEW x
      PROVE  x \in Written(content, after, r) <=>
                x \in Written(Written(content, w, r), one, r)
  <2>1. x \in Written(content, after, r) <=>
           \/ x \in content /\ <<r, Key(x)>> \notin DOMAIN w /\ <<r, Key(x)>> # cell
           \/ x \in new
           \/ \E c \in DOMAIN w : c # cell /\ c[1] = r /\ x \in w[c]
    BY <1>0, <1>1, InWritten
  <2>2. x \in Written(Written(content, w, r), one, r) <=>
           \/ x \in Written(content, w, r) /\ <<r, Key(x)>> # cell
           \/ x \in new
    <3> DEFINE own == Written(content, w, r)
    <3> HIDE DEF own
    <3>1. x \in Written(own, one, r) <=>
             \/ x \in own /\ <<r, Key(x)>> \notin DOMAIN one
             \/ \E c \in DOMAIN one : c[1] = r /\ x \in one[c]
      BY InWritten
    <3> QED BY <1>0, <1>2, <3>1 DEF own
  <2>3. ASSUME NEW c \in DOMAIN w, c[1] = r, x \in w[c]
        PROVE  c = <<r, Key(x)>>
    BY <2>3, CellOfRow
  <2> QED BY <2>1, <2>2, <2>3, InWritten
<1>4. ASSUME NEW q, q # r PROVE Written(content, after, q) = Written(content, w, q)
  <2>1. ASSUME NEW x
        PROVE  x \in Written(content, after, q) <=> x \in Written(content, w, q)
    <3>1. <<q, Key(x)>> # cell
      BY <1>4 DEF cell
    <3>2. x \in Written(content, after, q) <=>
             \/ x \in content /\ <<q, Key(x)>> \notin DOMAIN w
             \/ \E c \in DOMAIN after : c[1] = q /\ x \in after[c]
      BY <3>1, <1>1, InWritten
    <3>3. (\E c \in DOMAIN after : c[1] = q /\ x \in after[c])
            <=> \E c \in DOMAIN w : c[1] = q /\ x \in w[c]
      BY <1>0, <1>1, <1>4
    <3> QED BY <3>2, <3>3, InWritten
  <2> QED BY <2>1
<1> QED BY <1>3, <1>4 DEF cell, after, one

-----------------------------------------------------------------------------
(* Two transactions that changed rows of one revision.                      *)

\* The field an anchor names, by the rows alone.
AnchorField(m, f) ==
    /\ f.table = "field" /\ f.id = m.anchor /\ f.model = m.model
    /\ f.kind = "entity_key" /\ f.via = "none"

\* Whether x is content with rows in which it finds what it refers to.
Content(x, content, schema) ==
    /\ \A k \in RefKeys(x) : \E y \in content : Key(y) = k
    /\ x.table = "metric" /\ x.anchor # "none" =>
          schema = "2" /\ \E f \in content : AnchorField(x, f)

\* The constraints row by row.
LEMMA ConstraintsByRow ==
    ASSUME NEW content, NEW schema
    PROVE  Constraints(content, schema, {}) <=>
              \A x \in content : Content(x, content, schema)
BY DEF Constraints, Content, AnchorValid, AnchorField, RowsOf

\* A metric's foreign key names the field of its anchor.
LEMMA AnchorIsReferred ==
    ASSUME NEW m, m.table = "metric", m.anchor # "none", NEW f, AnchorField(m, f)
    PROVE  Key(f) \in RefKeys(m)
<1>1. Key(f) = <<"field", m.anchor>>
  BY DEF AnchorField, Key
<1>2. RefKeys(m) = {<<"model", m.model>>} \cup {<<"field", m.anchor>>}
  BY DEF RefKeys
<1> QED BY <1>1, <1>2

\* A row stays content when all it refers to stays.
LEMMA StaysContent ==
    ASSUME NEW x, NEW before, NEW after, NEW schema, Content(x, before, schema),
           \A y \in before : Key(y) \in RefKeys(x) => y \in after
    PROVE  Content(x, after, schema)
BY AnchorIsReferred DEF Content

\* Two transactions whose changes, and the rows these refer to, keep apart meet
\* the constraints together if each does (the locks of the foreign keys).
LEMMA Merged ==
    ASSUME NEW content, NEW schema, NEW r, NEW v, NEW w, NEW kv, NEW kw,
           WriteSet(v), WriteSet(w),
           \A c \in DOMAIN v : c \notin DOMAIN w /\ c \notin kw,
           \A c \in DOMAIN w : c \notin DOMAIN v /\ c \notin kv,
           \A c \in DOMAIN v : \A x \in v[c] : \A k \in RefKeys(x) : <<c[1], k>> \in kv,
           \A c \in DOMAIN w : \A x \in w[c] : \A k \in RefKeys(x) : <<c[1], k>> \in kw,
           Constraints(Written(content, v, r), schema, {}),
           Constraints(Written(content, w, r), schema, {})
    PROVE  Constraints(Written(Written(content, v, r), w, r), schema, {})
<1> DEFINE V == Written(content, v, r)
           W == Written(content, w, r)
           M == Written(V, w, r)
<1>1. ASSUME NEW x PROVE
        /\ x \in V <=> \/ x \in content /\ <<r, Key(x)>> \notin DOMAIN v
                       \/ \E c \in DOMAIN v : c[1] = r /\ x \in v[c]
        /\ x \in W <=> \/ x \in content /\ <<r, Key(x)>> \notin DOMAIN w
                       \/ \E c \in DOMAIN w : c[1] = r /\ x \in w[c]
  BY DEF Written
<1> HIDE DEF V, W
<1>2. ASSUME NEW x PROVE
        x \in M <=> \/ x \in V /\ <<r, Key(x)>> \notin DOMAIN w
                    \/ \E c \in DOMAIN w : c[1] = r /\ x \in w[c]
  BY DEF Written
<1> HIDE DEF M
<1>3. ASSUME NEW c \in DOMAIN v, NEW x \in v[c], c[1] = r PROVE c = <<r, Key(x)>>
  BY <1>3, CellOfRow
<1>4. ASSUME NEW c \in DOMAIN w, NEW x \in w[c], c[1] = r PROVE c = <<r, Key(x)>>
  BY <1>4, CellOfRow
<1>5. ASSUME NEW y \in V, <<r, Key(y)>> \notin DOMAIN w PROVE y \in M
  BY <1>2, <1>5
<1>6. ASSUME NEW y \in W, <<r, Key(y)>> \notin DOMAIN v PROVE y \in M
  BY <1>1, <1>2, <1>6
<1>7. (\A x \in V : Content(x, V, schema)) /\ (\A x \in W : Content(x, W, schema))
  BY ConstraintsByRow DEF V, W
<1>8. ASSUME NEW x \in M PROVE Content(x, M, schema)
  <2>1. CASE \E c \in DOMAIN w : c[1] = r /\ x \in w[c]
    <3>1. PICK c \in DOMAIN w : c[1] = r /\ x \in w[c]
      BY <2>1
    <3>2. \A k \in RefKeys(x) : <<r, k>> \in kw
      BY <3>1
    <3>3. x \in W
      BY <3>1, <1>1
    <3>4. \A y \in W : Key(y) \in RefKeys(x) => y \in M
      BY <3>2, <1>6
    <3> QED BY <3>3, <3>4, <1>7, StaysContent
  <2>2. CASE \E c \in DOMAIN v : c[1] = r /\ x \in v[c]
    <3>1. PICK c \in DOMAIN v : c[1] = r /\ x \in v[c]
      BY <2>2
    <3>2. \A k \in RefKeys(x) : <<r, k>> \in kv
      BY <3>1
    <3>3. x \in V
      BY <3>1, <1>1
    <3>4. \A y \in V : Key(y) \in RefKeys(x) => y \in M
      BY <3>2, <1>5
    <3> QED BY <3>3, <3>4, <1>7, StaysContent
  <2>3. CASE x \in content /\ <<r, Key(x)>> \notin DOMAIN v /\ <<r, Key(x)>> \notin DOMAIN w
    <3>1. x \in V /\ x \in W
      BY <2>3, <1>1
    <3>2. Content(x, V, schema) /\ Content(x, W, schema)
      BY <3>1, <1>7
    <3>3. ASSUME NEW k \in RefKeys(x) PROVE \E y \in M : Key(y) = k
      <4>1. PICK y \in V : Key(y) = k
        BY <3>2, <3>3 DEF Content
      <4>2. PICK z \in W : Key(z) = k
        BY <3>2, <3>3 DEF Content
      <4>3. y \in M \/ z \in M
        BY <4>1, <4>2, <1>5, <1>6
      <4> QED BY <4>1, <4>2, <4>3
    <3>4. ASSUME x.table = "metric", x.anchor # "none"
          PROVE  schema = "2" /\ \E f \in M : AnchorField(x, f)
      <4>1. schema = "2"
        BY <3>2, <3>4 DEF Content
      <4>2. PICK y \in V : AnchorField(x, y)
        BY <3>2, <3>4 DEF Content
      <4>3. PICK z \in W : AnchorField(x, z)
        BY <3>2, <3>4 DEF Content
      <4>4. Key(y) = Key(z)
        BY <4>2, <4>3 DEF AnchorField, Key
      <4>5. y \in M \/ z \in M
        BY <4>4, <1>5, <1>6
      <4> QED BY <4>1, <4>2, <4>3, <4>5
    <3> QED BY <3>3, <3>4 DEF Content
  <2> QED BY <1>1, <1>2, <2>1, <2>2, <2>3
<1> QED BY <1>8, ConstraintsByRow DEF M, V

-----------------------------------------------------------------------------
(* The steps.                                                              *)

\* Nothing is written.
LEMMA Nothing == DOMAIN <<>> = {} /\ WriteSet(<<>>)
BY DEF WriteSet

\* Revisions as the first publication left them meet the invariant.
LEMMA StoreInitially == Init => StoreInv
<1> SUFFICES ASSUME Init PROVE StoreInv
  OBVIOUS
<1>1. PICK first \in Revisions : rev = [r \in Revisions |->
                 IF r = first
                 THEN [status |-> "published", schema |-> "2", hash |-> Hash(Base, "2")]
                 ELSE [status |-> "draft", schema |-> "2", hash |-> {}]]
  BY DEF Init
<1>2. \A r \in Revisions :
        /\ RevisionRow(rev[r]) /\ rev[r].schema = "2" /\ rows[r] = Base
        /\ rev[r].status = "published" => r = first
  BY <1>1 DEF Init, RevisionRow
<1>3. \A s \in Sessions : /\ revWrites[s] = <<>> /\ rowWrites[s] = <<>>
                          /\ share[s] = {} /\ keyShare[s] = {}
  BY DEF Init
<1>4. TypeOK
  <2>1. \A r \in Revisions : rows[r] \subseteq Pool /\ Keyed(rows[r])
    BY <1>2, BaseAssumption DEF Pool
  <2> QED BY <1>1, <1>2, <1>3, <2>1, Nothing DEF TypeOK, Init
<1>5. LockInv
  BY <1>3, Nothing DEF LockInv
<1>6. PublicationInv
  BY <1>2, <1>3, Nothing DEF PublicationInv, OnePublished
<1>7. ReferenceInv
  <2>1. \A s \in Sessions, r \in Revisions : OwnRows(s, r) = Base /\ OwnRev(s, r) = rev[r]
    BY <1>2, <1>3, Nothing, WrittenNothing DEF OwnRows, OwnRev
  <2> QED BY <1>2, <1>3, <2>1, Nothing, BaseAssumption DEF ReferenceInv
<1> QED BY <1>4, <1>5, <1>6, <1>7 DEF StoreInv

\* A transaction that ends without a trace: its changes and locks go.
LEMMA RollbackKeeps ==
    ASSUME StoreInv, NEW s \in Sessions, Rollback(s), UNCHANGED <<rev, rows>>
    PROVE  StoreInv'
<1> USE DEF StoreInv
<1>1. /\ DOMAIN revWrites' = Sessions /\ DOMAIN rowWrites' = Sessions
      /\ DOMAIN share' = Sessions /\ DOMAIN keyShare' = Sessions /\ DOMAIN seen' = Sessions
  BY DEF Rollback, TypeOK
<1>2. /\ revWrites'[s] = <<>> /\ rowWrites'[s] = <<>>
      /\ share'[s] = {} /\ keyShare'[s] = {}
  BY DEF Rollback, TypeOK
<1>3. \A t \in Sessions : t # s =>
        /\ revWrites'[t] = revWrites[t] /\ rowWrites'[t] = rowWrites[t]
        /\ share'[t] = share[t] /\ keyShare'[t] = keyShare[t]
  BY DEF Rollback, TypeOK
<1>4. TypeOK'
  BY <1>1, <1>2, <1>3, Nothing DEF TypeOK
<1>5. LockInv'
  BY <1>2, <1>3, Nothing DEF LockInv, Others
<1>6. \A r \in Revisions :
        /\ OwnRev(s, r)' = rev[r] /\ OwnRows(s, r)' = rows[r]
        /\ \A t \in Sessions : t # s =>
              OwnRev(t, r)' = OwnRev(t, r) /\ OwnRows(t, r)' = OwnRows(t, r)
  BY <1>2, <1>3, Nothing, WrittenNothing DEF OwnRev, OwnRows
<1>7. PublicationInv'
  BY <1>2, <1>3, <1>6, Nothing DEF PublicationInv, OnePublished, Others
<1>8. ReferenceInv'
  BY <1>2, <1>3, <1>6, Nothing DEF ReferenceInv, Others
<1> QED BY <1>4, <1>5, <1>7, <1>8

\* An UPDATE of a revision that the trigger and the unique indexes accept.
LEMMA UpdateKeeps ==
    ASSUME StoreInv, NEW s \in Sessions, NEW r \in Revisions, NEW new,
           RevisionRow(new), Update(s, r, new)
    PROVE  StoreInv'
<1> USE DEF StoreInv
<1>1. CASE Rollback(s)
  BY <1>1, RollbackKeeps DEF Update
<1>2. CASE /\ Transition(OwnRev(s, r), new) /\ Unique(s, r, new)
           /\ Constraints(OwnRows(s, r), new.schema, {})
           /\ revWrites' = [revWrites EXCEPT ![s] = Put(@, r, new)]
           /\ UNCHANGED <<rowWrites, locks, seen>>
  <2>0. UNCHANGED <<rev, rows, rowWrites, share, keyShare, seen>>
    BY <1>2 DEF Update
  <2>1. /\ DOMAIN revWrites' = Sessions
        /\ DOMAIN revWrites'[s] = DOMAIN revWrites[s] \cup {r}
        /\ revWrites'[s][r] = new
        /\ \A q \in DOMAIN revWrites[s] : q # r => revWrites'[s][q] = revWrites[s][q]
        /\ \A t \in Sessions : t # s => revWrites'[t] = revWrites[t]
    BY <1>2 DEF TypeOK, Put
  <2>2. \A t \in Sessions : t # s =>
          /\ r \notin share[t] /\ r \notin DOMAIN revWrites[t]
          /\ new.status = "published" => DOMAIN revWrites[t] = {}
    BY DEF Update, RevisionWaits, Others
  <2>3. TypeOK'
    BY <2>0, <2>1 DEF TypeOK
  <2>4. \/ rev[r].status = "draft"
        \/ rev[r].status = "published" /\ new = [rev[r] EXCEPT !.status = "retired"]
    BY <1>2 DEF Transition, OwnRev, LockInv, TypeOK, RevisionRow
  <2>5. LockInv'
    <3> SUFFICES ASSUME NEW t \in Sessions
                 PROVE  /\ \A q \in DOMAIN revWrites'[t] :
                              \/ rev[q].status = "draft"
                              \/ /\ rev[q].status = "published"
                                 /\ revWrites'[t][q] = [rev[q] EXCEPT !.status = "retired"]
                        /\ \A u \in Sessions \ {t} : \A q \in DOMAIN revWrites'[t] :
                              q \notin share[u] /\ q \notin DOMAIN revWrites'[u]
      BY <2>0 DEF LockInv, Others
    <3>1. ASSUME NEW q \in DOMAIN revWrites'[t]
          PROVE  \/ rev[q].status = "draft"
                 \/ /\ rev[q].status = "published"
                    /\ revWrites'[t][q] = [rev[q] EXCEPT !.status = "retired"]
      <4>1. CASE t = s /\ q = r
        BY <2>1, <2>4, <4>1
      <4>2. CASE ~(t = s /\ q = r)
        <5>1. q \in DOMAIN revWrites[t] /\ revWrites'[t][q] = revWrites[t][q]
          BY <2>1, <3>1, <4>2
        <5> QED BY <5>1 DEF LockInv
      <4> QED BY <4>1, <4>2
    <3>2. ASSUME NEW u \in Sessions \ {t}, NEW q \in DOMAIN revWrites'[t]
          PROVE  q \notin share[u] /\ q \notin DOMAIN revWrites'[u]
      <4>1. CASE q = r
        BY <2>1, <2>2, <3>2, <4>1
      <4>2. CASE q # r
        <5>1. q \in DOMAIN revWrites[t]
          BY <2>1, <3>2, <4>2
        <5>2. q \notin share[u] /\ q \notin DOMAIN revWrites[u]
          BY <5>1, <3>2 DEF LockInv, Others
        <5> QED BY <2>1, <3>2, <4>2, <5>2
      <4> QED BY <4>1, <4>2
    <3> QED BY <3>1, <3>2
  <2>6. \A q \in Revisions :
          /\ OwnRev(s, q)' = IF q = r THEN new ELSE OwnRev(s, q)
          /\ \A t \in Sessions : t # s => OwnRev(t, q)' = OwnRev(t, q)
          /\ \A t \in Sessions : OwnRows(t, q)' = OwnRows(t, q)
    BY <2>0, <2>1 DEF OwnRev, OwnRows
  <2>7. PublicationInv'
    BY <1>2, <2>0, <2>1, <2>2, <2>6
       DEF PublicationInv, OnePublished, Unique, Others, OwnRev, TypeOK
  <2>8. ReferenceInv'
    BY <1>2, <2>0, <2>1, <2>6 DEF ReferenceInv, Others
  <2> QED BY <2>3, <2>5, <2>7, <2>8
<1> QED BY <1>1, <1>2 DEF Update

\* An INSERT, UPDATE or DELETE of a child row of a draft.
LEMMA EditKeeps ==
    ASSUME StoreInv, NEW s \in Sessions, NEW r \in Revisions, NEW x \in Edits,
           NEW new \in {{}, {x}}, Edit(s, r, Key(x), new)
    PROVE  StoreInv'
<1> USE DEF StoreInv
<1> DEFINE cell == <<r, Key(x)>>
           content == Written(OwnRows(s, r), Put(<<>>, cell, new), r)
<1>0. cell \in Cells /\ cell[1] = r /\ cell[2] = Key(x)
  BY DEF Cells, Pool
<1>1. CASE Rollback(s)
  BY <1>1, RollbackKeeps DEF Edit
<1>2. CASE /\ OwnRev(s, r).status = "draft"
           /\ Constraints(content, OwnRev(s, r).schema, new)
           /\ rowWrites' = [rowWrites EXCEPT ![s] = Put(@, cell, new)]
           /\ share' = [share EXCEPT ![s] = @ \cup {r}]
           /\ keyShare' = [keyShare EXCEPT ![s] =
                              @ \cup {<<r, k>> : k \in UNION {RefKeys(y) : y \in new}}]
           /\ UNCHANGED <<revWrites, seen>>
  <2>0. UNCHANGED <<rev, rows, revWrites, seen>>
    BY <1>2 DEF Edit
  <2>1. /\ DOMAIN rowWrites' = Sessions /\ rowWrites'[s] = Put(rowWrites[s], cell, new)
        /\ \A t \in Sessions : t # s => rowWrites'[t] = rowWrites[t]
    BY <1>2 DEF TypeOK
  <2>2. /\ DOMAIN rowWrites'[s] = DOMAIN rowWrites[s] \cup {cell}
        /\ rowWrites'[s][cell] = new
        /\ \A c \in DOMAIN rowWrites[s] : c # cell => rowWrites'[s][c] = rowWrites[s][c]
    BY <2>1 DEF Put
  <2>3. /\ DOMAIN share' = Sessions /\ share'[s] = share[s] \cup {r}
        /\ \A t \in Sessions : t # s => share'[t] = share[t]
    BY <1>2 DEF TypeOK
  <2>4. /\ DOMAIN keyShare' = Sessions
        /\ keyShare'[s] = keyShare[s] \cup {<<r, k>> : k \in UNION {RefKeys(y) : y \in new}}
        /\ \A t \in Sessions : t # s => keyShare'[t] = keyShare[t]
    BY <1>2 DEF TypeOK
  <2>5. \A t \in Sessions : t # s =>
          /\ r \notin DOMAIN revWrites[t]
          /\ cell \notin DOMAIN rowWrites[t] /\ cell \notin keyShare[t]
          /\ \A y \in new : \A k \in RefKeys(y) : <<r, k>> \notin DOMAIN rowWrites[t]
    BY <1>0 DEF Edit, EditWaits, Others
  <2>6. WriteSet(rowWrites'[s])
    BY <1>0, <2>2, SMTT(30) DEF TypeOK, WriteSet, Keyed
  <2>7. \A q \in Revisions :
          /\ OwnRows(s, q)' = IF q = r THEN content ELSE OwnRows(s, q)
          /\ \A t \in Sessions : t # s => OwnRows(t, q)' = OwnRows(t, q)
          /\ \A t \in Sessions : OwnRev(t, q)' = OwnRev(t, q)
    <3>1. \A q \in Revisions : OwnRows(s, q)' = IF q = r THEN content ELSE OwnRows(s, q)
      BY <2>0, <2>1, WrittenOnTop, SMTT(30) DEF OwnRows, TypeOK
    <3>2. \A q \in Revisions, t \in Sessions : t # s => OwnRows(t, q)' = OwnRows(t, q)
      BY <2>0, <2>1 DEF OwnRows
    <3>3. \A q \in Revisions, t \in Sessions : OwnRev(t, q)' = OwnRev(t, q)
      BY <2>0 DEF OwnRev
    <3> QED BY <3>1, <3>2, <3>3
  <2>8. content \subseteq Pool
    <3>1. Written(rows[r], rowWrites'[s], r) \subseteq Pool
      BY <2>6, WrittenKeyed DEF TypeOK
    <3> QED BY <2>0, <2>7, <3>1 DEF OwnRows
  <2>9. Constraints(content, OwnRev(s, r).schema, {})
    BY <1>2 DEF Constraints
  <2>10. new \subseteq content
    <3>1. Put(<<>>, cell, new)[cell] = new /\ cell \in DOMAIN Put(<<>>, cell, new)
      BY DEF Put
    <3> QED BY <1>0, <3>1 DEF Written
  <2> HIDE DEF content, cell
  <2>11. \A y \in new : \A k \in RefKeys(y) : <<r, k>> \in Cells /\ <<r, k>> \in keyShare'[s]
    <3> SUFFICES ASSUME NEW y \in new, NEW k \in RefKeys(y)
                 PROVE  <<r, k>> \in Cells /\ <<r, k>> \in keyShare'[s]
      OBVIOUS
    <3>1. PICK z \in content : Key(z) = k
      BY <2>9, <2>10, ConstraintsByRow DEF Content
    <3>2. <<r, k>> \in Cells
      BY <2>8, <3>1 DEF Cells
    <3> QED BY <2>4, <3>2
  <2>12. keyShare'[s] \subseteq Cells
    BY <2>4, <2>11 DEF TypeOK
  <2>13. TypeOK'
    BY <2>0, <2>1, <2>3, <2>4, <2>6, <2>12 DEF TypeOK
  <2>14. rev[r].status = "draft"
    BY <1>2 DEF OwnRev, LockInv, TypeOK, RevisionRow
  <2>15. LockInv'
    BY <1>0, <2>0, <2>1, <2>2, <2>3, <2>5, <2>14 DEF LockInv, Others
  <2>16. PublicationInv'
    BY <2>0, <2>7 DEF PublicationInv, OnePublished, Others
  <2>17. ReferenceInv'
    <3>1. \A q \in Revisions : Constraints(rows[q], rev[q].schema, {})'
      BY <2>0 DEF ReferenceInv
    <3>2. \A t \in Sessions, q \in Revisions :
            Constraints(OwnRows(t, q)', OwnRev(t, q)'.schema, {})
      BY <2>7, <2>9 DEF ReferenceInv
    <3>3. ASSUME NEW t \in Sessions, NEW u \in Others(t), NEW c \in DOMAIN rowWrites'[t]
          PROVE  c \notin DOMAIN rowWrites'[u] /\ c \notin keyShare'[u]
      <4>1. CASE t = s
        BY <3>3, <4>1, <2>1, <2>2, <2>4, <2>5 DEF ReferenceInv, Others
      <4>2. CASE u = s
        <5>1. c \in DOMAIN rowWrites[t] /\ t # s
          BY <3>3, <4>2, <2>1 DEF Others
        <5>2. c \notin DOMAIN rowWrites[s] /\ c \notin keyShare[s]
          BY <5>1, <3>3, <4>2 DEF ReferenceInv
        <5>3. c # cell
          BY <5>1, <2>5
        <5>4. \A k \in UNION {RefKeys(y) : y \in new} : c # <<r, k>>
          BY <5>1, <2>5
        <5> QED BY <4>2, <5>2, <5>3, <5>4, <2>2, <2>4
      <4>3. CASE t # s /\ u # s
        BY <3>3, <4>3, <2>1, <2>4 DEF ReferenceInv, Others
      <4> QED BY <4>1, <4>2, <4>3
    <3>4. ASSUME NEW t \in Sessions, NEW c \in DOMAIN rowWrites'[t],
                 NEW y \in rowWrites'[t][c], NEW k \in RefKeys(y)
          PROVE  <<c[1], k>> \in keyShare'[t]
      <4>1. CASE t # s
        BY <3>4, <4>1, <2>1, <2>4 DEF ReferenceInv
      <4>2. CASE t = s /\ c = cell
        BY <3>4, <4>2, <1>0, <2>2, <2>11 DEF cell
      <4>3. CASE t = s /\ c # cell
        BY <3>4, <4>3, <2>2, <2>4 DEF ReferenceInv
      <4> QED BY <4>1, <4>2, <4>3
    <3> QED BY <3>1, <3>2, <3>3, <3>4 DEF ReferenceInv
  <2> QED BY <2>13, <2>15, <2>16, <2>17
<1> QED BY <1>1, <1>2 DEF Edit

\* COMMIT, beside transactions that go on with what they have written.
LEMMA CommitKeeps ==
    ASSUME StoreInv, NEW s \in Sessions, Commit(s)
    PROVE  StoreInv'
<1> USE DEF StoreInv
<1>0. /\ DOMAIN rev' = Revisions /\ DOMAIN rows' = Revisions
      /\ \A q \in Revisions : rev'[q] = OwnRev(s, q) /\ rows'[q] = OwnRows(s, q)
  BY DEF Commit
<1>1. /\ DOMAIN revWrites' = Sessions /\ DOMAIN rowWrites' = Sessions
      /\ DOMAIN share' = Sessions /\ DOMAIN keyShare' = Sessions /\ DOMAIN seen' = Sessions
  BY DEF Commit, Rollback, TypeOK
<1>2. /\ revWrites'[s] = <<>> /\ rowWrites'[s] = <<>>
      /\ share'[s] = {} /\ keyShare'[s] = {}
  BY DEF Commit, Rollback, TypeOK
<1>3. \A t \in Sessions : t # s =>
        /\ revWrites'[t] = revWrites[t] /\ rowWrites'[t] = rowWrites[t]
        /\ share'[t] = share[t] /\ keyShare'[t] = keyShare[t]
  BY DEF Commit, Rollback, TypeOK
<1>4. TypeOK'
  <2>1. ASSUME NEW q \in Revisions
        PROVE  RevisionRow(rev'[q]) /\ rows'[q] \subseteq Pool /\ Keyed(rows'[q])
    <3>1. RevisionRow(rev'[q])
      BY <1>0 DEF OwnRev, TypeOK
    <3>2. OwnRows(s, q) \subseteq Pool /\ Keyed(OwnRows(s, q))
      BY WrittenKeyed DEF OwnRows, TypeOK
    <3> QED BY <1>0, <3>1, <3>2
  <2> QED BY <1>0, <1>1, <1>2, <1>3, <2>1, Nothing DEF TypeOK
<1>5. ASSUME NEW t \in Sessions, t # s, NEW q \in DOMAIN revWrites[s]
      PROVE  /\ q \notin share[t] /\ q \notin DOMAIN revWrites[t]
             /\ \A c \in DOMAIN rowWrites[t] : c[1] # q
  BY <1>5 DEF LockInv, Others
<1>6. \A q \in Revisions : q \notin DOMAIN revWrites[s] => rev'[q] = rev[q]
  BY <1>0 DEF OwnRev
<1>7. LockInv'
  <2>1. ASSUME NEW t \in Sessions, t # s
        PROVE  \A q \in share[t] \cup DOMAIN revWrites[t] :
                  q \in Revisions /\ rev'[q] = rev[q]
    <3>1. \A q \in share[t] \cup DOMAIN revWrites[t] :
            q \in Revisions /\ q \notin DOMAIN revWrites[s]
      BY <1>5, <2>1 DEF TypeOK
    <3> QED BY <1>6, <3>1
  <2>2. ASSUME NEW t \in Sessions
        PROVE  /\ \A c \in DOMAIN rowWrites'[t] : c[1] \in share'[t]
               /\ \A q \in share'[t] : rev'[q].status = "draft"
    <3>1. CASE t = s
      BY <1>2, <3>1, Nothing
    <3>2. CASE t # s
      BY <1>3, <2>1, <3>2 DEF LockInv
    <3> QED BY <3>1, <3>2
  <2>3. ASSUME NEW t \in Sessions, NEW q \in DOMAIN revWrites'[t]
        PROVE  \/ rev'[q].status = "draft"
               \/ /\ rev'[q].status = "published"
                  /\ revWrites'[t][q] = [rev'[q] EXCEPT !.status = "retired"]
    <3>1. t # s
      BY <1>2, <2>3, Nothing
    <3>2. q \in DOMAIN revWrites[t] /\ revWrites'[t][q] = revWrites[t][q]
      BY <1>3, <2>3, <3>1
    <3>3. rev'[q] = rev[q]
      BY <2>1, <3>1, <3>2
    <3> QED BY <3>2, <3>3 DEF LockInv
  <2>4. ASSUME NEW t \in Sessions, NEW u \in Others(t), NEW q \in DOMAIN revWrites'[t]
        PROVE  q \notin share'[u] /\ q \notin DOMAIN revWrites'[u]
    <3>1. t # s /\ q \in DOMAIN revWrites[t]
      BY <1>2, <1>3, <2>4, Nothing
    <3>2. CASE u = s
      BY <1>2, <3>2, Nothing
    <3>3. CASE u # s
      BY <1>3, <2>4, <3>1, <3>3 DEF LockInv, Others
    <3> QED BY <3>2, <3>3
  <2> QED BY <2>2, <2>3, <2>4 DEF LockInv
<1>8. ASSUME NEW t \in Sessions, t # s, NEW q \in Revisions
      PROVE  /\ q \in DOMAIN revWrites[s] =>
                    OwnRev(t, q)' = OwnRev(s, q) /\ OwnRows(t, q)' = OwnRows(s, q)
             /\ q \notin DOMAIN revWrites[s] => OwnRev(t, q)' = OwnRev(t, q)
  <2>1. CASE q \in DOMAIN revWrites[s]
    <3>1. OwnRev(t, q)' = OwnRev(s, q)
      BY <1>0, <1>3, <1>5, <1>8, <2>1 DEF OwnRev
    <3>2. OwnRows(t, q)' = Written(OwnRows(s, q), rowWrites[t], q)
      BY <1>0, <1>3, <1>8 DEF OwnRows
    <3>3. Written(OwnRows(s, q), rowWrites[t], q) = OwnRows(s, q)
      BY <1>5, <1>8, <2>1, WrittenElsewhere
    <3> QED BY <2>1, <3>1, <3>2, <3>3
  <2>2. CASE q \notin DOMAIN revWrites[s]
    BY <1>3, <1>6, <1>8, <2>2 DEF OwnRev
  <2> QED BY <2>1, <2>2
<1>9. PublicationInv'
  <2>1. \A q, p \in Revisions :
          rev'[q].status = "published" /\ rev'[p].status = "published" => q = p
    BY <1>0 DEF PublicationInv, OnePublished, OwnRev
  <2>2. ASSUME NEW t \in Sessions, NEW q \in DOMAIN revWrites'[t],
               revWrites'[t][q].status = "published"
        PROVE  /\ \A p \in Revisions \ {q} : OwnRev(t, p)'.status # "published"
               /\ \A u \in Others(t) : \A p \in DOMAIN revWrites'[u] :
                     revWrites'[u][p].status # "published"
    <3>1. t # s /\ q \in DOMAIN revWrites[t] /\ revWrites[t][q].status = "published"
      BY <1>2, <1>3, <2>2, Nothing
    <3>2. /\ \A p \in Revisions \ {q} : OwnRev(t, p).status # "published"
          /\ \A u \in Others(t) : \A p \in DOMAIN revWrites[u] :
                revWrites[u][p].status # "published"
      BY <3>1 DEF PublicationInv, OnePublished
    <3>3. \A p \in DOMAIN revWrites[s] : OwnRev(s, p).status # "published"
      BY <3>1, <3>2 DEF OwnRev, Others
    <3>4. \A p \in Revisions \ {q} : OwnRev(t, p)'.status # "published"
      BY <1>8, <3>1, <3>2, <3>3
    <3>5. \A u \in Others(t) : \A p \in DOMAIN revWrites'[u] :
            revWrites'[u][p].status # "published"
      BY <1>2, <1>3, <3>2, Nothing DEF Others
    <3> QED BY <3>4, <3>5
  <2> QED BY <2>1, <2>2 DEF PublicationInv, OnePublished
<1>10. ReferenceInv'
  <2>1. ASSUME NEW q \in Revisions PROVE Constraints(rows'[q], rev'[q].schema, {})
    <3>1. Constraints(OwnRows(s, q), OwnRev(s, q).schema, {})
      BY DEF ReferenceInv
    <3>2. rows'[q] = OwnRows(s, q) /\ rev'[q] = OwnRev(s, q)
      BY <1>0
    <3> QED BY <3>1, <3>2
  <2>2. ASSUME NEW t \in Sessions, t # s, NEW q \in Revisions
        PROVE  Constraints(OwnRows(t, q)', OwnRev(t, q)'.schema, {})
    <3>0. OwnRows(t, q)' = Written(OwnRows(s, q), rowWrites[t], q)
      BY <1>0, <1>3, <2>2 DEF OwnRows
    <3>1. CASE q \in DOMAIN revWrites[s]
      BY <1>8, <2>2, <3>1 DEF ReferenceInv
    <3>2. CASE q \notin DOMAIN revWrites[s] /\ q \in DOMAIN revWrites[t]
      <4>1. \A c \in DOMAIN rowWrites[s] : c[1] # q
        BY <2>2, <3>2 DEF LockInv, Others
      <4>2. OwnRows(s, q) = rows[q]
        BY <4>1, WrittenElsewhere DEF OwnRows
      <4>3. OwnRows(t, q)' = OwnRows(t, q)
        BY <3>0, <4>2, Zenon DEF OwnRows
      <4>4. OwnRev(t, q)' = OwnRev(t, q)
        BY <1>8, <2>2, <3>2
      <4>5. Constraints(OwnRows(t, q), OwnRev(t, q).schema, {})
        BY Zenon DEF ReferenceInv
      <4> QED BY <4>3, <4>4, <4>5, Zenon
    <3>3. CASE q \notin DOMAIN revWrites[s] /\ q \notin DOMAIN revWrites[t]
      <4>1. OwnRev(t, q)' = rev[q] /\ OwnRev(t, q) = rev[q] /\ OwnRev(s, q) = rev[q]
        BY <1>8, <2>2, <3>3 DEF OwnRev
      <4>2. /\ Constraints(Written(rows[q], rowWrites[s], q), rev[q].schema, {})
            /\ Constraints(Written(rows[q], rowWrites[t], q), rev[q].schema, {})
        BY <4>1 DEF ReferenceInv, OwnRows
      <4>3. WriteSet(rowWrites[s]) /\ WriteSet(rowWrites[t])
        BY DEF TypeOK
      <4>4. /\ \A c \in DOMAIN rowWrites[s] :
                  c \notin DOMAIN rowWrites[t] /\ c \notin keyShare[t]
            /\ \A c \in DOMAIN rowWrites[t] :
                  c \notin DOMAIN rowWrites[s] /\ c \notin keyShare[s]
        BY <2>2 DEF ReferenceInv, Others
      <4>5. /\ \A c \in DOMAIN rowWrites[s] : \A x \in rowWrites[s][c] :
                  \A k \in RefKeys(x) : <<c[1], k>> \in keyShare[s]
            /\ \A c \in DOMAIN rowWrites[t] : \A x \in rowWrites[t][c] :
                  \A k \in RefKeys(x) : <<c[1], k>> \in keyShare[t]
        BY DEF ReferenceInv
      <4>6. Constraints(Written(Written(rows[q], rowWrites[s], q), rowWrites[t], q),
                        rev[q].schema, {})
        BY <4>2, <4>3, <4>4, <4>5, Merged, Zenon
      <4> QED BY <3>0, <4>1, <4>6 DEF OwnRows
    <3> QED BY <3>1, <3>2, <3>3
  <2>3. \A q \in Revisions : OwnRows(s, q)' = rows'[q] /\ OwnRev(s, q)' = rev'[q]
    BY <1>2, Nothing, WrittenNothing, Zenon DEF OwnRows, OwnRev
  <2>4. \A t \in Sessions, q \in Revisions :
          Constraints(OwnRows(t, q)', OwnRev(t, q)'.schema, {})
    BY <2>1, <2>2, <2>3
  <2>5. \A t \in Sessions : \A u \in Others(t) : \A c \in DOMAIN rowWrites'[t] :
          c \notin DOMAIN rowWrites'[u] /\ c \notin keyShare'[u]
    BY <1>2, <1>3, Nothing DEF ReferenceInv, Others
  <2>6. \A t \in Sessions : \A c \in DOMAIN rowWrites'[t] : \A x \in rowWrites'[t][c] :
          \A k \in RefKeys(x) : <<c[1], k>> \in keyShare'[t]
    BY <1>2, <1>3, Nothing DEF ReferenceInv
  <2> QED BY <2>1, <2>4, <2>5, <2>6, Zenon DEF ReferenceInv
<1> QED BY <1>4, <1>7, <1>9, <1>10

\* The loader and a survey write nothing.
LEMMA ReadsKeep ==
    ASSUME StoreInv, UNCHANGED <<rev, rows, revWrites, rowWrites, share, keyShare>>,
           DOMAIN seen' = Sessions
    PROVE  StoreInv'
BY DEF StoreInv, TypeOK, LockInv, PublicationInv, OnePublished, ReferenceInv, OwnRev, OwnRows

\* The row a session sees of a revision is one, and so is what a statement sets.
LEMMA StatementRows ==
    ASSUME TypeOK, NEW s \in Sessions, NEW r \in Revisions
    PROVE  /\ \A schema \in Schemas : RevisionRow([OwnRev(s, r) EXCEPT !.schema = schema])
           /\ \A h : RevisionRow([status |-> "published", schema |-> OwnRev(s, r).schema,
                                  hash |-> h])
           /\ RevisionRow([OwnRev(s, r) EXCEPT !.status = "retired"])
<1>1. RevisionRow(OwnRev(s, r))
  BY DEF TypeOK, OwnRev
<1>2. PICK own : own = OwnRev(s, r)
  OBVIOUS
<1>3. own = [status |-> own.status, schema |-> own.schema, hash |-> own.hash]
  BY <1>1, <1>2 DEF RevisionRow
<1>4. ASSUME NEW schema \in Schemas
      PROVE  RevisionRow([own EXCEPT !.schema = schema])
  <2>1. [own EXCEPT !.schema = schema]
          = [status |-> own.status, schema |-> schema, hash |-> own.hash]
    BY <1>3
  <2> QED BY <1>1, <1>2, <2>1 DEF RevisionRow
<1>5. ASSUME NEW h
      PROVE  RevisionRow([status |-> "published", schema |-> own.schema, hash |-> h])
  BY <1>1, <1>2 DEF RevisionRow
<1>6. RevisionRow([own EXCEPT !.status = "retired"])
  <2>1. [own EXCEPT !.status = "retired"]
          = [status |-> "retired", schema |-> own.schema, hash |-> own.hash]
    BY <1>3
  <2> QED BY <1>1, <1>2, <2>1 DEF RevisionRow
<1> QED BY <1>2, <1>4, <1>5, <1>6

\* Every statement, commit, rollback and read keeps the invariant.
LEMMA StoreStep == StoreInv /\ [Next]_vars => StoreInv'
<1> SUFFICES ASSUME StoreInv, [Next]_vars PROVE StoreInv'
  OBVIOUS
<1>0. TypeOK
  BY DEF StoreInv
<1>1. ASSUME NEW s \in Sessions, Editing(s) PROVE StoreInv'
  <2>1. PICK r \in Revisions :
          \/ \E x \in Edits : Edit(s, r, Key(x), {x}) \/ Edit(s, r, Key(x), {})
          \/ \E schema \in Schemas : SetSchema(s, r, schema)
    BY <1>1 DEF Editing
  <2>2. ASSUME NEW x \in Edits, NEW new \in {{}, {x}}, Edit(s, r, Key(x), new)
        PROVE  StoreInv'
    BY <2>2, EditKeeps
  <2>3. ASSUME NEW schema \in Schemas, SetSchema(s, r, schema) PROVE StoreInv'
    BY <1>0, <2>3, UpdateKeeps, StatementRows DEF SetSchema
  <2> QED BY <2>1, <2>2, <2>3
<1>2. ASSUME NEW s \in Sessions, Publishing(s) PROVE StoreInv'
  <2>1. PICK r \in Revisions : Survey(s, r) \/ Publish(s, r) \/ Retire(s, r)
    BY <1>2 DEF Publishing
  <2>2. CASE Survey(s, r)
    BY <1>0, <2>2, ReadsKeep DEF Survey, TypeOK
  <2>3. CASE Publish(s, r)
    BY <1>0, <2>3, UpdateKeeps, StatementRows, Zenon DEF Publish
  <2>4. CASE Retire(s, r)
    BY <1>0, <2>4, UpdateKeeps, StatementRows DEF Retire
  <2> QED BY <2>1, <2>2, <2>3, <2>4
<1>3. ASSUME NEW s \in Sessions, Commit(s) PROVE StoreInv'
  BY <1>3, CommitKeeps
<1>4. ASSUME NEW s \in Sessions, Abort(s) PROVE StoreInv'
  BY <1>4, RollbackKeeps DEF Abort
<1>5. CASE LoadRevision
  BY <1>0, <1>5, ReadsKeep DEF LoadRevision, TypeOK
<1>6. CASE LoadTables
  BY <1>0, <1>6, ReadsKeep DEF LoadTables, TypeOK
<1>7. CASE UNCHANGED vars
  BY <1>0, <1>7, ReadsKeep DEF TypeOK
<1> QED BY <1>1, <1>2, <1>3, <1>4, <1>5, <1>6, <1>7 DEF Next

\* A step leaves published revisions alone: only a commit changes what is stored,
\* and who wrote rows of a revision has held it in share mode as a draft.
LEMMA FrozenByStep == StoreInv /\ [Next]_vars => Frozen
<1> SUFFICES ASSUME StoreInv, [Next]_vars PROVE Frozen
  OBVIOUS
<1>1. CASE UNCHANGED <<rev, rows>>
  BY <1>1 DEF Frozen
<1>2. ASSUME NEW s \in Sessions, Commit(s) PROVE Frozen
  <2> SUFFICES ASSUME NEW r \in Revisions, rev[r].status # "draft"
               PROVE  /\ rows'[r] = rows[r]
                      /\ \/ rev'[r] = rev[r]
                         \/ /\ rev[r].status = "published"
                            /\ rev'[r] = [rev[r] EXCEPT !.status = "retired"]
    BY DEF Frozen
  <2>1. \A c \in DOMAIN rowWrites[s] : c[1] # r
    BY DEF StoreInv, LockInv
  <2>2. rows'[r] = rows[r]
    BY <1>2, <2>1, WrittenElsewhere DEF Commit, OwnRows
  <2>3. \/ rev'[r] = rev[r]
        \/ rev[r].status = "published" /\ rev'[r] = [rev[r] EXCEPT !.status = "retired"]
    BY <1>2 DEF Commit, OwnRev, StoreInv, LockInv
  <2> QED BY <2>2, <2>3
<1>3. UNCHANGED <<rev, rows>> \/ \E s \in Sessions : Commit(s)
  <2>1. ASSUME NEW s \in Sessions, Editing(s) PROVE UNCHANGED <<rev, rows>>
    BY <2>1, Zenon DEF Editing, Edit, SetSchema, Update
  <2>2. ASSUME NEW s \in Sessions, Publishing(s) PROVE UNCHANGED <<rev, rows>>
    BY <2>2 DEF Publishing, Survey, Publish, Retire, Update
  <2>3. ASSUME NEW s \in Sessions, Abort(s) PROVE UNCHANGED <<rev, rows>>
    BY <2>3 DEF Abort
  <2>4. LoadRevision \/ LoadTables => UNCHANGED <<rev, rows>>
    BY DEF LoadRevision, LoadTables
  <2> QED BY <2>1, <2>2, <2>3, <2>4 DEF Next
<1> QED BY <1>1, <1>2, <1>3

-----------------------------------------------------------------------------
(* The loader.                                                             *)

\* The stages of a load are six, and of those that fail one is the first.
LEMMA FirstStage ==
    ASSUME NEW T \in SUBSET (1 .. 6), T # {}
    PROVE  \E i \in T : \A j \in T : i <= j
<1>1. CASE 1 \in T
  BY <1>1
<1>2. CASE 1 \notin T /\ 2 \in T
  BY <1>2
<1>3. CASE 1 \notin T /\ 2 \notin T /\ 3 \in T
  BY <1>3
<1>4. CASE 1 \notin T /\ 2 \notin T /\ 3 \notin T /\ 4 \in T
  BY <1>4
<1>5. CASE 1 \notin T /\ 2 \notin T /\ 3 \notin T /\ 4 \notin T /\ 5 \in T
  BY <1>5
<1>6. CASE T = {6}
  BY <1>6
<1>7. ASSUME 1 \notin T, 2 \notin T, 3 \notin T, 4 \notin T, 5 \notin T PROVE T = {6}
  <2>1. \A i \in T : i = 6
    BY <1>7
  <2> QED BY <2>1
<1> QED BY <1>1, <1>2, <1>3, <1>4, <1>5, <1>6, <1>7

\* What a load reports is reported by a stage, and if it reports nothing no stage
\* does (load_published_internal).
LEMMA ErrorsOfStages ==
    ASSUME NEW content, NEW schema
    PROVE  /\ \A e \in LoadErrors(content, schema) :
                 e # "none" /\ \E i \in 1 .. 6 : e \in Stages(content, schema)[i]
           /\ LoadErrors(content, schema) = {} =>
                 \A i \in 1 .. 6 : Stages(content, schema)[i] \subseteq {"none"}
<1> DEFINE stages == Stages(content, schema)
           failing == {i \in 1 .. 6 : stages[i] \ {"none"} # {}}
           first == CHOOSE i \in failing : \A j \in failing : i <= j
<1>1. LoadErrors(content, schema) = IF failing = {} THEN {} ELSE stages[first] \ {"none"}
  BY DEF LoadErrors
<1> HIDE DEF stages
<1>2. failing # {} => first \in failing
  BY FirstStage
<1> QED BY <1>1, <1>2 DEF stages

\* What a row refers to is there: the row of each of its keys.
LEMMA Referred ==
    ASSUME NEW content, NEW schema, Constraints(content, schema, {}),
           NEW x \in content, NEW table, NEW id, <<table, id>> \in RefKeys(x)
    PROVE  \E y \in content : y.table = table /\ y.id = id
<1>1. PICK y \in content : Key(y) = <<table, id>>
  BY DEF Constraints
<1> QED BY <1>1 DEF Key

\* The models, relationships and fields that rows name are there.
LEMMA ReferredRows ==
    ASSUME NEW content, NEW schema, Constraints(content, schema, {})
    PROVE  /\ \A x \in content : x.table \in {"field", "metric", "writable_model"} =>
                 x.model \in Keys(content, "model")
           /\ \A x \in RowsOf(content, "relationship") :
                 x.from \in Keys(content, "model") /\ x.to \in Keys(content, "model")
           /\ \A x \in RowsOf(content, "column") :
                 \E r \in RowsOf(content, "relationship") : r.id = x.relationship
           /\ \A x \in RowsOf(content, "writable_field") :
                 \E w \in RowsOf(content, "writable_model") : w.id = x.model
<1>1. ASSUME NEW x \in content, x.table \in {"field", "metric", "writable_model"}
      PROVE  x.model \in Keys(content, "model")
  <2>1. <<"model", x.model>> \in RefKeys(x)
    BY <1>1 DEF RefKeys
  <2> QED BY <2>1, Referred DEF Keys, RowsOf
<1>2. ASSUME NEW x \in RowsOf(content, "relationship")
      PROVE  x.from \in Keys(content, "model") /\ x.to \in Keys(content, "model")
  <2>1. x \in content /\ <<"model", x.from>> \in RefKeys(x) /\ <<"model", x.to>> \in RefKeys(x)
    BY <1>2 DEF RefKeys, RowsOf
  <2> QED BY <2>1, Referred DEF Keys, RowsOf
<1>3. ASSUME NEW x \in RowsOf(content, "column")
      PROVE  \E r \in RowsOf(content, "relationship") : r.id = x.relationship
  <2>1. x \in content /\ <<"relationship", x.relationship>> \in RefKeys(x)
    BY <1>3 DEF RefKeys, RowsOf
  <2> QED BY <2>1, Referred DEF RowsOf
<1>4. ASSUME NEW x \in RowsOf(content, "writable_field")
      PROVE  \E w \in RowsOf(content, "writable_model") : w.id = x.model
  <2>1. x \in content /\ <<"writable_model", x.model>> \in RefKeys(x)
    BY <1>4 DEF RefKeys, RowsOf
  <2> QED BY <2>1, Referred DEF RowsOf
<1> QED BY <1>1, <1>2, <1>3, <1>4

\* The foreign keys and checks leave the loader without its errors about unknown
\* models and about anchors in schema version 1.
LEMMA ConstrainedLoads ==
    ASSUME NEW content, NEW schema, Constraints(content, schema, {})
    PROVE  LoadErrors(content, schema) \cap {"unknown_model", "aggregation_anchor"} = {}
<1> DEFINE Excluded == {"unknown_model", "aggregation_anchor"}
<1>1. \A f \in RowsOf(content, "field") : FieldError(content, f) \notin Excluded
  BY ReferredRows DEF FieldError, RowsOf
<1>2. \A m \in RowsOf(content, "metric") : MetricError(content, schema, m) \notin Excluded
  BY ReferredRows DEF MetricError, RowsOf, Constraints, AnchorValid
<1>3. \A r \in RowsOf(content, "relationship") : RelationshipError(content, r) \notin Excluded
  BY ReferredRows DEF RelationshipError
<1>4. \A w \in RowsOf(content, "writable_model") : WritableError(content, w) \notin Excluded
  BY DEF WritableError
<1>5. ASSUME NEW i \in 1 .. 6 PROVE Stages(content, schema)[i] \cap Excluded = {}
  BY <1>1, <1>2, <1>3, <1>4 DEF Stages
<1> QED BY <1>5, ErrorsOfStages

\* A snapshot has a model for each model row, with what the rows add to it.
HasRows(content, schema, id, m) ==
    /\ m.name = id
    /\ \A f \in RowsOf(content, "field") :
          f.model = id => LoadedField(content, f) \in m.fields
    /\ \A x \in RowsOf(content, "metric") :
          x.model = id => LoadedMetric(content, schema, x) \in m.metrics
    /\ \A r \in RowsOf(content, "relationship") :
          r.from = id => LoadedRelationship(content, r) \in m.relationships
    /\ \A w \in RowsOf(content, "writable_model") :
          w.model = id => LoadedPolicy(content, w) \in m.writable

LEMMA ModelIsLoaded ==
    ASSUME NEW content, NEW schema, NEW id \in Keys(content, "model")
    PROVE  \E m \in Snapshot(content, schema).models : HasRows(content, schema, id, m)
<1>1. PICK row \in RowsOf(content, "model") : row.id = id
  BY DEF Keys
<1> DEFINE m == LoadedModel(content, schema, row)
<1>2. m \in Snapshot(content, schema).models
  BY DEF Snapshot
<1>3. /\ m.name = id /\ m.writable = LoadedWritable(content, id)
      /\ m.fields = {LoadedField(content, f) : f \in
                        {x \in RowsOf(content, "field") : x.model = id}}
      /\ m.metrics = {LoadedMetric(content, schema, x) : x \in
                         {y \in RowsOf(content, "metric") : y.model = id}}
      /\ m.relationships = {LoadedRelationship(content, r) : r \in
                               {x \in RowsOf(content, "relationship") : x.from = id}}
  BY <1>1, Zenon DEF LoadedModel
<1> HIDE DEF m
<1>4. HasRows(content, schema, id, m)
  BY <1>3, Zenon DEF LoadedWritable, HasRows
<1> QED BY <1>2, <1>4

\* Each part of a snapshot comes from a row.
FieldsOf(content, m) ==
    /\ \A f \in m.fields : \E x \in RowsOf(content, "field") :
          x.model = m.name /\ f = LoadedField(content, x)
    /\ \A f \in RowsOf(content, "field") :
          f.model = m.name => LoadedField(content, f) \in m.fields
MetricsOf(content, schema, m) ==
    \A y \in m.metrics : \E x \in RowsOf(content, "metric") :
       x.model = m.name /\ y = LoadedMetric(content, schema, x)
RelationshipsOf(content, m) ==
    /\ \A j \in m.relationships : \E x \in RowsOf(content, "relationship") :
          x.from = m.name /\ j = LoadedRelationship(content, x)
    /\ \A r \in RowsOf(content, "relationship") :
          r.from = m.name => LoadedRelationship(content, r) \in m.relationships

LEMMA ModelIsStored ==
    ASSUME NEW content, NEW schema, NEW m \in Snapshot(content, schema).models
    PROVE  /\ m.name \in Keys(content, "model") /\ FieldsOf(content, m)
           /\ MetricsOf(content, schema, m) /\ RelationshipsOf(content, m)
<1>1. PICK row \in RowsOf(content, "model") : m = LoadedModel(content, schema, row)
  BY DEF Snapshot
<1>2. /\ m.name = row.id
      /\ m.fields = {LoadedField(content, f) : f \in
                        {x \in RowsOf(content, "field") : x.model = row.id}}
      /\ m.metrics = {LoadedMetric(content, schema, x) : x \in
                         {y \in RowsOf(content, "metric") : y.model = row.id}}
      /\ m.relationships = {LoadedRelationship(content, r) : r \in
                               {x \in RowsOf(content, "relationship") : x.from = row.id}}
  BY <1>1, Zenon DEF LoadedModel
<1>3. m.name \in Keys(content, "model")
  BY <1>2, Zenon DEF Keys
<1>4. FieldsOf(content, m)
  BY <1>2 DEF FieldsOf
<1>5. MetricsOf(content, schema, m)
  BY <1>2 DEF MetricsOf
<1>6. RelationshipsOf(content, m)
  BY <1>2 DEF RelationshipsOf
<1> QED BY <1>3, <1>4, <1>5, <1>6

\* A field's row is found by its key.
LEMMA NameOfField ==
    ASSUME NEW content, Keyed(content), NEW f \in RowsOf(content, "field")
    PROVE  NameOf(content, f.id) = f.name
<1>1. \A g \in RowsOf(content, "field") : g.id = f.id => g = f
  BY DEF Keyed, Key, RowsOf
<1> QED BY <1>1 DEF NameOf

\* A load without errors: every column pair is the one of its relationship, fields
\* keep to the relationships of their model, and only an upsert has conflict fields.
LEMMA LoadedRows ==
    ASSUME NEW content, NEW schema, LoadErrors(content, schema) = {}
    PROVE  /\ \A f \in RowsOf(content, "field") : ~BoundElsewhere(content, f)
           /\ \A r \in RowsOf(content, "relationship") :
                 \A c, d \in ColumnsOf(content, r) : c = d
           /\ \A w \in RowsOf(content, "writable_model") :
                 \A x \in WritableFields(content, w) : x.conflict # 0 => w.upsert
<1>1. \A i \in 1 .. 6 : Stages(content, schema)[i] \subseteq {"none"}
  BY ErrorsOfStages, SMTT(30)
<1>2. \A f \in RowsOf(content, "field") : FieldError(content, f) = "none"
  <2>1. Stages(content, schema)[3] = {FieldError(content, f) : f \in RowsOf(content, "field")}
    BY DEF Stages
  <2> QED BY <1>1, <2>1
<1>3. \A r \in RowsOf(content, "relationship") : RelationshipError(content, r) = "none"
  <2>1. Stages(content, schema)[5]
          = {RelationshipError(content, r) : r \in RowsOf(content, "relationship")}
    BY DEF Stages
  <2> QED BY <1>1, <2>1
<1>4. \A w \in RowsOf(content, "writable_model") : WritableError(content, w) = "none"
  <2>1. Stages(content, schema)[6]
          = {WritableError(content, w) : w \in RowsOf(content, "writable_model")}
    BY DEF Stages
  <2> QED BY <1>1, <2>1
<1>5. \A f \in RowsOf(content, "field") : ~BoundElsewhere(content, f)
  BY <1>2 DEF FieldError
<1>6. \A r \in RowsOf(content, "relationship") : \A c, d \in ColumnsOf(content, r) : c = d
  BY <1>3 DEF RelationshipError
<1>7. \A w \in RowsOf(content, "writable_model") :
        \A x \in WritableFields(content, w) : x.conflict # 0 => w.upsert
  BY <1>4 DEF WritableError
<1> QED BY <1>5, <1>6, <1>7

\* Every row that was read is in the snapshot.
LEMMA RowsArePresent ==
    ASSUME NEW content, NEW schema, content \subseteq Pool, Keyed(content),
           Constraints(content, schema, {}), LoadErrors(content, schema) = {},
           NEW x \in content
    PROVE  Present(Snapshot(content, schema), content, x)
<1> DEFINE snapshot == Snapshot(content, schema)
<1>1. x.table \in {"model", "field", "metric", "relationship", "column",
                   "writable_model", "writable_field"}
  BY BaseAssumption
<1>2. CASE x.table = "model"
  <2>1. x.id \in Keys(content, "model")
    BY <1>2 DEF Keys, RowsOf
  <2>2. PICK m \in snapshot.models : HasRows(content, schema, x.id, m)
    BY <2>1, ModelIsLoaded
  <2> QED BY <1>2, <2>2 DEF Present, HasRows
<1>3. CASE x.table = "field"
  <2>1. x.model \in Keys(content, "model") /\ x \in RowsOf(content, "field")
    BY <1>3, ReferredRows DEF RowsOf
  <2>4. PICK m \in snapshot.models : HasRows(content, schema, x.model, m)
    BY <2>1, ModelIsLoaded
  <2>2. m.name = x.model /\ LoadedField(content, x) \in m.fields
    BY <2>1, <2>4 DEF HasRows
  <2>3. LoadedField(content, x).name = x.name /\ LoadedField(content, x).via = x.via
    BY DEF LoadedField
  <2> QED BY <1>3, <2>2, <2>3 DEF Present
<1>4. CASE x.table = "metric"
  <2>1. x.model \in Keys(content, "model") /\ x \in RowsOf(content, "metric")
    BY <1>4, ReferredRows DEF RowsOf
  <2>4. PICK m \in snapshot.models : HasRows(content, schema, x.model, m)
    BY <2>1, ModelIsLoaded
  <2>2. m.name = x.model /\ LoadedMetric(content, schema, x) \in m.metrics
    BY <2>1, <2>4 DEF HasRows
  <2>3. /\ LoadedMetric(content, schema, x).name = x.id
        /\ x.anchor # "none" =>
              LoadedMetric(content, schema, x).anchor = NameOf(content, x.anchor)
    BY DEF LoadedMetric
  <2> QED BY <1>4, <2>2, <2>3 DEF Present
<1>5. CASE x.table = "relationship"
  <2>1. x.from \in Keys(content, "model") /\ x \in RowsOf(content, "relationship")
    BY <1>5, ReferredRows DEF RowsOf
  <2>4. PICK m \in snapshot.models : HasRows(content, schema, x.from, m)
    BY <2>1, ModelIsLoaded
  <2>2. m.name = x.from /\ LoadedRelationship(content, x) \in m.relationships
    BY <2>1, <2>4 DEF HasRows
  <2>3. /\ LoadedRelationship(content, x).name = x.id
        /\ LoadedRelationship(content, x).target = x.to
    BY DEF LoadedRelationship
  <2> QED BY <1>5, <2>2, <2>3 DEF Present
<1>6. CASE x.table = "column"
  <2>1. x \in RowsOf(content, "column")
    BY <1>6 DEF RowsOf
  <2>2. PICK r \in RowsOf(content, "relationship") : r.id = x.relationship
    BY <2>1, ReferredRows
  <2>7. r.from \in Keys(content, "model")
    BY ReferredRows
  <2>8. PICK m \in snapshot.models : HasRows(content, schema, r.from, m)
    BY <2>7, ModelIsLoaded
  <2>3. LoadedRelationship(content, r) \in m.relationships
    BY <2>8 DEF HasRows
  <2>4. x \in ColumnsOf(content, r) /\ \A c \in ColumnsOf(content, r) : c = x
    BY <2>1, <2>2, LoadedRows DEF ColumnsOf
  <2>5. (CHOOSE c \in ColumnsOf(content, r) : TRUE) = x
    BY <2>4
  <2>6. /\ LoadedRelationship(content, r).name = x.relationship
        /\ LoadedRelationship(content, r).from = NameOf(content, x.from)
        /\ LoadedRelationship(content, r).to = NameOf(content, x.to)
    BY <2>2, <2>5, Zenon DEF LoadedRelationship
  <2> QED BY <1>6, <2>3, <2>6 DEF Present
<1>7. CASE x.table = "writable_model"
  <2>1. x.model \in Keys(content, "model") /\ x \in RowsOf(content, "writable_model")
    BY <1>7, ReferredRows DEF RowsOf
  <2>4. PICK m \in snapshot.models : HasRows(content, schema, x.model, m)
    BY <2>1, ModelIsLoaded
  <2>2. m.name = x.model /\ LoadedPolicy(content, x) \in m.writable
    BY <2>1, <2>4 DEF HasRows
  <2>3. LoadedPolicy(content, x).insert = x.insert /\ LoadedPolicy(content, x).upsert = x.upsert
    BY DEF LoadedPolicy
  <2> QED BY <1>7, <2>2, <2>3 DEF Present
<1>8. CASE x.table = "writable_field"
  <2>1. x \in RowsOf(content, "writable_field")
    BY <1>8 DEF RowsOf
  <2>2. PICK w \in RowsOf(content, "writable_model") : w.id = x.model
    BY <2>1, ReferredRows
  <2>3. w.model = x.model /\ w.model \in Keys(content, "model") /\ x \in WritableFields(content, w)
    BY <2>1, <2>2, ReferredRows, BaseAssumption DEF WritableFields, RowsOf
  <2>8. PICK m \in snapshot.models : HasRows(content, schema, w.model, m)
    BY <2>3, ModelIsLoaded, Zenon
  <2>4. m.name = x.model /\ LoadedPolicy(content, w) \in m.writable
    BY <2>3, <2>8, Zenon DEF HasRows
  <2> DEFINE name == NameOf(content, x.field)
  <2>5. ASSUME x.insertable PROVE \E p \in LoadedPolicy(content, w).fields : p.field = name
    <3> DEFINE field(y) == CHOOSE f \in RowsOf(content, "field") :
                              f.model = w.model /\ f.name = NameOf(content, y.field)
               part(y) == [field |-> NameOf(content, y.field), nullable |-> field(y).nullable]
    <3>1. LoadedPolicy(content, w).fields
            = {part(y) : y \in {z \in WritableFields(content, w) : z.insertable}}
      BY DEF LoadedPolicy
    <3>2. part(x) \in LoadedPolicy(content, w).fields
      BY <2>3, <2>5, <3>1, Zenon
    <3>3. part(x).field = name
      BY Zenon
    <3> QED BY <3>2, <3>3, Zenon
  <2>6. x.conflict # 0 => name \in LoadedPolicy(content, w).conflict /\ LoadedPolicy(content, w).upsert
    BY <2>3, LoadedRows DEF LoadedPolicy
  <2>7. ASSUME x.returning # 0 PROVE <<name, name>> \in LoadedPolicy(content, w).returning
    <3> DEFINE fields == WritableFields(content, w)
    <3>1. LoadedPolicy(content, w).returning
            = {<<NameOf(content, p[1].field), NameOf(content, p[2].field)>> :
                  p \in {q \in fields \X fields :
                           q[1].returning # 0 /\ q[1].returning <= q[2].returning}}
      BY Zenon DEF LoadedPolicy
    <3>2. x.returning <= x.returning
      BY <1>8, BaseAssumption
    <3> HIDE DEF fields
    <3>3. <<x, x>> \in {q \in fields \X fields :
                           q[1].returning # 0 /\ q[1].returning <= q[2].returning}
      BY <2>3, <2>7, <3>2 DEF fields
    <3> QED BY <3>1, <3>3
  <2> QED BY <1>8, <2>4, <2>5, <2>6, <2>7 DEF Present
<1> QED BY <1>1, <1>2, <1>3, <1>4, <1>5, <1>6, <1>7, <1>8

\* Nothing is in a snapshot that was not read.
LEMMA NothingIsAdded ==
    ASSUME NEW content, NEW schema
    PROVE  Stored(Snapshot(content, schema), content)
<1>1. \A x : /\ LoadedField(content, x).name = x.name
             /\ LoadedMetric(content, schema, x).name = x.id
             /\ LoadedRelationship(content, x).name = x.id
  BY DEF LoadedField, LoadedMetric, LoadedRelationship
<1>2. ASSUME NEW m \in Snapshot(content, schema).models
      PROVE  /\ m.name \in Keys(content, "model")
             /\ \A f \in m.fields : \E x \in RowsOf(content, "field") :
                   x.model = m.name /\ x.name = f.name
             /\ \A y \in m.metrics : \E x \in RowsOf(content, "metric") :
                   x.model = m.name /\ x.id = y.name
             /\ \A j \in m.relationships : \E x \in RowsOf(content, "relationship") :
                   x.from = m.name /\ x.id = j.name
  <2>1. /\ m.name \in Keys(content, "model") /\ FieldsOf(content, m)
        /\ MetricsOf(content, schema, m) /\ RelationshipsOf(content, m)
    BY ModelIsStored
  <2>2. ASSUME NEW f \in m.fields
        PROVE  \E x \in RowsOf(content, "field") : x.model = m.name /\ x.name = f.name
    <3>1. PICK x \in RowsOf(content, "field") :
            x.model = m.name /\ f = LoadedField(content, x)
      BY <2>1 DEF FieldsOf
    <3> QED BY <1>1, <3>1
  <2>3. ASSUME NEW y \in m.metrics
        PROVE  \E x \in RowsOf(content, "metric") : x.model = m.name /\ x.id = y.name
    <3>1. PICK x \in RowsOf(content, "metric") :
            x.model = m.name /\ y = LoadedMetric(content, schema, x)
      BY <2>1 DEF MetricsOf
    <3> QED BY <1>1, <3>1
  <2>4. ASSUME NEW j \in m.relationships
        PROVE  \E x \in RowsOf(content, "relationship") : x.from = m.name /\ x.id = j.name
    <3>1. PICK x \in RowsOf(content, "relationship") :
            x.from = m.name /\ j = LoadedRelationship(content, x)
      BY <2>1 DEF RelationshipsOf
    <3> QED BY <1>1, <3>1, Zenon
  <2> QED BY <2>1, <2>2, <2>3, <2>4
<1> QED BY <1>2 DEF Stored

\* What a snapshot refers to by name is in it.
LEMMA SnapshotIsClosed ==
    ASSUME NEW content, NEW schema, Keyed(content),
           Constraints(content, schema, {}), LoadErrors(content, schema) = {}
    PROVE  Closed(Snapshot(content, schema))
<1> SUFFICES ASSUME NEW m \in Snapshot(content, schema).models
             PROVE  /\ \A f \in m.fields : f.via # "none" =>
                          \E j \in m.relationships : j.name = f.via
                    /\ \A j \in m.relationships :
                          \E t \in Snapshot(content, schema).models : t.name = j.target
                    /\ \A y \in m.metrics : y.anchor # "none" =>
                          \E f \in m.fields : f.name = y.anchor /\ f.key /\ f.via = "none"
  BY DEF Closed
<1>0. /\ FieldsOf(content, m) /\ MetricsOf(content, schema, m)
      /\ RelationshipsOf(content, m)
  BY ModelIsStored
<1>1. \A f \in m.fields : \E x \in RowsOf(content, "field") :
         x.model = m.name /\ f = LoadedField(content, x)
  BY <1>0 DEF FieldsOf
<1>2. \A y \in m.metrics : \E x \in RowsOf(content, "metric") :
         x.model = m.name /\ y = LoadedMetric(content, schema, x)
  BY <1>0 DEF MetricsOf
<1>3. \A j \in m.relationships : \E x \in RowsOf(content, "relationship") :
         x.from = m.name /\ j = LoadedRelationship(content, x)
  BY <1>0 DEF RelationshipsOf
<1>4. ASSUME NEW f \in m.fields, f.via # "none"
      PROVE  \E j \in m.relationships : j.name = f.via
  <2>1. PICK x \in RowsOf(content, "field") : x.model = m.name /\ f = LoadedField(content, x)
    BY <1>1
  <2>2. x.via = f.via
    BY <2>1 DEF LoadedField
  <2>3. PICK r \in RowsOf(content, "relationship") : r.id = x.via /\ r.from = x.model
    <3>1. ~BoundElsewhere(content, x)
      BY <2>1, LoadedRows, Zenon
    <3> QED BY <1>4, <2>2, <3>1 DEF BoundElsewhere
  <2>4. LoadedRelationship(content, r) \in m.relationships
    BY <1>0, <2>1, <2>3, Zenon DEF RelationshipsOf
  <2>5. LoadedRelationship(content, r).name = r.id
    BY DEF LoadedRelationship
  <2> QED BY <2>2, <2>3, <2>4, <2>5
<1>5. ASSUME NEW j \in m.relationships
      PROVE  \E t \in Snapshot(content, schema).models : t.name = j.target
  <2>1. PICK r \in RowsOf(content, "relationship") : j = LoadedRelationship(content, r)
    BY <1>3
  <2>2. j.target = r.to /\ r.to \in Keys(content, "model")
    BY <2>1, ReferredRows, Zenon DEF LoadedRelationship
  <2>3. \E t \in Snapshot(content, schema).models : t.name = r.to
    <3>1. PICK t \in Snapshot(content, schema).models : HasRows(content, schema, r.to, t)
      BY <2>2, ModelIsLoaded, Zenon
    <3> QED BY <3>1, Zenon DEF HasRows
  <2> QED BY <2>2, <2>3
<1>6. ASSUME NEW y \in m.metrics, y.anchor # "none"
      PROVE  \E f \in m.fields : f.name = y.anchor /\ f.key /\ f.via = "none"
  <2>1. PICK x \in RowsOf(content, "metric") :
          x.model = m.name /\ y = LoadedMetric(content, schema, x)
    BY <1>2
  <2>2. x.anchor # "none" /\ y.anchor = NameOf(content, x.anchor)
    BY <1>6, <2>1, Zenon DEF LoadedMetric
  <2>3. PICK f \in RowsOf(content, "field") :
          f.id = x.anchor /\ f.model = x.model /\ f.kind = "entity_key" /\ f.via = "none"
    BY <2>2 DEF Constraints, AnchorValid
  <2>4. LoadedField(content, f) \in m.fields
    BY <1>0, <2>1, <2>3, Zenon DEF FieldsOf
  <2>5. /\ LoadedField(content, f).name = f.name /\ LoadedField(content, f).via = "none"
        /\ LoadedField(content, f).key
    BY <2>3, Zenon DEF LoadedField
  <2>6. f.name = y.anchor
    BY <2>2, <2>3, NameOfField
  <2> QED BY <2>4, <2>5, <2>6
<1> QED BY <1>4, <1>5, <1>6

\* What the loader has read, and loaded, stays what its revision holds, because
\* the revision is frozen.
LEMMA LoaderStep == RevisionInv /\ [Next]_vars => LoaderInv'
<1> SUFFICES ASSUME RevisionInv, [Next]_vars PROVE LoaderInv'
  OBVIOUS
<1>0. StoreInv /\ TypeOK /\ LoaderInv
  BY DEF RevisionInv, StoreInv
<1>1. \A r \in Revisions : rev[r].status # "draft" =>
        /\ rows'[r] = rows[r] /\ rev'[r].status # "draft"
        /\ rev'[r].schema = rev[r].schema /\ rev'[r].hash = rev[r].hash
  <2> SUFFICES ASSUME NEW r \in Revisions, rev[r].status # "draft"
               PROVE  /\ rows'[r] = rows[r] /\ rev'[r].status # "draft"
                      /\ rev'[r].schema = rev[r].schema /\ rev'[r].hash = rev[r].hash
    OBVIOUS
  <2>1. /\ rows'[r] = rows[r]
        /\ rev'[r] = rev[r] \/ rev'[r] = [rev[r] EXCEPT !.status = "retired"]
    BY <1>0, FrozenByStep DEF Frozen
  <2>2. rev[r] = [status |-> rev[r].status, schema |-> rev[r].schema, hash |-> rev[r].hash]
    BY <1>0 DEF TypeOK, RevisionRow
  <2> QED BY <2>1, <2>2
<1>2. CASE UNCHANGED loader
  <2>1. UNCHANGED <<reading, loads, refusals>>
    BY <1>2
  <2>2. ASSUME NEW view \in reading
        PROVE  /\ view.rev \in Revisions /\ rev'[view.rev].status # "draft"
               /\ view.rows = rows'[view.rev]
               /\ view.row.schema = rev'[view.rev].schema
               /\ view.row.hash = rev'[view.rev].hash
    BY <1>0, <1>1, Zenon DEF LoaderInv
  <2>3. ASSUME NEW l \in loads
        PROVE  /\ l.rev \in Revisions /\ rev'[l.rev].status # "draft"
               /\ l.rows = rows'[l.rev] /\ l.snapshot = rev'[l.rev].hash
               /\ LoadErrors(l.rows, rev'[l.rev].schema) = {}
               /\ l.snapshot = {Snapshot(l.rows, rev'[l.rev].schema)}
    <3>1. /\ l.rev \in Revisions /\ rev[l.rev].status # "draft"
          /\ l.rows = rows[l.rev] /\ l.snapshot = rev[l.rev].hash
          /\ LoadErrors(l.rows, rev[l.rev].schema) = {}
          /\ l.snapshot = {Snapshot(l.rows, rev[l.rev].schema)}
      BY <1>0 DEF LoaderInv
    <3> QED BY <1>1, <3>1, Zenon
  <2>4. refusals \cap {"unknown_model", "aggregation_anchor"} = {}
    BY <1>0 DEF LoaderInv
  <2> QED BY <2>1, <2>2, <2>3, <2>4 DEF LoaderInv
<1>3. CASE LoadRevision
  <2>1. PICK r \in Revisions :
          /\ rev[r].status = "published"
          /\ reading' = {[rev |-> r, row |-> rev[r], rows |-> rows[r]]}
    BY <1>3 DEF LoadRevision
  <2>2. UNCHANGED <<rev, rows>> /\ loads' = {} /\ refusals' = {}
    BY <1>3 DEF LoadRevision
  <2>3. ASSUME NEW view \in reading'
        PROVE  /\ view.rev \in Revisions /\ rev'[view.rev].status # "draft"
               /\ view.rows = rows'[view.rev]
               /\ view.row.schema = rev'[view.rev].schema
               /\ view.row.hash = rev'[view.rev].hash
    <3>1. view = [rev |-> r, row |-> rev[r], rows |-> rows[r]]
      BY <2>1
    <3>2. view.rev = r /\ view.row = rev[r] /\ view.rows = rows[r]
      BY <3>1
    <3>3. rev'[r] = rev[r] /\ rows'[r] = rows[r]
      BY <2>2
    <3> QED BY <2>1, <3>2, <3>3
  <2>4. \A l \in loads' : FALSE
    BY <2>2
  <2>5. refusals' \cap {"unknown_model", "aggregation_anchor"} = {}
    BY <2>2
  <2> QED BY <2>3, <2>4, <2>5, Zenon DEF LoaderInv
<1>4. CASE LoadTables
  <2>1. PICK view \in reading :
          LET errors == LoadErrors(view.rows, view.row.schema)
              hash == Hash(view.rows, view.row.schema)
          IN  IF errors # {} THEN refusals' = errors /\ loads' = {}
              ELSE IF hash # view.row.hash
              THEN refusals' = {"hash_mismatch"} /\ loads' = {}
              ELSE /\ loads' = {[rev |-> view.rev, rows |-> view.rows, snapshot |-> hash]}
                   /\ refusals' = {}
    BY <1>4 DEF LoadTables
  <2>2. UNCHANGED <<rev, rows>> /\ reading' = {}
    BY <1>4 DEF LoadTables
  <2>3. /\ view.rev \in Revisions /\ rev[view.rev].status # "draft"
        /\ view.rows = rows[view.rev]
        /\ view.row.schema = rev[view.rev].schema /\ view.row.hash = rev[view.rev].hash
    BY <1>0, Zenon DEF LoaderInv
  <2>4. CASE LoadErrors(view.rows, view.row.schema) # {}
    <3>1. Constraints(view.rows, view.row.schema, {})
      BY <1>0, <2>3 DEF StoreInv, ReferenceInv
    <3>2. refusals' \cap {"unknown_model", "aggregation_anchor"} = {} /\ loads' = {}
      BY <2>1, <2>4, <3>1, ConstrainedLoads
    <3> QED BY <2>2, <3>2 DEF LoaderInv
  <2>5. CASE /\ LoadErrors(view.rows, view.row.schema) = {}
             /\ Hash(view.rows, view.row.schema) # view.row.hash
    BY <2>1, <2>2, <2>5, Zenon DEF LoaderInv
  <2>6. CASE /\ LoadErrors(view.rows, view.row.schema) = {}
             /\ Hash(view.rows, view.row.schema) = view.row.hash
    <3>1. view.row.hash = {Snapshot(view.rows, view.row.schema)}
      BY <2>6 DEF Hash
    <3>2. /\ loads' = {[rev |-> view.rev, rows |-> view.rows, snapshot |-> view.row.hash]}
          /\ refusals' = {}
      BY <2>1, <2>6
    <3>3. ASSUME NEW l \in loads'
          PROVE  /\ l.rev = view.rev /\ l.rows = view.rows /\ l.snapshot = view.row.hash
      BY <3>2
    <3>4. ASSUME NEW l \in loads'
          PROVE  /\ l.rev \in Revisions /\ rev'[l.rev].status # "draft"
                 /\ l.rows = rows'[l.rev] /\ l.snapshot = rev'[l.rev].hash
                 /\ LoadErrors(l.rows, rev'[l.rev].schema) = {}
                 /\ l.snapshot = {Snapshot(l.rows, rev'[l.rev].schema)}
      BY <2>2, <2>3, <2>6, <3>1, <3>3
    <3> QED BY <2>2, <3>2, <3>4, Zenon DEF LoaderInv
  <2> QED BY <2>4, <2>5, <2>6
<1>5. UNCHANGED loader \/ LoadRevision \/ LoadTables
  <2>1. ASSUME NEW s \in Sessions, Editing(s) PROVE UNCHANGED loader
    BY <2>1, Zenon DEF Editing, Edit, SetSchema, Update
  <2>2. ASSUME NEW s \in Sessions, Publishing(s) PROVE UNCHANGED loader
    BY <2>2 DEF Publishing, Survey, Publish, Retire, Update
  <2>3. ASSUME NEW s \in Sessions, Commit(s) \/ Abort(s) PROVE UNCHANGED loader
    BY <2>3 DEF Commit, Abort
  <2> QED BY <2>1, <2>2, <2>3 DEF Next
<1> QED BY <1>2, <1>3, <1>4, <1>5

-----------------------------------------------------------------------------
(* Theorems.                                                               *)

\* Locks, uncommitted changes and committed rows stay in the invariant, for any
\* number of sessions that edit, publish and retire (the triggers and indexes
\* of migrations 0001, 0006 and 0007).
THEOREM StoreInvariance == Spec => []StoreInv
BY StoreInitially, StoreStep, PTL DEF Spec

\* And so does what the loader has read beside them.
THEOREM RevisionInvariance == Spec => []RevisionInv
<1>1. Init => RevisionInv
  <2>1. Init => LoaderInv
    BY DEF Init, LoaderInv
  <2> QED BY <2>1, StoreInitially DEF RevisionInv
<1>2. RevisionInv /\ [Next]_vars => RevisionInv'
  BY LoaderStep, StoreStep DEF RevisionInv
<1> QED BY <1>1, <1>2, PTL DEF Spec

\* A load that succeeds is whole and closed, has the hash of its publication, and
\* is what its revision still holds (load_published_internal).
THEOREM LoadsAreAlwaysWhole == Spec => []LoadsAreWhole
<1>1. RevisionInv => LoadsAreWhole
  <2> SUFFICES ASSUME RevisionInv PROVE LoadsAreWhole
    OBVIOUS
  <2>0. StoreInv /\ LoaderInv
    BY DEF RevisionInv
  <2>1. ASSUME NEW l \in loads
        PROVE  /\ l.rows = rows[l.rev] /\ l.snapshot = rev[l.rev].hash
               /\ \E snapshot \in l.snapshot :
                     /\ \A x \in l.rows : Present(snapshot, l.rows, x)
                     /\ Stored(snapshot, l.rows) /\ Closed(snapshot)
    <3> DEFINE schema == rev[l.rev].schema
    <3>1. /\ l.rev \in Revisions /\ l.rows = rows[l.rev] /\ l.snapshot = rev[l.rev].hash
          /\ LoadErrors(l.rows, schema) = {} /\ l.snapshot = {Snapshot(l.rows, schema)}
      BY <2>0 DEF LoaderInv
    <3>2. l.rows \subseteq Pool /\ Keyed(l.rows) /\ Constraints(l.rows, schema, {})
      BY <2>0, <3>1, Zenon DEF StoreInv, TypeOK, ReferenceInv
    <3> HIDE DEF schema
    <3>3. \A x \in l.rows : Present(Snapshot(l.rows, schema), l.rows, x)
      BY <3>1, <3>2, RowsArePresent, Zenon
    <3>4. Stored(Snapshot(l.rows, schema), l.rows) /\ Closed(Snapshot(l.rows, schema))
      BY <3>1, <3>2, NothingIsAdded, SnapshotIsClosed, Zenon
    <3> QED BY <3>1, <3>3, <3>4
  <2>2. refusals \cap {"unknown_model", "aggregation_anchor"} = {}
    BY <2>0 DEF LoaderInv
  <2> QED BY <2>1, <2>2 DEF LoadsAreWhole
<1> QED BY <1>1, RevisionInvariance, PTL

\* At most one revision is ever published (one_published_revision_per_project),
\* so that REVISION_SQL of the loader finds one row.
THEOREM AtMostOnePublished == Spec => []OnePublished
<1>1. StoreInv => OnePublished
  BY SMTT(30) DEF StoreInv, PublicationInv
<1> QED BY <1>1, StoreInvariance, PTL

\* A committed metric keeps its anchor, however other sessions change the field,
\* its model or the revision's schema version (migrations 0006 and 0007).
THEOREM AnchorsAlwaysValid == Spec => []AnchorsStayValid
<1>1. StoreInv => AnchorsStayValid
  BY DEF StoreInv, ReferenceInv, AnchorsStayValid, Constraints
<1> QED BY <1>1, StoreInvariance, PTL

\* A published revision and its rows never change but for the retirement
\* (require_draft_revision and enforce_revision_transition).
THEOREM PublishedStaysFrozen == Spec => PublishedIsFrozen
<1>1. StoreInv /\ [Next]_vars => [Frozen]_vars
  BY FrozenByStep
<1>2. Spec => [][Frozen]_vars
  BY <1>1, StoreInvariance, PTL DEF Spec
<1> QED BY <1>2 DEF PublishedIsFrozen

=============================================================================
