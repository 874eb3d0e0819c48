------------------------- MODULE QueryStreamProofs --------------------------
(***************************************************************************)
(* The inductive invariant of QueryStream and what follows from it, for any *)
(* number of revisions, rows and cancel requests and any limit on bytes.     *)
(***************************************************************************)
EXTENDS QueryStream, WellFoundedInduction, TLAPS

(* The bytes of a result.                                                  *)

\* A set of naturals with zero and the successor of each member has all of them.
LEMMA Induction ==
    ASSUME NEW S, 0 \in S, \A n \in Nat : n \in S => n + 1 \in S
    PROVE  Nat \subseteq S
<1> DEFINE T == Nat \ S
           R == OpToRel(<, Nat)
<1> SUFFICES ASSUME T # {} PROVE FALSE
  OBVIOUS
<1>1. IsWellFoundedOn(R, Nat) /\ T \subseteq Nat
  BY NatLessThanWellFounded, Zenon
<1>2. \E x \in T : \A y \in T : ~(<<y, x>> \in R)
  <2> HIDE DEF T, R
  <2> QED BY <1>1, WFMin, Zenon
<1>3. PICK x \in T : \A y \in T : ~(<<y, x>> \in R)
  BY <1>2, Zenon
<1>4. x \in Nat /\ x # 0 /\ x - 1 \in Nat /\ (x - 1) + 1 = x
  OBVIOUS
<1>5. x - 1 \in T
  BY <1>4
<1>6. <<x - 1, x>> \in R
  BY <1>4 DEF OpToRel
<1> QED BY <1>3, <1>5, <1>6, Zenon

\* The sums of the prefixes of any sequence of lengths exist as a function.
LEMMA PrefixesExist ==
    ASSUME NEW a
    PROVE  \E f : f = [k \in Nat |-> IF k = 0 THEN 0 ELSE f[k - 1] + a[k]]
<1> DEFINE Upto(n, f) == f = [k \in 0 .. n |-> IF k = 0 THEN 0 ELSE f[k - 1] + a[k]]
           S == {n \in Nat : \E f : Upto(n, f)}
<1>1. \A n \in Nat : \E f : Upto(n, f)
  <2>1. 0 \in S
    <3>1. Upto(0, [k \in 0 .. 0 |-> 0])
      OBVIOUS
    <3> QED BY <3>1, Zenon
  <2>2. ASSUME NEW n \in Nat, n \in S PROVE n + 1 \in S
    <3>1. PICK f : Upto(n, f)
      BY <2>2
    <3> DEFINE g == [k \in 0 .. (n + 1) |->
                        IF k = n + 1 THEN f[n] + a[n + 1] ELSE f[k]]
    <3>2. ASSUME NEW k \in 0 .. (n + 1)
          PROVE  g[k] = IF k = 0 THEN 0 ELSE g[k - 1] + a[k]
      <4>1. CASE k = n + 1
        BY <4>1
      <4>2. CASE k # n + 1
        <5>1. k \in 0 .. n /\ g[k] = f[k] /\ (k # 0 => k - 1 \in 0 .. n)
          BY <4>2
        <5>2. f[k] = IF k = 0 THEN 0 ELSE f[k - 1] + a[k]
          BY <3>1, <5>1
        <5> QED BY <5>1, <5>2
      <4> QED BY <4>1, <4>2
    <3>3. Upto(n + 1, g)
      BY <3>2
    <3> HIDE DEF g, Upto
    <3>4. \E h : Upto(n + 1, h)
      BY <3>3
    <3> QED BY <3>4
  <2> HIDE DEF S
  <2>3. Nat \subseteq S
    BY <2>1, <2>2, Induction
  <2> QED BY <2>3, Zenon DEF S
<1>2. ASSUME NEW n \in Nat, NEW f, Upto(n, f), NEW g, Upto(n + 1, g)
      PROVE  f[n] = g[n]
  <2> DEFINE E == {k \in Nat : k <= n => f[k] = g[k]}
  <2>1. 0 \in E
    BY <1>2
  <2>2. ASSUME NEW k \in Nat, k \in E PROVE k + 1 \in E
    <3> SUFFICES ASSUME k + 1 <= n PROVE f[k + 1] = g[k + 1]
      OBVIOUS
    <3>1. f[k + 1] = f[k] + a[k + 1] /\ g[k + 1] = g[k] + a[k + 1]
      BY <1>2
    <3> QED BY <2>2, <3>1
  <2> HIDE DEF E
  <2>3. Nat \subseteq E
    BY <2>1, <2>2, Induction
  <2> QED BY <2>3 DEF E
<1> DEFINE at(n) == CHOOSE f : Upto(n, f)
           F == [k \in Nat |-> at(k)[k]]
<1>3. \A n \in Nat : Upto(n, at(n))
  BY <1>1
<1>4. ASSUME NEW k \in Nat
      PROVE  F[k] = IF k = 0 THEN 0 ELSE F[k - 1] + a[k]
  <2>1. at(k)[k] = IF k = 0 THEN 0 ELSE at(k)[k - 1] + a[k]
    <3>1. Upto(k, at(k))
      BY <1>3
    <3> HIDE DEF at
    <3> QED BY <3>1
  <2>2. CASE k = 0
    BY <2>1, <2>2, Zenon
  <2>3. CASE k # 0
    <3>1. k - 1 \in Nat /\ (k - 1) + 1 = k
      BY <2>3
    <3>2. Upto(k - 1, at(k - 1)) /\ Upto((k - 1) + 1, at(k))
      BY <1>3, <3>1, Zenon
    <3>3. at(k - 1)[k - 1] = at(k)[k - 1]
      <4> HIDE DEF at, Upto
      <4> QED BY <1>2, <3>1, <3>2
    <3> QED BY <2>1, <2>3, <3>1, <3>3
  <2> QED BY <2>2, <2>3
<1>5. F = [k \in Nat |-> IF k = 0 THEN 0 ELSE F[k - 1] + a[k]]
  <2> HIDE DEF at
  <2> QED BY <1>4
<1> QED BY <1>5, Zenon

\* An array of no rows is two brackets; a row adds its length and, unless it is the
\* first, a comma.
LEMMA NextRow ==
    ASSUME Len(RowBytes) \in Nat, \A k \in 1 .. Len(RowBytes) : RowBytes[k] \in Nat
    PROVE  /\ ArrayBytes(0) = 2
           /\ \A k \in Nat : k < Len(RowBytes) =>
                 /\ RowBytes[k + 1] \in Nat /\ ArrayBytes(k) \in Nat
                 /\ ArrayBytes(k + 1)
                      = ArrayBytes(k) + (IF k = 0 THEN 0 ELSE 1) + RowBytes[k + 1]
<1> DEFINE N == Len(RowBytes)
<1> HIDE DEF N
<1>0. N \in Nat /\ \A k \in 1 .. N : RowBytes[k] \in Nat
  BY DEF N
<1>1. PrefixBytes = [k \in Nat |-> IF k = 0 THEN 0 ELSE PrefixBytes[k - 1] + RowBytes[k]]
  <2> DEFINE P(f) == f = [k \in Nat |-> IF k = 0 THEN 0 ELSE f[k - 1] + RowBytes[k]]
  <2>1. PrefixBytes = CHOOSE f : P(f)
    BY DEF PrefixBytes
  <2>2. \E f : P(f)
    BY PrefixesExist, SMTT(30)
  <2> HIDE DEF P
  <2>3. P(PrefixBytes)
    BY <2>1, <2>2
  <2> QED BY <2>3 DEF P
<1>2. /\ PrefixBytes[0] = 0
      /\ \A k \in Nat : PrefixBytes[k + 1] = PrefixBytes[k] + RowBytes[k + 1]
  BY <1>1
<1>3. \A k \in Nat : k <= N => PrefixBytes[k] \in Nat
  <2> DEFINE S == {k \in Nat : k <= N => PrefixBytes[k] \in Nat}
  <2>1. 0 \in S
    BY <1>2
  <2>2. ASSUME NEW k \in Nat, k \in S PROVE k + 1 \in S
    <3> SUFFICES ASSUME k + 1 <= N PROVE PrefixBytes[k + 1] \in Nat
      OBVIOUS
    <3>1. PrefixBytes[k] \in Nat /\ RowBytes[k + 1] \in Nat
      BY <1>0, <2>2
    <3>2. PrefixBytes[k + 1] = PrefixBytes[k] + RowBytes[k + 1]
      BY <1>2
    <3> QED BY <3>1, <3>2
  <2> HIDE DEF S
  <2>3. Nat \subseteq S
    BY <2>1, <2>2, Induction
  <2> QED BY <2>3 DEF S
<1>4. ASSUME NEW k \in Nat, k < N
      PROVE  /\ RowBytes[k + 1] \in Nat /\ ArrayBytes(k) \in Nat
             /\ ArrayBytes(k + 1)
                  = ArrayBytes(k) + (IF k = 0 THEN 0 ELSE 1) + RowBytes[k + 1]
  <2>1. PICK p \in Nat, b \in Nat : p = PrefixBytes[k] /\ b = RowBytes[k + 1]
    BY <1>0, <1>3, <1>4
  <2>2. PrefixBytes[k + 1] = p + b
    BY <1>2, <2>1
  <2>3. ArrayBytes(k + 1) = 2 + k + (p + b)
    BY <2>2 DEF ArrayBytes
  <2>4. CASE k = 0
    <3>1. ArrayBytes(k) = 2 + p /\ ArrayBytes(k + 1) = 2 + (p + b)
      BY <2>1, <2>3, <2>4 DEF ArrayBytes
    <3>2. 2 + p \in Nat /\ 2 + (p + b) = 2 + p + 0 + b
      OBVIOUS
    <3> QED BY <2>1, <2>4, <3>1, <3>2
  <2>5. CASE k # 0
    <3>1. ArrayBytes(k) = 2 + (k - 1) + p
      BY <2>1, <2>5 DEF ArrayBytes
    <3>2. 2 + (k - 1) + p \in Nat /\ 2 + k + (p + b) = 2 + (k - 1) + p + 1 + b
      BY <2>5
    <3> QED BY <2>1, <2>3, <2>5, <3>1, <3>2
  <2> QED BY <2>4, <2>5
<1>5. ArrayBytes(0) = 2
  BY <1>2 DEF ArrayBytes
<1> QED BY <1>4, <1>5 DEF N

-----------------------------------------------------------------------------
(* The call.                                                               *)

USE StreamAssumption DEF control, thread, call, history, vars, Alive, Preparing, Source,
        Statuses, Errors, NoRow

\* TypeOK in two parts: the flags, and the rest.
Flags ==
    /\ armed \in BOOLEAN /\ handle \in BOOLEAN /\ disconnected \in BOOLEAN
    /\ finished \in BOOLEAN /\ busy \in BOOLEAN
    /\ auditLost \in BOOLEAN /\ confirmed \in BOOLEAN

Shapes ==
    /\ server \in {"serving", "draining", "stopping", "exited"}
    /\ stream \in {"open", "answered", "expired", "ended"}
    /\ canceller \in {"none", "check", "cancel", "gave_up", "done"}
    /\ attempts \in 0 .. MaxAttempts
    /\ pc \in {"queued", "finish", "send", "returned"} \cup Preparing \cup Source
    /\ role \in [exists : BOOLEAN, unsafe : BOOLEAN, owner : BOOLEAN, member : BOOLEAN]
    /\ total \in 0 .. Len(RowBytes)
    /\ published \in 1 .. Revisions /\ loaded \in 0 .. Revisions
    /\ row \in [status : Statuses \cup {"none"}, revision : 0 .. Revisions,
                rows : 0 .. Len(RowBytes), error : Errors \cup {"none"}]
    /\ fetched \in [rows : 0 .. Len(RowBytes), bytes : Nat, truncated : BOOLEAN]
    /\ outcome \in Errors \cup {"none", "ok"}
    /\ event \in [kind : Errors \cup {"none", "rows", "too_large", "timeout"},
                  revision : 0 .. Revisions, rows : 0 .. Len(RowBytes)]

\* The two parts are the type invariant of the call.
LEMMA TypeParts == TypeOK <=> Flags /\ Shapes
BY DEF TypeOK, Flags, Shapes

\* streaming_response and the tables of the executor start in the invariant.
LEMMA CallInitially == Init => CallInv
<1> SUFFICES ASSUME Init PROVE CallInv
  OBVIOUS
<1>1. role \in [exists : BOOLEAN, unsafe : BOOLEAN, owner : BOOLEAN, member : BOOLEAN]
  <2> DEFINE R == [exists : BOOLEAN, unsafe : BOOLEAN, owner : BOOLEAN,
                   member : BOOLEAN]
  <2>1. SafeRole \in R
    BY Zenon DEF SafeRole
  <2>2. RoleFacts \subseteq R
    BY <2>1, Zenon DEF RoleFacts
  <2> QED BY <2>2 DEF Init
<1>2. TypeOK
  <2>1. Flags
    BY Zenon DEF Init, Flags
  <2>2. fetched \in [rows : 0 .. Len(RowBytes), bytes : Nat, truncated : BOOLEAN]
    <3>1. 0 \in 0 .. Len(RowBytes) /\ 2 \in Nat /\ FALSE \in BOOLEAN
      OBVIOUS
    <3> QED BY <3>1, Zenon DEF Init
  <2>3. Shapes
    BY <1>1, <2>2 DEF Init, Shapes, NoEvent
  <2> QED BY <2>1, <2>3, TypeParts
<1>3. RowInv
  BY DEF Init, RowInv, NoEvent
<1>4. ControlInv
  BY DEF Init, ControlInv
<1> QED BY <1>2, <1>3, <1>4 DEF CallInv

\* Every step of the stream, the worker, PostgreSQL, the cancel thread and the
\* server keeps the invariant.
LEMMA CallStep == CallInv /\ [Next]_vars => CallInv'
<1> SUFFICES ASSUME TypeOK, RowInv, ControlInv, [Next]_vars PROVE CallInv'
  BY DEF CallInv
<1>1. CASE Answer
  <2>1. TypeOK'
    <3>1. Flags'
      BY <1>1, Zenon DEF Flags, TypeOK, Answer, ResultEvent, StartedRow
    <3>2. Shapes'
      BY <1>1 DEF Shapes, TypeOK, RowInv, ControlInv, Answer, ResultEvent, StartedRow
    <3> QED BY <3>1, <3>2, TypeParts, PTL
  <2>2. RowInv'
    BY <1>1, SMTT(30) DEF TypeOK, RowInv, Answer, ResultEvent, StartedRow, RoleAccepted
  <2>3. ControlInv'
    BY <1>1 DEF TypeOK, ControlInv, Answer, ResultEvent
  <2> QED BY <2>1, <2>2, <2>3 DEF CallInv
<1>2. CASE Expire
  BY <1>2 DEF CallInv, TypeOK, RowInv, ControlInv, Expire, StartedRow, RoleAccepted
<1>3. CASE EndStream
  <2>1. TypeOK'
    <3>1. Flags'
      BY <1>3, Zenon DEF Flags, TypeOK, EndStream, DropGuard, StartedRow
    <3>2. Shapes'
      BY <1>3 DEF Shapes, TypeOK, RowInv, ControlInv, EndStream, DropGuard, StartedRow
    <3> QED BY <3>1, <3>2, TypeParts, PTL
  <2>2. RowInv'
    BY <1>3 DEF TypeOK, RowInv, EndStream, DropGuard, StartedRow, RoleAccepted
  <2>3. ControlInv'
    BY <1>3, SMTT(30) DEF TypeOK, ControlInv, EndStream, DropGuard
  <2> QED BY <2>1, <2>2, <2>3 DEF CallInv
<1>4. CASE Disconnect
  <2>1. TypeOK'
    <3>1. Flags'
      BY <1>4, Zenon DEF Flags, TypeOK, Disconnect, DropGuard, StartedRow
    <3>2. Shapes'
      BY <1>4 DEF Shapes, TypeOK, RowInv, ControlInv, Disconnect, DropGuard, StartedRow
    <3> QED BY <3>1, <3>2, TypeParts, PTL
  <2>2. RowInv'
    BY <1>4 DEF TypeOK, RowInv, Disconnect, DropGuard, StartedRow, RoleAccepted
  <2>3. ControlInv'
    BY <1>4 DEF TypeOK, ControlInv, Disconnect, DropGuard
  <2> QED BY <2>1, <2>2, <2>3 DEF CallInv
<1>5. CASE Start
  BY <1>5 DEF CallInv, TypeOK, RowInv, ControlInv, Start, StartedRow, RoleAccepted
<1>6. CASE Prepare
  <2>0. After(pc) \in {"load", "compile", "connect_audit", "start_audit"}
    BY <1>6 DEF Prepare, After
  <2>1. TypeOK'
    <3>1. Flags'
      BY <1>6, Zenon DEF Flags, TypeOK, Prepare
    <3>2. Shapes'
      BY <1>6, <2>0 DEF Shapes, TypeOK, Prepare
    <3> QED BY <3>1, <3>2, TypeParts, PTL
  <2>2. RowInv'
    BY <1>6, <2>0 DEF TypeOK, RowInv, Prepare
  <2>3. ControlInv'
    BY <1>6, <2>0 DEF TypeOK, ControlInv, Prepare
  <2> QED BY <2>1, <2>2, <2>3 DEF CallInv
<1>7. CASE PrepareFails
  BY <1>7 DEF CallInv, TypeOK, RowInv, ControlInv, PrepareFails, StartedRow, RoleAccepted
<1>8. CASE StartAudit
  <2>1. TypeOK'
    <3>1. Flags'
      BY <1>8, Zenon DEF Flags, TypeOK, StartAudit, StartedRow
    <3>2. Shapes'
      BY <1>8 DEF Shapes, TypeOK, RowInv, ControlInv, StartAudit, StartedRow
    <3> QED BY <3>1, <3>2, TypeParts, PTL
  <2>2. RowInv'
    BY <1>8 DEF TypeOK, RowInv, StartAudit, StartedRow, RoleAccepted
  <2>3. ControlInv'
    BY <1>8 DEF TypeOK, ControlInv, StartAudit
  <2> QED BY <2>1, <2>2, <2>3 DEF CallInv
<1>9. CASE Register
  <2>1. TypeOK'
    <3>1. Flags'
      BY <1>9, Zenon DEF Flags, TypeOK, Register, StartedRow
    <3>2. Shapes'
      BY <1>9 DEF Shapes, TypeOK, RowInv, ControlInv, Register, StartedRow
    <3> QED BY <3>1, <3>2, TypeParts, PTL
  <2>2. RowInv'
    BY <1>9 DEF TypeOK, RowInv, Register, StartedRow, RoleAccepted
  <2>3. ControlInv'
    BY <1>9 DEF TypeOK, ControlInv, Register
  <2> QED BY <2>1, <2>2, <2>3 DEF CallInv
<1>10. CASE Issue
  BY <1>10 DEF CallInv, TypeOK, RowInv, ControlInv, Issue, StartedRow, RoleAccepted
<1>11. CASE Begun
  <2>1. TypeOK'
    <3>1. Flags'
      BY <1>11, Zenon DEF Flags, TypeOK, Begun, StartedRow
    <3>2. Shapes'
      BY <1>11 DEF Shapes, TypeOK, RowInv, ControlInv, Begun, StartedRow
    <3> QED BY <3>1, <3>2, TypeParts, PTL
  <2>2. RowInv'
    BY <1>11 DEF TypeOK, RowInv, Begun, StartedRow, RoleAccepted
  <2>3. ControlInv'
    BY <1>11 DEF TypeOK, ControlInv, Begun
  <2> QED BY <2>1, <2>2, <2>3 DEF CallInv
<1>12. CASE Guarded
  <2>1. TypeOK'
    <3>1. Flags'
      BY <1>12, Zenon DEF Flags, TypeOK, Guarded, Fail, StartedRow
    <3>2. Shapes'
      BY <1>12 DEF Shapes, TypeOK, RowInv, ControlInv, Guarded, Fail, StartedRow
    <3> QED BY <3>1, <3>2, TypeParts, PTL
  <2>2. RowInv'
    BY <1>12 DEF TypeOK, RowInv, Guarded, Fail, StartedRow, RoleAccepted
  <2>3. ControlInv'
    BY <1>12 DEF TypeOK, ControlInv, Guarded, Fail
  <2> QED BY <2>1, <2>2, <2>3 DEF CallInv
<1>13. CASE Queried
  BY <1>13 DEF CallInv, TypeOK, RowInv, ControlInv, Queried, StartedRow, RoleAccepted
<1>14. CASE Fetch
  <2>1. TypeOK'
    <3>1. Flags'
      BY <1>14, Zenon DEF Flags, TypeOK, Fetch, StartedRow
    <3>2. Shapes'
      <4>0. fetched.rows + 1 \in 1 .. Len(RowBytes) /\ Len(RowBytes) \in Nat
        <5>1. Len(RowBytes) \in Nat
          OBVIOUS
        <5>2. fetched.rows < total
          BY <1>14, Zenon DEF Fetch
        <5>3. fetched.rows \in 0 .. Len(RowBytes) /\ total \in 0 .. Len(RowBytes)
          BY Zenon DEF TypeOK
        <5>4. fetched.rows + 1 \in 1 .. Len(RowBytes)
          BY <5>1, <5>2, <5>3
        <5> QED BY <5>1, <5>4
      <4>1. RowBytes[fetched.rows + 1] \in Nat
        BY <4>0
      <4>2. PICK rows \in 0 .. Len(RowBytes), bytes \in Nat :
              \/ fetched' = [fetched EXCEPT !.truncated = TRUE]
              \/ fetched' = [fetched EXCEPT !.rows = rows, !.bytes = bytes]
        <5> DEFINE separator == IF fetched.rows = 0 THEN 0 ELSE 1
                   bytes == fetched.bytes + separator + RowBytes[fetched.rows + 1]
                   rows == fetched.rows + 1
        <5>1. \/ fetched' = [fetched EXCEPT !.truncated = TRUE]
              \/ fetched' = [fetched EXCEPT !.rows = rows, !.bytes = bytes]
          BY <1>14, Zenon DEF Fetch
        <5>2. fetched.bytes \in Nat
          BY Zenon DEF TypeOK
        <5>3. separator \in Nat
          OBVIOUS
        <5>4. bytes \in Nat
          <6> HIDE DEF separator
          <6> QED BY <4>1, <5>2, <5>3
        <5>5. rows \in 0 .. Len(RowBytes)
          BY <4>0
        <5> HIDE DEF bytes, rows
        <5> QED BY <5>1, <5>4, <5>5, Zenon
      <4>3. fetched' \in [rows : 0 .. Len(RowBytes), bytes : Nat, truncated : BOOLEAN]
        BY <4>2, Zenon DEF TypeOK
      <4> QED BY <1>14, <4>3 DEF Shapes, TypeOK, Fetch
    <3> QED BY <3>1, <3>2, TypeParts, PTL
  <2>2. RowInv'
    BY <1>14, Zenon DEF TypeOK, RowInv, Fetch, StartedRow, RoleAccepted
  <2>3. ControlInv'
    BY <1>14 DEF TypeOK, ControlInv, Fetch
  <2> QED BY <2>1, <2>2, <2>3 DEF CallInv
<1>15. CASE Fetched
  <2>1. TypeOK'
    <3>1. Flags'
      BY <1>15, Zenon DEF Flags, TypeOK, Fetched, StartedRow
    <3>2. Shapes'
      BY <1>15 DEF Shapes, TypeOK, RowInv, ControlInv, Fetched, StartedRow
    <3> QED BY <3>1, <3>2, TypeParts, PTL
  <2>2. RowInv'
    BY <1>15 DEF TypeOK, RowInv, Fetched, StartedRow, RoleAccepted
  <2>3. ControlInv'
    BY <1>15 DEF TypeOK, ControlInv, Fetched
  <2> QED BY <2>1, <2>2, <2>3 DEF CallInv
<1>16. CASE Committed
  <2>1. TypeOK'
    <3>1. Flags'
      BY <1>16, Zenon DEF Flags, TypeOK, Committed, StartedRow
    <3>2. Shapes'
      BY <1>16 DEF Shapes, TypeOK, RowInv, ControlInv, Committed, StartedRow
    <3> QED BY <3>1, <3>2, TypeParts, PTL
  <2>2. RowInv'
    BY <1>16 DEF TypeOK, RowInv, Committed, StartedRow, RoleAccepted
  <2>3. ControlInv'
    BY <1>16 DEF TypeOK, ControlInv, Committed
  <2> QED BY <2>1, <2>2, <2>3 DEF CallInv
<1>17. CASE StatementFails
  <2>1. TypeOK'
    <3>1. Flags'
      BY <1>17, Zenon DEF Flags, TypeOK, StatementFails, Fail, StatementError, StartedRow
    <3>2. Shapes'
      BY <1>17 DEF Shapes, TypeOK, RowInv, ControlInv, StatementFails, Fail, StatementError, StartedRow
    <3> QED BY <3>1, <3>2, TypeParts, PTL
  <2>2. RowInv'
    BY <1>17 DEF TypeOK, RowInv, StatementFails, Fail, StatementError, StartedRow, RoleAccepted
  <2>3. ControlInv'
    BY <1>17, SMTT(30) DEF TypeOK, ControlInv, StatementFails, Fail, StatementError
  <2> QED BY <2>1, <2>2, <2>3 DEF CallInv
<1>18. CASE FinishAudit
  <2>0. row = StartedRow
    BY <1>18 DEF FinishAudit, RowInv
  <2>1. PICK status \in {"succeeded", "failed", "cancelled"},
             rows \in 0 .. Len(RowBytes), error \in Errors \cup {"none"} :
          /\ FinishedRow = [status |-> status, revision |-> loaded, rows |-> rows,
                            error |-> error]
          /\ outcome = "ok" => status = "succeeded" /\ rows = fetched.rows
    <3> DEFINE status == CASE outcome = "ok" -> "succeeded"
                           [] outcome = "cancelled" -> "cancelled" [] OTHER -> "failed"
               rows == IF outcome = "ok" THEN fetched.rows ELSE 0
               error == IF outcome = "ok" THEN "none" ELSE outcome
    <3>1. FinishedRow = [status |-> status, revision |-> loaded, rows |-> rows,
                         error |-> error]
      <4>1. FinishedRow = [row EXCEPT !.status = status, !.rows = rows, !.error = error]
        BY DEF FinishedRow
      <4> HIDE DEF status, rows, error
      <4> QED BY <2>0, <4>1, Zenon DEF StartedRow
    <3>2. status \in {"succeeded", "failed", "cancelled"}
      OBVIOUS
    <3>3. rows \in 0 .. Len(RowBytes)
      BY DEF TypeOK
    <3>4. error \in Errors \cup {"none"}
      BY DEF TypeOK
    <3>5. outcome = "ok" => status = "succeeded" /\ rows = fetched.rows
      OBVIOUS
    <3> HIDE DEF status, rows, error
    <3> QED BY <3>1, <3>2, <3>3, <3>4, <3>5, Zenon
  <2>2. TypeOK'
    <3>1. Flags'
      BY <1>18, Zenon DEF Flags, TypeOK, FinishAudit
    <3>2. Shapes'
      BY <1>18, <2>1, SMTT(30) DEF Shapes, TypeOK, FinishAudit
    <3> QED BY <3>1, <3>2, TypeParts, PTL
  <2>3. RowInv'
    BY <1>18, <2>1 DEF TypeOK, RowInv, FinishAudit
  <2>4. ControlInv'
    BY <1>18 DEF TypeOK, ControlInv, FinishAudit
  <2> QED BY <2>2, <2>3, <2>4 DEF CallInv
<1>19. CASE Send
  BY <1>19 DEF CallInv, TypeOK, RowInv, ControlInv, Send, StartedRow, RoleAccepted
<1>20. CASE Finish
  BY <1>20 DEF CallInv, TypeOK, RowInv, ControlInv, Finish, StartedRow, RoleAccepted
<1>21. CASE CheckWorker
  BY <1>21 DEF CallInv, TypeOK, RowInv, ControlInv, CheckWorker, StartedRow, RoleAccepted
<1>22. CASE CancelMisses
  BY <1>22 DEF CallInv, TypeOK, RowInv, ControlInv, CancelMisses, StartedRow, RoleAccepted
<1>23. CASE CancelHits
  <2>0. pc \in Source /\ StatementError(TRUE) \in Errors
    BY <1>23 DEF CancelHits, ControlInv, StatementError
  <2>1. TypeOK'
    <3>1. Flags'
      BY <1>23, Zenon DEF Flags, TypeOK, CancelHits, Fail, StartedRow
    <3>2. attempts' \in 0 .. MaxAttempts
      BY <1>23 DEF CancelHits, TypeOK, ControlInv
    <3>3. /\ canceller' = "check" /\ pc' = "finish" /\ outcome' \in Errors
          /\ UNCHANGED <<server, stream, call, published, row, event>>
      BY <1>23, <2>0, Zenon DEF CancelHits, Fail
    <3>4. Shapes'
      BY <3>2, <3>3 DEF Shapes, TypeOK
    <3> QED BY <3>1, <3>4, TypeParts, PTL
  <2>2. RowInv'
    BY <1>23, <2>0 DEF TypeOK, RowInv, CancelHits, Fail, StartedRow, RoleAccepted
  <2>3. ControlInv'
    BY <1>23, <2>0 DEF TypeOK, ControlInv, CancelHits, Fail
  <2> QED BY <2>1, <2>2, <2>3 DEF CallInv
<1>24. CASE Publish
  BY <1>24 DEF CallInv, TypeOK, RowInv, ControlInv, Publish, StartedRow, RoleAccepted
<1>25. CASE Drain
  BY <1>25 DEF CallInv, TypeOK, RowInv, ControlInv, Drain, StartedRow, RoleAccepted
<1>26. CASE Stop
  <2>1. TypeOK'
    <3>1. Flags'
      BY <1>26, Zenon DEF Flags, TypeOK, Stop, DropGuard, StartedRow
    <3>2. Shapes'
      BY <1>26 DEF Shapes, TypeOK, RowInv, ControlInv, Stop, DropGuard, StartedRow
    <3> QED BY <3>1, <3>2, TypeParts, PTL
  <2>2. RowInv'
    BY <1>26 DEF TypeOK, RowInv, Stop, DropGuard, StartedRow, RoleAccepted
  <2>3. ControlInv'
    BY <1>26 DEF TypeOK, ControlInv, Stop, DropGuard
  <2> QED BY <2>1, <2>2, <2>3 DEF CallInv
<1>27. CASE Exit
  BY <1>27 DEF CallInv, TypeOK, RowInv, ControlInv, Exit, StartedRow, RoleAccepted
<1>28. CASE UNCHANGED vars
  BY <1>28 DEF CallInv, TypeOK, RowInv, ControlInv, StartedRow, RoleAccepted
<1> QED BY <1>1, <1>2, <1>3, <1>4, <1>5, <1>6, <1>7, <1>8, <1>9, <1>10, <1>11, <1>12, <1>13, <1>14, <1>15, <1>16, <1>17, <1>18, <1>19, <1>20, <1>21, <1>22, <1>23, <1>24, <1>25, <1>26, <1>27, <1>28
        DEF Next, Stream, WorkerStep, ServerSide, Thread

\* The invariant of the row and the thread holds in every reachable state.
THEOREM CallInvariance == Spec => []CallInv
BY CallInitially, CallStep, PTL DEF Spec

\* A dropped response never leaves the source transaction of its call without a
\* cancel thread (CancellationControl).
THEOREM NoCancellationMissed == Spec => []NoMissedCancellation
<1>1. CallInv => NoMissedCancellation
  BY DEF CallInv, TypeOK, ControlInv, NoMissedCancellation
<1> QED BY <1>1, CallInvariance, PTL

\* The source runs only behind a durable audit row and under an accepted role
\* (execute_compiled).
THEOREM SourceStaysGuarded == Spec => []SourceIsGuarded
<1>1. CallInv => SourceIsGuarded
  BY DEF CallInv, RowInv, SourceIsGuarded
<1> QED BY <1>1, CallInvariance, PTL

\* Rows reach a client only with a matching succeeded row in the audit
\* (execute_with_cancel).
THEOREM SuccessesAreAudited == Spec => []SuccessIsAudited
<1>1. CallInv => SuccessIsAudited
  BY DEF CallInv, RowInv, SuccessIsAudited
<1> QED BY <1>1, CallInvariance, PTL

\* A call that has returned has closed its row, or the audit database failed it
\* (finish_audit).
THEOREM RowsGetClosed == Spec => []RowsAreClosed
<1>1. CallInv => RowsAreClosed
  BY DEF CallInv, RowInv, ControlInv, RowsAreClosed
<1> QED BY <1>1, CallInvariance, PTL

-----------------------------------------------------------------------------

\* Only Fetch reads rows, and it stops at the first that does not fit.
LEMMA FetchStep == CallInv /\ FetchInv /\ [Next]_vars => FetchInv'
<1> SUFFICES ASSUME CallInv, FetchInv, [Next]_vars PROVE FetchInv'
  OBVIOUS
<1> DEFINE Early == {"queued", "begin", "guard", "query"} \cup Preparing
<1>1. ASSUME UNCHANGED <<fetched, total>>, pc' = pc \/ pc' \notin {"rows", "commit"},
             pc' \in Early => pc \in Early
      PROVE  FetchInv'
  BY <1>1 DEF FetchInv
<1>2. CASE Queried
  <2>1. total' \in Nat
    BY <1>2 DEF Queried
  <2>2. ArrayBytes(0) = 2
    BY NextRow
  <2> QED BY <1>2, <2>1, <2>2 DEF Queried, FetchInv
<1>3. CASE Fetch
  <2> DEFINE k == fetched.rows
             bytes == fetched.bytes + (IF k = 0 THEN 0 ELSE 1) + RowBytes[k + 1]
  <2>0. /\ k \in Nat /\ total \in 0 .. Len(RowBytes) /\ Len(RowBytes) \in Nat
        /\ fetched.bytes \in Nat
    BY DEF CallInv, TypeOK
  <2>1. /\ pc = "rows" /\ k < total /\ fetched.bytes = ArrayBytes(k)
        /\ ~fetched.truncated
    BY <1>3 DEF Fetch, FetchInv
  <2>2. bytes = ArrayBytes(k + 1) /\ bytes \in Nat
    <3>1. \A i \in 1 .. Len(RowBytes) : RowBytes[i] \in Nat
      OBVIOUS
    <3>2. k < Len(RowBytes)
      BY <2>0, <2>1
    <3> HIDE DEF k
    <3>3. /\ RowBytes[k + 1] \in Nat
          /\ ArrayBytes(k + 1)
               = ArrayBytes(k) + (IF k = 0 THEN 0 ELSE 1) + RowBytes[k + 1]
      BY <2>0, <3>1, <3>2, NextRow
    <3> QED BY <2>0, <2>1, <3>3, SMTT(30)
  <2>3. CASE bytes > MaxResultBytes
    <3>1. /\ fetched'.rows = k /\ fetched'.bytes = fetched.bytes /\ fetched'.truncated = TRUE
          /\ pc' = "commit" /\ total' = total
      BY <1>3, <2>3, Zenon DEF Fetch, CallInv, TypeOK
    <3> QED BY <2>0, <2>1, <2>2, <2>3, <3>1, Zenon DEF FetchInv
  <2>4. CASE ~(bytes > MaxResultBytes)
    <3>1. /\ fetched'.rows = k + 1 /\ fetched'.bytes = bytes
          /\ fetched'.truncated = fetched.truncated
          /\ pc' = "rows" /\ total' = total
      BY <1>3, <2>1, <2>4, Zenon DEF Fetch, CallInv, TypeOK
    <3> QED BY <2>0, <2>1, <2>2, <2>4, <3>1 DEF FetchInv
  <2> QED BY <2>3, <2>4
<1>4. CASE Fetched
  <2>1. /\ pc = "rows" /\ pc' = "commit" /\ UNCHANGED <<fetched, total>>
        /\ fetched.rows = total /\ total \in Nat /\ fetched.truncated = FALSE
    BY <1>4 DEF Fetched, CallInv, TypeOK, FetchInv
  <2>2. fetched'.rows <= total' /\ (total < total) = FALSE
    BY <2>1
  <2>3. /\ fetched'.bytes = ArrayBytes(fetched'.rows)
        /\ fetched'.rows > 0 => fetched'.bytes <= MaxResultBytes
    BY <2>1 DEF FetchInv
  <2>4. fetched'.truncated = FALSE /\ (fetched'.rows < total') = FALSE
    BY <2>1, <2>2, Zenon
  <2> QED BY <2>1, <2>2, <2>3, <2>4, Zenon DEF FetchInv
<1>5. CASE Stream \/ Disconnect \/ WorkerStep
  <2>1. UNCHANGED <<fetched, total>> /\ (pc' = pc \/ pc' \notin {"rows", "commit"})
    BY <1>5, SMTT(30) DEF Stream, Answer, Expire, EndStream, Disconnect, WorkerStep, Start, Prepare,
       After, PrepareFails, StartAudit, Register, Issue, Begun, Guarded, Fail, FinishAudit,
       Send, Finish
  <2>2. pc' \in Early => pc \in Early
    BY <1>5 DEF Stream, Answer, Expire, EndStream, Disconnect, WorkerStep, Start, Prepare,
       After, PrepareFails, StartAudit, Register, Issue, Begun, Guarded, Fail, FinishAudit,
       Send, Finish
  <2> QED BY <1>1, <2>1, <2>2
<1>6. CASE Committed \/ StatementFails \/ Thread \/ Publish \/ Drain \/ Stop \/ Exit
            \/ UNCHANGED vars
  BY <1>1, <1>6, Zenon DEF Committed, StatementFails, Fail, Thread, CheckWorker, CancelMisses,
     CancelHits, Publish, Drain, Stop, Exit
<1> QED BY <1>2, <1>3, <1>4, <1>5, <1>6 DEF Next, ServerSide

\* The whole invariant holds in every reachable state of the call.
THEOREM StreamInvariance == Spec => []StreamInv
<1>1. Init => FetchInv
  BY DEF Init, FetchInv
<1> QED BY <1>1, FetchStep, CallInvariance, PTL DEF Spec, StreamInv

\* A result is cut exactly where the next row would no longer fit, and says so, for
\* every list of rows and every limit (execute_compiled).
THEOREM TruncationsAreExact == Spec => []TruncationIsExact
<1>1. StreamInv => TruncationIsExact
  BY DEF StreamInv, FetchInv, TruncationIsExact
<1> QED BY <1>1, StreamInvariance, PTL

=============================================================================
